------------------------------ MODULE LeastNumber ------------------------------
(***************************************************************************)
(* Induction over data for the proofs that need it: what a recursive       *)
(* function computes is followed by looking at the least number for which  *)
(* a claim would fail.                                                     *)
(***************************************************************************)
EXTENDS Naturals, FiniteSets, TLAPS, FiniteSetTheorems, WellFoundedInduction

\* Every set of natural numbers that has an element has a least one.
LEMMA LeastNatural ==
    ASSUME NEW T \in SUBSET Nat, T # {}
    PROVE  \E m \in T : \A k \in T : m <= k
<1>1. PICK t \in T : TRUE
  OBVIOUS
<1> DEFINE S == 0 .. t
           U == {0 .. m : m \in {k \in T : k <= t}}
<1>2. IsFiniteSet(S)
  BY <1>1, FS_Interval
<1>3. IsWellFoundedOn(StrictSubsetOrdering(S), FiniteSubsetsOf(S))
  BY FS_StrictSubsetOrderingWellFounded
<1>4. U \subseteq FiniteSubsetsOf(S)
  BY <1>1, <1>2, FS_FiniteSubsetsOfFinite
<1>5. U # {}
  BY <1>1
<1>6. PICK u \in U : \A w \in U : <<w, u>> \notin StrictSubsetOrdering(S)
  BY <1>3, <1>4, <1>5, WFMin
<1>7. PICK m \in T : m <= t /\ u = 0 .. m
  BY <1>6
<1>8. ASSUME NEW k \in T PROVE m <= k
  <2>1. SUFFICES ASSUME k < m PROVE FALSE
    OBVIOUS
  <2>2. 0 .. k \in U
    BY <1>7, <2>1
  <2>3. 0 .. k \subseteq 0 .. m /\ 0 .. k # 0 .. m /\ 0 .. m \subseteq S
    <3>1. m \in 0 .. m /\ m \notin 0 .. k
      BY <2>1
    <3> QED
      BY <1>7, <2>1, <3>1
  <2>4. <<0 .. k, 0 .. m>> \in StrictSubsetOrdering(S)
    BY <2>3 DEF StrictSubsetOrdering
  <2> QED
    BY <1>6, <1>7, <2>2, <2>4
<1> QED
  BY <1>8

=============================================================================
