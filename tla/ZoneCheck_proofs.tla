--------------------------- MODULE ZoneCheck_proofs ---------------------------
(***************************************************************************)
(* Proofs about the zone check of a change set and the apply it foresees,  *)
(* for plans of any length over any zones and policies.                    *)
(***************************************************************************)
EXTENDS ZoneCheck, LeastNumber

-----------------------------------------------------------------------------
(* What a plan is made of                                                   *)

\* A plan is a sequence, and each of its mutations carries what its kind needs.
LEMMA PlanShape ==
    ASSUME plan \in Plans
    PROVE  /\ Len(plan) \in Nat /\ DOMAIN plan = 1 .. Len(plan)
           /\ \A m \in 1 .. Len(plan) :
                /\ plan[m].op \in {"create", "update", "delete", "restore"}
                /\ plan[m].op = "create" => plan[m].body \in [Sides -> Named \cup {None}]
                /\ plan[m].op = "update" => plan[m].id \in Ids
                /\ plan[m].op = "update" /\ plan[m].id \in Policies => plan[m].body \in Body
                /\ plan[m].op = "update" /\ plan[m].id \in Zones => plan[m].body = NoSide
                /\ plan[m].op = "delete" => plan[m].id \in Ids
<1>1. plan \in Seq(StagedMutation)
  BY ZoneAssumption
<1>2. ASSUME NEW m \in StagedMutation
      PROVE  /\ m.op \in {"create", "update", "delete", "restore"}
             /\ m.op = "create" => m.body \in [Sides -> Named \cup {None}]
             /\ m.op = "update" => m.id \in Ids
             /\ m.op = "update" /\ m.id \in Policies => m.body \in Body
             /\ m.op = "update" /\ m.id \in Zones => m.body = NoSide
             /\ m.op = "delete" => m.id \in Ids
  <2>1. Policies \cap Zones = {}
    BY ZoneAssumption
  <2>2. CASE m \in [op : {"create"}, body : [Sides -> Named \cup {None}]]
    BY <2>2
  <2>3. CASE m \in [op : {"update"}, id : Policies, body : Body]
    BY <2>1, <2>3 DEF Ids
  <2>4. CASE m \in [op : {"update"}, id : Zones, body : {NoSide}]
    BY <2>1, <2>4 DEF Ids
  <2>5. CASE m \in [op : {"delete"}, id : Ids] \cup [op : {"restore"}]
    BY <2>5
  <2> QED
    BY <1>2, <2>2, <2>3, <2>4, <2>5 DEF StagedMutation
<1>3. Len(plan) \in Nat /\ DOMAIN plan = 1 .. Len(plan)
      /\ \A m \in 1 .. Len(plan) : plan[m] \in StagedMutation
  BY <1>1
<1> QED
  BY <1>2, <1>3

-----------------------------------------------------------------------------
(* The walk over a plan                                                     *)

\* What each prefix of a plan has done is well defined.
LEMMA WalkedExists ==
    ASSUME plan \in Plans, NEW seeded
    PROVE  \E f : f = [m \in 0 .. Len(plan) |->
                         IF m = 0 THEN [live |-> seeded, created |-> {}, deleted |-> {}, ok |-> TRUE]
                         ELSE Walk(f[m - 1], plan[m])]
<1> DEFINE w0 == [live |-> seeded, created |-> {}, deleted |-> {}, ok |-> TRUE]
<1> HIDE DEF w0
<1> DEFINE IsWalk(f, k) ==
             f = [m \in 0 .. k |-> IF m = 0 THEN w0 ELSE Walk(f[m - 1], plan[m])]
           T == {k \in Nat : ~ \E f : IsWalk(f, k)}
<1>1. T \subseteq Nat /\ \A k \in Nat : k \notin T <=> \E f : IsWalk(f, k)
  OBVIOUS
<1>2. Len(plan) \in Nat
  BY PlanShape
<1>3. SUFFICES ASSUME T # {} PROVE FALSE
  BY <1>1, <1>2 DEF w0
<1> HIDE DEF T
<1>4. PICK k \in T : \A j \in T : k <= j
  BY <1>1, <1>3, LeastNatural
<1>5. k \in Nat
  BY <1>1
<1>6. CASE k = 0
  <2> DEFINE f == [m \in 0 .. k |-> w0]
  <2>1. \A m \in 0 .. k : m = 0
    BY <1>6
  <2>2. f = [m \in 0 .. k |-> IF m = 0 THEN w0 ELSE Walk(f[m - 1], plan[m])]
    BY <2>1
  <2> QED
    BY <1>1, <1>5, <2>2
<1>7. CASE k # 0
  <2>1. k - 1 \in Nat /\ k - 1 \notin T
    BY <1>4, <1>5, <1>7
  <2>2. PICK g : IsWalk(g, k - 1)
    BY <1>1, <2>1
  <2> DEFINE f == [m \in 0 .. k |-> IF m = k THEN Walk(g[k - 1], plan[k]) ELSE g[m]]
  <2>3. ASSUME NEW m \in 0 .. k
        PROVE  f[m] = IF m = 0 THEN w0 ELSE Walk(f[m - 1], plan[m])
    <3>1. \A j \in 0 .. k - 1 : f[j] = g[j]
      BY <1>5
    <3>2. CASE m = k
      <4>1. f[m] = Walk(g[k - 1], plan[k]) /\ k - 1 \in 0 .. k - 1
        BY <1>5, <1>7, <3>2
      <4> QED
        BY <1>7, <3>1, <3>2, <4>1
    <3>3. CASE m # k
      <4>1. m \in 0 .. k - 1 /\ (m # 0 => m - 1 \in 0 .. k - 1)
        BY <1>5, <3>3
      <4>2. g[m] = IF m = 0 THEN w0 ELSE Walk(g[m - 1], plan[m])
        BY <2>2, <4>1
      <4> HIDE DEF f
      <4> QED
        BY <3>1, <4>1, <4>2
    <3> QED
      BY <3>2, <3>3
  <2>4. f = [m \in 0 .. k |-> f[m]]
    OBVIOUS
  <2>5. IsWalk(f, k)
    <3> HIDE DEF f
    <3> QED
      BY <2>3, <2>4
  <2> QED
    BY <1>1, <1>5, <2>5
<1> QED
  BY <1>6, <1>7

\* What the walk has found after the first m mutations of the plan.
Sofar(m) == Walked(plan, Seeded)[m]

\* It is what its definition says.
LEMMA WalkedDef ==
    ASSUME plan \in Plans
    PROVE  /\ Sofar(0) = [live |-> Seeded, created |-> {}, deleted |-> {}, ok |-> TRUE]
           /\ \A m \in 1 .. Len(plan) : Sofar(m) = Walk(Sofar(m - 1), plan[m])
<1> DEFINE w0 == [live |-> Seeded, created |-> {}, deleted |-> {}, ok |-> TRUE]
           G == Walked(plan, Seeded)
<1>1. G = [m \in 0 .. Len(plan) |-> IF m = 0 THEN w0 ELSE Walk(G[m - 1], plan[m])]
  BY WalkedExists DEF Walked
<1>2. Len(plan) \in Nat
  BY PlanShape
<1> HIDE DEF w0, G
<1>3. G[0] = w0 /\ \A m \in 1 .. Len(plan) : G[m] = Walk(G[m - 1], plan[m])
  BY <1>1, <1>2
<1> QED
  BY <1>3 DEF Sofar, w0, G

Loose == [Sides -> Named \cup {None}]
WalkState ==
    [live : [Ids -> Loose \cup {None}], created : SUBSET Loose,
     deleted : SUBSET Zones, ok : BOOLEAN]

\* A policy the plan does not address is not followed, a zone has no zone fields,
\* and what is deleted is deleted by the plan.
Followed(w) ==
    /\ w \in WalkState
    /\ w.deleted \subseteq ZonesDeletedBy(plan)
    /\ \A p \in Policies \ Touched : w.live[p] = None
    /\ \A z \in Zones : w.live[z] \in {None, NoSide}

\* A body over a policy gives a policy with loose names.
LEMMA OverlayLoose ==
    ASSUME NEW base \in Loose, NEW fragment \in Body
    PROVE  Overlay(base, fragment) \in Loose
  BY DEF Overlay, Loose, Body

\* A body that leaves nothing out replaces the base.
LEMMA OverlayZone ==
    ASSUME NEW base
    PROVE  Overlay(base, NoSide) = NoSide /\ NoSide \in Loose
  BY ZoneAssumption DEF Overlay, NoSide, Loose

\* After a mutation the walk is where it says, and is or is not sound.
Becomes(w, m, live, created, deleted) ==
    /\ Walk(w, m) = [live |-> live, created |-> created, deleted |-> deleted,
                     ok |-> Walk(w, m).ok]
    /\ Walk(w, m).ok \in BOOLEAN

\* What each kind of mutation does to the walk.
LEMMA WalkCreate ==
    ASSUME NEW w \in WalkState, NEW m, m.op = "create"
    PROVE  /\ Becomes(w, m, w.live, w.created \cup {m.body}, w.deleted)
           /\ Walk(w, m).ok <=> w.ok /\ ~Names(m.body, w.deleted)
<1> DEFINE N1 == Names(m.body, w.deleted)
<1>1. w = [live |-> w.live, created |-> w.created, deleted |-> w.deleted, ok |-> w.ok]
      /\ w.ok \in BOOLEAN
  BY DEF WalkState
<1>2. Walk(w, m) = [w EXCEPT !.created = @ \cup {m.body}, !.ok = @ /\ ~N1]
  BY DEF Walk
<1> HIDE DEF N1
<1>3. Walk(w, m) = [live |-> w.live, created |-> w.created \cup {m.body},
                    deleted |-> w.deleted, ok |-> w.ok /\ ~N1]
  BY <1>1, <1>2
<1>4. Walk(w, m).ok = (w.ok /\ ~N1)
  BY <1>3
<1> QED
  BY <1>3, <1>4 DEF Becomes, N1

LEMMA WalkUpdate ==
    ASSUME NEW w \in WalkState, NEW m, m.op = "update"
    PROVE  /\ Becomes(w, m, [w.live EXCEPT ![m.id] = Projected(w, m)], w.created, w.deleted)
           /\ Walk(w, m).ok <=> w.ok /\ ~Names(Projected(w, m), w.deleted)
<1> DEFINE P == Projected(w, m)
           N1 == Names(P, w.deleted)
<1>1. w = [live |-> w.live, created |-> w.created, deleted |-> w.deleted, ok |-> w.ok]
      /\ w.ok \in BOOLEAN
  BY DEF WalkState
<1>2. Walk(w, m) = [w EXCEPT !.live[m.id] = P, !.ok = @ /\ ~N1]
  BY DEF Walk
<1> HIDE DEF P, N1
<1>3. Walk(w, m) = [live |-> [w.live EXCEPT ![m.id] = P], created |-> w.created,
                    deleted |-> w.deleted, ok |-> w.ok /\ ~N1]
  BY <1>1, <1>2
<1>4. Walk(w, m).ok = (w.ok /\ ~N1)
  BY <1>3
<1> QED
  BY <1>3, <1>4 DEF Becomes, N1, P

LEMMA WalkDeleteZone ==
    ASSUME NEW w \in WalkState, NEW m, m.op = "delete", m.id \in Zones
    PROVE  /\ Becomes(w, m, w.live, w.created, w.deleted \cup {m.id})
           /\ Walk(w, m).ok <=> w.ok /\ \A r \in Blockers(w) : ~Names(r, {m.id})
<1> DEFINE B == \A r \in Blockers(w) : ~Names(r, {m.id})
<1>1. w = [live |-> w.live, created |-> w.created, deleted |-> w.deleted, ok |-> w.ok]
      /\ w.ok \in BOOLEAN
  BY DEF WalkState
<1>2. m.id \notin Policies
  BY ZoneAssumption
<1>3. Walk(w, m) = [w EXCEPT !.deleted = @ \cup {m.id}, !.ok = @ /\ B]
  BY <1>2 DEF Walk
<1> HIDE DEF B
<1>4. Walk(w, m) = [live |-> w.live, created |-> w.created,
                    deleted |-> w.deleted \cup {m.id}, ok |-> w.ok /\ B]
  BY <1>1, <1>3
<1>5. Walk(w, m).ok = (w.ok /\ B)
  BY <1>4
<1> QED
  BY <1>4, <1>5 DEF Becomes, B

LEMMA WalkDeletePolicy ==
    ASSUME NEW w \in WalkState, NEW m, m.op = "delete", m.id \in Policies
    PROVE  /\ Becomes(w, m, [w.live EXCEPT ![m.id] = None], w.created, w.deleted)
           /\ Walk(w, m).ok <=> w.ok
<1>1. w = [live |-> w.live, created |-> w.created, deleted |-> w.deleted, ok |-> w.ok]
      /\ w.ok \in BOOLEAN
  BY DEF WalkState
<1>2. m.id \notin Zones
  BY ZoneAssumption
<1>3. Walk(w, m) = [w EXCEPT !.live[m.id] = None]
  BY <1>2 DEF Walk
<1>4. Walk(w, m) = [live |-> [w.live EXCEPT ![m.id] = None], created |-> w.created,
                    deleted |-> w.deleted, ok |-> w.ok]
  BY <1>1, <1>3
<1>5. Walk(w, m).ok = w.ok
  BY <1>4
<1> QED
  BY <1>1, <1>4, <1>5 DEF Becomes

LEMMA WalkRestore ==
    ASSUME NEW w \in WalkState, NEW m, m.op = "restore"
    PROVE  Walk(w, m) = w
  BY DEF Walk

\* What is followed after a mutation.
LEMMA FollowedOn ==
    ASSUME NEW w, Followed(w), NEW m, NEW live \in [Ids -> Loose \cup {None}],
           NEW created \in SUBSET Loose, NEW deleted \in SUBSET ZonesDeletedBy(plan),
           Becomes(w, m, live, created, deleted),
           \A p \in Policies \ Touched : live[p] = None,
           \A z \in Zones : live[z] \in {None, NoSide}
    PROVE  Followed(Walk(w, m))
<1>1. deleted \subseteq Zones
  BY DEF ZonesDeletedBy
<1> QED
  BY <1>1 DEF Becomes, Followed, WalkState

\* A step of the walk keeps its shape, and a contradiction once found stays.
LEMMA WalkStep ==
    ASSUME plan \in Plans, NEW m \in 1 .. Len(plan), NEW w, Followed(w)
    PROVE  Followed(Walk(w, plan[m])) /\ (Walk(w, plan[m]).ok => w.ok)
<1> DEFINE u == plan[m]
<1>0. Policies \cap Zones = {}
  BY ZoneAssumption
<1>1. /\ m \in DOMAIN plan
      /\ u.op \in {"create", "update", "delete", "restore"}
      /\ u.op = "create" => u.body \in Loose
      /\ u.op = "update" => u.id \in Ids
      /\ u.op = "update" /\ u.id \in Policies => u.body \in Body
      /\ u.op = "update" /\ u.id \in Zones => u.body = NoSide
      /\ u.op = "delete" => u.id \in Ids
  BY PlanShape DEF Loose
<1>2. /\ w \in WalkState
      /\ w.live \in [Ids -> Loose \cup {None}] /\ w.created \in SUBSET Loose
      /\ w.deleted \in SUBSET ZonesDeletedBy(plan)
      /\ \A p \in Policies \ Touched : w.live[p] = None
      /\ \A z \in Zones : w.live[z] \in {None, NoSide}
  BY DEF Followed, WalkState
<1>3. u.op \in {"update", "delete"} => u.id \in Touched
  BY <1>1 DEF Touched
<1>4. u.op = "delete" /\ u.id \in Zones => u.id \in ZonesDeletedBy(plan)
  BY <1>1 DEF ZonesDeletedBy
<1> HIDE DEF u
<1>5. CASE u.op = "create"
  <2>1. w.created \cup {u.body} \in SUBSET Loose
    BY <1>1, <1>2, <1>5
  <2> QED
    BY <1>2, <1>5, <2>1, WalkCreate, FollowedOn DEF u
<1>6. CASE u.op = "update"
  <2> DEFINE P == Projected(w, u)
             live == [w.live EXCEPT ![u.id] = P]
  <2>1. P \in Loose /\ (u.id \in Zones => P = NoSide)
    <3>1. (IF w.live[u.id] = None THEN NoSide ELSE w.live[u.id]) \in Loose
      BY <1>1, <1>2, <1>6, OverlayZone
    <3>2. u.id \in Policies \/ u.id \in Zones
      BY <1>1, <1>6 DEF Ids
    <3> QED
      BY <1>0, <1>1, <1>6, <3>1, <3>2, OverlayLoose, OverlayZone DEF Projected
  <2>2. Becomes(w, u, live, w.created, w.deleted) /\ (Walk(w, u).ok => w.ok)
    BY <1>2, <1>6, WalkUpdate
  <2>3. /\ live \in [Ids -> Loose \cup {None}]
        /\ \A p \in Policies \ Touched : live[p] = None
        /\ \A z \in Zones : live[z] \in {None, NoSide}
    <3> HIDE DEF P
    <3> QED
      BY <1>1, <1>2, <1>3, <1>6, <2>1 DEF Ids
  <2> HIDE DEF live, P
  <2> QED
    BY <1>2, <2>2, <2>3, FollowedOn DEF u
<1>7. CASE u.op = "delete" /\ u.id \in Zones
  <2>1. w.deleted \cup {u.id} \in SUBSET ZonesDeletedBy(plan)
    BY <1>2, <1>4, <1>7
  <2> QED
    BY <1>2, <1>7, <2>1, WalkDeleteZone, FollowedOn DEF u
<1>8. CASE u.op = "delete" /\ u.id \in Policies
  <2> DEFINE live == [w.live EXCEPT ![u.id] = None]
  <2>1. Becomes(w, u, live, w.created, w.deleted) /\ (Walk(w, u).ok => w.ok)
    BY <1>2, <1>8, WalkDeletePolicy
  <2>2. /\ live \in [Ids -> Loose \cup {None}]
        /\ \A p \in Policies \ Touched : live[p] = None
        /\ \A z \in Zones : live[z] \in {None, NoSide}
    BY <1>1, <1>2, <1>3, <1>8 DEF Ids
  <2> HIDE DEF live
  <2> QED
    BY <1>2, <2>1, <2>2, FollowedOn DEF u
<1>9. CASE u.op = "restore"
  BY <1>2, <1>9, WalkRestore DEF u
<1> QED
  BY <1>1, <1>5, <1>6, <1>7, <1>8, <1>9 DEF Ids

\* Every prefix is followed: induction on its length.
LEMMA WalkFollowed ==
    ASSUME plan \in Plans, pre \in [Policies -> Policy \cup {None}]
    PROVE  \A m \in 0 .. Len(plan) : Followed(Sofar(m))
<1> DEFINE T == {m \in 0 .. Len(plan) : ~Followed(Sofar(m))}
<1>1. Len(plan) \in Nat /\ T \subseteq Nat
  BY PlanShape
<1>2. SUFFICES ASSUME T # {} PROVE FALSE
  OBVIOUS
<1>3. PICK m \in T : \A k \in T : m <= k
  BY <1>1, <1>2, LeastNatural
<1>4. Followed(Sofar(0))
  <2>1. Seeded \in [Ids -> Loose \cup {None}]
    BY DEF Seeded, Policy, Loose, Named
  <2>2. \A p \in Policies \ Touched : Seeded[p] = None
    BY DEF Seeded, Ids
  <2>3. \A z \in Zones : Seeded[z] = None
    BY ZoneAssumption DEF Seeded, Ids
  <2>4. Sofar(0) = [live |-> Seeded, created |-> {}, deleted |-> {}, ok |-> TRUE]
    BY WalkedDef
  <2>5. Sofar(0) \in WalkState
    <3>1. Seeded \in [Ids -> Loose \cup {None}] /\ {} \in SUBSET Loose /\ {} \in SUBSET Zones
      BY <2>1
    <3>2. \A live \in [Ids -> Loose \cup {None}], cs \in SUBSET Loose, zs \in SUBSET Zones,
             ok \in BOOLEAN :
            [live |-> live, created |-> cs, deleted |-> zs, ok |-> ok] \in WalkState
      BY DEF WalkState
    <3> QED
      BY <2>4, <3>1, <3>2
  <2> QED
    BY <2>2, <2>3, <2>4, <2>5 DEF Followed
<1>5. m \in 1 .. Len(plan) /\ m - 1 \in 0 .. Len(plan) /\ m - 1 \notin T
  BY <1>1, <1>3, <1>4
<1>6. Followed(Walk(Sofar(m - 1), plan[m]))
  BY <1>5, WalkStep
<1> QED
  BY <1>3, <1>5, <1>6, WalkedDef

\* What the whole walk finds sound every prefix finds sound: induction from the
\* prefix onwards.
LEMMA WalkMonotone ==
    ASSUME plan \in Plans, pre \in [Policies -> Policy \cup {None}],
           NEW m \in 0 .. Len(plan), Sofar(Len(plan)).ok
    PROVE  Sofar(m).ok
<1> DEFINE T == {k \in m .. Len(plan) : Sofar(k).ok}
<1>1. Len(plan) \in Nat /\ T \subseteq Nat /\ Len(plan) \in T
  BY PlanShape
<1>2. PICK k \in T : \A j \in T : k <= j
  BY <1>1, LeastNatural
<1>3. SUFFICES ASSUME k # m PROVE FALSE
  BY <1>2
<1>4. k \in 1 .. Len(plan) /\ k - 1 \in m .. Len(plan) /\ k - 1 \notin T
      /\ k - 1 \in 0 .. Len(plan)
  BY <1>1, <1>2, <1>3
<1>5. Walk(Sofar(k - 1), plan[k]).ok => Sofar(k - 1).ok
  BY <1>4, WalkFollowed, WalkStep
<1> QED
  BY <1>2, <1>4, <1>5, WalkedDef

-----------------------------------------------------------------------------
(* The type invariant                                                       *)

\* What a write leaves behind is a policy.
LEMMA ResolvablePolicy ==
    ASSUME TypeOK, NEW policy \in [Sides -> Named \cup {None, Keep}], Resolvable(policy)
    PROVE  policy \in Policy
  BY DEF TypeOK, Resolvable, Policy

\* An overlay over a policy has a side for each side.
LEMMA OverlayShape ==
    ASSUME NEW base \in Policy, NEW fragment \in Body
    PROVE  Overlay(base, fragment) \in [Sides -> Named \cup {None, Keep}]
  BY DEF Overlay, Policy, Body, Named

LEMMA InitTyped == Init => TypeOK
<1> SUFFICES ASSUME Init PROVE TypeOK
  OBVIOUS
<1>1. PICK start \in Starts : zones = start.zones /\ pre = start.policies
  BY DEF Init
<1>2. zones \subseteq Zones /\ pre \in [Policies -> Policy \cup {None}]
  BY <1>1, ZoneAssumption
<1>3. n \in 1 .. Len(plan) + 1
  BY PlanShape DEF Init
<1>4. drifts \in 0 .. MaxDrifts[plan]
  BY ZoneAssumption DEF Init
<1> QED
  BY <1>2, <1>3, <1>4 DEF Init, TypeOK

LEMMA TypeStep == TypeOK /\ [Next]_vars => TypeOK'
<1> SUFFICES ASSUME TypeOK, [Next]_vars PROVE TypeOK'
  OBVIOUS
<1>0. Len(plan) \in Nat /\ MaxDrifts[plan] \in Nat
  BY PlanShape, ZoneAssumption DEF TypeOK
<1>1. CASE Validate
  BY <1>1 DEF Validate, TypeOK, controller, apply
<1>2. CASE ValidateReferences
  BY <1>2 DEF ValidateReferences, TypeOK, controller, apply
<1>3. CASE ApplyBegin
  BY <1>3 DEF ApplyBegin, TypeOK, controller, validation
<1>4. CASE ApplyOne
  <2> DEFINE u == plan[n]
  <2>1. n \in 1 .. Len(plan) /\ UNCHANGED <<plan, pre, validation, drifts, meddled>>
    BY <1>4 DEF ApplyOne, TypeOK
  <2>2. /\ u.op = "create" => u.body \in [Sides -> Named \cup {None}]
        /\ u.op = "update" /\ u.id \in Policies => u.body \in Body
    BY <2>1, PlanShape DEF TypeOK
  <2>3. SUFFICES /\ zones' \subseteq Zones /\ policies' \in [Policies -> Policy \cup {None}]
                 /\ made' \subseteq Policy /\ n' \in 1 .. Len(plan) + 1
                 /\ pc' \in {"applying", "returned"}
                 /\ fault' \in {"none", "reference", "untouched", "gone", "other", "stale"}
    BY <2>1 DEF TypeOK, validation
  <2>4. ASSUME NEW why \in {"reference", "untouched", "gone", "other"}, Ends(why)
        PROVE  /\ UNCHANGED <<zones, policies, made, n>>
               /\ pc' = "returned" /\ fault' = why
    BY <2>4 DEF Ends, controller
  <2>5. ASSUME Advances PROVE n' = n + 1 /\ UNCHANGED <<pc, fault>> /\ pc = "applying"
    BY <1>4, <2>5 DEF Advances, ApplyOne
  <2>6. CASE u.op = "create" /\ CreatePolicy(u)
    <3>1. u.body \in [Sides -> Named \cup {None, Keep}]
      BY <2>2, <2>6
    <3>2. CASE Resolvable(u.body)
      <4>1. made' = made \cup {u.body} /\ UNCHANGED <<zones, policies>> /\ Advances
        BY <2>6, <3>2 DEF CreatePolicy
      <4> QED
        BY <2>1, <2>5, <3>1, <3>2, <4>1, ResolvablePolicy DEF TypeOK
    <3>3. CASE ~Resolvable(u.body)
      BY <2>1, <2>4, <2>6, <3>3 DEF CreatePolicy, TypeOK
    <3> QED
      BY <3>2, <3>3
  <2>7. CASE u.op = "update" /\ u.id \in Policies /\ UpdatePolicy(u)
    <3> DEFINE over == Overlay(policies[u.id], u.body)
    <3>1. CASE policies[u.id] # None /\ Resolvable(over) /\ ~Ends("reference") /\ ~Ends("gone")
      <4>1. /\ policies' = [policies EXCEPT ![u.id] = over]
            /\ UNCHANGED <<zones, made>> /\ Advances
        BY <2>7, <3>1 DEF UpdatePolicy
      <4>2. over \in Policy
        BY <2>2, <2>7, <3>1, OverlayShape, ResolvablePolicy DEF TypeOK
      <4> HIDE DEF over
      <4>3. policies' \in [Policies -> Policy \cup {None}]
        BY <4>1, <4>2 DEF TypeOK
      <4> QED
        BY <2>1, <2>5, <4>1, <4>3 DEF TypeOK
    <3>2. CASE Ends("reference") \/ Ends("gone")
      BY <2>1, <2>4, <3>2 DEF TypeOK
    <3> QED
      BY <2>7, <3>1, <3>2 DEF UpdatePolicy
  <2>8. CASE UpdateZone(u)
    <3>1. (UNCHANGED <<zones, policies, made>> /\ Advances) \/ Ends("gone")
      BY <2>8 DEF UpdateZone, controller
    <3> QED
      BY <2>1, <2>4, <2>5, <3>1 DEF TypeOK
  <2>9. CASE u.id \in Policies /\ DeletePolicy(u)
    <3>1. \/ /\ policies' = [policies EXCEPT ![u.id] = None]
             /\ UNCHANGED <<zones, made>> /\ Advances
          \/ Ends("gone")
      BY <2>9 DEF DeletePolicy
    <3> QED
      BY <2>1, <2>4, <2>5, <3>1 DEF TypeOK
  <2>10. CASE DeleteZone(u)
    <3>1. \/ Ends("gone") \/ Ends("reference") \/ Ends("untouched")
          \/ zones' = zones \ {u.id} /\ UNCHANGED <<policies, made>> /\ Advances
      BY <2>10 DEF DeleteZone
    <3> QED
      BY <2>1, <2>4, <2>5, <3>1 DEF TypeOK
  <2>11. CASE Ends("other")
    BY <2>1, <2>4, <2>11 DEF TypeOK
  <2> QED
    BY <1>4, <2>6, <2>7, <2>8, <2>9, <2>10, <2>11 DEF ApplyOne
<1>5. CASE ApplyDone
  BY <1>5 DEF ApplyDone, TypeOK, controller, validation
<1>6. CASE Drift
  <2>1. UNCHANGED <<plan, pre, made, check, seen, whole, pc, n, fault>>
        /\ drifts' \in 0 .. MaxDrifts[plan] /\ meddled' \in BOOLEAN
    BY <1>0, <1>6 DEF Drift, TypeOK, apply
  <2>2. zones' \subseteq Zones /\ policies' \in [Policies -> Policy \cup {None}]
        /\ trusted' \in BOOLEAN
    BY <1>6 DEF Drift, TypeOK
  <2> QED
    BY <2>1, <2>2 DEF TypeOK
<1>7. CASE UNCHANGED vars
  BY <1>7 DEF vars, TypeOK, controller, validation, apply
<1> QED
  BY <1>1, <1>2, <1>3, <1>4, <1>5, <1>6, <1>7 DEF Next

\* Every variable stays in its type: the apply is at a mutation of the plan, and
\* what the controller holds are policies over zones, not over external ids.
THEOREM ZoneTyped == Spec => []TypeOK
  BY InitTyped, TypeStep, PTL DEF Spec

-----------------------------------------------------------------------------
(* The invariant                                                            *)

\* A policy names zones the controller has: it removes none that is in use.
Intact ==
    /\ \A p \in Policies : policies[p] # None => Resolvable(policies[p])
    /\ \A r \in made : Resolvable(r)

\* Where the apply is: it has failed only once it has returned, and has written
\* only once it runs.
Placed ==
    /\ pc # "returned" => fault = "none"
    /\ pc = "staged" => n = 1 /\ made = {} /\ ~meddled
    /\ pc = "returned" /\ fault = "none" => n = Len(plan) + 1

\* What mutation m writes names z.
Writes(m, z) ==
    plan[m].op \in {"create", "update"} /\ \E s \in Sides : plan[m].body[s] = z

\* What a verdict says of the zones for as long as it is to be trusted: those the
\* plan names are there or were deleted by the plan, or one of them was missing
\* and no mutation has got past naming it.
Verdict ==
    /\ check \in {"listing", "valid"} => CheckZoneDeletions
    /\ check = "conflict" => ~CheckZoneDeletions
    /\ check = "valid" /\ trusted => Referenced(plan) \subseteq zones \cup Sofar(n - 1).deleted
    /\ check = "missing" /\ trusted /\ whole =>
         \E z \in Referenced(plan) :
           z \notin zones /\ \A m \in 1 .. n - 1 : ~Writes(m, z)

\* An apply that is left alone does what the walk foresaw.
Foreseen ==
    /\ made = Sofar(n - 1).created
    /\ \A p \in Policies \cap Touched : policies[p] = Sofar(n - 1).live[p]
    /\ zones \cap Sofar(n - 1).deleted = {}
    /\ Sofar(n - 1).ok
Matched == pc = "applying" /\ ~meddled => Foreseen

\* One that came to the end found no contradiction.
Ended == pc = "returned" /\ fault = "none" /\ ~meddled => Sofar(Len(plan)).ok

ZoneInv == Intact /\ Placed /\ Verdict /\ Matched /\ Ended /\ ValidSetRuns

\* The invariant is at least as strong as the claim about refused sets.
LEMMA RefusedHolds ==
    ASSUME TypeOK, ZoneInv
    PROVE  RefusedSetFails
<1> SUFFICES ASSUME pc = "returned", ~meddled, fault = "none",
                    check = "conflict" \/ (check = "missing" /\ trusted /\ whole)
             PROVE  FALSE
  BY DEF RefusedSetFails
<1>1. CASE check = "conflict"
  <2>1. ~CheckZoneDeletions
    BY <1>1 DEF ZoneInv, Verdict
  <2>2. ~Sofar(Len(plan)).ok
    BY <2>1 DEF CheckZoneDeletions, Sofar
  <2> QED
    BY <2>2 DEF ZoneInv, Ended
<1>2. CASE check = "missing" /\ trusted /\ whole
  <2>1. PICK z \in Referenced(plan) : \A m \in 1 .. n - 1 : ~Writes(m, z)
    BY <1>2 DEF ZoneInv, Verdict
  <2>2. n - 1 = Len(plan) /\ DOMAIN plan = 1 .. Len(plan)
    BY PlanShape DEF TypeOK, ZoneInv, Placed
  <2>3. PICK m \in DOMAIN plan : Writes(m, z)
    BY <2>1 DEF Referenced, Writes
  <2> QED
    BY <2>1, <2>2, <2>3
<1> QED
  BY <1>1, <1>2

-----------------------------------------------------------------------------
(* Steps of the invariant                                                   *)

\* The walk depends on the plan and its pre-image alone.
LEMMA WalkSame ==
    ASSUME UNCHANGED <<plan, pre>>
    PROVE  /\ \A m : Sofar(m)' = Sofar(m)
           /\ CheckZoneDeletions' = CheckZoneDeletions
           /\ Touched' = Touched
           /\ \A m, z : Writes(m, z)' = Writes(m, z)
<1>1. Touched' = Touched /\ Seeded' = Seeded
  BY DEF Touched, Seeded
<1> QED
  BY <1>1 DEF Sofar, CheckZoneDeletions, Writes

\* A policy that resolves names no zone that is gone.
LEMMA ResolvesPast ==
    ASSUME NEW policy, Resolvable(policy), NEW zs \in SUBSET Zones, zones \cap zs = {}
    PROVE  ~Names(policy, zs)
  BY ZoneAssumption DEF Resolvable, Names, Named

\* The walk at the place of the apply.
LEMMA WalkHere ==
    ASSUME TypeOK, n <= Len(plan)
    PROVE  /\ Len(plan) \in Nat /\ n \in 1 .. Len(plan) /\ n - 1 \in 0 .. Len(plan)
           /\ Followed(Sofar(n - 1)) /\ Followed(Sofar(n))
           /\ Sofar(n) = Walk(Sofar(n - 1), plan[n])
           /\ Sofar(n - 1) \in WalkState /\ Sofar(n) \in WalkState
           /\ Sofar(n - 1).deleted \subseteq Zones /\ Sofar(n).deleted \subseteq Zones
<1>1. Len(plan) \in Nat /\ n \in 1 .. Len(plan) /\ n - 1 \in 0 .. Len(plan)
  BY PlanShape DEF TypeOK
<1>2. Followed(Sofar(n - 1)) /\ Followed(Sofar(n)) /\ Sofar(n) = Walk(Sofar(n - 1), plan[n])
  BY <1>1, WalkFollowed, WalkedDef DEF TypeOK
<1> QED
  BY <1>1, <1>2 DEF Followed, WalkState

\* A set found valid has no contradiction at any place.
LEMMA ValidOk ==
    ASSUME TypeOK, CheckZoneDeletions, NEW m \in 0 .. Len(plan),
           NEW z \in ZonesDeletedBy(plan)
    PROVE  Sofar(m).ok
  BY WalkMonotone DEF TypeOK, CheckZoneDeletions, Sofar

Around == <<plan, pre, check, seen, whole, trusted, drifts, meddled>>

\* Nothing the invariant says is lost when the apply ends with a fault, if that
\* fault is not one a verdict excludes.
LEMMA EndsStep ==
    ASSUME TypeOK, ZoneInv, pc = "applying", UNCHANGED Around,
           NEW why \in {"reference", "untouched", "gone", "other"}, Ends(why),
           why = "reference" => ~(check = "valid" /\ trusted /\ ~meddled)
    PROVE  ZoneInv'
<1>1. /\ UNCHANGED <<plan, pre, zones, policies, made, n>>
      /\ UNCHANGED <<check, whole, trusted, meddled>>
      /\ pc' = "returned" /\ fault' = why
  BY DEF Ends, controller, Around
<1>2. \A m : Sofar(m)' = Sofar(m)
  BY <1>1, WalkSame
<1>3. Intact'
  BY <1>1 DEF ZoneInv, Intact, Resolvable
<1>4. Verdict'
  BY <1>1, <1>2, WalkSame DEF ZoneInv, Verdict, Referenced
<1>5. Placed' /\ Matched' /\ Ended' /\ ValidSetRuns'
  BY <1>1 DEF Placed, Matched, Ended, ValidSetRuns
<1> QED
  BY <1>3, <1>4, <1>5 DEF ZoneInv

\* Nor when it gets past a mutation, if the walk followed.
LEMMA AdvanceStep ==
    ASSUME TypeOK, ZoneInv, pc = "applying", n <= Len(plan), UNCHANGED Around,
           Advances, Intact', zones' \subseteq zones,
           zones \ zones' \subseteq Sofar(n).deleted,
           Sofar(n - 1).deleted \subseteq Sofar(n).deleted,
           \A z \in Referenced(plan) : Writes(n, z) => z \in zones,
           ~meddled =>
             /\ made' = Sofar(n).created
             /\ \A p \in Policies \cap Touched : policies'[p] = Sofar(n).live[p]
             /\ zones' \cap Sofar(n).deleted = {}
             /\ Sofar(n).ok
    PROVE  ZoneInv'
<1>1. /\ UNCHANGED <<plan, pre, check, whole, trusted, meddled, pc, fault>>
      /\ n' = n + 1 /\ n \in Nat /\ n' - 1 = n /\ fault = "none"
  BY DEF Advances, Around, TypeOK, ZoneInv, Placed
<1>2. \A m : Sofar(m)' = Sofar(m)
  BY <1>1, WalkSame
<1>3. Placed' /\ Ended' /\ ValidSetRuns'
  BY <1>1 DEF Placed, Ended, ValidSetRuns
<1>4. Sofar(n - 1)' = Sofar(n)
  BY <1>1 DEF Sofar, Seeded, Touched
<1>5. Verdict'
  <2>1. CheckZoneDeletions' = CheckZoneDeletions /\ Referenced(plan)' = Referenced(plan)
        /\ \A m, z : Writes(m, z)' = Writes(m, z)
    BY <1>1, WalkSame DEF Referenced
  <2>2. check = "valid" /\ trusted => Referenced(plan) \subseteq zones' \cup Sofar(n).deleted
    BY DEF ZoneInv, Verdict
  <2>3. ASSUME check = "missing", trusted, whole
        PROVE  \E z \in Referenced(plan) :
                 z \notin zones' /\ \A m \in 1 .. n : ~Writes(m, z)
    <3>1. PICK z \in Referenced(plan) :
            z \notin zones /\ \A m \in 1 .. n - 1 : ~Writes(m, z)
      BY <2>3 DEF ZoneInv, Verdict
    <3>2. \A m \in 1 .. n : m \in 1 .. n - 1 \/ m = n
      BY <1>1
    <3> QED
      BY <3>1, <3>2
  <2>4. 1 .. n' - 1 = 1 .. n
    BY <1>1
  <2>5. check' \in {"listing", "valid"} => CheckZoneDeletions'
    BY <1>1, <2>1 DEF ZoneInv, Verdict
  <2>6. check' = "conflict" => ~CheckZoneDeletions'
    BY <1>1, <2>1 DEF ZoneInv, Verdict
  <2> QED
    BY <1>1, <1>4, <2>1, <2>2, <2>3, <2>4, <2>5, <2>6 DEF Verdict
<1>6. Matched'
  BY <1>1, <1>4, WalkSame DEF Matched, Foreseen
<1> QED
  BY <1>3, <1>5, <1>6 DEF ZoneInv

\* What a plan refers to is what its mutations write.
LEMMA ReferencedBy ==
    ASSUME NEW z
    PROVE  z \in Referenced(plan) <=>
             z \notin {None, Keep} /\ \E m \in DOMAIN plan : Writes(m, z)
<1> DEFINE D == {m \in DOMAIN plan : plan[m].op \in {"create", "update"}}
           Of(m) == {plan[m].body[s] : s \in Sides}
           All == UNION {Of(m) : m \in D}
<1>1. Referenced(plan) = All \ {None, Keep}
  BY DEF Referenced
<1>2. \A m \in DOMAIN plan : Writes(m, z) <=> m \in D /\ z \in Of(m)
  BY DEF Writes
<1>3. D \subseteq DOMAIN plan
  OBVIOUS
<1> HIDE DEF D, Of
<1>4. z \in All <=> \E m \in D : z \in Of(m)
  OBVIOUS
<1> HIDE DEF All
<1>5. (\E m \in D : z \in Of(m)) <=> \E m \in DOMAIN plan : Writes(m, z)
  BY <1>2, <1>3
<1> QED
  BY <1>1, <1>4, <1>5

\* A body the controller cannot resolve, of a set found valid, names a zone the
\* set has deleted.
LEMMA UnresolvedDeleted ==
    ASSUME TypeOK, ZoneInv, pc = "applying", n <= Len(plan), check = "valid", trusted,
           plan[n].op \in {"create", "update"}, NEW s \in Sides,
           plan[n].body[s] \notin zones \cup {None, Keep}
    PROVE  plan[n].body[s] \in Sofar(n - 1).deleted /\ Sofar(n).ok
<1>1. n \in DOMAIN plan
  BY PlanShape, WalkHere DEF TypeOK
<1>2. plan[n].body[s] \in Referenced(plan)
  BY <1>1, ReferencedBy DEF Writes
<1>3. plan[n].body[s] \in Sofar(n - 1).deleted
  BY <1>2 DEF ZoneInv, Verdict
<1>4. plan[n].body[s] \in ZonesDeletedBy(plan)
  BY <1>3, WalkHere DEF Followed
<1>5. CheckZoneDeletions /\ n \in 0 .. Len(plan)
  BY WalkHere DEF ZoneInv, Verdict
<1> QED
  BY <1>3, <1>4, <1>5, ValidOk

-----------------------------------------------------------------------------
(* One lemma for each kind of mutation                                      *)

Applying(op) ==
    /\ TypeOK /\ ZoneInv /\ pc = "applying" /\ n <= Len(plan)
    /\ UNCHANGED Around /\ plan[n].op = op

LEMMA CreateStep ==
    ASSUME Applying("create"), CreatePolicy(plan[n])
    PROVE  ZoneInv'
<1> DEFINE u == plan[n]
           w == Sofar(n - 1)
<1>1. /\ TypeOK /\ ZoneInv /\ pc = "applying" /\ n <= Len(plan) /\ u.op = "create"
      /\ UNCHANGED Around
  BY DEF Applying
<1>2. w \in WalkState /\ Sofar(n) = Walk(w, u) /\ w.deleted \subseteq Zones
      /\ u.body \in [Sides -> Named \cup {None}]
  BY <1>1, WalkHere, PlanShape DEF TypeOK
<1>3. /\ Sofar(n).live = w.live /\ Sofar(n).created = w.created \cup {u.body}
      /\ Sofar(n).deleted = w.deleted
      /\ Sofar(n).ok <=> w.ok /\ ~Names(u.body, w.deleted)
  BY <1>1, <1>2, WalkCreate DEF Becomes
<1>4. CASE Resolvable(u.body)
  <2>1. made' = made \cup {u.body} /\ UNCHANGED <<zones, policies>> /\ Advances
    BY <1>4 DEF CreatePolicy
  <2>2. Intact'
    BY <1>1, <1>4, <2>1 DEF ZoneInv, Intact, Resolvable
  <2>3. \A z \in Referenced(plan) : Writes(n, z) => z \in zones
    BY <1>4, ReferencedBy DEF Writes, Resolvable
  <2>4. ~meddled =>
             /\ made' = Sofar(n).created
             /\ \A p \in Policies \cap Touched : policies'[p] = Sofar(n).live[p]
             /\ zones' \cap Sofar(n).deleted = {}
             /\ Sofar(n).ok
    BY <1>1, <1>2, <1>3, <1>4, <2>1, ResolvesPast DEF ZoneInv, Matched, Foreseen
  <2> QED
    BY <1>1, <1>3, <2>1, <2>2, <2>3, <2>4, AdvanceStep
<1>5. CASE ~Resolvable(u.body)
  <2>0. Ends("reference")
    BY <1>5 DEF CreatePolicy
  <2>1. ASSUME check = "valid", trusted, ~meddled PROVE FALSE
    <3>1. PICK s \in Sides : u.body[s] \notin zones \cup {None}
      BY <1>5 DEF Resolvable
    <3>2. u.body[s] # Keep
      BY <1>2, ZoneAssumption
    <3>3. u.body[s] \in w.deleted /\ Sofar(n).ok
      BY <1>1, <2>1, <3>1, <3>2, UnresolvedDeleted
    <3>4. Names(u.body, w.deleted)
      BY <3>3 DEF Names
    <3> QED
      BY <1>3, <3>3, <3>4
  <2> QED
    BY <1>1, <2>0, <2>1, EndsStep
<1> QED
  BY <1>4, <1>5

LEMMA UpdateStep ==
    ASSUME Applying("update"), plan[n].id \in Policies, UpdatePolicy(plan[n])
    PROVE  ZoneInv'
<1> DEFINE u == plan[n]
           w == Sofar(n - 1)
           P == Projected(w, u)
           over == Overlay(policies[u.id], u.body)
<1>1. /\ TypeOK /\ ZoneInv /\ pc = "applying" /\ n <= Len(plan) /\ u.op = "update"
      /\ UNCHANGED Around /\ u.id \in Policies
  BY DEF Applying
<1>2. w \in WalkState /\ Sofar(n) = Walk(w, u) /\ w.deleted \subseteq Zones
      /\ u.body \in Body /\ n \in DOMAIN plan
  BY <1>1, WalkHere, PlanShape DEF TypeOK
<1>3. u.id \in Touched /\ u.id \in Ids
  BY <1>1, <1>2 DEF Touched, Ids
<1>4. /\ Sofar(n).live = [w.live EXCEPT ![u.id] = P] /\ Sofar(n).created = w.created
      /\ Sofar(n).deleted = w.deleted
      /\ Sofar(n).ok <=> w.ok /\ ~Names(P, w.deleted)
  BY <1>1, <1>2, WalkUpdate DEF Becomes
<1>5. ~meddled /\ policies[u.id] # None => P = over
  BY <1>1, <1>3 DEF ZoneInv, Matched, Foreseen, Projected
<1>6. \A s \in Sides : over[s] = IF u.body[s] = Keep THEN policies[u.id][s] ELSE u.body[s]
  BY DEF Overlay
<1> HIDE DEF P, over
<1>7. CASE policies[u.id] # None /\ Resolvable(over)
  <2>1. policies' = [policies EXCEPT ![u.id] = over] /\ UNCHANGED <<zones, made>> /\ Advances
    BY <1>7 DEF UpdatePolicy, over
  <2>2. Intact'
    BY <1>1, <1>7, <2>1 DEF ZoneInv, Intact, Resolvable, TypeOK
  <2>3. \A z \in Referenced(plan) : Writes(n, z) => z \in zones
    BY <1>6, <1>7, ReferencedBy DEF Writes, Resolvable
  <2>4. ASSUME ~meddled
        PROVE  /\ made' = Sofar(n).created
               /\ \A p \in Policies \cap Touched : policies'[p] = Sofar(n).live[p]
               /\ zones' \cap Sofar(n).deleted = {}
               /\ Sofar(n).ok
    <3>1. Foreseen
      BY <1>1, <2>4 DEF ZoneInv, Matched
    <3>2. P = over
      BY <1>5, <1>7, <2>4
    <3>3. Sofar(n).ok
      BY <1>2, <1>4, <1>7, <3>1, <3>2, ResolvesPast DEF Foreseen
    <3>4. \A p \in Policies \cap Touched : policies'[p] = Sofar(n).live[p]
      BY <1>1, <1>2, <1>3, <1>4, <2>1, <3>1, <3>2 DEF Foreseen, TypeOK, WalkState, Ids
    <3> QED
      BY <1>4, <2>1, <3>1, <3>3, <3>4 DEF Foreseen
  <2> QED
    BY <1>1, <1>4, <2>1, <2>2, <2>3, <2>4, AdvanceStep
<1>8. CASE policies[u.id] # None /\ ~Resolvable(over)
  <2>0. Ends("reference")
    BY <1>8 DEF UpdatePolicy, over
  <2>1. ASSUME check = "valid", trusted, ~meddled PROVE FALSE
    <3>1. PICK s \in Sides : over[s] \notin zones \cup {None}
      BY <1>8 DEF Resolvable
    <3>2. policies[u.id][s] \in zones \cup {None}
      BY <1>1, <1>8 DEF ZoneInv, Intact, Resolvable
    <3>3. u.body[s] # Keep /\ over[s] = u.body[s]
      BY <1>6, <3>1, <3>2
    <3>4. u.body[s] \in w.deleted /\ Sofar(n).ok
      BY <1>1, <2>1, <3>1, <3>3, UnresolvedDeleted
    <3>5. Names(over, w.deleted)
      BY <3>3, <3>4 DEF Names
    <3> QED
      BY <1>4, <1>5, <1>8, <2>1, <3>4, <3>5
  <2> QED
    BY <1>1, <2>0, <2>1, EndsStep
<1>9. CASE policies[u.id] = None
  <2>1. Ends("gone")
    BY <1>9 DEF UpdatePolicy
  <2> QED
    BY <1>1, <2>1, EndsStep
<1> QED
  BY <1>7, <1>8, <1>9

LEMMA UpdateZoneStep ==
    ASSUME Applying("update"), plan[n].id \in Zones, UpdateZone(plan[n])
    PROVE  ZoneInv'
<1> DEFINE u == plan[n]
           w == Sofar(n - 1)
           P == Projected(w, u)
<1>1. /\ TypeOK /\ ZoneInv /\ pc = "applying" /\ n <= Len(plan) /\ u.op = "update"
      /\ UNCHANGED Around /\ u.id \in Zones
  BY DEF Applying
<1>2. w \in WalkState /\ Sofar(n) = Walk(w, u) /\ w.deleted \subseteq Zones /\ u.body = NoSide
  BY <1>1, WalkHere, PlanShape DEF TypeOK
<1>3. u.id \notin Policies /\ P = NoSide
  BY <1>1, <1>2, OverlayZone, ZoneAssumption DEF Projected
<1> HIDE DEF P
<1>4. /\ Sofar(n).live = [w.live EXCEPT ![u.id] = P] /\ Sofar(n).created = w.created
      /\ Sofar(n).deleted = w.deleted
      /\ Sofar(n).ok <=> w.ok /\ ~Names(P, w.deleted)
  BY <1>1, <1>2, WalkUpdate DEF Becomes, P
<1>5. ~Names(NoSide, w.deleted)
  BY <1>2, ZoneAssumption DEF Names, NoSide, Named
<1>6. CASE Ends("gone")
  BY <1>1, <1>6, EndsStep
<1>7. CASE UNCHANGED controller /\ Advances
  <2>1. UNCHANGED <<zones, policies, made>> /\ Advances
    BY <1>7 DEF controller
  <2>2. Intact'
    BY <1>1, <2>1 DEF ZoneInv, Intact, Resolvable
  <2>3. \A z \in Referenced(plan) : Writes(n, z) => z \in zones
    BY <1>2, ReferencedBy DEF Writes, NoSide
  <2>4. ~meddled =>
             /\ made' = Sofar(n).created
             /\ \A p \in Policies \cap Touched : policies'[p] = Sofar(n).live[p]
             /\ zones' \cap Sofar(n).deleted = {}
             /\ Sofar(n).ok
    BY <1>1, <1>2, <1>3, <1>4, <1>5, <2>1
       DEF ZoneInv, Matched, Foreseen, WalkState, Ids
  <2> QED
    BY <1>1, <1>4, <2>1, <2>2, <2>3, <2>4, AdvanceStep
<1> QED
  BY <1>6, <1>7 DEF UpdateZone

LEMMA DeletePolicyStep ==
    ASSUME Applying("delete"), plan[n].id \in Policies, DeletePolicy(plan[n])
    PROVE  ZoneInv'
<1> DEFINE u == plan[n]
           w == Sofar(n - 1)
<1>1. /\ TypeOK /\ ZoneInv /\ pc = "applying" /\ n <= Len(plan) /\ u.op = "delete"
      /\ UNCHANGED Around /\ u.id \in Policies
  BY DEF Applying
<1>2. w \in WalkState /\ Sofar(n) = Walk(w, u) /\ w.deleted \subseteq Zones
  BY <1>1, WalkHere
<1>3. /\ Sofar(n).live = [w.live EXCEPT ![u.id] = None] /\ Sofar(n).created = w.created
      /\ Sofar(n).deleted = w.deleted /\ (Sofar(n).ok <=> w.ok)
  BY <1>1, <1>2, WalkDeletePolicy DEF Becomes
<1>4. CASE Ends("gone")
  BY <1>1, <1>4, EndsStep
<1>5. CASE policies' = [policies EXCEPT ![u.id] = None] /\ UNCHANGED <<zones, made>> /\ Advances
  <2>1. Intact'
    BY <1>1, <1>5 DEF ZoneInv, Intact, Resolvable, TypeOK
  <2>2. \A z \in Referenced(plan) : Writes(n, z) => z \in zones
    BY <1>1 DEF Writes
  <2>3. ~meddled =>
             /\ made' = Sofar(n).created
             /\ \A p \in Policies \cap Touched : policies'[p] = Sofar(n).live[p]
             /\ zones' \cap Sofar(n).deleted = {}
             /\ Sofar(n).ok
    BY <1>1, <1>2, <1>3, <1>5 DEF ZoneInv, Matched, Foreseen, WalkState, Ids, TypeOK
  <2> QED
    BY <1>1, <1>3, <1>5, <2>1, <2>2, <2>3, AdvanceStep
<1> QED
  BY <1>4, <1>5 DEF DeletePolicy

LEMMA DeleteZoneStep ==
    ASSUME Applying("delete"), plan[n].id \in Zones, DeleteZone(plan[n])
    PROVE  ZoneInv'
<1> DEFINE u == plan[n]
           z == u.id
           w == Sofar(n - 1)
           B == \A r \in Blockers(w) : ~Names(r, {z})
<1>1. /\ TypeOK /\ ZoneInv /\ pc = "applying" /\ n <= Len(plan) /\ u.op = "delete"
      /\ UNCHANGED Around /\ z \in Zones
  BY DEF Applying
<1>2. w \in WalkState /\ Sofar(n) = Walk(w, u) /\ w.deleted \subseteq Zones /\ Followed(w)
      /\ n \in DOMAIN plan
  BY <1>1, WalkHere, PlanShape DEF TypeOK
<1>3. /\ Sofar(n).live = w.live /\ Sofar(n).created = w.created
      /\ Sofar(n).deleted = w.deleted \cup {z}
      /\ Sofar(n).ok <=> w.ok /\ B
  <2>1. /\ Becomes(w, u, w.live, w.created, w.deleted \cup {u.id})
        /\ Walk(w, u).ok <=> w.ok /\ \A r \in Blockers(w) : ~Names(r, {u.id})
    BY <1>1, <1>2, WalkDeleteZone
  <2>2. /\ Sofar(n).live = w.live /\ Sofar(n).created = w.created
        /\ Sofar(n).deleted = w.deleted \cup {z}
    BY <1>2, <2>1 DEF Becomes
  <2> QED
    BY <1>2, <2>1, <2>2
<1>4. ~meddled => Foreseen
  BY <1>1 DEF ZoneInv, Matched
<1>5. CASE Ends("gone") \/ Ends("untouched")
  BY <1>1, <1>5, EndsStep
<1>6. CASE Ends("reference") /\ OwnUsers(z)
  <2>1. ASSUME check = "valid", trusted, ~meddled PROVE FALSE
    <3>1. z \in ZonesDeletedBy(plan)
      BY <1>1, <1>2 DEF ZonesDeletedBy
    <3>2. Sofar(n).ok
      BY <1>1, <2>1, <3>1, ValidOk, WalkHere DEF ZoneInv, Verdict
    <3>3. \A p \in Policies \cap Touched : policies[p] # None => policies[p] \in Blockers(w)
      BY <1>4, <2>1 DEF Foreseen, Blockers, Ids
    <3>4. \A r \in made : r \in Blockers(w)
      BY <1>4, <2>1 DEF Foreseen, Blockers
    <3> QED
      BY <1>3, <1>6, <3>2, <3>3, <3>4 DEF OwnUsers
  <2> QED
    BY <1>1, <1>6, <2>1, EndsStep
<1>7. CASE /\ ~OwnUsers(z) /\ ~OtherUsers(z)
           /\ zones' = zones \ {z} /\ UNCHANGED <<policies, made>> /\ Advances
  <2>1. Intact'
    <3>1. \A p \in Policies : policies[p] # None => ~Names(policies[p], {z})
      BY <1>7 DEF OwnUsers, OtherUsers
    <3>2. \A r \in made : ~Names(r, {z})
      BY <1>7 DEF OwnUsers
    <3>3. ASSUME NEW r, Resolvable(r), ~Names(r, {z}) PROVE Resolvable(r)'
      BY <1>7, <3>3 DEF Resolvable, Names
    <3>4. \A p \in Policies : policies'[p] # None => Resolvable(policies[p])'
      BY <1>1, <1>7, <3>1, <3>3 DEF ZoneInv, Intact
    <3>5. \A r \in made : Resolvable(r)'
      BY <1>1, <3>2, <3>3 DEF ZoneInv, Intact
    <3> QED
      BY <1>7, <3>4, <3>5 DEF Intact, Resolvable
  <2>2. \A y \in Referenced(plan) : Writes(n, y) => y \in zones
    BY <1>1 DEF Writes
  <2>3. ASSUME ~meddled
        PROVE  /\ made' = Sofar(n).created
               /\ \A p \in Policies \cap Touched : policies'[p] = Sofar(n).live[p]
               /\ zones' \cap Sofar(n).deleted = {}
               /\ Sofar(n).ok
    <3>1. B
      <4>1. ~Names(NoSide, {z})
        BY <1>1, ZoneAssumption DEF Names, NoSide, Named
      <4>2. \A p \in Policies \ Touched : w.live[p] = None
        BY <1>2 DEF Followed
      <4>3. \A y \in Zones : w.live[y] \in {None, NoSide}
        BY <1>2 DEF Followed
      <4>4. \A r \in Blockers(w) :
              r \in made \/ r = NoSide
              \/ \E p \in Policies \cap Touched : policies[p] # None /\ r = policies[p]
        BY <1>4, <2>3, <4>2, <4>3 DEF Blockers, Foreseen, Ids
      <4> QED
        BY <1>7, <4>1, <4>4 DEF OwnUsers
    <3> QED
      BY <1>3, <1>4, <1>7, <2>3, <3>1 DEF Foreseen
  <2>4. zones' \subseteq zones /\ zones \ zones' \subseteq Sofar(n).deleted
        /\ w.deleted \subseteq Sofar(n).deleted
    BY <1>3, <1>7
  <2> QED
    BY <1>1, <1>7, <2>1, <2>2, <2>3, <2>4, AdvanceStep
<1> QED
  BY <1>5, <1>6, <1>7 DEF DeleteZone

LEMMA ApplyOneStep == TypeOK /\ ZoneInv /\ ApplyOne => ZoneInv'
<1> SUFFICES ASSUME TypeOK, ZoneInv, ApplyOne PROVE ZoneInv'
  OBVIOUS
<1>1. pc = "applying" /\ n <= Len(plan) /\ UNCHANGED Around
  BY DEF ApplyOne, validation, Around
<1>2. CASE plan[n].op = "create" /\ CreatePolicy(plan[n])
  BY <1>1, <1>2, CreateStep DEF Applying
<1>3. CASE plan[n].op = "update" /\ plan[n].id \in Policies /\ UpdatePolicy(plan[n])
  BY <1>1, <1>3, UpdateStep DEF Applying
<1>4. CASE plan[n].op = "update" /\ plan[n].id \in Zones /\ UpdateZone(plan[n])
  BY <1>1, <1>4, UpdateZoneStep DEF Applying
<1>5. CASE plan[n].op = "delete" /\ plan[n].id \in Policies /\ DeletePolicy(plan[n])
  BY <1>1, <1>5, DeletePolicyStep DEF Applying
<1>6. CASE plan[n].op = "delete" /\ plan[n].id \in Zones /\ DeleteZone(plan[n])
  BY <1>1, <1>6, DeleteZoneStep DEF Applying
<1>7. CASE Ends("other")
  BY <1>1, <1>7, EndsStep
<1> QED
  BY <1>2, <1>3, <1>4, <1>5, <1>6, <1>7 DEF ApplyOne

-----------------------------------------------------------------------------
(* The other actions                                                        *)

LEMMA InitSafe == Init => ZoneInv
<1> SUFFICES ASSUME Init PROVE ZoneInv
  OBVIOUS
<1>1. Intact
  <2>1. PICK start \in Starts : zones = start.zones /\ pre = start.policies
    BY DEF Init
  <2> QED
    BY <2>1, ZoneAssumption DEF Init, Intact, Resolvable
<1> QED
  BY <1>1 DEF Init, ZoneInv, Placed, Verdict, Matched, Ended, ValidSetRuns

\* A verdict is written down as what the handler found.
LEMMA ValidateStep == TypeOK /\ ZoneInv /\ Validate => ZoneInv'
<1> SUFFICES ASSUME TypeOK, ZoneInv, Validate PROVE ZoneInv'
  OBVIOUS
<1>1. /\ UNCHANGED <<plan, pre, zones, policies, made, pc, n, fault, meddled>>
      /\ check' = IF ~CheckZoneDeletions THEN "conflict"
                  ELSE IF Referenced(plan) = {} THEN "valid" ELSE "listing"
      /\ trusted' = (check' = "valid" /\ pc = "staged")
  BY DEF Validate, controller, apply
<1>2. \A m : Sofar(m)' = Sofar(m)
  BY <1>1, WalkSame
<1>3. Intact' /\ Placed' /\ Ended'
  BY <1>1, <1>2 DEF ZoneInv, Intact, Placed, Ended, Resolvable
<1>4. Matched'
  BY <1>1, <1>2, WalkSame DEF ZoneInv, Matched, Foreseen
<1>5. Verdict'
  BY <1>1, WalkSame DEF Verdict, Referenced
<1>6. ValidSetRuns'
  BY <1>1 DEF ValidSetRuns, ZoneInv, Placed
<1> QED
  BY <1>3, <1>4, <1>5, <1>6 DEF ZoneInv

LEMMA ValidateReferencesStep == TypeOK /\ ZoneInv /\ ValidateReferences => ZoneInv'
<1> SUFFICES ASSUME TypeOK, ZoneInv, ValidateReferences PROVE ZoneInv'
  OBVIOUS
<1>1. /\ UNCHANGED <<plan, pre, zones, policies, made, pc, n, fault, meddled>>
      /\ check = "listing" /\ seen' \subseteq zones /\ whole' = (seen' = zones)
      /\ check' = IF CheckZoneReferences THEN "valid" ELSE "missing"
      /\ trusted' = (pc = "staged")
  BY DEF ValidateReferences, controller, apply
<1>2. \A m : Sofar(m)' = Sofar(m)
  BY <1>1, WalkSame
<1>3. Intact' /\ Placed' /\ Ended'
  BY <1>1, <1>2 DEF ZoneInv, Intact, Placed, Ended, Resolvable
<1>4. Matched'
  BY <1>1, <1>2, WalkSame DEF ZoneInv, Matched, Foreseen
<1>5. CheckZoneReferences <=> Referenced(plan) \subseteq seen'
  <2>1. \A y : Resolve(y) = "Known" <=> y \in seen'
    BY DEF Resolve
  <2> QED
    BY <2>1 DEF CheckZoneReferences
<1>6. Verdict'
  <2>1. check' \in {"listing", "valid"} => CheckZoneDeletions'
    BY <1>1, WalkSame DEF ZoneInv, Verdict
  <2>2. check' # "conflict" /\ Referenced(plan)' = Referenced(plan)
    BY <1>1 DEF Referenced
  <2>3. check' = "valid" => Referenced(plan) \subseteq zones'
    BY <1>1, <1>5
  <2>4. ASSUME check' = "missing", trusted', whole'
        PROVE  \E y \in Referenced(plan) : y \notin zones' /\ 1 .. n' - 1 = {}
    <3>1. n = 1 /\ n' = 1
      BY <1>1, <2>4 DEF ZoneInv, Placed
    <3>2. seen' = zones
      BY <1>1, <2>4
    <3>3. \E y \in Referenced(plan) : y \notin zones'
      BY <1>1, <1>5, <2>4, <3>2
    <3> QED
      BY <3>1, <3>3
  <2> QED
    BY <2>1, <2>2, <2>3, <2>4 DEF Verdict
<1>7. ValidSetRuns'
  BY <1>1 DEF ValidSetRuns, ZoneInv, Placed
<1> QED
  BY <1>3, <1>4, <1>6, <1>7 DEF ZoneInv

\* The pre-image check makes the policies those the walk starts from.
LEMMA ApplyBeginStep == TypeOK /\ ZoneInv /\ ApplyBegin => ZoneInv'
<1> SUFFICES ASSUME TypeOK, ZoneInv, ApplyBegin PROVE ZoneInv'
  OBVIOUS
<1>1. /\ UNCHANGED <<plan, pre, zones, policies, made, check, whole, trusted, n, meddled>>
      /\ pc = "staged" /\ n = 1 /\ made = {} /\ fault = "none"
  BY DEF ApplyBegin, controller, validation, ZoneInv, Placed
<1>2. \/ /\ pc' = "applying" /\ fault' = fault
         /\ \A id \in Touched \cap Policies : policies[id] = pre[id]
      \/ pc' = "returned" /\ fault' = "stale"
  <2>1. \A id \in Policies : id \notin Zones
    BY ZoneAssumption
  <2> QED
    BY <2>1 DEF ApplyBegin
<1>3. \A m : Sofar(m)' = Sofar(m)
  BY <1>1, WalkSame
<1>4. Intact'
  BY <1>1 DEF ZoneInv, Intact, Resolvable
<1>5. Verdict'
  BY <1>1, <1>3, WalkSame DEF ZoneInv, Verdict, Referenced
<1>6. Placed' /\ Ended' /\ ValidSetRuns'
  BY <1>1, <1>2 DEF Placed, Ended, ValidSetRuns
<1>7. Matched'
  <2> SUFFICES ASSUME pc' = "applying" PROVE Foreseen'
    BY DEF Matched
  <2>1. Sofar(0) = [live |-> Seeded, created |-> {}, deleted |-> {}, ok |-> TRUE]
    BY WalkedDef DEF TypeOK
  <2>2. \A p \in Policies \cap Touched : policies[p] = Seeded[p]
    BY <1>2 DEF Seeded, Ids
  <2>3. Sofar(n - 1)' = Sofar(0)
    BY <1>1 DEF Sofar, Seeded, Touched
  <2> QED
    BY <1>1, <2>1, <2>2, <2>3, WalkSame DEF Foreseen
<1> QED
  BY <1>4, <1>5, <1>6, <1>7 DEF ZoneInv

LEMMA ApplyDoneStep == TypeOK /\ ZoneInv /\ ApplyDone => ZoneInv'
<1> SUFFICES ASSUME TypeOK, ZoneInv, ApplyDone PROVE ZoneInv'
  OBVIOUS
<1>1. /\ UNCHANGED <<plan, pre, zones, policies, made, check, whole, trusted, n, fault, meddled>>
      /\ pc = "applying" /\ pc' = "returned" /\ n = Len(plan) + 1 /\ fault = "none"
  BY DEF ApplyDone, controller, validation, ZoneInv, Placed
<1>2. \A m : Sofar(m)' = Sofar(m)
  BY <1>1, WalkSame
<1>3. Intact' /\ Placed' /\ Matched' /\ ValidSetRuns'
  BY <1>1 DEF ZoneInv, Intact, Resolvable, Placed, Matched, ValidSetRuns
<1>4. Verdict'
  BY <1>1, <1>2, WalkSame DEF ZoneInv, Verdict, Referenced
<1>5. Ended'
  <2>1. n - 1 = Len(plan)
    BY <1>1, PlanShape DEF TypeOK
  <2>2. ~meddled => Sofar(n - 1).ok
    BY <1>1 DEF ZoneInv, Matched, Foreseen
  <2>3. Sofar(Len(plan))' = Sofar(Len(plan))
    BY <1>1 DEF Sofar, Seeded, Touched
  <2> QED
    BY <1>1, <2>1, <2>2, <2>3 DEF Ended
<1> QED
  BY <1>3, <1>4, <1>5 DEF ZoneInv

\* Others keep policies intact; what they do to zones ends the trust in a verdict,
\* and what they do during an apply is noticed as meddling.
LEMMA DriftStep == TypeOK /\ ZoneInv /\ Drift => ZoneInv'
<1> SUFFICES ASSUME TypeOK, ZoneInv, Drift PROVE ZoneInv'
  OBVIOUS
<1>1. /\ UNCHANGED <<plan, pre, made, check, whole, pc, n, fault>>
      /\ meddled' = (meddled \/ pc = "applying")
  BY DEF Drift, apply
<1>2. \A m : Sofar(m)' = Sofar(m)
  BY <1>1, WalkSame
<1>3. Placed' /\ Matched' /\ Ended'
  BY <1>1, <1>2 DEF ZoneInv, Placed, Matched, Ended
<1>4. CASE /\ \E p \in Policies, r \in Policy \cup {None} :
                /\ r # policies[p] /\ r # None => Resolvable(r)
                /\ policies' = [policies EXCEPT ![p] = r]
           /\ UNCHANGED <<zones, trusted>>
  <2>1. PICK p \in Policies, r \in Policy \cup {None} :
          /\ r # policies[p] /\ r # None => Resolvable(r)
          /\ policies' = [policies EXCEPT ![p] = r]
    BY <1>4
  <2>2. \A q \in Policies : policies'[q] # None => Resolvable(policies'[q])
    BY <2>1 DEF ZoneInv, Intact, TypeOK
  <2>3. Intact'
    BY <1>1, <1>4, <2>2 DEF ZoneInv, Intact, Resolvable
  <2>4. Verdict'
    BY <1>1, <1>2, <1>4, WalkSame DEF ZoneInv, Verdict, Referenced
  <2>5. ValidSetRuns'
    BY <1>1, <1>4 DEF ZoneInv, ValidSetRuns
  <2> QED
    BY <1>3, <2>3, <2>4, <2>5 DEF ZoneInv
<1>5. CASE /\ \E z \in Zones :
                zones' = IF z \in zones /\ ~OwnUsers(z) /\ ~OtherUsers(z)
                         THEN zones \ {z} ELSE zones \cup {z}
           /\ trusted' = FALSE /\ UNCHANGED policies
  <2>1. PICK z \in Zones :
          zones' = IF z \in zones /\ ~OwnUsers(z) /\ ~OtherUsers(z)
                   THEN zones \ {z} ELSE zones \cup {z}
    BY <1>5
  <2>2. ASSUME NEW r, Resolvable(r), zones \ zones' # {} => ~Names(r, {z})
        PROVE  Resolvable(r)'
    BY <2>1, <2>2 DEF Resolvable, Names
  <2>3. /\ \A p \in Policies : policies[p] # None /\ zones \ zones' # {} => ~Names(policies[p], {z})
        /\ \A r \in made : zones \ zones' # {} => ~Names(r, {z})
    BY <2>1 DEF OwnUsers, OtherUsers
  <2>4. Intact'
    BY <1>1, <1>5, <2>2, <2>3 DEF ZoneInv, Intact, Resolvable
  <2>5. Verdict'
    BY <1>1, <1>5, WalkSame DEF ZoneInv, Verdict
  <2>6. ValidSetRuns'
    BY <1>5 DEF ValidSetRuns
  <2> QED
    BY <1>3, <2>4, <2>5, <2>6 DEF ZoneInv
<1> QED
  BY <1>4, <1>5 DEF Drift

\* Every step keeps the invariant.
LEMMA ZoneStep == TypeOK /\ ZoneInv /\ [Next]_vars => ZoneInv'
<1> SUFFICES ASSUME TypeOK, ZoneInv, [Next]_vars PROVE ZoneInv'
  OBVIOUS
<1>1. CASE UNCHANGED vars
  <2>1. UNCHANGED <<plan, pre, zones, policies, made, check, whole, trusted, pc, n, fault, meddled>>
    BY <1>1 DEF vars, controller, validation, apply
  <2>2. \A m : Sofar(m)' = Sofar(m)
    BY <2>1, WalkSame
  <2>3. Intact' /\ Placed' /\ ValidSetRuns' /\ Ended'
    BY <2>1, <2>2 DEF ZoneInv, Intact, Resolvable, Placed, ValidSetRuns, Ended
  <2>4. Verdict' /\ Matched'
    BY <2>1, <2>2, WalkSame DEF ZoneInv, Verdict, Matched, Foreseen, Referenced
  <2> QED
    BY <2>3, <2>4 DEF ZoneInv
<1> QED
  BY <1>1, ValidateStep, ValidateReferencesStep, ApplyBeginStep, ApplyOneStep,
     ApplyDoneStep, DriftStep DEF Next

-----------------------------------------------------------------------------
(* The theorems                                                             *)

\* A change set found valid is never stopped half way by a firewall zone, if no
\* zone came or went since and others leave the apply alone: for plans of any
\* length, whatever was moved before the apply began.
THEOREM ValidHolds == Spec => []ValidSetRuns
<1>1. TypeOK /\ ZoneInv => ValidSetRuns
  BY DEF ZoneInv
<1> QED
  BY <1>1, InitTyped, InitSafe, TypeStep, ZoneStep, PTL DEF Spec

\* A change set refused for its zones would have failed: check_zone_deletions
\* refuses no plan of any length that applies to the end.
THEOREM RefusedSetsFail == Spec => []RefusedSetFails
<1>1. TypeOK /\ ZoneInv => RefusedSetFails
  BY RefusedHolds
<1> QED
  BY <1>1, InitTyped, InitSafe, TypeStep, ZoneStep, PTL DEF Spec

=============================================================================
