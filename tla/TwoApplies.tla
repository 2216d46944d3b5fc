------------------------------ MODULE TwoApplies ------------------------------
(***************************************************************************)
(* Two change sets applied to one controller at the same time.  A claim    *)
(* excludes a second apply of the same change set, not one of another: the *)
(* two loops of changeset/apply.rs share the controller and nothing else,  *)
(* and to each the other is one more administrator.                        *)
(***************************************************************************)
EXTENDS SequentialApply

CONSTANTS
    Pairs,      \* bound: the plans that are staged together
    Apart,      \* bound: those of which the second is not applied meanwhile
    MaxDrifts   \* bound: edits by other administrators

ASSUME BoundsAssumption ==
    /\ Pairs \subseteq Plans \X Plans /\ Apart \subseteq Pairs
    /\ MaxDrifts \in [Pairs -> Nat]

VARIABLES
    plan2, pre2, flying2, pc2, i2, done2, body2, created2, rollbackFailures2, mismatch2,
    state2, origin2, home2, mine2, stale2, meddled2, lost2, wrote2,
    drifts      \* edits by other administrators so far

O == INSTANCE SequentialApply
       WITH plan <- plan2, pre <- pre2, flying <- flying2, pc <- pc2, i <- i2, done <- done2,
            body <- body2, created <- created2, mismatch <- mismatch2,
            rollbackFailures <- rollbackFailures2, state <- state2,
            origin <- origin2, home <- home2, mine <- mine2, stale <- stale2,
            meddled <- meddled2, lost <- lost2, wrote <- wrote2

both == <<vars, O!vars, drifts>>

\* Both change sets have been staged.
InitBoth ==
    /\ drifts = 0 /\ Init
    /\ \E pair \in Pairs : plan = pair[1] /\ plan2 = pair[2]
    /\ pre2 = pre /\ O!Init

ThisApply == ApplyStep /\ O!Bystands /\ UNCHANGED drifts

OtherApply ==
    /\ <<plan, plan2>> \notin Apart
    /\ O!ApplyStep /\ Bystands /\ UNCHANGED drifts

\* A call of either that had failed is carried out late.
ThisLate == Late /\ O!Bystands /\ UNCHANGED drifts
OtherLate == O!Late /\ Bystands /\ UNCHANGED drifts

\* Another administrator.
Drift ==
    /\ drifts < MaxDrifts[<<plan, plan2>>] /\ ~(pc = "returned" /\ pc2 = "returned")
    /\ OthersWrite /\ Bystands /\ O!Bystands
    /\ drifts' = drifts + 1

Applies == ThisApply \/ OtherApply \/ ThisLate \/ OtherLate

NextBoth == Applies \/ Drift

\* Every request of the first apply ends within the client's timeout; the second
\* may stop anywhere.
SpecBoth == InitBoth /\ [][NextBoth]_both /\ WF_both(ThisApply)

-----------------------------------------------------------------------------
(* Properties                                                               *)

\* Two change sets that name no common resource do not get into each other's
\* way: not when both create, nor when one deletes what it created, nor when one
\* re-creates under a new id what it had deleted, nor when a call that had failed is
\* carried out late.  What each promises of an
\* undisturbed controller, it then promises next to the other.
Isolation ==
    [][Touched \cap O!Touched = {} /\ Applies
         => UNCHANGED <<meddled, meddled2>>]_both

=============================================================================
