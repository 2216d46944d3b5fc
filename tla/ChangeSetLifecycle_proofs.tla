---------------------- MODULE ChangeSetLifecycle_proofs ----------------------
(***************************************************************************)
(* Proofs about the change-set handlers, for every set of principals,      *)
(* controllers, plans and concurrent calls, every approval window, and any *)
(* number of ids, clock ticks, restarts and reloads of the tokens: what    *)
(* they keep safe, and that they implement the abstract module ChangeSet.  *)
(***************************************************************************)
EXTENDS ChangeSetLifecycle, TLAPS, FiniteSetTheorems

USE DEF At, PlanLockFree, Endorsed, Claimable, Admitted

-----------------------------------------------------------------------------
(* What a call in flight carries, by where it is suspended                  *)


\* The steps of a claim on its way to a verdict.
Advances(k) == ApplyIntent(k) \/ ApplyMatches(k) \/ ApplyStale(k) \/ ApplyWritten(k)

\* A call suspended at a point carries the record of that point.
LEMMA CallShape ==
    ASSUME TypeOK, NEW k \in Calls
    PROVE  /\ At(k, "creating") => call[k] \in CreatingCall
           /\ At(k, "capturing") => call[k] \in CapturingCall
           /\ At(k, "storing") => call[k] \in StoringCall
           /\ At(k, "publishing") => call[k] \in PublishingCall
           /\ At(k, "approving") => call[k] \in ApprovingCall
           /\ At(k, "claiming") => call[k] \in ClaimingCall
           /\ At(k, "claimed") => call[k] \in ClaimedCall
           /\ At(k, "checking") => call[k] \in AdmittedCall
           /\ At(k, "writing") => call[k] \in AdmittedCall
           /\ At(k, "settling") => call[k] \in SettlingCall
<1>1. call[k] \in Call \cup {None}
  BY DEF TypeOK
<1> QED
  BY <1>1, NoneAssumption DEF Call, CreatingCall, CapturingCall, StoringCall,
     PublishingCall, ApprovingCall, ClaimingCall, ClaimedCall, AdmittedCall,
     SettlingCall

\* Retiring a record changes its state and nothing else.
LEMMA RetireType ==
    ASSUME NEW r \in ChangeSetRecord \cup {None}
    PROVE  /\ Retire(r) \in ChangeSetRecord \cup {None}
           /\ r = None <=> Retire(r) = None
  BY NoneAssumption DEF Retire, ChangeSetRecord, ChangeSetState

\* A sweep keeps every record where it is.
LEMMA SweepType ==
    ASSUME sets \in [Ids -> ChangeSetRecord \cup {None}], NEW swept \in Sweeps
    PROVE  swept \in [Ids -> ChangeSetRecord \cup {None}]
<1>1. PICK taken \in SUBSET {i \in Ids : sets[i] # None /\ SetLapsed(sets[i])
                                         /\ sets[i].state = "Approved"} :
        swept = [i \in Ids |-> IF i \in taken THEN [sets[i] EXCEPT !.state = "Expired"]
                               ELSE Retire(sets[i])]
  BY DEF Sweeps
<1>2. ASSUME NEW i \in taken
      PROVE  [sets[i] EXCEPT !.state = "Expired"] \in ChangeSetRecord
  BY DEF ChangeSetRecord, ChangeSetState
<1>3. ASSUME NEW i \in Ids PROVE Retire(sets[i]) \in ChangeSetRecord \cup {None}
  BY RetireType
<1> QED
  BY <1>1, <1>2, <1>3

\* The digest of a stored record is a digest.
LEMMA DigestType == ASSUME NEW r \in ChangeSetRecord PROVE DigestOf(r) \in Digest
  BY DEF ChangeSetRecord, DigestOf, Digest

\* The bearer layer makes callers.
LEMMA CallerType == ASSUME TypeOK, NEW p \in Principals PROVE CallerOf(p) \in Caller
  BY GrantsAssumption DEF TypeOK, CallerOf, Caller

-----------------------------------------------------------------------------
(* Type correctness                                                         *)

\* Every action of the handlers keeps every variable in its type.
LEMMA TypeStep == TypeOK /\ [Next]_vars => TypeOK'
<1> SUFFICES ASSUME TypeOK, [Next]_vars PROVE TypeOK'
  OBVIOUS
<1> USE BoundsAssumption, FlagsAssumption
<1>1. ASSUME NEW k \in Calls, CreateHold(k) PROVE TypeOK'
  <2>1. call[k] \in CreatingCall
    BY <1>1, CallShape DEF CreateHold
  <2>2. SweptDrafts \in [Ids -> Draft \cup {None}]
    BY DEF SweptDrafts, TypeOK
  <2>3. drafts' \in [Ids -> Draft \cup {None}] /\ minted' \in 0 .. MaxMinted
    <3>1. CASE UNCHANGED minted /\ drafts' = SweptDrafts
      BY <3>1, <2>2 DEF TypeOK
    <3>2. CASE /\ minted # MaxMinted
               /\ minted' = minted + 1
               /\ drafts' = [SweptDrafts EXCEPT ![minted + 1] =
                    [owner |-> call[k].who, controller |-> call[k].controller,
                     created |-> call[k].created]]
      BY <3>2, <2>1, <2>2 DEF TypeOK, CreatingCall, Draft, Ids
    <3> QED
      BY <1>1, <3>1, <3>2 DEF CreateHold
  <2>4. call' \in [Calls -> Call \cup {None}]
    BY <1>1 DEF CreateHold, Return, TypeOK
  <2> QED
    BY <1>1, <2>3, <2>4 DEF CreateHold, TypeOK
<1>2. ASSUME NEW k \in Calls, StageCaptured(k) PROVE TypeOK'
  <2>1. call[k] \in CapturingCall
    BY <1>2, CallShape DEF StageCaptured
  <2>2. now + ApprovalTtl \in Deadlines
    BY DEF TypeOK, Instants, Deadlines
  <2>3. [pc |-> "storing", id |-> call[k].id, rec |->
             [owner |-> call[k].owner, device |-> call[k].device, plan |-> call[k].plan,
              state |-> "Planned", approver |-> None, waived |-> FALSE,
              expires |-> now + ApprovalTtl, stager |-> call[k].who]] \in StoringCall
    BY <2>1, <2>2 DEF CapturingCall, StoringCall, ChangeSetRecord, ChangeSetState
  <2>4. call' \in [Calls -> Call \cup {None}]
    BY <1>2, <2>3 DEF StageCaptured, Continue, TypeOK, Call
  <2> QED
    BY <1>2, <2>4 DEF StageCaptured, TypeOK
<1>3. ASSUME NEW k \in Calls, StageRefused(k) PROVE TypeOK'
  BY <1>3 DEF StageRefused, Return, TypeOK
<1>4. ASSUME NEW k \in Calls, StageInsert(k) PROVE TypeOK'
  <2>1. call[k] \in StoringCall
    BY <1>4, CallShape DEF StageInsert
  <2>2. call[k].id \in Ids /\ call[k].rec \in ChangeSetRecord
    BY <2>1 DEF StoringCall
  <2>3. PICK swept \in Sweeps :
          \/ /\ sets' = [swept EXCEPT ![call[k].id] = call[k].rec]
             /\ planLock' = k
             /\ Continue(k, [pc |-> "publishing", id |-> call[k].id,
                             digest |-> DigestOf(call[k].rec)])
          \/ sets' = swept /\ Return(k) /\ UNCHANGED planLock
    BY <1>4 DEF StageInsert
  <2>4. swept \in [Ids -> ChangeSetRecord \cup {None}]
    BY SweepType DEF TypeOK
  <2>5. [pc |-> "publishing", id |-> call[k].id, digest |-> DigestOf(call[k].rec)]
          \in PublishingCall
    BY <2>2, DigestType DEF PublishingCall
  <2>6. sets' \in [Ids -> ChangeSetRecord \cup {None}] /\ planLock' \in Calls \cup {None}
    BY <2>2, <2>3, <2>4 DEF TypeOK
  <2>7. call' \in [Calls -> Call \cup {None}]
    BY <2>3, <2>5 DEF Continue, Return, TypeOK, Call
  <2> QED
    BY <1>4, <2>6, <2>7 DEF StageInsert, TypeOK
<1>5. ASSUME NEW k \in Calls, StagePublish(k) PROVE TypeOK'
  <2>1. call[k] \in PublishingCall
    BY <1>5, CallShape DEF StagePublish
  <2> QED
    BY <1>5, <2>1 DEF StagePublish, Return, TypeOK, PublishingCall, Proposal
<1>6. ASSUME NEW k \in Calls, ApproveCommit(k) PROVE TypeOK'
  <2>1. call[k] \in ApprovingCall
    BY <1>6, CallShape DEF ApproveCommit
  <2> DEFINE i == call[k].id
             r == sets[i]
  <2>2. i \in Ids /\ call[k].who \in Caller
    BY <2>1 DEF ApprovingCall
  <2>3. CASE Approvable(r, call[k].who, call[k].digest)
             /\ sets' = [sets EXCEPT ![i] =
                   IF call[k].who.name = call[k].digest.owner
                   THEN [r EXCEPT !.state = "Approved", !.waived = TRUE]
                   ELSE [r EXCEPT !.state = "Approved", !.approver = call[k].who]]
             /\ attested' = [attested EXCEPT ![i] = proposal[i]]
    <3>1. r \in ChangeSetRecord
      BY <2>2, <2>3 DEF Approvable, TypeOK
    <3>2. /\ [r EXCEPT !.state = "Approved", !.waived = TRUE] \in ChangeSetRecord
          /\ [r EXCEPT !.state = "Approved", !.approver = call[k].who] \in ChangeSetRecord
      BY <3>1, <2>2 DEF ChangeSetRecord, ChangeSetState
    <3>3. sets' \in [Ids -> ChangeSetRecord \cup {None}]
      BY <2>2, <2>3, <3>2 DEF TypeOK
    <3> QED
      BY <1>6, <2>2, <2>3, <3>3 DEF ApproveCommit, Return, TypeOK
  <2>4. CASE UNCHANGED <<sets, attested>>
    BY <1>6, <2>4 DEF ApproveCommit, Return, TypeOK
  <2> QED
    BY <1>6, <2>3, <2>4 DEF ApproveCommit
<1>7. ASSUME NEW k \in Calls, ApplyClaim(k) PROVE TypeOK'
  <2>1. call[k] \in ClaimingCall
    BY <1>7, CallShape DEF ApplyClaim
  <2> DEFINE i == call[k].id
             claimed == [sets[i] EXCEPT !.state = "Applying"]
  <2>2. i \in Ids
    BY <2>1 DEF ClaimingCall
  <2>3. CASE /\ sets[i] # None
             /\ sets' = [sets EXCEPT ![i] = claimed]
             /\ Continue(k, [pc |-> "claimed", id |-> i, rec |-> claimed])
    <3>1. claimed \in ChangeSetRecord
      <4>1. sets[i] \in ChangeSetRecord
        BY <2>2, <2>3 DEF TypeOK
      <4> QED
        BY <4>1 DEF ChangeSetRecord, ChangeSetState
    <3>2. [pc |-> "claimed", id |-> i, rec |-> claimed] \in ClaimedCall
      BY <2>2, <3>1 DEF ClaimedCall
    <3>3. sets' \in [Ids -> ChangeSetRecord \cup {None}]
      BY <2>2, <2>3, <3>1 DEF TypeOK
    <3>4. call' \in [Calls -> Call \cup {None}]
      BY <2>3, <3>2 DEF Continue, TypeOK, Call
    <3> QED
      BY <1>7, <3>3, <3>4 DEF ApplyClaim, TypeOK
  <2>4. CASE Return(k) /\ UNCHANGED sets
    BY <1>7, <2>4 DEF ApplyClaim, Return, TypeOK
  <2> QED
    BY <1>7, <2>3, <2>4 DEF ApplyClaim
<1>8. ASSUME NEW k \in Calls, NEW rec \in ChangeSetRecord, NEW i \in Ids,
             NEW state \in ChangeSetState, Settle(i, rec, state)
      PROVE  sets' \in [Ids -> ChangeSetRecord \cup {None}]
  <2>1. [rec EXCEPT !.state = state] \in ChangeSetRecord
    BY <1>8 DEF ChangeSetRecord
  <2> QED
    BY <1>8, <2>1 DEF Settle, TypeOK
<1>9. ASSUME NEW k \in Calls, ApplyAbandon(k) PROVE TypeOK'
  <2>1. call[k] \in ClaimedCall
    BY <1>9, CallShape DEF ApplyAbandon
  <2>2. sets' \in [Ids -> ChangeSetRecord \cup {None}]
    <3>1. call[k].rec \in ChangeSetRecord /\ call[k].id \in Ids
      BY <2>1 DEF ClaimedCall
    <3>2. "Failed" \in ChangeSetState
      BY DEF ChangeSetState
    <3> QED
      BY <1>8, <1>9, <3>1, <3>2 DEF ApplyAbandon
  <2> QED
    BY <1>9, <2>2 DEF ApplyAbandon, Return, TypeOK
<1>10. ASSUME NEW k \in Calls, ApplyIntent(k) PROVE TypeOK'
  <2>1. call[k] \in ClaimedCall
    BY <1>10, CallShape DEF ApplyIntent
  <2>2. [pc |-> "checking", id |-> call[k].id, rec |-> call[k].rec, admitted |-> now]
          \in AdmittedCall
    BY <2>1 DEF ClaimedCall, AdmittedCall, TypeOK
  <2>3. call' \in [Calls -> Call \cup {None}]
    BY <1>10, <2>2 DEF ApplyIntent, Continue, TypeOK, Call
  <2>4. intents' \in [Ids -> Nat]
    BY <1>10, <2>1 DEF ApplyIntent, TypeOK, ClaimedCall
  <2> QED
    BY <1>10, <2>3, <2>4 DEF ApplyIntent, TypeOK
<1>11. ASSUME NEW k \in Calls, ApplyWritten(k) PROVE TypeOK'
  <2>1. call[k] \in AdmittedCall
    BY <1>11, CallShape DEF ApplyWritten
  <2>2. PICK ok \in BOOLEAN :
          Continue(k, [pc |-> "settling", id |-> call[k].id, rec |-> call[k].rec,
                       admitted |-> call[k].admitted, succeeded |-> ok])
    BY <1>11 DEF ApplyWritten
  <2>3. [pc |-> "settling", id |-> call[k].id, rec |-> call[k].rec,
         admitted |-> call[k].admitted, succeeded |-> ok] \in SettlingCall
    BY <2>1 DEF AdmittedCall, SettlingCall
  <2>4. call' \in [Calls -> Call \cup {None}]
    BY <2>2, <2>3 DEF Continue, TypeOK, Call
  <2> QED
    BY <1>11, <2>4 DEF ApplyWritten, TypeOK
<1>12. ASSUME NEW k \in Calls, ApplySettle(k) PROVE TypeOK'
  <2>1. call[k] \in SettlingCall
    BY <1>12, CallShape DEF ApplySettle
  <2>2. sets' \in [Ids -> ChangeSetRecord \cup {None}]
    <3>1. call[k].rec \in ChangeSetRecord /\ call[k].id \in Ids
      BY <2>1 DEF SettlingCall
    <3>2. (IF call[k].succeeded THEN "Applied" ELSE "Failed") \in ChangeSetState
      BY DEF ChangeSetState
    <3> QED
      BY <1>8, <1>12, <3>1, <3>2 DEF ApplySettle
  <2> QED
    BY <1>12, <2>2 DEF ApplySettle, Return, TypeOK
<1>13. ASSUME NEW k \in Calls, NEW p \in Principals, NEW c \in Controllers,
              CreateBegin(k, p, c)
       PROVE  TypeOK'
  <2>1. [pc |-> "creating", who |-> p, controller |-> c, created |-> now] \in CreatingCall
    BY DEF CreatingCall, TypeOK
  <2>2. call' \in [Calls -> Call \cup {None}]
    BY <1>13, <2>1 DEF CreateBegin, Begin, TypeOK, Call
  <2> QED
    BY <1>13, <2>2 DEF CreateBegin, TypeOK
<1>14. ASSUME NEW k \in Calls, NEW p \in Principals, NEW c \in Controllers,
              NEW i \in Ids, NEW plan \in Plans, StageBegin(k, p, c, i, plan)
       PROVE  TypeOK'
  <2>1. drafts[i].owner \in Principals
    BY <1>14 DEF StageBegin, TypeOK, Draft
  <2>2. [pc |-> "capturing", who |-> CallerOf(p), id |-> i,
         owner |-> drafts[i].owner, device |-> c, plan |-> plan] \in CapturingCall
    BY <2>1, CallerType DEF CapturingCall, TypeOK
  <2>3. call' \in [Calls -> Call \cup {None}]
    BY <1>14, <2>2 DEF StageBegin, Begin, TypeOK, Call
  <2> QED
    BY <1>14, <2>3 DEF StageBegin, TypeOK
<1>15. ASSUME NEW k \in Calls, NEW p \in Principals, NEW c \in Controllers,
              NEW i \in Ids, ApproveBegin(k, p, c, i)
       PROVE  TypeOK'
  <2>1. DigestOf(sets[i]) \in Digest
    BY <1>15, DigestType DEF ApproveBegin, TypeOK
  <2>2. [pc |-> "approving", who |-> CallerOf(p), id |-> i,
         digest |-> DigestOf(sets[i])] \in ApprovingCall
    BY <2>1, CallerType DEF ApprovingCall
  <2>3. call' \in [Calls -> Call \cup {None}]
    BY <1>15, <2>2 DEF ApproveBegin, Begin, TypeOK, Call
  <2> QED
    BY <1>15, <2>3 DEF ApproveBegin, TypeOK
<1>16. ASSUME NEW k \in Calls, NEW p \in Principals, NEW c \in Controllers,
              NEW i \in Ids, ApplyBegin(k, p, c, i)
       PROVE  TypeOK'
  <2>1. Retire(sets[i]) \in ChangeSetRecord \cup {None}
    BY RetireType DEF TypeOK
  <2>2. [pc |-> "claiming", id |-> i, device |-> c] \in ClaimingCall
    BY DEF ClaimingCall
  <2>3. sets' \in [Ids -> ChangeSetRecord \cup {None}]
    BY <1>16, <2>1 DEF ApplyBegin, TypeOK
  <2>4. call' \in [Calls -> Call \cup {None}]
    BY <1>16, <2>2 DEF ApplyBegin, Begin, TypeOK, Call
  <2> QED
    BY <1>16, <2>3, <2>4 DEF ApplyBegin, TypeOK
<1>17. ASSUME NEW p \in Principals, NEW c \in Controllers, NEW i \in Ids,
              LapseDraft(p, c, i) \/ GetChangeSet(p, c, i)
       PROVE  TypeOK'
  <2>1. Retire(sets[i]) \in ChangeSetRecord \cup {None}
    BY RetireType DEF TypeOK
  <2> QED
    BY <1>17, <2>1 DEF LapseDraft, GetChangeSet, TypeOK
<1>18. CASE Tick \/ ReloadTokens
  BY <1>18 DEF Tick, ReloadTokens, TypeOK, Instants
<1>19. CASE Restart
  BY <1>19 DEF Restart, TypeOK, Proposal
<1>20. CASE UNCHANGED vars
  BY <1>20 DEF vars, TypeOK
<1>21. ASSUME NEW k \in Calls, ApplyMatches(k) PROVE TypeOK'
  <2>1. call[k] \in AdmittedCall
    BY <1>21, CallShape DEF ApplyMatches
  <2>2. [call[k] EXCEPT !.pc = "writing"] \in AdmittedCall
    BY <2>1 DEF AdmittedCall
  <2>3. call' \in [Calls -> Call \cup {None}]
    BY <1>21, <2>2 DEF ApplyMatches, Continue, TypeOK, Call
  <2> QED
    BY <1>21, <2>3 DEF ApplyMatches, TypeOK
<1>22. ASSUME NEW k \in Calls, ApplyStale(k) PROVE TypeOK'
  <2>1. call[k] \in AdmittedCall
    BY <1>22, CallShape DEF ApplyStale
  <2>2. [pc |-> "settling", id |-> call[k].id, rec |-> call[k].rec,
         admitted |-> call[k].admitted, succeeded |-> FALSE] \in SettlingCall
    BY <2>1 DEF AdmittedCall, SettlingCall
  <2>3. call' \in [Calls -> Call \cup {None}]
    BY <1>22, <2>2 DEF ApplyStale, Continue, TypeOK, Call
  <2> QED
    BY <1>22, <2>3 DEF ApplyStale, TypeOK
<1> QED
  BY <1>1, <1>2, <1>3, <1>4, <1>5, <1>6, <1>7, <1>9, <1>10, <1>11, <1>12, <1>13,
     <1>14, <1>15, <1>16, <1>17, <1>18, <1>19, <1>20, <1>21, <1>22 DEF Next, Resume

\* Every variable of the change-set handlers stays in its type: what a handler
\* finds after an await is always a record of the shape it left.
THEOREM TypeCorrect == Spec => []TypeOK
<1>1. Init => TypeOK
  BY BoundsAssumption DEF Init, TypeOK, Instants, Proposal
<1> QED
  BY <1>1, TypeStep, PTL DEF Spec

-----------------------------------------------------------------------------
(* What the coordinator's sweeps may do to a record                         *)

\* A record is left alone or, while it is pending, expires.
KeptOrExpired(r, s) ==
    \/ s = r
    \/ /\ r \in ChangeSetRecord /\ r.state \in {"Planned", "Approved"}
       /\ s \in ChangeSetRecord /\ s = [r EXCEPT !.state = "Expired"]

\* change_set_status keeps or expires a record.
LEMMA RetireEffect ==
    ASSUME NEW r \in ChangeSetRecord \cup {None}
    PROVE  KeptOrExpired(r, Retire(r))
  BY RetireType DEF Retire, KeptOrExpired, ChangeSetRecord, ChangeSetState

\* So does the sweep of insert_change_set, with every record.
LEMMA SweepEffect ==
    ASSUME sets \in [Ids -> ChangeSetRecord \cup {None}], NEW swept \in Sweeps,
           NEW i \in Ids
    PROVE  KeptOrExpired(sets[i], swept[i])
<1>1. PICK taken \in SUBSET {j \in Ids : sets[j] # None /\ SetLapsed(sets[j])
                                         /\ sets[j].state = "Approved"} :
        swept = [j \in Ids |-> IF j \in taken THEN [sets[j] EXCEPT !.state = "Expired"]
                               ELSE Retire(sets[j])]
  BY DEF Sweeps
<1>2. CASE i \in taken
  BY <1>1, <1>2 DEF KeptOrExpired, ChangeSetRecord, ChangeSetState
<1>3. CASE i \notin taken
  BY <1>1, <1>3, RetireEffect
<1> QED
  BY <1>2, <1>3

\* An expired record differs from the pending one in its state only.
LEMMA KeptFields ==
    ASSUME NEW r \in ChangeSetRecord \cup {None}, NEW s, KeptOrExpired(r, s)
    PROVE  /\ s \in ChangeSetRecord \cup {None}
           /\ s = None <=> r = None
           /\ r # None => /\ s.owner = r.owner /\ s.device = r.device
                          /\ s.plan = r.plan /\ s.stager = r.stager
                          /\ s.approver = r.approver /\ s.waived = r.waived
                          /\ s.expires = r.expires
                          /\ \/ s.state = r.state
                             \/ s.state = "Expired" /\ r.state \in {"Planned", "Approved"}
                          /\ DigestOf(s) = DigestOf(r)
<1>1. CASE s = r
  BY <1>1
<1>2. CASE r \in ChangeSetRecord /\ s \in ChangeSetRecord
           /\ r.state \in {"Planned", "Approved"} /\ s = [r EXCEPT !.state = "Expired"]
  <2>1. r # None /\ s # None
    BY <1>2, NoneAssumption
  <2> QED
    BY <1>2, <2>1 DEF ChangeSetRecord, DigestOf
<1> QED
  BY <1>1, <1>2 DEF KeptOrExpired

-----------------------------------------------------------------------------
(* What the writes of the store do                                          *)

\* insert_change_set adds the staged record under an id that has none, or
\* refuses; either way every other record is kept or expires.
LEMMA InsertEffect ==
    ASSUME TypeOK, NEW k \in Calls, StageInsert(k)
    PROVE  /\ planLock = None
           /\ call[k] \in StoringCall
           /\ \/ /\ sets[call[k].id] = None /\ sets'[call[k].id] = call[k].rec
                 /\ \A i \in Ids \ {call[k].id} : KeptOrExpired(sets[i], sets'[i])
                 /\ planLock' = k
                 /\ call' = [call EXCEPT ![k] = [pc |-> "publishing", id |-> call[k].id,
                                                digest |-> DigestOf(call[k].rec)]]
              \/ /\ \A i \in Ids : KeptOrExpired(sets[i], sets'[i])
                 /\ planLock' = None
                 /\ call' = [call EXCEPT ![k] = None]
<1>1. call[k] \in StoringCall /\ planLock = None
  BY CallShape DEF StageInsert
<1>2. call[k].id \in Ids
  BY <1>1 DEF StoringCall
<1>3. PICK swept \in Sweeps :
        \/ /\ swept[call[k].id] = None
           /\ sets' = [swept EXCEPT ![call[k].id] = call[k].rec]
           /\ planLock' = k
           /\ Continue(k, [pc |-> "publishing", id |-> call[k].id,
                           digest |-> DigestOf(call[k].rec)])
        \/ sets' = swept /\ Return(k) /\ UNCHANGED planLock
  BY DEF StageInsert
<1>4. swept \in [Ids -> ChangeSetRecord \cup {None}]
  BY SweepType DEF TypeOK
<1>5. \A i \in Ids : KeptOrExpired(sets[i], swept[i])
  BY SweepEffect DEF TypeOK
<1>6. sets[call[k].id] = None <=> swept[call[k].id] = None
  BY <1>2, <1>5, KeptFields DEF TypeOK
<1> QED
  BY <1>1, <1>2, <1>3, <1>4, <1>5, <1>6 DEF Continue, Return

\* A settlement replaces the stored record by the claimed one with its verdict,
\* or leaves it.
LEMMA SettleEffect ==
    ASSUME TypeOK, NEW k \in Calls, ApplyAbandon(k) \/ ApplySettle(k)
    PROVE  /\ Claims(k) /\ call[k].id \in Ids /\ call[k].rec \in ChangeSetRecord
           /\ call' = [call EXCEPT ![k] = None]
           /\ \A j \in Ids \ {call[k].id} : sets'[j] = sets[j]
           /\ \/ sets'[call[k].id] = sets[call[k].id]
              \/ /\ sets'[call[k].id] \in ChangeSetRecord
                 /\ \E state \in {"Applied", "Failed"} :
                      sets'[call[k].id] = [call[k].rec EXCEPT !.state = state]
<1>1. Claims(k) /\ call[k].id \in Ids /\ call[k].rec \in ChangeSetRecord
  BY CallShape DEF ApplyAbandon, ApplySettle, Claims, ClaimedCall, SettlingCall
<1>2. PICK state \in {"Applied", "Failed"} :
        \/ sets' = [sets EXCEPT ![call[k].id] = [call[k].rec EXCEPT !.state = state]]
        \/ UNCHANGED sets
  <2>1. CASE ApplyAbandon(k)
    BY <2>1 DEF ApplyAbandon, Settle
  <2>2. CASE ApplySettle(k)
    BY <2>2 DEF ApplySettle, Settle
  <2> QED
    BY <2>1, <2>2
<1>3. [call[k].rec EXCEPT !.state = state] \in ChangeSetRecord
  BY <1>1 DEF ChangeSetRecord, ChangeSetState
<1>4. call' = [call EXCEPT ![k] = None]
  BY DEF ApplyAbandon, ApplySettle, Return
<1> QED
  BY <1>1, <1>2, <1>3, <1>4 DEF TypeOK

\* change_set_status keeps or expires the record it looks at, and touches no
\* other.
LEMMA StatusEffect ==
    ASSUME TypeOK, NEW i \in Ids, sets' = [sets EXCEPT ![i] = Retire(sets[i])]
    PROVE  \A j \in Ids : KeptOrExpired(sets[j], sets'[j])
<1>1. KeptOrExpired(sets[i], Retire(sets[i]))
  BY RetireEffect DEF TypeOK
<1> QED
  BY <1>1 DEF TypeOK, KeptOrExpired

-----------------------------------------------------------------------------
(* The life of a stored record, step by step                                *)

\* A record keeps everything but its state, and its state only moves forward.
Moves(r, s) ==
    \/ s = r
    \/ r.state \in {"Planned", "Approved"} /\ s = [r EXCEPT !.state = "Expired"]
    \/ r.state = "Approved" /\ s = [r EXCEPT !.state = "Applying"]
    \/ r.state = "Applying" /\ s = [r EXCEPT !.state = "Applied"]
    \/ r.state = "Applying" /\ s = [r EXCEPT !.state = "Failed"]

\* Call k inserts its staged record under id i.
InsertedBy(k, i) ==
    /\ StageInsert(k) /\ call[k] \in StoringCall
    /\ call[k].id = i /\ sets[i] = None /\ sets'[i] = call[k].rec

\* Call k gives record i its consent.
ApprovedBy(k, i) ==
    /\ ApproveCommit(k) /\ call[k] \in ApprovingCall
    /\ call[k].id = i
    /\ Approvable(sets[i], call[k].who, call[k].digest)
    /\ sets'[i] = IF call[k].who.name = call[k].digest.owner
                  THEN [sets[i] EXCEPT !.state = "Approved", !.waived = TRUE]
                  ELSE [sets[i] EXCEPT !.state = "Approved", !.approver = call[k].who]
    /\ attested' = [attested EXCEPT ![i] = proposal[i]]

\* Sweeps move records forward, and conjure none up.
LEMMA KeptMoves ==
    ASSUME NEW r \in ChangeSetRecord \cup {None}, NEW s, KeptOrExpired(r, s), s # None
    PROVE  r # None /\ Moves(r, s)
  BY NoneAssumption, Zenon DEF KeptOrExpired, Moves

\* Every step inserts a record, gives it consent, or moves its state forward.
LEMMA RecordStep ==
    ASSUME TypeOK, ClaimInv, [Next]_vars, NEW i \in Ids, sets'[i] # None
    PROVE  \/ \E k \in Calls : InsertedBy(k, i)
           \/ sets[i] # None /\ \E k \in Calls : ApprovedBy(k, i)
           \/ sets[i] # None /\ Moves(sets[i], sets'[i])
<1>1. ASSUME NEW k \in Calls, StageInsert(k)
      PROVE  InsertedBy(k, i) \/ (sets[i] # None /\ Moves(sets[i], sets'[i]))
  <2>1. CASE call[k].id = i /\ sets[i] = None /\ sets'[i] = call[k].rec
    <3>1. call[k] \in StoringCall
      BY <1>1, InsertEffect
    <3>2. InsertedBy(k, i)
      BY <1>1, <2>1, <3>1, Zenon DEF InsertedBy
    <3> QED
      BY <3>2
  <2>2. CASE KeptOrExpired(sets[i], sets'[i])
    BY <2>2, KeptMoves DEF TypeOK
  <2> QED
    BY <1>1, <2>1, <2>2, InsertEffect
<1>2. ASSUME NEW k \in Calls, ApproveCommit(k)
      PROVE  sets[i] # None /\ (ApprovedBy(k, i) \/ Moves(sets[i], sets'[i]))
  <2>1. call[k] \in ApprovingCall
    BY <1>2, CallShape DEF ApproveCommit
  <2>2. call[k].id \in Ids
    BY <2>1 DEF ApprovingCall
  <2>3. CASE UNCHANGED sets
    BY <2>3 DEF Moves
  <2>4. CASE ~UNCHANGED sets
    <3>1. Approvable(sets[call[k].id], call[k].who, call[k].digest)
      BY <1>2, <2>4 DEF ApproveCommit
    <3>2. sets[call[k].id] # None
      BY <3>1 DEF Approvable
    <3>3. CASE call[k].id = i
      BY <1>2, <2>1, <2>2, <2>4, <3>1, <3>2, <3>3 DEF ApproveCommit, ApprovedBy, TypeOK
    <3>4. CASE call[k].id # i
      BY <1>2, <2>2, <2>4, <3>4 DEF ApproveCommit, Moves, TypeOK
    <3> QED
      BY <3>3, <3>4
  <2> QED
    BY <2>3, <2>4
<1>3. ASSUME NEW k \in Calls, ApplyClaim(k)
      PROVE  sets[i] # None /\ Moves(sets[i], sets'[i])
  <2>1. call[k].id \in Ids
    BY <1>3, CallShape DEF ApplyClaim, ClaimingCall
  <2> QED
    BY <1>3, <2>1 DEF ApplyClaim, Moves, TypeOK
<1>4. ASSUME NEW k \in Calls, ApplyAbandon(k) \/ ApplySettle(k)
      PROVE  sets[i] # None /\ Moves(sets[i], sets'[i])
  <2>1. sets[call[k].id] = call[k].rec /\ call[k].rec.state = "Applying"
    BY <1>4, SettleEffect DEF ClaimInv
  <2>2. call[k].rec # None
    BY <1>4, SettleEffect, NoneAssumption
  <2> QED
    BY <1>4, <2>1, <2>2, SettleEffect DEF Moves
<1>5. ASSUME NEW j \in Ids, sets' = [sets EXCEPT ![j] = Retire(sets[j])]
      PROVE  sets[i] # None /\ Moves(sets[i], sets'[i])
  <2>1. KeptOrExpired(sets[i], sets'[i])
    BY <1>5, StatusEffect
  <2> QED
    BY <2>1, KeptMoves DEF TypeOK
<1>6. ASSUME UNCHANGED sets PROVE sets[i] # None /\ Moves(sets[i], sets'[i])
  BY <1>6 DEF Moves
<1>7. CASE Restart
  BY <1>7 DEF Restart, Moves, TypeOK
<1> QED
  <2>1. ASSUME NEW k \in Calls, Resume(k)
        PROVE  \/ \E l \in Calls : InsertedBy(l, i)
               \/ sets[i] # None /\ \E l \in Calls : ApprovedBy(l, i)
               \/ sets[i] # None /\ Moves(sets[i], sets'[i])
    BY <2>1, <1>1, <1>2, <1>3, <1>4, <1>6 DEF Resume, CreateHold, StageCaptured,
       StageRefused, StagePublish, ApplyIntent, ApplyMatches, ApplyStale, ApplyWritten
  <2>2. ASSUME NEW k \in Calls, NEW p \in Principals, NEW c \in Controllers,
               \/ CreateBegin(k, p, c)
               \/ \E j \in Ids : \/ \E plan \in Plans : StageBegin(k, p, c, j, plan)
                                 \/ ApproveBegin(k, p, c, j)
                                 \/ ApplyBegin(k, p, c, j)
        PROVE  sets[i] # None /\ Moves(sets[i], sets'[i])
    BY <2>2, <1>5, <1>6 DEF CreateBegin, StageBegin, ApproveBegin, ApplyBegin
  <2>3. ASSUME NEW p \in Principals, NEW c \in Controllers, NEW j \in Ids,
               LapseDraft(p, c, j) \/ GetChangeSet(p, c, j)
        PROVE  sets[i] # None /\ Moves(sets[i], sets'[i])
    BY <2>3, <1>5, <1>6 DEF LapseDraft, GetChangeSet
  <2>4. CASE Tick \/ ReloadTokens \/ UNCHANGED vars
    BY <2>4, <1>6 DEF Tick, ReloadTokens, vars
  <2> QED
    BY <2>1, <2>2, <2>3, <2>4, <1>7 DEF Next

\* Moving forward changes a record's state and nothing else.
LEMMA MoveFields ==
    ASSUME NEW r \in ChangeSetRecord, NEW s, Moves(r, s)
    PROVE  /\ s.owner = r.owner /\ s.device = r.device /\ s.plan = r.plan
           /\ s.stager = r.stager /\ s.approver = r.approver /\ s.waived = r.waived
           /\ s.expires = r.expires
           /\ DigestOf(s) = DigestOf(r)
           /\ \/ s = r
              \/ s.state = "Expired" /\ r.state \in {"Planned", "Approved"}
              \/ s.state = "Applying" /\ r.state = "Approved"
              \/ s.state \in {"Applied", "Failed"} /\ r.state = "Applying"
  BY DEF Moves, ChangeSetRecord, DigestOf

\* An approval adds the consent it was given, and nothing else.
LEMMA ApproveFields ==
    ASSUME TypeOK, NEW k \in Calls, NEW i \in Ids, ApprovedBy(k, i)
    PROVE  /\ sets[i] \in ChangeSetRecord /\ sets[i].state = "Planned"
           /\ call[k].who \in Caller /\ call[k].digest = DigestOf(sets[i])
           /\ sets'[i].state = "Approved"
           /\ sets'[i].owner = sets[i].owner /\ sets'[i].device = sets[i].device
           /\ sets'[i].plan = sets[i].plan /\ sets'[i].stager = sets[i].stager
           /\ sets'[i].expires = sets[i].expires
           /\ DigestOf(sets'[i]) = DigestOf(sets[i])
           /\ IF call[k].who.name = sets[i].owner
              THEN /\ sets'[i].waived /\ LabMode
                   /\ sets'[i].approver = sets[i].approver
              ELSE /\ sets'[i].waived = sets[i].waived
                   /\ sets'[i].approver = call[k].who
                   /\ ActorType(call[k].who) = "Human"
<1>1. sets[i] \in ChangeSetRecord
  BY DEF ApprovedBy, Approvable, TypeOK
<1>2. call[k].who \in Caller
  BY DEF ApprovedBy, ApprovingCall
<1>3. call[k].digest = DigestOf(sets[i]) /\ sets[i].state = "Planned"
  BY DEF ApprovedBy, Approvable
<1>4. call[k].digest.owner = sets[i].owner
  BY <1>3 DEF DigestOf
<1>5. IF call[k].who.name = sets[i].owner THEN LabMode ELSE ActorType(call[k].who) = "Human"
  BY <1>4 DEF ApprovedBy, Approvable
<1>6. sets'[i] = IF call[k].who.name = sets[i].owner
                 THEN [sets[i] EXCEPT !.state = "Approved", !.waived = TRUE]
                 ELSE [sets[i] EXCEPT !.state = "Approved", !.approver = call[k].who]
  BY <1>4 DEF ApprovedBy
<1> QED
  BY <1>1, <1>2, <1>3, <1>5, <1>6 DEF ChangeSetRecord, DigestOf

-----------------------------------------------------------------------------
(* The life of a call, step by step                                         *)

\* A call is where it was, or it took the step itself.
LEMMA CallStep ==
    ASSUME TypeOK, [Next]_vars, NEW l \in Calls, call'[l] # None
    PROVE  \/ call'[l] = call[l]
           \/ call'[l].pc \in {"creating", "claiming"}
           \/ /\ call'[l].pc = "capturing"
              /\ \E p \in Principals, c \in Controllers, i \in Ids, plan \in Plans :
                   StageBegin(l, p, c, i, plan)
           \/ call'[l].pc = "storing" /\ StageCaptured(l)
           \/ call'[l].pc = "publishing" /\ StageInsert(l)
           \/ /\ call'[l].pc = "approving"
              /\ \E p \in Principals, c \in Controllers, i \in Ids : ApproveBegin(l, p, c, i)
           \/ call'[l].pc = "claimed" /\ ApplyClaim(l)
           \/ call'[l].pc = "checking" /\ ApplyIntent(l)
           \/ call'[l].pc = "writing" /\ ApplyMatches(l)
           \/ call'[l].pc = "settling" /\ (ApplyStale(l) \/ ApplyWritten(l))
<1>1. ASSUME NEW k \in Calls, Resume(k), k # l PROVE call'[l] = call[l]
  BY <1>1 DEF Resume, CreateHold, StageCaptured, StageRefused, StageInsert,
     StagePublish, ApproveCommit, ApplyClaim, ApplyAbandon, ApplyIntent,
     ApplyMatches, ApplyStale, ApplyWritten, ApplySettle, Continue, Return, TypeOK
<1>2. CASE Resume(l)
  <2>1. CASE StageCaptured(l)
    BY <2>1 DEF StageCaptured, Continue, TypeOK
  <2>2. CASE StageInsert(l)
    BY <2>2, InsertEffect DEF TypeOK
  <2>3. CASE ApplyClaim(l)
    BY <2>3 DEF ApplyClaim, Continue, Return, TypeOK
  <2>4. CASE ApplyIntent(l) \/ ApplyStale(l) \/ ApplyWritten(l)
    BY <2>4 DEF ApplyIntent, ApplyStale, ApplyWritten, Continue, TypeOK
  <2>6. CASE ApplyMatches(l)
    <3>1. call[l] \in AdmittedCall
      BY <2>6, CallShape DEF ApplyMatches
    <3>2. [call[l] EXCEPT !.pc = "writing"].pc = "writing"
      BY <3>1 DEF AdmittedCall
    <3> QED
      BY <2>6, <3>2 DEF ApplyMatches, Continue, TypeOK
  <2>5. CASE \/ CreateHold(l) \/ StageRefused(l) \/ StagePublish(l)
             \/ ApproveCommit(l) \/ ApplyAbandon(l) \/ ApplySettle(l)
    BY <2>5 DEF CreateHold, StageRefused, StagePublish, ApproveCommit,
       ApplyAbandon, ApplySettle, Return, TypeOK
  <2> QED
    BY <1>2, <2>1, <2>2, <2>3, <2>4, <2>5, <2>6 DEF Resume
<1>3. ASSUME NEW k \in Calls, NEW p \in Principals, NEW c \in Controllers, k # l,
             \/ CreateBegin(k, p, c)
             \/ \E i \in Ids : \/ \E plan \in Plans : StageBegin(k, p, c, i, plan)
                               \/ ApproveBegin(k, p, c, i)
                               \/ ApplyBegin(k, p, c, i)
      PROVE  call'[l] = call[l]
  BY <1>3 DEF CreateBegin, StageBegin, ApproveBegin, ApplyBegin, Begin, TypeOK
<1>4. ASSUME NEW p \in Principals, NEW c \in Controllers, NEW i \in Ids,
             LapseDraft(p, c, i) \/ GetChangeSet(p, c, i)
      PROVE  call'[l] = call[l]
  BY <1>4 DEF LapseDraft, GetChangeSet
<1>5. CASE Tick \/ ReloadTokens \/ UNCHANGED vars
  BY <1>5 DEF Tick, ReloadTokens, vars
<1>6. CASE Restart
  BY <1>6 DEF Restart
<1>7. ASSUME NEW p \in Principals, NEW c \in Controllers, CreateBegin(l, p, c)
      PROVE  call'[l].pc = "creating"
  BY <1>7 DEF CreateBegin, Begin, TypeOK
<1>8. ASSUME NEW p \in Principals, NEW c \in Controllers, NEW i \in Ids
      PROVE  /\ \A plan \in Plans : StageBegin(l, p, c, i, plan) => call'[l].pc = "capturing"
             /\ ApproveBegin(l, p, c, i) => call'[l].pc = "approving"
             /\ ApplyBegin(l, p, c, i) => call'[l].pc = "claiming"
  BY <1>8 DEF StageBegin, ApproveBegin, ApplyBegin, Begin, TypeOK
<1> QED
  BY <1>1, <1>2, <1>3, <1>4, <1>5, <1>6, <1>7, <1>8 DEF Next

\* A call in flight stays where it is until it runs on or the process stops.
LEMMA CallKept ==
    ASSUME TypeOK, [Next]_vars, NEW l \in Calls, call[l] # None
    PROVE  call'[l] = call[l] \/ Resume(l) \/ Restart
<1>1. ASSUME NEW k \in Calls, Resume(k), k # l PROVE call'[l] = call[l]
  BY <1>1 DEF Resume, CreateHold, StageCaptured, StageRefused, StageInsert,
     StagePublish, ApproveCommit, ApplyClaim, ApplyAbandon, ApplyIntent,
     ApplyMatches, ApplyStale, ApplyWritten, ApplySettle, Continue, Return, TypeOK
<1>2. ASSUME NEW k \in Calls, NEW p \in Principals, NEW c \in Controllers,
             \/ CreateBegin(k, p, c)
             \/ \E i \in Ids : \/ \E plan \in Plans : StageBegin(k, p, c, i, plan)
                               \/ ApproveBegin(k, p, c, i)
                               \/ ApplyBegin(k, p, c, i)
      PROVE  call'[l] = call[l]
  BY <1>2 DEF CreateBegin, StageBegin, ApproveBegin, ApplyBegin, Begin, TypeOK
<1>3. ASSUME NEW p \in Principals, NEW c \in Controllers, NEW i \in Ids,
             LapseDraft(p, c, i) \/ GetChangeSet(p, c, i)
      PROVE  call'[l] = call[l]
  BY <1>3 DEF LapseDraft, GetChangeSet
<1>4. CASE Tick \/ ReloadTokens \/ UNCHANGED vars
  BY <1>4 DEF Tick, ReloadTokens, vars
<1> QED
  BY <1>1, <1>2, <1>3, <1>4 DEF Next

-----------------------------------------------------------------------------
(* One lemma per part of the inductive invariant                            *)

\* Nothing exists under an id that has not been handed out.
LEMMA MintedStep == TypeOK /\ LifecycleInv /\ [Next]_vars => MintedInv'
<1> SUFFICES ASSUME TypeOK, MintedInv, ClaimInv, [Next]_vars PROVE MintedInv'
  BY DEF LifecycleInv
<1> USE BoundsAssumption, NoneAssumption
<1>1. ASSUME NEW k \in Calls, CreateHold(k) PROVE MintedInv'
  <2>1. \A i \in Ids : drafts'[i] # None => drafts[i] # None \/ i = minted + 1
    BY <1>1 DEF CreateHold, SweptDrafts, TypeOK
  <2>2. \/ minted' = minted /\ \A i \in Ids : drafts'[i] # None => drafts[i] # None
        \/ minted' = minted + 1
    BY <1>1 DEF CreateHold, SweptDrafts, TypeOK
  <2>3. minted \in Nat
    BY DEF TypeOK
  <2>4. \A l \in Calls : Stages(l)' => Stages(l) /\ call'[l] = call[l]
    BY <1>1 DEF CreateHold, Return, Stages, TypeOK
  <2>5. \A l \in Calls : Stages(l) => call[l].id \in Nat
    BY CallShape DEF Stages, CapturingCall, StoringCall, Ids
  <2> QED
    BY <1>1, <2>1, <2>2, <2>3, <2>4, <2>5 DEF CreateHold, MintedInv, Ids
<1>2. ASSUME NEW k \in Calls, StageCaptured(k) PROVE MintedInv'
  BY <1>2, CallShape DEF StageCaptured, Continue, MintedInv, Stages, TypeOK, CapturingCall
<1>3. ASSUME NEW k \in Calls, StageRefused(k) PROVE MintedInv'
  BY <1>3 DEF StageRefused, Return, MintedInv, Stages, TypeOK
<1>4. ASSUME NEW k \in Calls, StageInsert(k) PROVE MintedInv'
  <2>1. \A i \in Ids : sets'[i] # None => sets[i] # None \/ i = call[k].id
    BY <1>4, InsertEffect, KeptFields DEF TypeOK
  <2>2. \A l \in Calls : Stages(l)' => Stages(l) /\ call'[l] = call[l]
    BY <1>4, InsertEffect DEF Stages, TypeOK
  <2>3. call[k].id <= minted
    BY <1>4 DEF StageInsert, MintedInv, Stages
  <2> QED
    BY <1>4, <2>1, <2>2, <2>3 DEF StageInsert, MintedInv
<1>5. ASSUME NEW k \in Calls, StagePublish(k) PROVE MintedInv'
  BY <1>5 DEF StagePublish, Return, MintedInv, Stages, TypeOK
<1>6. ASSUME NEW k \in Calls, ApproveCommit(k) PROVE MintedInv'
  BY <1>6 DEF ApproveCommit, Approvable, Return, MintedInv, Stages, TypeOK
<1>7. ASSUME NEW k \in Calls, ApplyClaim(k) PROVE MintedInv'
  BY <1>7 DEF ApplyClaim, Continue, Return, MintedInv, Stages, TypeOK
<1>8. ASSUME NEW k \in Calls, Claims(k) PROVE call[k].id \in Ids /\ call[k].id <= minted
                                             /\ call[k].rec \in ChangeSetRecord
  <2>1. call[k].id \in Ids /\ call[k].rec \in ChangeSetRecord
    BY <1>8, CallShape DEF Claims, ClaimedCall, AdmittedCall, SettlingCall
  <2> QED
    BY <1>8, <2>1 DEF ClaimInv, MintedInv
<1>9. ASSUME NEW k \in Calls, ApplyAbandon(k) \/ ApplySettle(k) PROVE MintedInv'
  <2>1. Claims(k)
    BY <1>9 DEF ApplyAbandon, ApplySettle, Claims
  <2>2. \A i \in Ids : sets'[i] # None => sets[i] # None \/ i = call[k].id
    BY <1>9, SettleEffect
  <2> QED
    BY <1>8, <1>9, <2>1, <2>2 DEF ApplyAbandon, ApplySettle, Return, MintedInv, Stages, TypeOK
<1>10. ASSUME NEW k \in Calls, ApplyIntent(k) PROVE MintedInv'
  <2>1. Claims(k)
    BY <1>10 DEF ApplyIntent, Claims
  <2> QED
    BY <1>8, <1>10, <2>1 DEF ApplyIntent, Continue, MintedInv, Stages, TypeOK
<1>11. ASSUME NEW k \in Calls, ApplyStale(k) \/ ApplyWritten(k) PROVE MintedInv'
  BY <1>11 DEF ApplyStale, ApplyWritten, Continue, MintedInv, Stages, TypeOK
<1>20. ASSUME NEW k \in Calls, ApplyMatches(k) PROVE MintedInv'
  <2>1. call[k] \in AdmittedCall
    BY <1>20, CallShape DEF ApplyMatches
  <2>2. [call[k] EXCEPT !.pc = "writing"].pc = "writing"
    BY <2>1 DEF AdmittedCall
  <2> QED
    BY <1>20, <2>2 DEF ApplyMatches, Continue, MintedInv, Stages, TypeOK
<1>12. ASSUME NEW k \in Calls, NEW p \in Principals, NEW c \in Controllers,
              CreateBegin(k, p, c)
       PROVE  MintedInv'
  BY <1>12 DEF CreateBegin, Begin, MintedInv, Stages, TypeOK
<1>13. ASSUME NEW k \in Calls, NEW p \in Principals, NEW c \in Controllers,
              NEW i \in Ids, NEW plan \in Plans, StageBegin(k, p, c, i, plan)
       PROVE  MintedInv'
  BY <1>13 DEF StageBegin, Begin, MintedInv, Stages, TypeOK
<1>14. ASSUME NEW k \in Calls, NEW p \in Principals, NEW c \in Controllers,
              NEW i \in Ids, ApproveBegin(k, p, c, i)
       PROVE  MintedInv'
  BY <1>14 DEF ApproveBegin, Begin, MintedInv, Stages, TypeOK
<1>15. ASSUME NEW k \in Calls, NEW p \in Principals, NEW c \in Controllers,
              NEW i \in Ids, ApplyBegin(k, p, c, i)
       PROVE  MintedInv'
  BY <1>15 DEF ApplyBegin, Begin, MintedInv, Stages, TypeOK
<1>16. ASSUME NEW p \in Principals, NEW c \in Controllers, NEW i \in Ids,
              LapseDraft(p, c, i) \/ GetChangeSet(p, c, i)
       PROVE  MintedInv'
  BY <1>16 DEF LapseDraft, GetChangeSet, MintedInv, Stages, TypeOK
<1>17. CASE Tick \/ ReloadTokens
  BY <1>17 DEF Tick, ReloadTokens, MintedInv, Stages
<1>18. CASE Restart
  BY <1>18 DEF Restart, MintedInv, Stages, TypeOK
<1>19. CASE UNCHANGED vars
  BY <1>19 DEF vars, MintedInv, Stages
<1> QED
  BY <1>1, <1>2, <1>3, <1>4, <1>5, <1>6, <1>7, <1>9, <1>10, <1>11, <1>12, <1>13,
     <1>14, <1>15, <1>16, <1>17, <1>18, <1>19, <1>20 DEF Next, Resume

\* Plans are staged, and approvals awaited, within the callers' scopes.
LEMMA ScopeStep == TypeOK /\ LifecycleInv /\ [Next]_vars => ScopeInv'
<1> SUFFICES ASSUME TypeOK, ScopeInv, ClaimInv, [Next]_vars PROVE ScopeInv'
  BY DEF LifecycleInv
<1>1. ASSUME NEW i \in Ids, sets'[i] # None
      PROVE  MayStage(sets'[i].stager, sets'[i].device)
  <2>1. ASSUME NEW k \in Calls, InsertedBy(k, i)
        PROVE  MayStage(sets'[i].stager, sets'[i].device)
    BY <2>1 DEF InsertedBy, StageInsert, ScopeInv
  <2>2. ASSUME NEW k \in Calls, ApprovedBy(k, i), sets[i] # None
        PROVE  MayStage(sets'[i].stager, sets'[i].device)
    BY <2>2, ApproveFields DEF ScopeInv
  <2>3. CASE sets[i] # None /\ Moves(sets[i], sets'[i])
    <3>1. sets[i] \in ChangeSetRecord
      BY <2>3 DEF TypeOK
    <3> QED
      BY <2>3, <3>1, MoveFields DEF ScopeInv
  <2> QED
    BY <1>1, <2>1, <2>2, <2>3, RecordStep
<1>2. ASSUME NEW l \in Calls, At(l, "capturing")'
      PROVE  MayStage(call'[l].who, call'[l].device)
  <2>1. CASE call'[l] = call[l]
    BY <1>2, <2>1 DEF ScopeInv
  <2>2. ASSUME NEW p \in Principals, NEW c \in Controllers, NEW i \in Ids,
               NEW plan \in Plans, StageBegin(l, p, c, i, plan)
        PROVE  MayStage(call'[l].who, call'[l].device)
    BY <2>2 DEF StageBegin, Begin, MayStage, TypeOK
  <2> QED
    BY <1>2, <2>1, <2>2, CallStep
<1>3. ASSUME NEW l \in Calls, At(l, "storing")'
      PROVE  /\ MayStage(call'[l].rec.stager, call'[l].rec.device)
             /\ call'[l].rec.state = "Planned"
             /\ ~Consented(call'[l].rec)
  <2>1. CASE call'[l] = call[l]
    BY <1>3, <2>1 DEF ScopeInv
  <2>2. CASE StageCaptured(l)
    BY <2>2 DEF StageCaptured, Continue, ScopeInv, Consented, TypeOK
  <2> QED
    BY <1>3, <2>1, <2>2, CallStep
<1>4. ASSUME NEW l \in Calls, At(l, "approving")'
      PROVE  MayApprove(call'[l].who, call'[l].digest.device)
  <2>1. CASE call'[l] = call[l]
    BY <1>4, <2>1 DEF ScopeInv
  <2>2. ASSUME NEW p \in Principals, NEW c \in Controllers, NEW i \in Ids,
               ApproveBegin(l, p, c, i)
        PROVE  MayApprove(call'[l].who, call'[l].digest.device)
    BY <2>2 DEF ApproveBegin, Begin, MayApprove, DigestOf, TypeOK
  <2> QED
    BY <1>4, <2>1, <2>2, CallStep
<1> QED
  BY <1>1, <1>2, <1>3, <1>4 DEF ScopeInv

\* A record carries consent exactly from its approval on.
LEMMA ConsentStep == TypeOK /\ LifecycleInv /\ [Next]_vars => ConsentInv'
<1> SUFFICES ASSUME TypeOK, ScopeInv, ConsentInv, ClaimInv, [Next]_vars,
                    NEW i \in Ids, sets'[i] # None
             PROVE  /\ sets'[i].state = "Planned" => ~Consented(sets'[i])
                    /\ sets'[i].state \in {"Approved", "Applying"}
                         => ConsentIsSound(sets'[i])
  BY DEF LifecycleInv, ConsentInv
<1>1. ASSUME NEW k \in Calls, InsertedBy(k, i)
      PROVE  sets'[i].state = "Planned" /\ ~Consented(sets'[i])
  BY <1>1 DEF InsertedBy, StageInsert, ScopeInv
<1>2. ASSUME NEW k \in Calls, ApprovedBy(k, i), sets[i] # None
      PROVE  sets'[i].state = "Approved" /\ ConsentIsSound(sets'[i])
  <2> DEFINE p == call[k].who
             q == sets[i].stager
  <2>1. sets[i].state = "Planned" /\ ~Consented(sets[i])
    BY <1>2, ApproveFields DEF ConsentInv
  <2>2. CASE p.name = sets[i].owner
    BY <1>2, <2>2, ApproveFields DEF ConsentIsSound
  <2>3. CASE p.name # sets[i].owner
    <3>1. ActorType(p) = "Human" /\ p \in Caller
      BY <1>2, <2>3, ApproveFields
    <3>2. MayStage(q, sets[i].device)
      BY <1>2 DEF ScopeInv
    <3>3. MayApprove(p, sets[i].device)
      <4>1. call[k].digest = DigestOf(sets[i])
        BY <1>2, ApproveFields
      <4>2. At(k, "approving")
        BY <1>2 DEF ApprovedBy, ApproveCommit
      <4> QED
        BY <4>1, <4>2 DEF ScopeInv, DigestOf
    <3>4. LabMode \/ Scope(p) # Scope(q)
      <4>1. LabMode \/ "stage" \notin Scope(p)
        BY <3>1, <3>3 DEF ActorType, MayApprove, Authorized, TwoPersonScope,
           Combined, Scope
      <4>2. "stage" \in Scope(q)
        BY <3>2 DEF MayStage, Authorized, Scope, Tools
      <4> QED
        BY <4>1, <4>2
    <3>5. ~sets'[i].waived
      BY <1>2, <2>1, <2>3, ApproveFields DEF Consented
    <3> QED
      BY <1>2, <2>3, <3>1, <3>4, <3>5, ApproveFields, NoneAssumption DEF ConsentIsSound
  <2> QED
    BY <1>2, <2>2, <2>3, ApproveFields
<1>3. CASE sets[i] # None /\ Moves(sets[i], sets'[i])
  <2>1. sets[i] \in ChangeSetRecord
    BY <1>3 DEF TypeOK
  <2> QED
    BY <1>3, <2>1, MoveFields DEF ConsentInv, Consented, ConsentIsSound
<1> QED
  BY <1>1, <1>2, <1>3, RecordStep

\* Only a restart makes a stored record disappear.
LEMMA StoreKept ==
    ASSUME TypeOK, ClaimInv, [Next]_vars, NEW i \in Ids, sets[i] # None, ~Restart
    PROVE  sets'[i] # None
<1>1. sets[i] \in ChangeSetRecord
  BY DEF TypeOK
<1>2. ASSUME NEW k \in Calls, StageInsert(k) PROVE sets'[i] # None
  <2>1. CASE KeptOrExpired(sets[i], sets'[i])
    BY <2>1, <1>1, KeptFields
  <2> QED
    BY <1>2, <2>1, InsertEffect
<1>3. ASSUME NEW k \in Calls, ApproveCommit(k) PROVE sets'[i] # None
  <2>2. CASE UNCHANGED sets
    BY <2>2
  <2>3. CASE ~UNCHANGED sets
    <3>1. call[k] \in ApprovingCall /\ call[k].id \in Ids
      BY <1>3, CallShape DEF ApproveCommit, ApprovingCall
    <3>2. Approvable(sets[call[k].id], call[k].who, call[k].digest)
          /\ sets' = [sets EXCEPT ![call[k].id] =
                       IF call[k].who.name = call[k].digest.owner
                       THEN [sets[call[k].id] EXCEPT !.state = "Approved", !.waived = TRUE]
                       ELSE [sets[call[k].id] EXCEPT !.state = "Approved",
                                                     !.approver = call[k].who]]
      BY <1>3, <2>3 DEF ApproveCommit
    <3>3. sets[call[k].id] \in ChangeSetRecord /\ call[k].who \in Caller
      BY <3>1, <3>2 DEF Approvable, TypeOK, ApprovingCall
    <3>4. /\ [sets[call[k].id] EXCEPT !.state = "Approved", !.waived = TRUE]
               \in ChangeSetRecord
          /\ [sets[call[k].id] EXCEPT !.state = "Approved", !.approver = call[k].who]
               \in ChangeSetRecord
      BY <3>3 DEF ChangeSetRecord, ChangeSetState
    <3> QED
      BY <3>1, <3>2, <3>4, NoneAssumption DEF TypeOK
  <2> QED
    BY <2>2, <2>3
<1>4. ASSUME NEW k \in Calls, ApplyClaim(k) PROVE sets'[i] # None
  <2>1. call[k].id \in Ids
    BY <1>4, CallShape DEF ApplyClaim, ClaimingCall
  <2>2. CASE UNCHANGED sets
    BY <2>2
  <2>3. CASE ~UNCHANGED sets
    <3>1. sets[call[k].id] # None
          /\ sets' = [sets EXCEPT ![call[k].id] = [sets[call[k].id] EXCEPT !.state = "Applying"]]
      BY <1>4, <2>3 DEF ApplyClaim
    <3>2. [sets[call[k].id] EXCEPT !.state = "Applying"] \in ChangeSetRecord
      BY <2>1, <3>1 DEF TypeOK, ChangeSetRecord, ChangeSetState
    <3> QED
      BY <2>1, <3>1, <3>2, NoneAssumption DEF TypeOK
  <2> QED
    BY <2>2, <2>3
<1>5. ASSUME NEW k \in Calls, ApplyAbandon(k) \/ ApplySettle(k) PROVE sets'[i] # None
  BY <1>5, SettleEffect, NoneAssumption
<1>6. ASSUME NEW j \in Ids, sets' = [sets EXCEPT ![j] = Retire(sets[j])]
      PROVE  sets'[i] # None
  BY <1>1, <1>6, StatusEffect, KeptFields
<1>7. ASSUME UNCHANGED sets PROVE sets'[i] # None
  BY <1>7
<1>8. ASSUME NEW k \in Calls, Resume(k) PROVE sets'[i] # None
  BY <1>8, <1>2, <1>3, <1>4, <1>5, <1>7 DEF Resume, CreateHold, StageCaptured,
     StageRefused, StagePublish, ApplyIntent, ApplyMatches, ApplyStale, ApplyWritten
<1>9. ASSUME NEW k \in Calls, NEW p \in Principals, NEW c \in Controllers,
             \/ CreateBegin(k, p, c)
             \/ \E j \in Ids : \/ \E plan \in Plans : StageBegin(k, p, c, j, plan)
                               \/ ApproveBegin(k, p, c, j)
                               \/ ApplyBegin(k, p, c, j)
      PROVE  sets'[i] # None
  BY <1>9, <1>6, <1>7 DEF CreateBegin, StageBegin, ApproveBegin, ApplyBegin
<1>10. ASSUME NEW p \in Principals, NEW c \in Controllers, NEW j \in Ids,
              LapseDraft(p, c, j) \/ GetChangeSet(p, c, j)
       PROVE  sets'[i] # None
  BY <1>10, <1>6, <1>7 DEF LapseDraft, GetChangeSet
<1>11. CASE Tick \/ ReloadTokens \/ UNCHANGED vars
  BY <1>7, <1>11 DEF Tick, ReloadTokens, vars
<1> QED
  BY <1>8, <1>9, <1>10, <1>11 DEF Next

\* What a claim in flight holds.
LEMMA ClaimShape ==
    ASSUME TypeOK, NEW l \in Calls, Claims(l)
    PROVE  call[l] # None /\ call[l].id \in Ids /\ call[l].rec \in ChangeSetRecord
  BY CallShape DEF Claims, ClaimedCall, AdmittedCall, SettlingCall

\* The claimed record does not move while its claim is in flight: a settlement
\* of another call is one of another id, and every other write of the store
\* asks for a state that is not Applying.
LEMMA ClaimKept ==
    ASSUME TypeOK, ClaimInv, [Next]_vars, NEW l \in Calls, Claims(l), call'[l] = call[l]
    PROVE  sets'[call[l].id] = sets[call[l].id]
<1> DEFINE i == call[l].id
<1>1. i \in Ids /\ sets[i] \in ChangeSetRecord /\ sets[i].state = "Applying"
      /\ sets[i] # None /\ call'[l] # None
  BY ClaimShape, NoneAssumption DEF ClaimInv
<1> HIDE DEF i
<1>2. ASSUME KeptOrExpired(sets[i], sets'[i]) PROVE sets'[i] = sets[i]
  BY <1>1, <1>2 DEF KeptOrExpired
<1>3. ASSUME NEW k \in Calls, StageInsert(k) PROVE sets'[i] = sets[i]
  BY <1>1, <1>2, <1>3, InsertEffect
<1>4. ASSUME NEW k \in Calls, ApproveCommit(k) PROVE sets'[i] = sets[i]
  <2>1. call[k].id \in Ids
    BY <1>4, CallShape DEF ApproveCommit, ApprovingCall
  <2> QED
    BY <1>1, <1>4, <2>1 DEF ApproveCommit, Approvable, TypeOK
<1>5. ASSUME NEW k \in Calls, ApplyClaim(k) PROVE sets'[i] = sets[i]
  <2>1. call[k].id \in Ids
    BY <1>5, CallShape DEF ApplyClaim, ClaimingCall
  <2> QED
    BY <1>1, <1>5, <2>1 DEF ApplyClaim, TypeOK
<1>6. ASSUME NEW k \in Calls, ApplyAbandon(k) \/ ApplySettle(k) PROVE sets'[i] = sets[i]
  <2>1. Claims(k) /\ call'[k] = None
    BY <1>6, SettleEffect DEF TypeOK
  <2>2. k # l
    BY <1>1, <2>1
  <2>3. call[k].id # i
    BY <2>1, <2>2 DEF ClaimInv, i
  <2> QED
    BY <1>1, <1>6, <2>3, SettleEffect
<1>7. ASSUME NEW j \in Ids, sets' = [sets EXCEPT ![j] = Retire(sets[j])]
      PROVE  sets'[i] = sets[i]
  BY <1>1, <1>2, <1>7, StatusEffect
<1>8. ASSUME UNCHANGED sets PROVE sets'[i] = sets[i]
  BY <1>8
<1>9. ASSUME NEW k \in Calls, Resume(k) PROVE sets'[i] = sets[i]
  BY <1>9, <1>3, <1>4, <1>5, <1>6, <1>8 DEF Resume, CreateHold, StageCaptured,
     StageRefused, StagePublish, ApplyIntent, ApplyMatches, ApplyStale, ApplyWritten
<1>10. ASSUME NEW k \in Calls, NEW p \in Principals, NEW c \in Controllers,
              \/ CreateBegin(k, p, c)
              \/ \E j \in Ids : \/ \E plan \in Plans : StageBegin(k, p, c, j, plan)
                                \/ ApproveBegin(k, p, c, j)
                                \/ ApplyBegin(k, p, c, j)
       PROVE  sets'[i] = sets[i]
  BY <1>10, <1>7, <1>8 DEF CreateBegin, StageBegin, ApproveBegin, ApplyBegin
<1>11. ASSUME NEW p \in Principals, NEW c \in Controllers, NEW j \in Ids,
              LapseDraft(p, c, j) \/ GetChangeSet(p, c, j)
       PROVE  sets'[i] = sets[i]
  BY <1>11, <1>7, <1>8 DEF LapseDraft, GetChangeSet
<1>12. CASE Tick \/ ReloadTokens \/ UNCHANGED vars
  BY <1>8, <1>12 DEF Tick, ReloadTokens, vars
<1>13. CASE Restart
  BY <1>1, <1>13 DEF Restart
<1> QED
  BY <1>9, <1>10, <1>11, <1>12, <1>13 DEF Next, i

\* A claim on its way to its verdict stays a claim of the same record.
LEMMA AdvanceKeeps ==
    ASSUME TypeOK, NEW l \in Calls, Advances(l)
    PROVE  /\ UNCHANGED sets /\ Claims(l)
           /\ call'[l].id = call[l].id /\ call'[l].rec = call[l].rec
           /\ \A k \in Calls \ {l} : call'[k] = call[k]
<1>1. CASE ApplyIntent(l) \/ ApplyStale(l) \/ ApplyWritten(l)
  BY <1>1 DEF ApplyIntent, ApplyStale, ApplyWritten, Continue, Claims, TypeOK
<1>2. CASE ApplyMatches(l)
  <2>1. call[l] \in AdmittedCall
    BY <1>2, CallShape DEF ApplyMatches
  <2>2. /\ [call[l] EXCEPT !.pc = "writing"].id = call[l].id
        /\ [call[l] EXCEPT !.pc = "writing"].rec = call[l].rec
    BY <2>1 DEF AdmittedCall
  <2> QED
    BY <1>2, <2>2 DEF ApplyMatches, Continue, Claims, TypeOK
<1> QED
  BY <1>1, <1>2 DEF Advances

\* Claims stay exclusive, and the record a claim holds stays put.
LEMMA ClaimStep == TypeOK /\ LifecycleInv /\ [Next]_vars => ClaimInv'
<1> SUFFICES ASSUME TypeOK, ClaimInv, [Next]_vars PROVE ClaimInv'
  BY DEF LifecycleInv
\* A claim after the step was there before it, or was made by it.
<1>1. ASSUME NEW l \in Calls, Claims(l)'
      PROVE  \/ call'[l] = call[l] /\ Claims(l)
             \/ ApplyClaim(l) /\ call'[l].pc = "claimed"
             \/ Advances(l) /\ Claims(l)
  <2>1. call'[l] # None
    BY <1>1 DEF Claims
  <2> QED
    BY <1>1, <2>1, CallStep DEF Claims, Advances, ApplyIntent,
       ApplyMatches, ApplyStale, ApplyWritten
<1>2. ASSUME NEW l \in Calls, ApplyClaim(l), call'[l] # None
      PROVE  LET i == call[l].id
             IN /\ i \in Ids /\ sets[i] # None /\ sets[i].state = "Approved"
                /\ call' = [call EXCEPT ![l] = [pc |-> "claimed", id |-> i, rec |-> sets'[i]]]
                /\ sets'[i].state = "Applying"
  <2>1. call[l].id \in Ids
    BY <1>2, CallShape DEF ApplyClaim, ClaimingCall
  <2>2. LET r == sets[call[l].id]
            claimed == [r EXCEPT !.state = "Applying"]
        IN /\ r # None /\ r.state = "Approved"
           /\ sets' = [sets EXCEPT ![call[l].id] = claimed]
           /\ call' = [call EXCEPT ![l] = [pc |-> "claimed", id |-> call[l].id, rec |-> claimed]]
    BY <1>2 DEF ApplyClaim, Continue, Return, TypeOK
  <2>3. [sets[call[l].id] EXCEPT !.state = "Applying"].state = "Applying"
    BY <2>1, <2>2 DEF TypeOK, ChangeSetRecord
  <2> QED
    BY <2>1, <2>2, <2>3 DEF TypeOK
<1>3. ASSUME NEW l \in Calls, Advances(l)
      PROVE  /\ UNCHANGED sets /\ Claims(l)
             /\ call'[l].id = call[l].id /\ call'[l].rec = call[l].rec
             /\ \A k \in Calls \ {l} : call'[k] = call[k]
  BY <1>3, AdvanceKeeps
<1>4. ASSUME NEW l \in Calls, Claims(l)'
      PROVE  sets'[call'[l].id] = call'[l].rec /\ call'[l].rec.state = "Applying"
  <2>1. CASE call'[l] = call[l] /\ Claims(l)
    BY <2>1, ClaimKept DEF ClaimInv
  <2>2. CASE ApplyClaim(l) /\ call'[l].pc = "claimed"
    <3>1. call'[l] # None
      BY <1>4 DEF Claims
    <3> QED
      BY <1>2, <2>2, <3>1 DEF TypeOK
  <2>3. CASE Advances(l) /\ Claims(l)
    BY <1>3, <2>3 DEF ClaimInv
  <2> QED
    BY <1>1, <1>4, <2>1, <2>2, <2>3
<1>5. ASSUME NEW k \in Calls, NEW l \in Calls, k # l, Claims(k)', Claims(l)',
             call'[k].id = call'[l].id, ApplyClaim(k)
      PROVE  FALSE
  <2>1. call'[k] # None
    BY <1>5 DEF Claims
  <2>2. call'[l] = call[l]
    BY <1>2, <1>5, <2>1 DEF TypeOK
  <2>3. Claims(l) /\ call[l].id = call[k].id
    BY <1>2, <1>5, <2>1, <2>2 DEF Claims, TypeOK
  <2> QED
    BY <1>2, <1>5, <2>1, <2>3 DEF ClaimInv
<1>6. ASSUME NEW k \in Calls, NEW l \in Calls, Claims(k)', Claims(l)',
             call'[k].id = call'[l].id
      PROVE  k = l
  <2>1. CASE ApplyClaim(k) \/ ApplyClaim(l)
    BY <1>5, <1>6, <2>1
  <2>2. CASE ~ApplyClaim(k) /\ ~ApplyClaim(l)
    <3>1. Claims(k) /\ call'[k].id = call[k].id
      BY <1>1, <1>3, <1>6, <2>2
    <3>2. Claims(l) /\ call'[l].id = call[l].id
      BY <1>1, <1>3, <1>6, <2>2
    <3> QED
      BY <1>6, <3>1, <3>2 DEF ClaimInv
  <2> QED
    BY <2>1, <2>2
<1>7. ASSUME NEW l \in Calls, Admitted(l)'
      PROVE  call'[l].admitted < call'[l].rec.expires
  <2>1. CASE call'[l] = call[l]
    BY <1>7, <2>1 DEF ClaimInv
  <2>2. CASE ApplyIntent(l)
    <3>1. call[l] \in ClaimedCall
      BY <2>2, CallShape DEF ApplyIntent
    <3>2. now \in Nat /\ call[l].rec.expires \in Nat
      BY <3>1, BoundsAssumption DEF TypeOK, ClaimedCall, ChangeSetRecord, Instants, Deadlines
    <3> QED
      BY <2>2, <3>2 DEF ApplyIntent, Admissible, SetLapsed, Continue, TypeOK
  <2>3. CASE ApplyMatches(l) \/ ApplyStale(l) \/ ApplyWritten(l)
    <3>1. /\ Admitted(l) /\ call'[l].admitted = call[l].admitted
          /\ call'[l].rec = call[l].rec
      <4>1. call[l] \in AdmittedCall
        BY <2>3, CallShape DEF ApplyMatches, ApplyStale, ApplyWritten
      <4>2. /\ [call[l] EXCEPT !.pc = "writing"].admitted = call[l].admitted
            /\ [call[l] EXCEPT !.pc = "writing"].rec = call[l].rec
        BY <4>1 DEF AdmittedCall
      <4>3. CASE ApplyMatches(l)
        BY <4>2, <4>3 DEF ApplyMatches, Continue, TypeOK
      <4>4. CASE ApplyStale(l) \/ ApplyWritten(l)
        BY <4>4 DEF ApplyStale, ApplyWritten, Continue, TypeOK
      <4> QED
        BY <2>3, <4>3, <4>4
    <3> QED
      BY <3>1 DEF ClaimInv
  <2> QED
    BY <1>7, <2>1, <2>2, <2>3, CallStep
<1> QED
  BY <1>4, <1>6, <1>7 DEF ClaimInv

\* Only the apply-intent record is counted.
LEMMA OnlyIntents ==
    ASSUME [Next]_vars, ~UNCHANGED intents
    PROVE  \E k \in Calls : ApplyIntent(k)
<1>1. ASSUME NEW k \in Calls, Resume(k) PROVE ApplyIntent(k)
  BY <1>1 DEF Resume, CreateHold, StageCaptured, StageRefused, StageInsert,
     StagePublish, ApproveCommit, ApplyClaim, ApplyAbandon, ApplyMatches, ApplyStale,
     ApplyWritten, ApplySettle
<1>2. ASSUME NEW k \in Calls, NEW p \in Principals, NEW c \in Controllers,
             \/ CreateBegin(k, p, c)
             \/ \E i \in Ids : \/ \E plan \in Plans : StageBegin(k, p, c, i, plan)
                               \/ ApproveBegin(k, p, c, i)
                               \/ ApplyBegin(k, p, c, i)
      PROVE  FALSE
  BY <1>2 DEF CreateBegin, StageBegin, ApproveBegin, ApplyBegin
<1>3. ASSUME NEW p \in Principals, NEW c \in Controllers, NEW i \in Ids,
             LapseDraft(p, c, i) \/ GetChangeSet(p, c, i)
      PROVE  FALSE
  BY <1>3 DEF LapseDraft, GetChangeSet
<1>4. CASE Tick \/ ReloadTokens \/ Restart \/ UNCHANGED vars
  BY <1>4 DEF Tick, ReloadTokens, Restart, vars
<1> QED
  BY <1>1, <1>2, <1>3, <1>4 DEF Next

\* Only hold_draft adds a draft.
LEMMA OnlyCreates ==
    ASSUME TypeOK, [Next]_vars, NEW i \in Ids, drafts[i] = None, drafts'[i] # None
    PROVE  \E k \in Calls : CreateHold(k)
<1>1. ASSUME NEW k \in Calls, Resume(k) PROVE CreateHold(k)
  BY <1>1 DEF Resume, StageCaptured, StageRefused, StageInsert, StagePublish,
     ApproveCommit, ApplyClaim, ApplyAbandon, ApplyIntent,
     ApplyMatches, ApplyStale, ApplyWritten,
     ApplySettle, TypeOK
<1>2. ASSUME NEW k \in Calls, NEW p \in Principals, NEW c \in Controllers,
             \/ CreateBegin(k, p, c)
             \/ \E j \in Ids : \/ \E plan \in Plans : StageBegin(k, p, c, j, plan)
                               \/ ApproveBegin(k, p, c, j)
                               \/ ApplyBegin(k, p, c, j)
      PROVE  FALSE
  BY <1>2 DEF CreateBegin, StageBegin, ApproveBegin, ApplyBegin
<1>3. ASSUME NEW p \in Principals, NEW c \in Controllers, NEW j \in Ids,
             LapseDraft(p, c, j) \/ GetChangeSet(p, c, j)
      PROVE  FALSE
  BY <1>3 DEF LapseDraft, GetChangeSet, TypeOK
<1>4. CASE Tick \/ ReloadTokens \/ Restart \/ UNCHANGED vars
  BY <1>4 DEF Tick, ReloadTokens, Restart, vars
<1> QED
  BY <1>1, <1>2, <1>3, <1>4 DEF Next

\* Only the apply-intent record of a claimed set is counted, and only once.
LEMMA IntentCounted ==
    ASSUME TypeOK, ClaimInv, IntentInv, [Next]_vars, NEW i \in Ids,
           intents'[i] # intents[i]
    PROVE  /\ intents[i] = 0 /\ intents'[i] = 1
           /\ \E k \in Calls : ApplyIntent(k) /\ call[k].id = i
           /\ UNCHANGED sets /\ sets[i] # None /\ sets[i].state = "Applying"
<1>1. PICK k \in Calls : ApplyIntent(k)
  BY OnlyIntents
<1>2. Claims(k) /\ call[k].id \in Ids /\ call[k].rec \in ChangeSetRecord
  BY <1>1, ClaimShape DEF ApplyIntent, Claims
<1>3. call[k].id = i
  BY <1>1, <1>2 DEF ApplyIntent, TypeOK
<1>4. intents[i] = 0
  BY <1>1, <1>3 DEF ApplyIntent, IntentInv
<1>5. sets[i] # None /\ sets[i].state = "Applying"
  BY <1>2, <1>3, NoneAssumption DEF ClaimInv
<1>6. intents'[i] = 1 /\ UNCHANGED sets
  BY <1>1, <1>3, <1>4 DEF ApplyIntent, TypeOK
<1> QED
  BY <1>1, <1>3, <1>4, <1>5, <1>6

\* Whatever can still lead to a run of writes has not had one.
LEMMA IntentStep == TypeOK /\ LifecycleInv /\ [Next]_vars => IntentInv'
<1> SUFFICES ASSUME TypeOK, MintedInv, ClaimInv, IntentInv, [Next]_vars
             PROVE  IntentInv'
  BY DEF LifecycleInv
<1>1. ASSUME NEW i \in Ids, intents'[i] # intents[i]
      PROVE  /\ intents[i] = 0 /\ intents'[i] = 1
             /\ \E k \in Calls : ApplyIntent(k) /\ call[k].id = i
             /\ UNCHANGED sets /\ sets[i] # None /\ sets[i].state = "Applying"
  BY <1>1, IntentCounted
<1>2. ASSUME NEW i \in Ids PROVE intents'[i] <= 1
  BY <1>1 DEF IntentInv
<1>3. ASSUME NEW i \in Ids, drafts'[i] # None, sets'[i] = None PROVE intents'[i] = 0
  <2>1. ~Restart
    BY <1>3 DEF Restart
  <2>2. sets[i] = None
    BY <1>3, <2>1, StoreKept
  <2>3. intents'[i] = intents[i]
    BY <1>1, <2>2
  <2>4. CASE drafts[i] # None
    BY <2>2, <2>3, <2>4 DEF IntentInv
  <2>5. CASE drafts[i] = None
    <3>1. PICK k \in Calls : CreateHold(k)
      BY <1>3, <2>5, OnlyCreates
    <3>2. i = minted + 1
      BY <1>3, <2>5, <3>1 DEF CreateHold, SweptDrafts, TypeOK
    <3>3. ~(i <= minted)
      BY <3>2 DEF TypeOK
    <3> QED
      BY <2>3, <3>3 DEF MintedInv
  <2> QED
    BY <2>4, <2>5
<1>4. ASSUME NEW i \in Ids, sets'[i] # None,
             sets'[i].state \in {"Planned", "Approved", "Expired"}
      PROVE  intents'[i] = 0
  <2>1. intents'[i] = intents[i]
    BY <1>1, <1>4
  <2>2. ASSUME NEW k \in Calls, InsertedBy(k, i) PROVE intents[i] = 0
    BY <2>2 DEF InsertedBy, StageInsert, Stages, IntentInv
  <2>3. ASSUME NEW k \in Calls, ApprovedBy(k, i), sets[i] # None PROVE intents[i] = 0
    BY <2>3, ApproveFields DEF IntentInv
  <2>4. CASE sets[i] # None /\ Moves(sets[i], sets'[i])
    <3>1. sets[i] \in ChangeSetRecord
      BY <2>4 DEF TypeOK
    <3> QED
      BY <1>4, <2>1, <2>4, <3>1, MoveFields DEF IntentInv
  <2> QED
    BY <1>4, <2>1, <2>2, <2>3, <2>4, RecordStep
<1>5. ASSUME NEW l \in Calls, Stages(l)', sets'[call'[l].id] = None
      PROVE  intents'[call'[l].id] = 0
  <2>1. call'[l] # None /\ call'[l].pc \in {"capturing", "storing"}
    BY <1>5 DEF Stages
  <2>2. ASSUME NEW i \in Ids, call'[l].id = i, sets[i] = None => intents[i] = 0
        PROVE  intents'[i] = 0
    <3>1. ~Restart
      BY <2>1 DEF Restart
    <3>2. sets[i] = None
      BY <1>5, <2>2, <3>1, StoreKept
    <3> QED
      BY <1>1, <2>2, <3>2
  <2>3. CASE call'[l] = call[l]
    <3>1. Stages(l) /\ call[l].id \in Ids
      BY <2>1, <2>3, CallShape DEF Stages, CapturingCall, StoringCall
    <3> QED
      BY <2>2, <2>3, <3>1 DEF IntentInv
  <2>4. CASE StageCaptured(l)
    <3>1. Stages(l) /\ call[l].id \in Ids /\ call'[l].id = call[l].id
      BY <2>4, CallShape DEF StageCaptured, Continue, Stages, CapturingCall, TypeOK
    <3> QED
      BY <2>2, <3>1 DEF IntentInv
  <2>5. ASSUME NEW p \in Principals, NEW c \in Controllers, NEW i \in Ids,
               NEW plan \in Plans, StageBegin(l, p, c, i, plan)
        PROVE  intents'[call'[l].id] = 0
    <3>1. call'[l].id = i /\ drafts[i] # None
      BY <2>5 DEF StageBegin, Begin, TypeOK
    <3> QED
      BY <2>2, <3>1 DEF IntentInv
  <2> QED
    BY <2>1, <2>3, <2>4, <2>5, CallStep
<1>6. ASSUME NEW l \in Calls, At(l, "claimed")' PROVE intents'[call'[l].id] = 0
  <2>1. CASE call'[l] = call[l]
    <3>1. Claims(l) /\ call[l].id \in Ids /\ intents[call[l].id] = 0
      BY <1>6, <2>1, ClaimShape DEF Claims, IntentInv
    <3>2. ASSUME NEW k \in Calls, ApplyIntent(k), call[k].id = call[l].id PROVE FALSE
      <4>1. k = l
        BY <3>1, <3>2 DEF ApplyIntent, Claims, ClaimInv
      <4> QED
        BY <1>6, <2>1, <3>2, <4>1 DEF ApplyIntent, Continue, TypeOK
    <3> QED
      BY <1>1, <2>1, <3>1, <3>2
  <2>2. CASE ApplyClaim(l)
    <3>1. call[l].id \in Ids
      BY <2>2, CallShape DEF ApplyClaim, ClaimingCall
    <3>2. call'[l].id = call[l].id /\ sets[call[l].id] # None
          /\ sets[call[l].id].state = "Approved"
      BY <1>6, <2>2 DEF ApplyClaim, Continue, Return, TypeOK
    <3> QED
      BY <1>1, <3>1, <3>2 DEF IntentInv
  <2> QED
    BY <1>6, <2>1, <2>2, CallStep
<1> QED
  BY <1>2, <1>3, <1>4, <1>5, <1>6 DEF IntentInv

\* Only insert_change_set takes plan_lock beyond one step; only the publication
\* and a restart give it back.
LEMMA OnlyLocks ==
    ASSUME [Next]_vars, ~UNCHANGED planLock
    PROVE  \/ \E k \in Calls : StageInsert(k) \/ StagePublish(k)
           \/ Restart
<1>1. ASSUME NEW k \in Calls, Resume(k) PROVE StageInsert(k) \/ StagePublish(k)
  BY <1>1 DEF Resume, CreateHold, StageCaptured, StageRefused,
     ApproveCommit, ApplyClaim, ApplyAbandon, ApplyIntent,
     ApplyMatches, ApplyStale, ApplyWritten, ApplySettle
<1>2. ASSUME NEW k \in Calls, NEW p \in Principals, NEW c \in Controllers,
             \/ CreateBegin(k, p, c)
             \/ \E i \in Ids : \/ \E plan \in Plans : StageBegin(k, p, c, i, plan)
                               \/ ApproveBegin(k, p, c, i)
                               \/ ApplyBegin(k, p, c, i)
      PROVE  FALSE
  BY <1>2 DEF CreateBegin, StageBegin, ApproveBegin, ApplyBegin
<1>3. ASSUME NEW p \in Principals, NEW c \in Controllers, NEW i \in Ids,
             LapseDraft(p, c, i) \/ GetChangeSet(p, c, i)
      PROVE  FALSE
  BY <1>3 DEF LapseDraft, GetChangeSet
<1>4. CASE Tick \/ ReloadTokens \/ UNCHANGED vars
  BY <1>4 DEF Tick, ReloadTokens, vars
<1> QED
  BY <1>1, <1>2, <1>3, <1>4 DEF Next

\* Only the publication of change set i gives it a proposal.
LEMMA OnlyPublishes ==
    ASSUME TypeOK, [Next]_vars, ~Restart, NEW i \in Ids,
           ~\E k \in Calls : StagePublish(k) /\ call[k].id = i
    PROVE  proposal'[i] = proposal[i]
<1>1. ASSUME NEW k \in Calls, StagePublish(k) PROVE proposal'[i] = proposal[i]
  BY <1>1 DEF StagePublish, TypeOK
<1>2. ASSUME NEW k \in Calls, Resume(k) PROVE proposal'[i] = proposal[i]
  BY <1>1, <1>2 DEF Resume, CreateHold, StageCaptured, StageRefused, StageInsert,
     ApproveCommit, ApplyClaim, ApplyAbandon, ApplyIntent,
     ApplyMatches, ApplyStale, ApplyWritten, ApplySettle
<1>3. ASSUME NEW k \in Calls, NEW p \in Principals, NEW c \in Controllers,
             \/ CreateBegin(k, p, c)
             \/ \E j \in Ids : \/ \E plan \in Plans : StageBegin(k, p, c, j, plan)
                               \/ ApproveBegin(k, p, c, j)
                               \/ ApplyBegin(k, p, c, j)
      PROVE  proposal'[i] = proposal[i]
  BY <1>3 DEF CreateBegin, StageBegin, ApproveBegin, ApplyBegin
<1>4. ASSUME NEW p \in Principals, NEW c \in Controllers, NEW j \in Ids,
             LapseDraft(p, c, j) \/ GetChangeSet(p, c, j)
      PROVE  proposal'[i] = proposal[i]
  BY <1>4 DEF LapseDraft, GetChangeSet
<1>5. CASE Tick \/ ReloadTokens \/ UNCHANGED vars
  BY <1>5 DEF Tick, ReloadTokens, vars
<1> QED
  BY <1>2, <1>3, <1>4, <1>5 DEF Next

\* Only an approval of change set i writes its approval record.
LEMMA OnlyAttests ==
    ASSUME TypeOK, [Next]_vars, NEW i \in Ids, ~\E k \in Calls : ApprovedBy(k, i)
    PROVE  attested'[i] = attested[i]
<1>1. ASSUME NEW k \in Calls, ApproveCommit(k) PROVE attested'[i] = attested[i]
  <2>1. call[k] \in ApprovingCall /\ call[k].id \in Ids
    BY <1>1, CallShape DEF ApproveCommit, ApprovingCall
  <2>2. CASE UNCHANGED attested
    BY <2>2
  <2>3. CASE ~UNCHANGED attested /\ call[k].id = i
    <3>1. ApprovedBy(k, i)
      BY <1>1, <2>1, <2>3 DEF ApproveCommit, ApprovedBy, TypeOK
    <3> QED
      BY <3>1
  <2>4. CASE ~UNCHANGED attested /\ call[k].id # i
    BY <1>1, <2>4 DEF ApproveCommit, TypeOK
  <2> QED
    BY <2>2, <2>3, <2>4
<1>2. ASSUME NEW k \in Calls, Resume(k) PROVE attested'[i] = attested[i]
  BY <1>1, <1>2 DEF Resume, CreateHold, StageCaptured, StageRefused, StageInsert,
     StagePublish, ApplyClaim, ApplyAbandon, ApplyIntent,
     ApplyMatches, ApplyStale, ApplyWritten, ApplySettle
<1>3. ASSUME NEW k \in Calls, NEW p \in Principals, NEW c \in Controllers,
             \/ CreateBegin(k, p, c)
             \/ \E j \in Ids : \/ \E plan \in Plans : StageBegin(k, p, c, j, plan)
                               \/ ApproveBegin(k, p, c, j)
                               \/ ApplyBegin(k, p, c, j)
      PROVE  attested'[i] = attested[i]
  BY <1>3 DEF CreateBegin, StageBegin, ApproveBegin, ApplyBegin
<1>4. ASSUME NEW p \in Principals, NEW c \in Controllers, NEW j \in Ids,
             LapseDraft(p, c, j) \/ GetChangeSet(p, c, j)
      PROVE  attested'[i] = attested[i]
  BY <1>4 DEF LapseDraft, GetChangeSet
<1>5. CASE Tick \/ ReloadTokens \/ Restart \/ UNCHANGED vars
  BY <1>5 DEF Tick, ReloadTokens, Restart, vars
<1> QED
  BY <1>2, <1>3, <1>4, <1>5 DEF Next

\* A stored record keeps its digest.
LEMMA DigestKept ==
    ASSUME TypeOK, ClaimInv, [Next]_vars, NEW i \in Ids, sets[i] # None, sets'[i] # None
    PROVE  DigestOf(sets'[i]) = DigestOf(sets[i])
<1>1. sets[i] \in ChangeSetRecord
  BY DEF TypeOK
<1>2. ASSUME NEW k \in Calls, InsertedBy(k, i) PROVE FALSE
  BY <1>2 DEF InsertedBy
<1> QED
  BY <1>1, <1>2, RecordStep, ApproveFields, MoveFields

\* What insert_change_set leaves behind when it stores the record.
LEMMA InsertPublishes ==
    ASSUME TypeOK, NEW k \in Calls, NEW i \in Ids, InsertedBy(k, i)
    PROVE  /\ planLock' = k
           /\ call'[k] = [pc |-> "publishing", id |-> i, digest |-> DigestOf(sets'[i])]
<1>1. StageInsert(k) /\ call[k].rec \in ChangeSetRecord /\ call[k].id = i
      /\ sets[i] = None /\ sets'[i] = call[k].rec
  BY DEF InsertedBy, StoringCall
<1>2. ~KeptOrExpired(sets[i], sets'[i])
  BY <1>1, NoneAssumption DEF KeptOrExpired
<1> QED
  BY <1>1, <1>2, InsertEffect DEF TypeOK

\* plan_lock covers the gap between a stored plan and its proposal.
LEMMA PublishStep == TypeOK /\ LifecycleInv /\ [Next]_vars => PublishInv'
<1> SUFFICES ASSUME TypeOK, ClaimInv, PublishInv, [Next]_vars PROVE PublishInv'
  BY DEF LifecycleInv
<1>1. ASSUME NEW l \in Calls, At(l, "publishing")'
      PROVE  /\ planLock' = l /\ sets'[call'[l].id] # None
             /\ call'[l].digest = DigestOf(sets'[call'[l].id])
  <2>1. ~Restart
    BY <1>1 DEF Restart
  <2>2. CASE call'[l] = call[l]
    <3>1. /\ At(l, "publishing") /\ call[l].id \in Ids /\ planLock = l
          /\ sets[call[l].id] # None /\ call[l].digest = DigestOf(sets[call[l].id])
      BY <1>1, <2>2, CallShape DEF PublishInv, PublishingCall
    <3>2. sets'[call[l].id] # None
      BY <2>1, <3>1, StoreKept
    <3>3. DigestOf(sets'[call[l].id]) = DigestOf(sets[call[l].id])
      BY <3>1, <3>2, DigestKept
    <3>4. planLock' = planLock
      <4>1. ASSUME NEW k \in Calls, StageInsert(k) PROVE FALSE
        BY <3>1, <4>1, NoneAssumption DEF StageInsert
      <4>2. ASSUME NEW k \in Calls, StagePublish(k) PROVE FALSE
        <5>1. k = l
          BY <3>1, <4>2 DEF StagePublish, PublishInv
        <5> QED
          BY <1>1, <4>2, <5>1 DEF StagePublish, Return, TypeOK
      <4> QED
        BY <2>1, <4>1, <4>2, OnlyLocks
    <3> QED
      BY <2>2, <3>1, <3>2, <3>3, <3>4
  <2>3. CASE StageInsert(l)
    <3>1. /\ call[l].id \in Ids /\ call[l].rec \in ChangeSetRecord
          /\ sets'[call[l].id] = call[l].rec /\ planLock' = l
          /\ call'[l] = [pc |-> "publishing", id |-> call[l].id, digest |-> DigestOf(call[l].rec)]
      BY <1>1, <2>3, InsertEffect DEF TypeOK, StoringCall
    <3> QED
      BY <3>1, NoneAssumption
  <2> QED
    BY <1>1, <2>2, <2>3, CallStep
<1>2. ASSUME NEW i \in Ids, sets'[i] # None
      PROVE  \/ proposal'[i] \in {DigestOf(sets'[i]), Forgotten}
             \/ \E k \in Calls : At(k, "publishing")' /\ call'[k].id = i
  <2>1. CASE Restart
    <3>1. sets[i] # None
      BY <1>2, <2>1 DEF Restart, TypeOK
    <3> QED
      BY <2>1, <3>1 DEF Restart
  <2>2. ASSUME NEW k \in Calls, InsertedBy(k, i)
        PROVE  At(k, "publishing")' /\ call'[k].id = i
    <3>1. call'[k] = [pc |-> "publishing", id |-> i, digest |-> DigestOf(sets'[i])]
      BY <2>2, InsertPublishes
    <3>2. DigestOf(sets'[i]) \in Digest
      BY <2>2, DigestType DEF InsertedBy, StoringCall
    <3>3. call'[k] \in Call
      BY <3>1, <3>2 DEF PublishingCall, Call
    <3> QED
      BY <3>1, <3>3, NoneAssumption
  <2>3. CASE sets[i] # None /\ ~Restart
    <3>1. DigestOf(sets'[i]) = DigestOf(sets[i])
      BY <1>2, <2>3, DigestKept
    <3>2. ASSUME NEW k \in Calls, StagePublish(k), call[k].id = i
          PROVE  proposal'[i] = DigestOf(sets'[i])
      BY <3>1, <3>2 DEF StagePublish, PublishInv, TypeOK
    <3>3. CASE \E k \in Calls : StagePublish(k) /\ call[k].id = i
      BY <3>2, <3>3
    <3>4. CASE ~\E k \in Calls : StagePublish(k) /\ call[k].id = i
      <4>1. proposal'[i] = proposal[i]
        BY <2>3, <3>4, OnlyPublishes
      <4>2. CASE proposal[i] \in {DigestOf(sets[i]), Forgotten}
        BY <3>1, <4>1, <4>2
      <4>3. ASSUME NEW k \in Calls, At(k, "publishing"), call[k].id = i
            PROVE  At(k, "publishing")' /\ call'[k].id = i
        <5>1. call'[k] = call[k]
          BY <2>3, <3>4, <4>3, CallKept DEF Resume, CreateHold, StageCaptured,
             StageRefused, StageInsert, ApproveCommit, ApplyClaim, ApplyAbandon,
             ApplyIntent, ApplyMatches, ApplyStale, ApplyWritten, ApplySettle
        <5> QED
          BY <4>3, <5>1
      <4> QED
        BY <2>3, <4>2, <4>3 DEF PublishInv
    <3> QED
      BY <3>3, <3>4
  <2> QED
    BY <1>2, <2>1, <2>2, <2>3, RecordStep
<1> QED
  BY <1>1, <1>2 DEF PublishInv

\* An approval record never attests to anything but the approved digest.
LEMMA AttestStep == TypeOK /\ LifecycleInv /\ [Next]_vars => NoFalseAttestation'
<1> SUFFICES ASSUME TypeOK, ScopeInv, ClaimInv, PublishInv, NoFalseAttestation,
                    [Next]_vars, NEW i \in Ids, sets'[i] # None, Consented(sets'[i])
             PROVE  attested'[i] \in {DigestOf(sets'[i]), Forgotten}
  BY DEF LifecycleInv, NoFalseAttestation, Consented
<1>1. ASSUME NEW k \in Calls, InsertedBy(k, i) PROVE FALSE
  BY <1>1 DEF InsertedBy, StageInsert, ScopeInv
<1>2. ASSUME NEW k \in Calls, ApprovedBy(k, i), sets[i] # None
      PROVE  attested'[i] \in {DigestOf(sets'[i]), Forgotten}
  <2>1. attested'[i] = proposal[i] /\ planLock = None
    BY <1>2 DEF ApprovedBy, ApproveCommit, TypeOK
  <2>2. ~\E l \in Calls : At(l, "publishing")
    BY <2>1, NoneAssumption DEF PublishInv
  <2> QED
    BY <1>2, <2>1, <2>2, ApproveFields DEF PublishInv
<1>3. CASE sets[i] # None /\ Moves(sets[i], sets'[i]) /\ ~\E k \in Calls : ApprovedBy(k, i)
  <2>1. sets[i] \in ChangeSetRecord
    BY <1>3 DEF TypeOK
  <2>2. attested'[i] = attested[i]
    BY <1>3, OnlyAttests
  <2> QED
    BY <1>3, <2>1, <2>2, MoveFields DEF NoFalseAttestation, Consented
<1> QED
  BY <1>1, <1>2, <1>3, RecordStep

-----------------------------------------------------------------------------
(* The theorems                                                             *)

\* The parts of the inductive invariant hold together in every state the
\* handlers reach: ids are handed out once, scopes separate stagers from
\* approvers, claims are exclusive, and plan_lock hides unpublished plans.
THEOREM LifecycleSafe == Spec => []LifecycleInv
<1>1. Init => LifecycleInv
  BY DEF Init, LifecycleInv, MintedInv, ScopeInv, ConsentInv, ClaimInv, IntentInv,
     PublishInv, NoFalseAttestation, Stages, Claims
<1>2. TypeOK /\ LifecycleInv /\ [Next]_vars => LifecycleInv'
  BY MintedStep, ScopeStep, ConsentStep, ClaimStep, IntentStep, PublishStep, AttestStep
     DEF LifecycleInv
<1> QED
  BY <1>1, <1>2, TypeCorrect, PTL DEF Spec

\* A claim that reached the controller was consented to by a second principal,
\* a verified human who neither owns nor (outside lab mode) staged the plan, or
\* by a waiver under lab mode -- for every assignment of token scopes.
THEOREM TwoPersonHolds == Spec => []TwoPersonControl
<1>1. TypeOK /\ LifecycleInv => TwoPersonControl
  <2> SUFFICES ASSUME TypeOK, ConsentInv, ClaimInv, NEW k \in Calls, At(k, "writing")
               PROVE  ConsentIsSound(call[k].rec)
    BY DEF LifecycleInv, TwoPersonControl
  <2>1. Claims(k)
    BY DEF Claims
  <2>2. call[k].id \in Ids /\ call[k].rec # None
    BY <2>1, ClaimShape, NoneAssumption
  <2> QED
    BY <2>1, <2>2 DEF ClaimInv, ConsentInv
<1> QED
  BY <1>1, TypeCorrect, LifecycleSafe, PTL

\* At most one apply is ever admitted for a change set, whatever applies race and
\* wherever the process stops.
THEOREM SpentOnce == Spec => []ApprovalSpentOnce
<1>1. LifecycleInv => ApprovalSpentOnce
  BY DEF LifecycleInv, IntentInv, ApprovalSpentOnce
<1> QED
  BY <1>1, LifecycleSafe, PTL

\* An apply is admitted inside the approval window of the record it claimed, and
\* that record is the stored one until the verdict: no step of another call, of the
\* clock or of a reload moves its plan, deadline or state in between.
THEOREM WindowHolds == Spec => []AdmittedWithinWindow
<1>1. LifecycleInv => AdmittedWithinWindow
  BY DEF LifecycleInv, ClaimInv, Claims, AdmittedWithinWindow
<1> QED
  BY <1>1, LifecycleSafe, PTL

\* plan_lock keeps every approval record true to the approved digest.
THEOREM AttestationHolds == Spec => []NoFalseAttestation
<1>1. LifecycleInv => NoFalseAttestation
  BY DEF LifecycleInv
<1> QED
  BY <1>1, LifecycleSafe, PTL

\* No step moves a stored plan, its deadline, a terminal state or a consent.
THEOREM FrozenHolds == Spec => RecordsFrozen
<1> DEFINE Frozen ==
      \A i \in Ids : sets[i] # None /\ sets'[i] # None =>
         /\ DigestOf(sets'[i]) = DigestOf(sets[i])
         /\ sets'[i].expires = sets[i].expires
         /\ sets[i].state \in {"Applied", "Failed", "Expired"} => sets'[i] = sets[i]
         /\ sets[i].state # "Planned" =>
              /\ sets'[i].approver = sets[i].approver
              /\ sets'[i].waived = sets[i].waived
<1>1. TypeOK /\ LifecycleInv /\ [Next]_vars => [Frozen]_vars
  <2> SUFFICES ASSUME TypeOK, ClaimInv, [Next]_vars, NEW i \in Ids,
                      sets[i] # None, sets'[i] # None
               PROVE  /\ DigestOf(sets'[i]) = DigestOf(sets[i])
                      /\ sets'[i].expires = sets[i].expires
                      /\ sets[i].state \in {"Applied", "Failed", "Expired"}
                           => sets'[i] = sets[i]
                      /\ sets[i].state # "Planned" =>
                           /\ sets'[i].approver = sets[i].approver
                           /\ sets'[i].waived = sets[i].waived
    BY DEF LifecycleInv
  <2>1. sets[i] \in ChangeSetRecord
    BY DEF TypeOK
  <2>2. ASSUME NEW k \in Calls, InsertedBy(k, i) PROVE FALSE
    BY <2>2 DEF InsertedBy
  <2>3. ASSUME NEW k \in Calls, ApprovedBy(k, i)
        PROVE  /\ DigestOf(sets'[i]) = DigestOf(sets[i])
               /\ sets'[i].expires = sets[i].expires
               /\ sets[i].state = "Planned"
    BY <2>3, ApproveFields
  <2>4. CASE Moves(sets[i], sets'[i])
    BY <2>1, <2>4, MoveFields
  <2> QED
    BY <2>2, <2>3, <2>4, RecordStep
<1> QED
  BY <1>1, TypeCorrect, LifecycleSafe, PTL DEF Spec, RecordsFrozen

-----------------------------------------------------------------------------
(* Drafts                                                                   *)

\* Every step but hold_draft keeps a draft or removes it.
LEMMA DraftsKept ==
    ASSUME TypeOK, [Next]_vars, NEW i \in Ids
    PROVE  (\E k \in Calls : CreateHold(k)) \/ drafts'[i] \in {drafts[i], None}
<1>1. ASSUME NEW k \in Calls, Resume(k), ~CreateHold(k)
      PROVE  drafts'[i] \in {drafts[i], None}
  BY <1>1 DEF Resume, StageCaptured, StageRefused, StageInsert, StagePublish,
     ApproveCommit, ApplyClaim, ApplyAbandon, ApplyIntent,
     ApplyMatches, ApplyStale, ApplyWritten,
     ApplySettle, TypeOK
<1>2. ASSUME NEW k \in Calls, NEW p \in Principals, NEW c \in Controllers,
             \/ CreateBegin(k, p, c)
             \/ \E j \in Ids : \/ \E plan \in Plans : StageBegin(k, p, c, j, plan)
                               \/ ApproveBegin(k, p, c, j)
                               \/ ApplyBegin(k, p, c, j)
      PROVE  drafts'[i] = drafts[i]
  BY <1>2 DEF CreateBegin, StageBegin, ApproveBegin, ApplyBegin
<1>3. ASSUME NEW p \in Principals, NEW c \in Controllers, NEW j \in Ids,
             LapseDraft(p, c, j) \/ GetChangeSet(p, c, j)
      PROVE  drafts'[i] \in {drafts[i], None}
  BY <1>3 DEF LapseDraft, GetChangeSet, TypeOK
<1>4. CASE Tick \/ ReloadTokens \/ Restart \/ UNCHANGED vars
  BY <1>4 DEF Tick, ReloadTokens, Restart, vars
<1> QED
  BY <1>1, <1>2, <1>3, <1>4 DEF Next

\* No more drafts, and the same ones: both bounds are kept.
LEMMA FewerDrafts ==
    ASSUME TypeOK, DraftsBounded, \A i \in Ids : drafts'[i] \in {drafts[i], None}
    PROVE  DraftsBounded'
<1> DEFINE held == {i \in Ids : drafts[i] # None}
           kept == {i \in Ids : drafts'[i] # None}
<1>1. IsFiniteSet(Ids)
  BY FS_Interval, BoundsAssumption DEF Ids
<1>2. IsFiniteSet(held)
  BY <1>1, FS_Subset
<1>3. kept \subseteq held
  OBVIOUS
<1>4. Cardinality(kept) <= Cardinality(held)
  BY <1>2, <1>3, FS_Subset
<1>5. IsFiniteSet(kept)
  BY <1>2, <1>3, FS_Subset
<1>6. Cardinality(kept) \in Nat /\ Cardinality(held) \in Nat
  BY <1>2, <1>5, FS_CardinalityType
<1>7. Cardinality(held) <= MaxDrafts
  BY DEF DraftsBounded
<1>8. Cardinality(kept) <= MaxDrafts
  <2> HIDE DEF held, kept
  <2> QED
    BY <1>4, <1>6, <1>7, BoundsAssumption
<1>9. \A i, j \in Ids :
        drafts'[i] # None /\ drafts'[j] # None /\ i # j
          => \/ drafts'[i].owner # drafts'[j].owner
             \/ drafts'[i].controller # drafts'[j].controller
  BY DEF DraftsBounded
<1> QED
  BY <1>8, <1>9 DEF DraftsBounded

\* hold_draft sweeps before it counts, and counts before it inserts.
LEMMA HoldBounded ==
    ASSUME TypeOK, DraftsBounded, NEW k \in Calls, CreateHold(k)
    PROVE  DraftsBounded'
<1>1. \A i \in Ids : SweptDrafts[i] \in {drafts[i], None}
  BY DEF SweptDrafts
<1>2. CASE drafts' = SweptDrafts
  BY <1>1, <1>2, FewerDrafts
<1>3. CASE drafts' # SweptDrafts
  <2> DEFINE who == call[k].who
             place == call[k].controller
             fresh == minted + 1
             draft == [owner |-> who, controller |-> place, created |-> call[k].created]
             held == {i \in Ids : SweptDrafts[i] # None}
  <2>1. /\ ~HoldRefused(who, place) /\ minted # MaxMinted
        /\ drafts' = [SweptDrafts EXCEPT ![fresh] = draft]
    BY <1>3 DEF CreateHold
  <2>2. fresh \in Ids
    BY <2>1, BoundsAssumption DEF TypeOK, Ids
  <2>3. draft # None
    <3>1. call[k] \in CreatingCall
      BY CallShape DEF CreateHold
    <3>2. draft \in Draft
      BY <3>1 DEF CreatingCall, Draft
    <3> QED
      BY <3>2, NoneAssumption
  <2>4. drafts'[fresh] = draft /\ \A i \in Ids \ {fresh} : drafts'[i] = SweptDrafts[i]
    BY <2>1, <2>2 DEF SweptDrafts
  <2>5. \A i \in held : drafts[i] = SweptDrafts[i]
    BY <1>1
  <2>6. \A i \in held : drafts[i].owner # who \/ drafts[i].controller # place
    BY <2>1 DEF HoldRefused
  <2>7. ~(Cardinality(held) >= MaxDrafts)
    BY <2>1 DEF HoldRefused
  <2> HIDE DEF draft, fresh
  <2>8. draft.owner = who /\ draft.controller = place
    BY DEF draft
  <2>9. \A i, j \in Ids :
          drafts'[i] # None /\ drafts'[j] # None /\ i # j
            => \/ drafts'[i].owner # drafts'[j].owner
               \/ drafts'[i].controller # drafts'[j].controller
    <3> SUFFICES ASSUME NEW i \in Ids, NEW j \in Ids, i # j,
                        drafts'[i] # None, drafts'[j] # None
                 PROVE  \/ drafts'[i].owner # drafts'[j].owner
                        \/ drafts'[i].controller # drafts'[j].controller
      OBVIOUS
    <3>1. CASE i = fresh
      BY <2>4, <2>5, <2>6, <2>8, <3>1
    <3>2. CASE j = fresh
      BY <2>4, <2>5, <2>6, <2>8, <3>2
    <3>3. CASE i # fresh /\ j # fresh
      BY <2>4, <2>5, <3>3 DEF DraftsBounded
    <3> QED
      BY <3>1, <3>2, <3>3
  <2>10. Cardinality({i \in Ids : drafts'[i] # None}) <= MaxDrafts
    <3>1. IsFiniteSet(Ids)
      BY FS_Interval, BoundsAssumption DEF Ids
    <3>2. IsFiniteSet(held)
      BY <3>1, FS_Subset
    <3>3. {i \in Ids : drafts'[i] # None} \subseteq held \cup {fresh}
      BY <2>4
    <3>4. IsFiniteSet(held \cup {fresh})
          /\ Cardinality(held \cup {fresh}) \in {Cardinality(held), Cardinality(held) + 1}
      BY <3>2, FS_AddElement
    <3>5. IsFiniteSet({i \in Ids : drafts'[i] # None})
          /\ Cardinality({i \in Ids : drafts'[i] # None}) <= Cardinality(held \cup {fresh})
      BY <3>3, <3>4, FS_Subset
    <3>6. Cardinality(held) \in Nat /\ Cardinality({i \in Ids : drafts'[i] # None}) \in Nat
      BY <3>2, <3>5, FS_CardinalityType
    <3> HIDE DEF held
    <3> QED
      BY <2>7, <3>4, <3>5, <3>6, BoundsAssumption
  <2> QED
    BY <2>9, <2>10 DEF DraftsBounded
<1> QED
  BY <1>2, <1>3

\* There are never more than MAX_DRAFTS drafts, nor two of one principal on one
\* controller, however many creates race.
THEOREM DraftsHold == Spec => []DraftsBounded
<1>1. Init => DraftsBounded
  <2> SUFFICES ASSUME Init PROVE DraftsBounded
    OBVIOUS
  <2>1. {i \in Ids : drafts[i] # None} = {}
    BY DEF Init
  <2>2. Cardinality({i \in Ids : drafts[i] # None}) = 0
    BY <2>1, FS_EmptySet
  <2> QED
    BY <2>1, <2>2, BoundsAssumption DEF DraftsBounded
<1>2. TypeOK /\ DraftsBounded /\ [Next]_vars => DraftsBounded'
  BY DraftsKept, FewerDrafts, HoldBounded
<1> QED
  BY <1>1, <1>2, TypeCorrect, PTL DEF Spec

-----------------------------------------------------------------------------
(* What the refinement needs beyond LifecycleInv                            *)

\* A call whose apply was admitted has counted its admission.
RanInv == \A k \in Calls : Admitted(k) => intents[call[k].id] = 1

\* Every step keeps RanInv.
LEMMA RanStep == TypeOK /\ LifecycleInv /\ RanInv /\ [Next]_vars => RanInv'
<1> SUFFICES ASSUME TypeOK, LifecycleInv, RanInv, [Next]_vars PROVE RanInv'
  OBVIOUS
<1> ClaimInv /\ IntentInv
  BY DEF LifecycleInv
<1> SUFFICES ASSUME NEW k \in Calls, Admitted(k)'
             PROVE  (intents[call[k].id])' = 1
  BY DEF RanInv
<1>0. call'[k] # None /\ call'[k].pc \in {"checking", "writing", "settling"}
  OBVIOUS
<1>1. ASSUME NEW i \in Ids, intents[i] = 1 PROVE intents'[i] = 1
  BY <1>1, IntentCounted
<1>2. CASE call'[k] = call[k]
  <2>1. Admitted(k)
    BY <1>2
  <2>2. call[k].id \in Ids
    BY <2>1, ClaimShape DEF Claims
  <2>3. intents[call[k].id] = 1
    BY <2>1 DEF RanInv
  <2>4. intents'[call[k].id] = 1
    BY <1>1, <2>2, <2>3
  <2> QED
    BY <1>2, <2>4
<1>3. CASE ApplyIntent(k)
  <2>1. call[k].id \in Ids
    BY <1>3, CallShape DEF ApplyIntent, ClaimedCall
  <2>2. intents[call[k].id] = 0
    BY <1>3 DEF ApplyIntent, IntentInv
  <2> QED
    BY <1>3, <2>1, <2>2 DEF ApplyIntent, Continue, TypeOK
<1>4. CASE ApplyMatches(k) \/ ApplyStale(k) \/ ApplyWritten(k)
  <2>1. Admitted(k) /\ UNCHANGED intents
    BY <1>4 DEF ApplyMatches, ApplyStale, ApplyWritten
  <2>2. call'[k].id = call[k].id
    BY <1>4, AdvanceKeeps DEF Advances
  <2> QED
    BY <2>1, <2>2 DEF RanInv
<1> QED
  BY <1>0, <1>2, <1>3, <1>4, CallStep

\* Only the call that claimed it moves an Applying record, and it returns then.
LEMMA OnlyConcludes ==
    ASSUME TypeOK, ClaimInv, [Next]_vars, NEW i \in Ids, sets[i] # None,
           sets[i].state = "Applying", sets'[i] # None, sets'[i] # sets[i]
    PROVE  \E k \in Calls : (ApplyAbandon(k) \/ ApplySettle(k)) /\ call[k].id = i
<1>1. sets[i] \in ChangeSetRecord
  BY DEF TypeOK
<1>2. ~UNCHANGED sets
  OBVIOUS
<1>3. ~KeptOrExpired(sets[i], sets'[i])
  BY <1>1 DEF KeptOrExpired
<1>4. ASSUME NEW k \in Calls, StageInsert(k) PROVE FALSE
  BY <1>3, <1>4, InsertEffect
<1>5. ASSUME NEW k \in Calls, ApproveCommit(k) PROVE FALSE
  <2>1. call[k].id \in Ids
    BY <1>5, CallShape DEF ApproveCommit, ApprovingCall
  <2> QED
    BY <1>2, <1>5, <2>1 DEF ApproveCommit, Approvable, TypeOK
<1>6. ASSUME NEW k \in Calls, ApplyClaim(k) PROVE FALSE
  <2>1. call[k].id \in Ids
    BY <1>6, CallShape DEF ApplyClaim, ClaimingCall
  <2>2. /\ sets[call[k].id].state = "Approved"
        /\ sets' = [sets EXCEPT ![call[k].id] = [sets[call[k].id] EXCEPT !.state = "Applying"]]
    BY <1>2, <1>6 DEF ApplyClaim
  <2>3. sets'[i] = sets[i]
    BY <2>1, <2>2 DEF TypeOK
  <2> QED
    BY <2>3
<1>7. ASSUME NEW k \in Calls, ApplyAbandon(k) \/ ApplySettle(k) PROVE call[k].id = i
  BY <1>7, SettleEffect
<1>8. ASSUME NEW j \in Ids, sets' = [sets EXCEPT ![j] = Retire(sets[j])] PROVE FALSE
  BY <1>3, <1>8, StatusEffect
<1>9. ASSUME NEW k \in Calls, Resume(k) PROVE ApplyAbandon(k) \/ ApplySettle(k)
  BY <1>2, <1>4, <1>5, <1>6, <1>9 DEF Resume, CreateHold, StageCaptured,
     StageRefused, StagePublish, ApplyIntent, ApplyMatches, ApplyStale, ApplyWritten
<1>10. ASSUME NEW k \in Calls, NEW p \in Principals, NEW c \in Controllers,
              \/ CreateBegin(k, p, c)
              \/ \E j \in Ids : \/ \E plan \in Plans : StageBegin(k, p, c, j, plan)
                                \/ ApproveBegin(k, p, c, j)
                                \/ ApplyBegin(k, p, c, j)
       PROVE  FALSE
  BY <1>2, <1>8, <1>10 DEF CreateBegin, StageBegin, ApproveBegin, ApplyBegin
<1>11. ASSUME NEW p \in Principals, NEW c \in Controllers, NEW j \in Ids,
              LapseDraft(p, c, j) \/ GetChangeSet(p, c, j)
       PROVE  FALSE
  BY <1>2, <1>8, <1>11 DEF LapseDraft, GetChangeSet
<1>12. CASE Tick \/ ReloadTokens \/ UNCHANGED vars
  BY <1>2, <1>12 DEF Tick, ReloadTokens, vars
<1>13. ASSUME Restart PROVE FALSE
  <2>1. sets' = [j \in Ids |-> None]
    BY <1>2, <1>13 DEF Restart
  <2>2. sets'[i] = None
    BY <2>1
  <2> QED
    BY <2>2
<1> QED
  BY <1>7, <1>9, <1>10, <1>11, <1>12, <1>13 DEF Next

\* Only a settlement concludes a claim as Applied.
LEMMA OnlySettles ==
    ASSUME TypeOK, ClaimInv, [Next]_vars, NEW i \in Ids, sets[i] # None,
           sets[i].state = "Applying", sets'[i] # None, sets'[i].state = "Applied"
    PROVE  \E k \in Calls : ApplySettle(k) /\ call[k].id = i
<1>1. PICK k \in Calls : (ApplyAbandon(k) \/ ApplySettle(k)) /\ call[k].id = i
  BY OnlyConcludes
<1>2. ASSUME ApplyAbandon(k) PROVE FALSE
  <2>1. call[k].id \in Ids /\ call[k].rec \in ChangeSetRecord
    BY <1>2, SettleEffect
  <2>2. \/ sets' = [sets EXCEPT ![call[k].id] = [call[k].rec EXCEPT !.state = "Failed"]]
        \/ UNCHANGED sets
    BY <1>2 DEF ApplyAbandon, Settle
  <2> QED
    BY <1>1, <2>1, <2>2 DEF TypeOK, ChangeSetRecord
<1> QED
  BY <1>1, <1>2

-----------------------------------------------------------------------------
(* The refinement                                                           *)

\* A run of writes is the abstract Run.
LEMMA RunStep ==
    ASSUME TypeOK, ClaimInv, IntentInv, [Next]_vars, NEW i \in Ids,
           intents'[i] # intents[i]
    PROVE  Abstract!Run(LifeOf(i), LifeOf(i)')
<1>1. /\ intents[i] = 0 /\ intents'[i] = 1 /\ sets' = sets
      /\ sets[i] # None /\ sets[i].state = "Applying"
  BY IntentCounted
<1> QED
  BY <1>1 DEF Abstract!Run, LifeOf

\* A stored record vanishes only with the process, and only without --state-file.
LEMMA LoseStep ==
    ASSUME TypeOK, ClaimInv, [Next]_vars, NEW i \in Ids, intents'[i] = intents[i],
           sets[i] # None, sets'[i] = None
    PROVE  Abstract!Lose(LifeOf(i), LifeOf(i)')
<1>1. Restart
  BY StoreKept
<1>2. ~StateFile
  BY <1>1 DEF Restart
<1>3. LifeOf(i)' = [phase |-> "Absent", digest |-> None, consent |-> None,
                    runs |-> intents[i]]
  BY DEF LifeOf
<1>4. LifeOf(i).runs = intents[i]
  BY DEF LifeOf
<1> QED
  BY <1>2, <1>3, <1>4 DEF Abstract!Lose, Abstract!Nothing

\* What the abstract proposal and consent make of a record, field by field.
LEMMA Proposed ==
    ASSUME NEW d, NEW a, NEW b,
           a = [phase |-> "Absent", digest |-> None, consent |-> None, runs |-> 0],
           b = [a EXCEPT !.phase = "Planned", !.digest = d]
    PROVE  b = [phase |-> "Planned", digest |-> d, consent |-> None, runs |-> 0]
  OBVIOUS

LEMMA Endowed ==
    ASSUME NEW d, NEW n, NEW c, NEW a, NEW b,
           a = [phase |-> "Planned", digest |-> d, consent |-> None, runs |-> n],
           b = [a EXCEPT !.phase = "Approved", !.consent = c]
    PROVE  b = [phase |-> "Approved", digest |-> d, consent |-> c, runs |-> n]
  OBVIOUS

\* insert_change_set proposes a plan under an id that never had one.
LEMMA ProposeStep ==
    ASSUME TypeOK, LifecycleInv, NEW i \in Ids, intents'[i] = intents[i],
           NEW k \in Calls, InsertedBy(k, i), sets'[i] # None
    PROVE  Abstract!Propose(LifeOf(i), LifeOf(i)')
<1>1. At(k, "storing") /\ call[k].id = i /\ sets[i] = None /\ sets'[i] = call[k].rec
  BY DEF InsertedBy, StageInsert
<1>2. intents[i] = 0
  BY <1>1 DEF Stages, LifecycleInv, IntentInv
<1>3. call[k].rec \in ChangeSetRecord
  BY DEF InsertedBy, StoringCall
<1>4. call[k].rec.state = "Planned" /\ ~call[k].rec.waived /\ call[k].rec.approver = None
  BY <1>1 DEF LifecycleInv, ScopeInv, Consented
<1>5. DigestOf(call[k].rec) \in Digest
  BY <1>3, DigestType
<1>6. LifeOf(i) = [phase |-> "Absent", digest |-> None, consent |-> None, runs |-> 0]
  BY <1>1, <1>2 DEF LifeOf
<1>7. LifeOf(i)' = [phase |-> "Planned", digest |-> DigestOf(sets'[i]),
                    consent |-> None, runs |-> 0]
  BY <1>1, <1>2, <1>4 DEF LifeOf
<1>8. DigestOf(sets'[i]) \in Digest
  BY <1>1, <1>5
<1>9. PICK d \in Digest : d = DigestOf(sets'[i])
  BY <1>8
<1>10. PICK b : b = [LifeOf(i) EXCEPT !.phase = "Planned", !.digest = d]
  OBVIOUS
<1>11. b = [phase |-> "Planned", digest |-> d, consent |-> None, runs |-> 0]
  BY <1>6, <1>10, Proposed
<1>12. LifeOf(i)' = b
  BY <1>7, <1>9, <1>11
<1> QED
  BY <1>6, <1>10, <1>12 DEF Abstract!Propose, Abstract!Nothing

\* approve_change_set and waive_approval are the abstract Consent.
LEMMA ApproveStep ==
    ASSUME TypeOK, LifecycleInv, NEW i \in Ids, intents'[i] = intents[i],
           NEW k \in Calls, ApprovedBy(k, i), sets[i] # None, sets'[i] # None
    PROVE  Abstract!Consent(LifeOf(i), LifeOf(i)')
<1> DEFINE who == call[k].who
           digest == DigestOf(sets[i])
           n == intents[i]
<1>1. /\ sets[i].state = "Planned" /\ sets'[i].state = "Approved"
      /\ who \in Caller /\ DigestOf(sets'[i]) = digest
      /\ IF who.name = sets[i].owner THEN sets'[i].waived /\ LabMode
         ELSE sets'[i].waived = sets[i].waived /\ sets'[i].approver = who
  BY ApproveFields
<1>2. ~sets[i].waived /\ sets[i].approver = None
  BY <1>1 DEF LifecycleInv, ConsentInv, Consented
<1>3. LifeOf(i) = [phase |-> "Planned", digest |-> digest, consent |-> None, runs |-> n]
  BY <1>1, <1>2 DEF LifeOf
<1>4. digest.owner = sets[i].owner
  BY DEF DigestOf
<1>5. CASE who.name = sets[i].owner
  <2>1. LifeOf(i)' = [phase |-> "Approved", digest |-> digest, consent |-> "waiver",
                      runs |-> n]
    BY <1>1, <1>5 DEF LifeOf
  <2>2. PICK b : b = [LifeOf(i) EXCEPT !.phase = "Approved", !.consent = "waiver"]
    OBVIOUS
  <2>4. b = [phase |-> "Approved", digest |-> digest, consent |-> "waiver", runs |-> n]
    BY <1>3, <2>2, Endowed
  <2>5. LifeOf(i)' = b
    BY <2>1, <2>4
  <2>3. LifeOf(i).phase = "Planned" /\ LabMode
    BY <1>1, <1>3, <1>5
  <2> QED
    BY <2>2, <2>3, <2>5 DEF Abstract!Consent
<1>6. CASE who.name # sets[i].owner
  <2>1. LifeOf(i)' = [phase |-> "Approved", digest |-> digest, consent |-> who.name,
                      runs |-> n]
    BY <1>1, <1>2, <1>6, NoneAssumption DEF LifeOf
  <2>2. PICK b : b = [LifeOf(i) EXCEPT !.phase = "Approved", !.consent = who.name]
    OBVIOUS
  <2>4. b = [phase |-> "Approved", digest |-> digest, consent |-> who.name, runs |-> n]
    BY <1>3, <2>2, Endowed
  <2>5. LifeOf(i)' = b
    BY <2>1, <2>4
  <2>3. LifeOf(i).phase = "Planned" /\ who.name \in Principals \ {LifeOf(i).digest.owner}
    BY <1>1, <1>3, <1>4, <1>6 DEF Caller
  <2> QED
    BY <2>2, <2>3, <2>5 DEF Abstract!Consent
<1> QED
  BY <1>5, <1>6

\* What moves a record's state is the abstract expiry, spending or conclusion;
\* only a run that was counted concludes as Applied.
LEMMA MoveStep ==
    ASSUME TypeOK, LifecycleInv, RanInv, [Next]_vars, NEW i \in Ids,
           intents'[i] = intents[i], sets[i] # None, sets'[i] # None,
           Moves(sets[i], sets'[i])
    PROVE  \/ LifeOf(i)' = LifeOf(i)
           \/ Abstract!Expire(LifeOf(i), LifeOf(i)')
           \/ Abstract!Spend(LifeOf(i), LifeOf(i)')
           \/ Abstract!Conclude(LifeOf(i), LifeOf(i)')
<1>1. sets[i] \in ChangeSetRecord
  BY DEF TypeOK
<1>2. /\ sets'[i].approver = sets[i].approver /\ sets'[i].waived = sets[i].waived
      /\ DigestOf(sets'[i]) = DigestOf(sets[i])
      /\ \/ sets'[i] = sets[i]
         \/ sets'[i].state = "Expired" /\ sets[i].state \in {"Planned", "Approved"}
         \/ sets'[i].state = "Applying" /\ sets[i].state = "Approved"
         \/ sets'[i].state \in {"Applied", "Failed"} /\ sets[i].state = "Applying"
  BY <1>1, MoveFields
<1>3. LifeOf(i)' = [LifeOf(i) EXCEPT !.phase = sets'[i].state]
  BY <1>2 DEF LifeOf
<1>4. LifeOf(i).phase = sets[i].state /\ LifeOf(i).runs = intents[i]
  BY DEF LifeOf
<1>5. CASE sets'[i] = sets[i]
  BY <1>5 DEF LifeOf
<1>6. CASE sets'[i].state = "Expired" /\ sets[i].state \in {"Planned", "Approved"}
  BY <1>3, <1>4, <1>6 DEF Abstract!Expire
<1>7. CASE sets'[i].state = "Applying" /\ sets[i].state = "Approved"
  BY <1>3, <1>4, <1>7 DEF Abstract!Spend
<1>8. CASE sets'[i].state = "Failed" /\ sets[i].state = "Applying"
  BY <1>3, <1>4, <1>8 DEF Abstract!Conclude
<1>9. CASE sets'[i].state = "Applied" /\ sets[i].state = "Applying"
  <2>1. PICK k \in Calls : ApplySettle(k) /\ call[k].id = i
    BY <1>9, OnlySettles DEF LifecycleInv
  <2>2. intents[i] = 1
    BY <2>1 DEF ApplySettle, RanInv
  <2> QED
    BY <1>3, <1>4, <1>9, <2>2 DEF Abstract!Conclude
<1> QED
  BY <1>2, <1>5, <1>6, <1>7, <1>8, <1>9

\* Every step of the handlers is, for each change set, a step of the abstract
\* one or a stutter.
LEMMA LifeStep ==
    ASSUME TypeOK, LifecycleInv, RanInv, [Next]_vars, NEW i \in Ids
    PROVE  LifeOf(i)' = LifeOf(i) \/ Abstract!Step(LifeOf(i), LifeOf(i)')
<1> ClaimInv /\ IntentInv
  BY DEF LifecycleInv
<1>1. CASE intents'[i] # intents[i]
  BY <1>1, RunStep DEF Abstract!Step
<1>2. CASE intents'[i] = intents[i] /\ sets'[i] = None
  <2>1. CASE sets[i] = None
    BY <1>2, <2>1 DEF LifeOf
  <2> QED
    BY <1>2, <2>1, LoseStep DEF Abstract!Step
<1>3. CASE intents'[i] = intents[i] /\ sets'[i] # None
  <2>1. ASSUME NEW k \in Calls, InsertedBy(k, i)
        PROVE  Abstract!Propose(LifeOf(i), LifeOf(i)')
    BY <1>3, <2>1, ProposeStep
  <2>2. ASSUME NEW k \in Calls, sets[i] # None, ApprovedBy(k, i)
        PROVE  Abstract!Consent(LifeOf(i), LifeOf(i)')
    BY <1>3, <2>2, ApproveStep
  <2>3. CASE sets[i] # None /\ Moves(sets[i], sets'[i])
    BY <1>3, <2>3, MoveStep DEF Abstract!Step
  <2> QED
    BY <1>3, <2>1, <2>2, <2>3, RecordStep DEF Abstract!Step
<1> QED
  BY <1>1, <1>2, <1>3

\* The handlers implement the abstract change set, for every number of calls,
\* every store failure and any number of restarts.
THEOREM ImplementsHolds == Spec => ImplementsChangeSet
<1>1. Init => RanInv /\ Abstract!Init
  BY DEF Init, RanInv, LifeOf, Abstract!Init, Abstract!Nothing
<1>2. TypeOK /\ LifecycleInv /\ RanInv /\ [Next]_vars
        => [Abstract!Next]_([i \in Ids |-> LifeOf(i)])
  <2> SUFFICES ASSUME TypeOK, LifecycleInv, RanInv, [Next]_vars
               PROVE  Abstract!Next
    OBVIOUS
  <2>1. \A i \in Ids : LifeOf(i)' = LifeOf(i) \/ Abstract!Step(LifeOf(i), LifeOf(i)')
    BY LifeStep
  <2> QED
    BY <2>1 DEF Abstract!Next
<1> QED
  BY <1>1, <1>2, RanStep, TypeCorrect, LifecycleSafe, PTL
     DEF Spec, ImplementsChangeSet, Abstract!Spec

-----------------------------------------------------------------------------
(* What is left held                                                        *)

\* Only a claim makes a record Applying, and the claiming call then answers for it.
LEMMA OnlyClaims ==
    ASSUME TypeOK, LifecycleInv, [Next]_vars, NEW i \in Ids,
           sets[i] = None \/ sets[i].state # "Applying",
           sets'[i] # None, sets'[i].state = "Applying"
    PROVE  \E k \in Calls : Claims(k)' /\ call'[k].id = i
<1> ClaimInv /\ ScopeInv
  BY DEF LifecycleInv
<1>1. ~UNCHANGED sets
  OBVIOUS
<1>2. ~KeptOrExpired(sets[i], sets'[i])
  BY DEF KeptOrExpired, ChangeSetRecord
<1>3. ASSUME NEW k \in Calls, StageInsert(k) PROVE FALSE
  <2>1. call[k].id = i /\ sets'[i] = call[k].rec
    BY <1>2, <1>3, InsertEffect
  <2>2. call[k].rec.state = "Planned"
    BY <1>3 DEF StageInsert, ScopeInv
  <2> QED
    BY <2>1, <2>2
<1>4. ASSUME NEW k \in Calls, ApproveCommit(k) PROVE FALSE
  <2>1. call[k].id \in Ids
    BY <1>4, CallShape DEF ApproveCommit, ApprovingCall
  <2>2. PICK r : /\ sets' = [sets EXCEPT ![call[k].id] = r]
                 /\ \/ r = [sets[call[k].id] EXCEPT !.state = "Approved", !.waived = TRUE]
                    \/ r = [sets[call[k].id] EXCEPT !.state = "Approved",
                                                     !.approver = call[k].who]
    BY <1>1, <1>4 DEF ApproveCommit, Endorsed
  <2>3. sets[call[k].id] \in ChangeSetRecord
    BY <1>1, <1>4, <2>1 DEF ApproveCommit, Approvable, TypeOK
  <2> QED
    BY <2>1, <2>2, <2>3 DEF TypeOK, ChangeSetRecord
<1>5. ASSUME NEW k \in Calls, ApplyClaim(k) PROVE Claims(k)' /\ call'[k].id = i
  <2>1. call[k].id \in Ids
    BY <1>5, CallShape DEF ApplyClaim, ClaimingCall
  <2> DEFINE claimed == [sets[call[k].id] EXCEPT !.state = "Applying"]
  <2>2. /\ sets[call[k].id] # None
        /\ sets' = [sets EXCEPT ![call[k].id] = claimed]
        /\ call' = [call EXCEPT ![k] = [pc |-> "claimed", id |-> call[k].id, rec |-> claimed]]
    BY <1>1, <1>5 DEF ApplyClaim, Continue
  <2>3. claimed \in ChangeSetRecord
    BY <2>1, <2>2 DEF TypeOK, ChangeSetRecord, ChangeSetState
  <2> HIDE DEF claimed
  <2>4. call[k].id = i
    BY <1>1, <2>1, <2>2 DEF TypeOK
  <2>5. [pc |-> "claimed", id |-> i, rec |-> claimed] \in ClaimedCall
    BY <2>3 DEF ClaimedCall
  <2>6. call'[k] = [pc |-> "claimed", id |-> i, rec |-> claimed]
    BY <2>2, <2>4 DEF TypeOK
  <2> QED
    BY <2>5, <2>6, NoneAssumption DEF Claims, Call
<1>6. ASSUME NEW k \in Calls, ApplyAbandon(k) \/ ApplySettle(k) PROVE FALSE
  <2>1. call[k].id = i /\ call[k].rec \in ChangeSetRecord
        /\ \E state \in {"Applied", "Failed"} :
             sets'[i] = [call[k].rec EXCEPT !.state = state]
    BY <1>6, SettleEffect
  <2> QED
    BY <2>1 DEF ChangeSetRecord
<1>7. ASSUME NEW j \in Ids, sets' = [sets EXCEPT ![j] = Retire(sets[j])] PROVE FALSE
  BY <1>2, <1>7, StatusEffect
<1>8. ASSUME NEW k \in Calls, Resume(k) PROVE ApplyClaim(k)
  BY <1>1, <1>3, <1>4, <1>6, <1>8 DEF Resume, CreateHold, StageCaptured,
     StageRefused, StagePublish, ApplyIntent, ApplyMatches, ApplyStale, ApplyWritten
<1>9. ASSUME NEW k \in Calls, NEW p \in Principals, NEW c \in Controllers,
             \/ CreateBegin(k, p, c)
             \/ \E j \in Ids : \/ \E plan \in Plans : StageBegin(k, p, c, j, plan)
                               \/ ApproveBegin(k, p, c, j)
                               \/ ApplyBegin(k, p, c, j)
      PROVE  FALSE
  BY <1>1, <1>7, <1>9 DEF CreateBegin, StageBegin, ApproveBegin, ApplyBegin
<1>10. ASSUME NEW p \in Principals, NEW c \in Controllers, NEW j \in Ids,
              LapseDraft(p, c, j) \/ GetChangeSet(p, c, j)
       PROVE  FALSE
  BY <1>1, <1>7, <1>10 DEF LapseDraft, GetChangeSet
<1>11. CASE Tick \/ ReloadTokens \/ UNCHANGED vars
  BY <1>1, <1>11 DEF Tick, ReloadTokens, vars
<1>12. ASSUME Restart PROVE FALSE
  <2>1. sets' = [j \in Ids |-> None]
    BY <1>1, <1>12 DEF Restart
  <2>2. sets'[i] = None
    BY <2>1
  <2> QED
    BY <2>2
<1> QED
  BY <1>5, <1>8, <1>9, <1>10, <1>11, <1>12 DEF Next

\* A call that claims goes on claiming the same record, or settles it, or stops
\* with the process.
LEMMA ClaimGoesOn ==
    ASSUME TypeOK, [Next]_vars, NEW k \in Calls, Claims(k), ~Restart
    PROVE  \/ Claims(k)' /\ call'[k].id = call[k].id
           \/ ApplyAbandon(k) \/ ApplySettle(k)
<1>1. call[k] # None /\ call[k].pc \in {"claimed", "checking", "writing", "settling"}
  BY DEF Claims
<1>2. CASE call'[k] = call[k]
  BY <1>1, <1>2 DEF Claims
<1>3. CASE Resume(k)
  <2>1. Advances(k) \/ ApplyAbandon(k) \/ ApplySettle(k)
    BY <1>1, <1>3 DEF Resume, CreateHold, StageCaptured, StageRefused, StageInsert,
       StagePublish, ApproveCommit, ApplyClaim, Advances
  <2>2. ASSUME Advances(k)
        PROVE  Claims(k)' /\ call'[k].id = call[k].id
    <3>1. CASE ApplyIntent(k)
      <4>1. call[k] \in ClaimedCall
        BY <3>1, CallShape DEF ApplyIntent
      <4>2. call'[k] = [pc |-> "checking", id |-> call[k].id, rec |-> call[k].rec,
                        admitted |-> now]
        BY <3>1 DEF ApplyIntent, Continue, TypeOK
      <4>3. call'[k] \in AdmittedCall
        BY <4>1, <4>2 DEF ClaimedCall, AdmittedCall, TypeOK
      <4> QED
        BY <4>2, <4>3, NoneAssumption DEF Claims, Call
    <3>2. CASE ApplyStale(k) \/ ApplyWritten(k)
      <4>1. call[k] \in AdmittedCall
        BY <3>2, CallShape DEF ApplyStale, ApplyWritten
      <4>2. PICK ok \in BOOLEAN :
              call'[k] = [pc |-> "settling", id |-> call[k].id, rec |-> call[k].rec,
                          admitted |-> call[k].admitted, succeeded |-> ok]
        BY <3>2 DEF ApplyStale, ApplyWritten, Continue, TypeOK
      <4>3. call'[k] \in SettlingCall
        BY <4>1, <4>2 DEF AdmittedCall, SettlingCall
      <4> QED
        BY <4>2, <4>3, NoneAssumption DEF Claims, Call
    <3>3. CASE ApplyMatches(k)
      <4>1. call[k] \in AdmittedCall
        BY <3>3, CallShape DEF ApplyMatches
      <4>2. /\ [call[k] EXCEPT !.pc = "writing"] \in AdmittedCall
            /\ [call[k] EXCEPT !.pc = "writing"].pc = "writing"
            /\ [call[k] EXCEPT !.pc = "writing"].id = call[k].id
        BY <4>1 DEF AdmittedCall
      <4>3. call'[k] = [call[k] EXCEPT !.pc = "writing"]
        BY <3>3 DEF ApplyMatches, Continue, TypeOK
      <4> QED
        BY <4>2, <4>3, NoneAssumption DEF Claims, Call
    <3> QED
      BY <2>2, <3>1, <3>2, <3>3 DEF Advances
  <2> QED
    BY <2>1, <2>2
<1> QED
  BY <1>1, <1>2, <1>3, CallKept

\* A settlement that is stored concludes the record.
LEMMA SettlesStored ==
    ASSUME TypeOK, NEW k \in Calls, ApplyAbandon(k) \/ ApplySettle(k), ~StoreMayFail
    PROVE  sets'[call[k].id].state \in {"Applied", "Failed"}
<1>1. call[k].id \in Ids /\ call[k].rec \in ChangeSetRecord
  BY SettleEffect
<1>2. PICK state \in {"Applied", "Failed"} :
        sets' = [sets EXCEPT ![call[k].id] = [call[k].rec EXCEPT !.state = state]]
  BY DEF ApplyAbandon, ApplySettle, Settle
<1> QED
  BY <1>1, <1>2 DEF TypeOK, ChangeSetRecord

\* Only a restart or a failed settlement orphans a claim, and nothing but the loss of
\* an unsaved store ends that.
THEOREM OrphansHold == Spec => OrphansExplained
<1> DEFINE Explained ==
      \A i \in Ids :
         /\ Orphaned(i)' /\ ~Orphaned(i) =>
              \/ restarts' # restarts
              \/ StoreMayFail /\ \E k \in Calls : SettlesNow(k, i)
         /\ Orphaned(i) => \/ Orphaned(i)'
                           \/ ~StateFile /\ restarts' # restarts
<1>1. TypeOK /\ LifecycleInv /\ [Next]_vars => [Explained]_vars
  <2> SUFFICES ASSUME TypeOK, LifecycleInv, [Next]_vars, NEW i \in Ids
               PROVE  /\ Orphaned(i)' /\ ~Orphaned(i) =>
                           \/ restarts' # restarts
                           \/ StoreMayFail /\ \E k \in Calls : SettlesNow(k, i)
                      /\ Orphaned(i) => \/ Orphaned(i)'
                                        \/ ~StateFile /\ restarts' # restarts
    OBVIOUS
  <2> ClaimInv
    BY DEF LifecycleInv
  <2>1. Restart => restarts' # restarts
    BY DEF Restart, TypeOK
  <2>2. ASSUME Orphaned(i)', ~Orphaned(i), ~Restart
        PROVE  StoreMayFail /\ \E k \in Calls : SettlesNow(k, i)
    <3>1. sets'[i] # None /\ sets'[i].state = "Applying"
          /\ \A k \in Calls : Claims(k)' => call'[k].id # i
      BY <2>2 DEF Orphaned
    <3>2. sets[i] # None /\ sets[i].state = "Applying"
      BY <3>1, OnlyClaims
    <3>3. PICK k \in Calls : Claims(k) /\ call[k].id = i
      BY <2>2, <3>2 DEF Orphaned
    <3>4. ApplyAbandon(k) \/ ApplySettle(k)
      BY <2>2, <3>1, <3>3, ClaimGoesOn
    <3>5. StoreMayFail
      BY <3>1, <3>3, <3>4, SettlesStored
    <3>6. SettlesNow(k, i)
      BY <3>3, <3>4 DEF ApplyAbandon, ApplySettle, Return, SettlesNow, TypeOK
    <3> QED
      BY <3>5, <3>6
  <2>3. ASSUME Orphaned(i), ~Restart PROVE Orphaned(i)'
    <3>1. sets[i] # None /\ sets[i].state = "Applying"
          /\ \A k \in Calls : Claims(k) => call[k].id # i
      BY <2>3 DEF Orphaned
    <3>2. sets'[i] # None
      BY <2>3, <3>1, StoreKept
    <3>3. sets'[i] = sets[i]
      BY <3>1, <3>2, OnlyConcludes, SettleEffect
    <3>4. ASSUME NEW k \in Calls, Claims(k)' PROVE call'[k].id # i
      <4>1. call'[k] # None
        BY <3>4 DEF Claims
      <4>2. CASE call'[k] = call[k]
        BY <3>1, <3>4, <4>2 DEF Claims
      <4>3. CASE ApplyClaim(k)
        <5>1. call'[k].id = call[k].id /\ sets[call[k].id].state = "Approved"
          BY <4>1, <4>3 DEF ApplyClaim, Continue, Return, TypeOK
        <5> QED
          BY <3>1, <5>1
      <4>4. CASE Advances(k)
        <5>1. Claims(k) /\ call'[k].id = call[k].id
          BY <4>4, AdvanceKeeps
        <5> QED
          BY <3>1, <5>1
      <4> QED
        BY <3>4, <4>1, <4>2, <4>3, <4>4, CallStep DEF Claims, Advances
    <3> QED
      BY <3>1, <3>2, <3>3, <3>4 DEF Orphaned
  <2>4. ASSUME Orphaned(i), Restart, StateFile PROVE Orphaned(i)'
    <3>1. UNCHANGED sets /\ \A k \in Calls : call'[k] = None
      BY <2>4 DEF Restart
    <3> QED
      BY <2>4, <3>1 DEF Orphaned, Claims
  <2> QED
    BY <2>1, <2>2, <2>3, <2>4
<1> QED
  BY <1>1, TypeCorrect, LifecycleSafe, PTL DEF Spec, OrphansExplained

\* plan_lock is held by a call about to publish, or free.
THEOREM LockComesFree == Spec => []LockHeld
<1>1. Init => LockHeld
  BY DEF Init, LockHeld
<1>2. TypeOK /\ LockHeld /\ [Next]_vars => LockHeld'
  <2> SUFFICES ASSUME TypeOK, LockHeld, [Next]_vars, planLock' # None
               PROVE  At(planLock, "publishing")'
    BY DEF LockHeld
  <2>1. CASE UNCHANGED planLock
    <3>1. planLock \in Calls /\ At(planLock, "publishing") /\ ~Restart
      BY <2>1 DEF LockHeld, TypeOK, Restart
    <3>2. Resume(planLock) => StagePublish(planLock)
      BY <3>1 DEF Resume, At, CreateHold, StageCaptured, StageRefused, StageInsert,
         ApproveCommit, ApplyClaim, ApplyAbandon, ApplyIntent,
         ApplyMatches, ApplyStale, ApplyWritten, ApplySettle
    <3>3. ~StagePublish(planLock)
      BY <2>1 DEF StagePublish
    <3>4. call'[planLock] = call[planLock]
      BY <3>1, <3>2, <3>3, CallKept DEF At
    <3> QED
      BY <2>1, <3>1, <3>4 DEF At
  <2>2. ASSUME NEW k \in Calls, StageInsert(k), ~UNCHANGED planLock
        PROVE  At(planLock, "publishing")'
    <3>1. call[k] \in StoringCall /\ planLock' = k
          /\ call'[k] = [pc |-> "publishing", id |-> call[k].id,
                         digest |-> DigestOf(call[k].rec)]
      BY <2>2, InsertEffect DEF TypeOK
    <3>2. call'[k] \in PublishingCall
      BY <3>1, DigestType DEF StoringCall, PublishingCall
    <3> QED
      BY <3>1, <3>2, NoneAssumption DEF At, Call
  <2> QED
    BY <2>1, <2>2, OnlyLocks DEF StagePublish, Restart
<1> QED
  BY <1>1, <1>2, TypeCorrect, PTL DEF Spec

-----------------------------------------------------------------------------
(* Calls go on to their end                                                 *)

\* Call k returned, or has fewer steps to go for the same change set.
WentOn(k) == \/ call'[k] = None
             \/ /\ StepsLeft(call'[k]) < StepsLeft(call[k])
                /\ call'[k].id = call[k].id

LEMMA ResumeGoesOn == ASSUME TypeOK, NEW k \in Calls, Resume(k) PROVE WentOn(k)
<1>1. CASE StageCaptured(k)
  BY <1>1 DEF StageCaptured, At, Continue, WentOn, StepsLeft, TypeOK
<1>2. CASE StageInsert(k)
  <2>1. call[k] \in StoringCall
    BY <1>2, InsertEffect
  <2>2. \/ call'[k] = [pc |-> "publishing", id |-> call[k].id, digest |-> DigestOf(call[k].rec)]
        \/ call'[k] = None
    BY <1>2, InsertEffect DEF TypeOK
  <2> QED
    BY <2>1, <2>2 DEF StoringCall, WentOn, StepsLeft
<1>3. CASE ApplyClaim(k)
  BY <1>3 DEF ApplyClaim, At, Continue, Return, WentOn, StepsLeft, TypeOK
<1>4. CASE ApplyIntent(k)
  BY <1>4 DEF ApplyIntent, At, Continue, WentOn, StepsLeft, TypeOK
<1>5. CASE ApplyStale(k) \/ ApplyWritten(k)
  BY <1>5 DEF ApplyStale, ApplyWritten, At, Continue, WentOn, StepsLeft, TypeOK
<1>7. CASE ApplyMatches(k)
  <2>1. call[k] \in AdmittedCall
    BY <1>7, CallShape DEF ApplyMatches
  <2>2. /\ [call[k] EXCEPT !.pc = "writing"].pc = "writing"
        /\ [call[k] EXCEPT !.pc = "writing"].id = call[k].id
    BY <2>1 DEF AdmittedCall
  <2> QED
    BY <1>7, <2>2 DEF ApplyMatches, At, Continue, WentOn, StepsLeft, TypeOK
<1>6. CASE \/ CreateHold(k) \/ StageRefused(k) \/ StagePublish(k)
           \/ ApproveCommit(k) \/ ApplyAbandon(k) \/ ApplySettle(k)
  BY <1>6 DEF CreateHold, StageRefused, StagePublish, ApproveCommit, ApplyAbandon,
     ApplySettle, Return, WentOn, TypeOK
<1> QED
  BY <1>1, <1>2, <1>3, <1>4, <1>5, <1>6, <1>7 DEF Resume

\* A call only goes on to its end, on the change set it was made for, and only a
\* restart takes one away: the part of CallsReturn and ClaimsSettle that does not
\* depend on the scheduler.
THEOREM CallsComeCloser == Spec => CallsAdvance
<1>1. ASSUME TypeOK, [Next]_vars, NEW k \in Calls, call[k] # None
      PROVE  /\ Resume(k) => WentOn(k)
             /\ ~Resume(k) => call'[k] = call[k] \/ restarts' # restarts
  <2>1. Restart => restarts' # restarts
    BY <1>1 DEF Restart, TypeOK
  <2> QED
    BY <1>1, <2>1, ResumeGoesOn, CallKept
<1>2. TypeOK /\ [Next]_vars =>
        [\A k \in Calls : call[k] # None =>
           /\ Resume(k) => \/ call'[k] = None
                           \/ /\ StepsLeft(call'[k]) < StepsLeft(call[k])
                              /\ call'[k].id = call[k].id
           /\ ~Resume(k) => call'[k] = call[k] \/ restarts' # restarts]_vars
  BY <1>1 DEF WentOn
<1> QED
  BY <1>2, TypeCorrect, PTL DEF Spec, CallsAdvance
=============================================================================
