------------------------ MODULE SequentialApply_proofs ------------------------
(***************************************************************************)
(* Proofs about apply_sequentially, for plans of any length over any       *)
(* resources, with any number of writes by others in between.              *)
(***************************************************************************)
EXTENDS TwoApplies, LeastNumber

-----------------------------------------------------------------------------
(* What a plan is made of                                                   *)

\* A plan is a sequence, and each of its mutations carries what its kind needs.
LEMMA PlanShape ==
    ASSUME plan \in Plans
    PROVE  /\ Len(plan) \in Nat /\ DOMAIN plan = 1 .. Len(plan)
           /\ \A n \in DOMAIN plan :
                /\ plan[n] \in StagedMutation
                /\ plan[n].op \in {"create", "update", "delete", "restore"}
                /\ plan[n].op = "create" => plan[n].body \in Resource
                /\ plan[n].op \in {"update", "delete"} => plan[n].id \in Existing
                /\ plan[n].op = "update" =>
                     IF plan[n].partial THEN plan[n].body \in Body
                     ELSE plan[n].body \in Resource
<1>1. plan \in Seq(StagedMutation)
  BY PlansAssumption
<1>2. ASSUME NEW m \in StagedMutation
      PROVE  /\ m.op \in {"create", "update", "delete", "restore"}
             /\ m.op = "create" => m.body \in Resource
             /\ m.op \in {"update", "delete"} => m.id \in Existing
             /\ m.op = "update" => IF m.partial THEN m.body \in Body
                                   ELSE m.body \in Resource
  BY <1>2 DEF StagedMutation
<1>3. Len(plan) \in Nat /\ DOMAIN plan = 1 .. Len(plan)
      /\ \A n \in DOMAIN plan : plan[n] \in StagedMutation
  BY <1>1
<1> QED
  BY <1>2, <1>3

\* Merging a partial body over a resource gives a resource.
LEMMA OverlayType ==
    ASSUME NEW r \in Resource, NEW b \in Body
    PROVE  Overlay(r, b) \in Resource
  BY DEF Overlay, Resource, Body

-----------------------------------------------------------------------------
(* The type invariant, strengthened where it is not inductive               *)

\* The rollback runs over what succeeded, an update that is about to be PUT is
\* one of the plan's, and there is nothing under an id not handed out yet.
PlaceInv ==
    /\ \A f \in Fresh \ assigned : live[f] = Absent
    /\ pc \in {"staged", "checking"} => done = 0
    /\ pc \in {"applying", "putting"} => i = done + 1
    /\ pc = "rolling" => i <= done
    /\ pc = "putting" => i \in DOMAIN plan /\ plan[i].op = "update"

\* What each kind of step does to the place of the apply and to the controller.
LEMMA SendEffect ==
    ASSUME TypeOK, NEW new \in [Rids -> Resource \cup {Absent}], i \in DOMAIN plan,
           Send(new)
    PROVE  /\ live' \in [Rids -> Resource \cup {Absent}] /\ live' \in {live, new}
           /\ pc' \in {"applying", "rolling"}
           /\ i' \in 0 .. Len(plan) + 1 /\ done' \in 0 .. Len(plan)
           /\ pc' = "rolling" => i' <= done'
           /\ pc' = "applying" => i' = done' + 1
           /\ flying' \subseteq DOMAIN plan /\ wrote' \in BOOLEAN
<1>1. Len(plan) \in Nat /\ DOMAIN plan = 1 .. Len(plan)
  BY PlanShape DEF TypeOK
<1>2. CASE Lands(new) /\ Advances /\ UNCHANGED flying
  BY <1>1, <1>2 DEF Lands, Advances, TypeOK
<1>3. CASE Unanswered
  BY <1>1, <1>3 DEF Unanswered, Fails, TypeOK
<1> QED
  BY <1>2, <1>3 DEF Send

\* So does a failure without a request, or with one that had no effect.
LEMMA FailEffect ==
    ASSUME TypeOK, Fails
    PROVE  /\ pc' = "rolling" /\ i' = done' /\ done' = done
           /\ i' \in 0 .. Len(plan) + 1 /\ done' \in 0 .. Len(plan)
<1>1. Len(plan) \in Nat
  BY PlanShape DEF TypeOK
<1> QED
  BY <1>1 DEF Fails, TypeOK

\* A rollback step marks its own mutation at most, and leaves a resource or
\* nothing behind.
LEMMA RollbackEffect ==
    ASSUME TypeOK, i \in DOMAIN plan,
           NEW new \in [Rids -> Resource \cup {Absent}],
           SendRollback(new) \/ RollbackFails
    PROVE  /\ live' \in [Rids -> Resource \cup {Absent}] /\ live' \in {live, new}
           /\ rollbackFailures' \subseteq DOMAIN plan /\ flying' \subseteq DOMAIN plan
           /\ wrote' \in BOOLEAN
  BY DEF SendRollback, RollbackFails, Lands, TypeOK

\* A write of others is to one id, and to nothing of this apply's if it has begun
\* and still counts as undisturbed.
LEMMA ForeignEffect ==
    ASSUME TypeOK, PlaceInv, Foreign
    PROVE  /\ live' \in [Rids -> Resource \cup {Absent}]
           /\ assigned \subseteq assigned' /\ assigned' \subseteq Fresh
           /\ \A f \in Fresh \ assigned' : live'[f] = Absent
           /\ meddled' \in BOOLEAN /\ (meddled => meddled')
           /\ pc # "staged" /\ ~meddled' => \A id \in Own : live'[id] = live[id]
           /\ UNCHANGED <<fixed, flying, pc, progress, origin, home, mine, stale, lost, wrote>>
<1>1. /\ live' \in [Rids -> Resource \cup {Absent}]
      /\ assigned \subseteq assigned' /\ assigned' \subseteq Fresh
      /\ \A f \in Fresh \ assigned' : live'[f] = Absent
  <2>1. CASE /\ \E r \in Existing \cup assigned, v \in Resource \cup {Absent} :
                  v # live[r] /\ live' = [live EXCEPT ![r] = v]
             /\ UNCHANGED assigned
    <3>1. PICK r \in Existing \cup assigned, v \in Resource \cup {Absent} :
            live' = [live EXCEPT ![r] = v]
      BY <2>1
    <3>2. \A f \in Fresh \ assigned : f # r
      BY PlansAssumption
    <3> QED
      BY <2>1, <3>1, <3>2 DEF TypeOK, PlaceInv, Rids
  <2>2. CASE \E f \in NextId, v \in Resource :
               live' = [live EXCEPT ![f] = v] /\ assigned' = assigned \cup {f}
    <3>1. PICK f \in NextId, v \in Resource :
            live' = [live EXCEPT ![f] = v] /\ assigned' = assigned \cup {f}
      BY <2>2
    <3>2. f \in Fresh
      BY DEF NextId, Unused
    <3> QED
      BY <3>1, <3>2 DEF TypeOK, PlaceInv, Rids
  <2> QED
    BY <2>1, <2>2 DEF Foreign, OthersWrite
<1>2. meddled \in BOOLEAN
  BY DEF TypeOK
<1> QED
  BY <1>1, <1>2 DEF Foreign, Bystands

\* What a POST takes is an id of Fresh, or nothing, and what it takes is its own.
LEMMA AssignEffect ==
    ASSUME TypeOK, PlaceInv, NEW id \in Rids, NEW v \in Resource, Assigns(id),
           live' \in {live, [live EXCEPT ![id] = v]}, live[id] = Absent
    PROVE  /\ mine \subseteq mine' /\ mine' \subseteq assigned' /\ assigned' \subseteq Fresh
           /\ \A f \in Fresh \ assigned' : live'[f] = Absent
           /\ live' = [live EXCEPT ![id] = v] /\ id \in Fresh =>
                id \in mine' /\ mine' = mine \cup {id} /\ assigned' = assigned \cup {id}
           /\ live' = live \/ id \notin Fresh => mine' = mine /\ assigned' = assigned
<1>1. PICK new : /\ new = {f \in Fresh \cap {id} : live'[f] # live[f]}
                 /\ assigned' = assigned \cup new /\ mine' = mine \cup new
  BY DEF Assigns
<1>2. v # Absent /\ DOMAIN live = Rids
  BY ValuesAssumption DEF TypeOK
<1>3. \A f \in Fresh \ assigned' : live'[f] = live[f]
  BY <1>1, <1>2 DEF Rids
<1>4. new \subseteq {id} \cap Fresh
  BY <1>1
<1>5. live' = [live EXCEPT ![id] = v] /\ id \in Fresh => new = {id}
  BY <1>1, <1>2
<1>6. live' = live \/ id \notin Fresh => new = {}
  BY <1>1
<1>7. mine \subseteq assigned /\ assigned \subseteq Fresh /\ \A f \in Fresh \ assigned : live[f] = Absent
  BY DEF TypeOK, PlaceInv
<1> QED
  BY <1>1, <1>3, <1>4, <1>5, <1>6, <1>7

\* A request that is carried out late creates a resource under the next id, or
\* writes to one that the plan names or that it created itself.
LEMMA ReachShape ==
    ASSUME TypeOK, NEW n \in flying, NEW id \in Reach(n)
    PROVE  /\ n \in DOMAIN plan /\ id \in Rids
           /\ \/ id \in NextId /\ Value(n) \in Resource
              \/ /\ plan[n].op = "create" /\ n <= done /\ id = created[n]
                 /\ live[id] # Absent /\ Value(n) = Absent
              \/ /\ plan[n].op \in {"update", "delete"} /\ id = plan[n].id
                 /\ plan[n].id \in Existing /\ Value(n) \in Resource \cup {Absent}
<1> DEFINE m == plan[n]
<1>1. /\ n \in DOMAIN plan /\ n \in Nat /\ done \in Nat
      /\ m.op \in {"create", "update", "delete", "restore"}
      /\ m.op = "create" => m.body \in Resource
      /\ m.op \in {"update", "delete"} => m.id \in Existing
  BY PlanShape DEF TypeOK
<1>2. NextId \subseteq Rids
  BY DEF NextId, Unused, Rids
<1>3. CASE m.op = "create"
  <2>1. CASE n > done
    BY <1>1, <1>2, <1>3, <2>1 DEF Reach, Value
  <2>2. CASE ~(n > done)
    <3>1. id \in {r \in Rids : r = created[n] /\ live[r] # Absent} /\ Value(n) = Absent
      BY <1>3, <2>2 DEF Reach, Value
    <3> QED
      BY <1>1, <1>3, <2>2, <3>1
  <2> QED
    BY <2>1, <2>2
<1>4. CASE m.op = "update"
  <2>1. id \in Rids /\ id = m.id
    BY <1>4 DEF Reach
  <2>2. Value(n) = IF n > done THEN body ELSE pre[m.id]
    BY <1>4 DEF Value
  <2>3. Value(n) \in Resource \cup {Absent}
    BY <1>1, <1>4, <2>2 DEF TypeOK
  <2> QED
    BY <1>1, <1>4, <2>1, <2>3
<1>5. CASE m.op = "delete"
  <2>1. Value(n) = IF n > done THEN Absent ELSE pre[m.id]
    BY <1>5 DEF Value
  <2>2. pre[m.id] \in Resource
    BY <1>1, <1>5 DEF TypeOK
  <2>3. CASE n > done
    <3>1. id \in Rids /\ id = m.id
      BY <1>5, <2>3 DEF Reach
    <3> QED
      BY <1>1, <1>5, <2>1, <2>3, <3>1
  <2>4. CASE ~(n > done)
    <3>1. id \in NextId \/ (id \in Rids /\ id = m.id)
      BY <1>5, <2>4 DEF Reach
    <3> QED
      BY <1>1, <1>2, <1>5, <2>1, <2>2, <2>4, <3>1
  <2> QED
    BY <2>3, <2>4
<1>6. m.op # "restore"
  BY DEF Reach
<1> QED
  BY <1>1, <1>3, <1>4, <1>5, <1>6

LEMMA LateTyped ==
    ASSUME TypeOK, PlaceInv, Late
    PROVE  TypeOK' /\ PlaceInv'
<1>0. PICK n \in flying : \E id \in Reach(n) :
        /\ Lands([live EXCEPT ![id] = Value(n)]) /\ Assigns(id)
        /\ lost' = (lost \/ n > done) /\ flying' = flying \ {n}
        /\ UNCHANGED <<fixed, pc, progress, origin, home, stale, meddled>>
  BY DEF Late
<1>1. PICK id \in Reach(n) :
        /\ Lands([live EXCEPT ![id] = Value(n)]) /\ Assigns(id)
        /\ lost' = (lost \/ n > done) /\ flying' = flying \ {n}
        /\ UNCHANGED <<fixed, pc, progress, origin, home, stale, meddled>>
  BY <1>0
<1>2. id \in Rids /\ Value(n) \in Resource \cup {Absent}
  BY ReachShape
<1>3. live' = [live EXCEPT ![id] = Value(n)] /\ wrote' = TRUE
  BY <1>1 DEF Lands
<1>4. PICK new : /\ new = {f \in Fresh \cap {id} : live'[f] # live[f]}
                 /\ assigned' = assigned \cup new /\ mine' = mine \cup new
  BY <1>1 DEF Assigns
<1>5. live' \in [Rids -> Resource \cup {Absent}] /\ lost' \in BOOLEAN
  BY <1>1, <1>2, <1>3 DEF TypeOK
<1>6. mine' \subseteq assigned' /\ assigned' \subseteq Fresh /\ mine \subseteq mine'
  BY <1>4 DEF TypeOK
<1>7. \A f \in Fresh \ assigned' : live'[f] = Absent
  <2>1. ASSUME NEW f \in Fresh \ assigned' PROVE live'[f] = live[f]
    BY <1>2, <1>3, <1>4, <2>1 DEF TypeOK, Rids
  <2> QED
    BY <1>4, <2>1 DEF PlaceInv
<1>8. created' \in [DOMAIN plan' -> mine' \cup {Absent}]
  BY <1>1, <1>6 DEF TypeOK, fixed, progress
<1>9. UNCHANGED <<plan, pre, pc, i, done, body, created, rollbackFailures, mismatch, state,
                  origin, home, stale, meddled>>
  BY <1>1 DEF fixed, progress
<1>10. flying' \subseteq DOMAIN plan'
  BY <1>1, <1>9 DEF TypeOK
<1> QED
  BY <1>3, <1>5, <1>6, <1>7, <1>8, <1>9, <1>10 DEF TypeOK, PlaceInv

\* Every action keeps every variable in its type.
LEMMA TypeStep == TypeOK /\ PlaceInv /\ [Next]_vars => TypeOK' /\ PlaceInv'
<1> SUFFICES ASSUME TypeOK, PlaceInv, [Next]_vars PROVE TypeOK' /\ PlaceInv'
  OBVIOUS
<1>1. plan \in Plans /\ Len(plan) \in Nat /\ DOMAIN plan = 1 .. Len(plan)
  BY PlanShape DEF TypeOK
<1>2. CASE Foreign
  BY <1>2, ForeignEffect DEF TypeOK, PlaceInv, fixed, progress
<1>3. CASE Begin
  BY <1>1, <1>3 DEF Begin, TypeOK, PlaceInv, fixed, controller
<1>4. CASE CheckOne
  BY <1>1, <1>4 DEF CheckOne, TypeOK, PlaceInv, fixed, controller, history
<1>5. CASE CheckRefuses \/ CheckPasses
  BY <1>1, <1>5 DEF CheckRefuses, CheckPasses, TypeOK, PlaceInv, fixed, controller, history
<1>6. CASE CreateOne
  <2>1. PICK f \in NextId : /\ Send([live EXCEPT ![f] = plan[i].body]) /\ Assigns(f)
                            /\ created' = IF done' = i THEN [created EXCEPT ![i] = f]
                                          ELSE created
    BY <1>6 DEF CreateOne
  <2>2. f \in Fresh /\ f \in Rids /\ live[f] = Absent
    BY DEF NextId, Unused, PlaceInv, Rids
  <2>3. i \in DOMAIN plan /\ plan[i].body \in Resource /\ pc = "applying"
    BY <1>1, <1>6, PlanShape DEF CreateOne, Applying
  <2>4. [live EXCEPT ![f] = plan[i].body] \in [Rids -> Resource \cup {Absent}]
    BY <2>3 DEF TypeOK
  <2>5. live' \in {live, [live EXCEPT ![f] = plan[i].body]}
        /\ (live' = live => pc' = "rolling" \/ live' = [live EXCEPT ![f] = plan[i].body])
    BY <2>1 DEF Send, Lands, Unanswered, Fails
  <2>6. /\ mine \subseteq mine' /\ mine' \subseteq assigned' /\ assigned' \subseteq Fresh
        /\ \A g \in Fresh \ assigned' : live'[g] = Absent
        /\ live' = [live EXCEPT ![f] = plan[i].body] => f \in mine'
    BY <2>1, <2>2, <2>3, <2>5, AssignEffect
  <2>7. created' \in [DOMAIN plan -> mine' \cup {Absent}]
    <3>1. done' = i => f \in mine'
      <4>1. CASE Lands([live EXCEPT ![f] = plan[i].body])
        BY <2>6, <4>1 DEF Lands
      <4>2. CASE Fails
        BY <1>1, <2>3, <4>2 DEF Fails, PlaceInv, TypeOK
      <4> QED
        BY <2>1, <4>1, <4>2 DEF Send, Unanswered
    <3>2. created \in [DOMAIN plan -> mine' \cup {Absent}]
      BY <2>6 DEF TypeOK
    <3> QED
      BY <2>1, <3>1, <3>2
  <2> QED
    BY <1>6, <2>1, <2>3, <2>4, <2>6, <2>7, SendEffect DEF CreateOne, TypeOK, PlaceInv, fixed, controller
<1>7. CASE PrepareUpdate
  <2>1. i \in DOMAIN plan /\ plan[i].op = "update" /\ plan[i].id \in Rids
    BY <1>1, <1>7, PlanShape DEF PrepareUpdate, Applying, Rids
  <2>2. CASE Fails /\ UNCHANGED body
    BY <1>7, <2>2, FailEffect DEF PrepareUpdate, TypeOK, PlaceInv, fixed, controller, history
  <2>3. CASE /\ pc' = "putting" /\ UNCHANGED <<i, done>>
             /\ \/ ~plan[i].partial /\ body' = plan[i].body
                \/ /\ plan[i].partial /\ live[plan[i].id] # Absent
                   /\ body' = Overlay(live[plan[i].id], plan[i].body)
    <3>1. body' \in Resource
      <4>1. CASE ~plan[i].partial /\ body' = plan[i].body
        BY <1>1, <2>1, <4>1, PlanShape
      <4>2. CASE /\ plan[i].partial /\ live[plan[i].id] # Absent
                 /\ body' = Overlay(live[plan[i].id], plan[i].body)
        <5>1. plan[i].body \in Body /\ live[plan[i].id] \in Resource
          BY <1>1, <2>1, <4>2, PlanShape DEF TypeOK
        <5> QED
          BY <4>2, <5>1, OverlayType
      <4> QED
        BY <2>3, <4>1, <4>2
    <3>2. pc = "applying" /\ UNCHANGED <<fixed, controller, created, rollbackFailures, mismatch, state, history>>
      BY <1>7 DEF PrepareUpdate, Applying
    <3>3. TypeOK'
      BY <2>3, <3>1, <3>2 DEF TypeOK, fixed, controller, history
    <3>4. PlaceInv'
      BY <2>1, <2>3, <3>2 DEF PlaceInv, fixed, controller, history
    <3> QED
      BY <3>3, <3>4
  <2> QED
    BY <1>7, <2>2, <2>3 DEF PrepareUpdate
<1>8. CASE PutOne
  <2> DEFINE r == plan[i].id
  <2>1. i \in DOMAIN plan
    BY <1>8 DEF PutOne, PlaceInv
  <2>2. [live EXCEPT ![r] = body] \in [Rids -> Resource \cup {Absent}]
    BY DEF TypeOK
  <2>3. Send([live EXCEPT ![r] = body]) \/ Unanswered
    BY <1>8 DEF PutOne
  <2>4. /\ live' \in [Rids -> Resource \cup {Absent}] /\ pc' \in {"applying", "rolling"}
        /\ i' \in 0 .. Len(plan) + 1 /\ done' \in 0 .. Len(plan)
        /\ pc' = "rolling" => i' <= done'
        /\ pc' = "applying" => i' = done' + 1
        /\ flying' \subseteq DOMAIN plan /\ wrote' \in BOOLEAN
        /\ live' \in {live, [live EXCEPT ![r] = body]}
    <3>1. CASE Send([live EXCEPT ![r] = body])
      BY <2>1, <2>2, <3>1, SendEffect
    <3>2. CASE Unanswered
      BY <2>1, <3>2, <1>1, FailEffect DEF Unanswered, TypeOK, PlaceInv
    <3> QED
      BY <2>3, <3>1, <3>2
    <2>5. r \in Existing
    BY <1>1, <1>8, <2>1, PlanShape DEF PutOne, Applying, PlaceInv
  <2>6. \A f \in Fresh \ assigned : live'[f] = Absent
    BY <2>4, <2>5, PlansAssumption DEF PlaceInv, TypeOK, Rids
<2> QED
    BY <1>8, <2>4, <2>6 DEF PutOne, TypeOK, PlaceInv, fixed, controller
<1>9. CASE DeleteOne
  <2> DEFINE r == plan[i].id
  <2>1. i \in DOMAIN plan
    BY <1>9 DEF DeleteOne, Applying
  <2>2. [live EXCEPT ![r] = Absent] \in [Rids -> Resource \cup {Absent}]
    BY DEF TypeOK
  <2>3. Send([live EXCEPT ![r] = Absent]) \/ Unanswered
    BY <1>9 DEF DeleteOne
  <2>4. /\ live' \in [Rids -> Resource \cup {Absent}] /\ pc' \in {"applying", "rolling"}
        /\ i' \in 0 .. Len(plan) + 1 /\ done' \in 0 .. Len(plan)
        /\ pc' = "rolling" => i' <= done'
        /\ pc' = "applying" => i' = done' + 1
        /\ flying' \subseteq DOMAIN plan /\ wrote' \in BOOLEAN
        /\ live' \in {live, [live EXCEPT ![r] = Absent]}
    <3>1. CASE Send([live EXCEPT ![r] = Absent])
      BY <2>1, <2>2, <3>1, SendEffect
    <3>2. CASE Unanswered
      BY <2>1, <3>2, <1>1, FailEffect DEF Unanswered, TypeOK, PlaceInv
    <3> QED
      BY <2>3, <3>1, <3>2
    <2>5. r \in Existing
    BY <1>1, <1>9, <2>1, PlanShape DEF DeleteOne, Applying, PlaceInv
  <2>6. \A f \in Fresh \ assigned : live'[f] = Absent
    BY <2>4, <2>5, PlansAssumption DEF PlaceInv, TypeOK, Rids
<2> QED
    BY <1>9, <2>4, <2>6 DEF DeleteOne, TypeOK, PlaceInv, fixed, controller
<1>10. CASE RestoreOne
  BY <1>10, <1>1, FailEffect DEF RestoreOne, TypeOK, PlaceInv, fixed, controller, history
<1>11. CASE AllApplied
  BY <1>1, <1>11 DEF AllApplied, TypeOK, PlaceInv, fixed, controller, history
<1>12. CASE VerifyOne
  <2>1. mismatch' \in BOOLEAN
    BY <1>12 DEF VerifyOne
  <2> QED
    BY <1>1, <1>12, <2>1 DEF VerifyOne, TypeOK, PlaceInv, fixed, controller, history
<1>13. CASE VerifyFails \/ Verified
  BY <1>1, <1>13 DEF VerifyFails, Verified, TypeOK, PlaceInv, fixed, controller, history
<1>14. CASE RollbackCreate \/ RollbackUpdate \/ RollbackDelete
  <2>1. pc = "rolling" /\ i \in DOMAIN plan /\ i > 0 /\ pc' = pc /\ i' = i - 1
        /\ done' = done
    BY <1>1, <1>14 DEF RollbackCreate, RollbackUpdate, RollbackDelete, RollbackAt,
       PlaceInv, TypeOK
  <2>2. i' \in 0 .. Len(plan) + 1 /\ i' <= done'
    BY <1>1, <2>1 DEF PlaceInv, TypeOK
  <2>3. /\ live' \in [Rids -> Resource \cup {Absent}]
        /\ rollbackFailures' \subseteq DOMAIN plan /\ flying' \subseteq DOMAIN plan
        /\ wrote' \in BOOLEAN /\ home' \in [Existing -> Rids]
        /\ mine \subseteq mine' /\ mine' \subseteq assigned' /\ assigned' \subseteq Fresh
        /\ \A g \in Fresh \ assigned' : live'[g] = Absent
    <3>1. CASE RollbackCreate
      <4>1. [live EXCEPT ![created[i]] = Absent] \in [Rids -> Resource \cup {Absent}]
        BY DEF TypeOK
      <4>2. SendRollback([live EXCEPT ![created[i]] = Absent]) \/ RollbackFails
        BY <3>1 DEF RollbackCreate
      <4>3. live' \in {live, [live EXCEPT ![created[i]] = Absent]}
        BY <2>1, <4>1, <4>2, RollbackEffect
      <4>4. \A g \in Fresh \ assigned : live'[g] = Absent
        BY <4>3 DEF PlaceInv, TypeOK, Rids
      <4> QED
        BY <2>1, <3>1, <4>1, <4>2, <4>4, RollbackEffect DEF RollbackCreate, TypeOK
    <3>2. CASE RollbackUpdate
      <4>1. plan[i].id \in Existing
        BY <1>1, <2>1, <3>2, PlanShape DEF RollbackUpdate, RollbackAt
      <4>2. [live EXCEPT ![plan[i].id] = pre[plan[i].id]]
              \in [Rids -> Resource \cup {Absent}]
        BY <4>1 DEF TypeOK
      <4>3. SendRollback([live EXCEPT ![plan[i].id] = pre[plan[i].id]]) \/ RollbackFails
        BY <3>2 DEF RollbackUpdate
      <4>4. live' \in {live, [live EXCEPT ![plan[i].id] = pre[plan[i].id]]}
        BY <2>1, <4>2, <4>3, RollbackEffect
      <4>5. \A g \in Fresh \ assigned : live'[g] = Absent
        BY <4>1, <4>4, PlansAssumption DEF PlaceInv, TypeOK, Rids
      <4> QED
        BY <2>1, <3>2, <4>2, <4>3, <4>5, RollbackEffect DEF RollbackUpdate, TypeOK
    <3>3. CASE RollbackDelete
      <4> DEFINE r == plan[i].id
      <4>1. r \in Existing
        BY <1>1, <2>1, <3>3, PlanShape DEF RollbackDelete, RollbackAt
      <4>2. PICK id \in NextId \cup (IF live[r] = Absent THEN {r} ELSE {}) :
              /\ SendRollback([live EXCEPT ![id] = pre[r]])
              /\ home' = IF live'[id] = pre[r] THEN [home EXCEPT ![r] = id] ELSE home
              /\ Assigns(id)
        BY <3>3 DEF RollbackDelete
      <4>3. id \in Rids /\ live[id] = Absent
        BY <4>1, <4>2 DEF NextId, Unused, Rids, PlaceInv
      <4>4. [live EXCEPT ![id] = pre[r]] \in [Rids -> Resource \cup {Absent}]
            /\ pre[r] \in Resource
        BY <4>1 DEF TypeOK
      <4>5. home' \in [Existing -> Rids]
        BY <4>2, <4>3 DEF TypeOK
      <4>6. live' \in {live, [live EXCEPT ![id] = pre[r]]}
        BY <2>1, <4>2, <4>4, RollbackEffect
      <4>7. /\ mine \subseteq mine' /\ mine' \subseteq assigned' /\ assigned' \subseteq Fresh
            /\ \A f \in Fresh \ assigned' : live'[f] = Absent
        BY <4>2, <4>3, <4>4, <4>6, AssignEffect
      <4> QED
        BY <2>1, <4>2, <4>4, <4>5, <4>7, RollbackEffect
    <3> QED
      BY <1>14, <3>1, <3>2, <3>3
  <2>4. UNCHANGED <<plan, pre, body, created, mismatch, state, origin, stale, meddled, lost>>
    BY <1>14 DEF RollbackCreate, RollbackUpdate, RollbackDelete, fixed
  <2>5. created' \in [DOMAIN plan' -> mine' \cup {Absent}]
    BY <2>3, <2>4 DEF TypeOK
  <2>6. PlaceInv'
    BY <2>1, <2>2, <2>3, <2>4 DEF PlaceInv
  <2> QED
    BY <2>1, <2>2, <2>3, <2>4, <2>5, <2>6 DEF TypeOK
<1>15. CASE RollbackDone
  BY <1>15 DEF RollbackDone, TypeOK, PlaceInv, fixed, controller, history
<1>16. CASE Late
  BY <1>16, LateTyped
<1>17. CASE UNCHANGED vars
  BY <1>17 DEF vars, TypeOK, PlaceInv
<1> QED
  BY <1>2, <1>3, <1>4, <1>5, <1>6, <1>7, <1>8, <1>9, <1>10, <1>11, <1>12, <1>13,
     <1>14, <1>15, <1>16, <1>17 DEF Next, ApplyStep

\* An apply starts in its type.
LEMMA InitTyped == Init => TypeOK /\ PlaceInv
<1> SUFFICES ASSUME Init PROVE TypeOK /\ PlaceInv
  OBVIOUS
<1>1. plan \in Plans /\ Len(plan) \in Nat
  BY PlanShape, PlansAssumption DEF Init
<1>2. pre \in [Existing -> Resource] /\ body \in Resource \cup {Absent}
  BY DEF Init
<1>3. live \in [Rids -> Resource \cup {Absent}] /\ origin \in [Rids -> Resource \cup {Absent}]
  BY <1>2 DEF Init, Rids
<1>4. home \in [Existing -> Rids]
  BY DEF Init, Rids
<1>5. created \in [DOMAIN plan -> mine \cup {Absent}] /\ mine \subseteq assigned /\ assigned \subseteq Fresh
  BY DEF Init
<1>6. flying = {} /\ i \in 0 .. Len(plan) + 1 /\ done \in 0 .. Len(plan)
  BY <1>1 DEF Init
<1>7. {mismatch, stale, meddled, lost, wrote} \subseteq BOOLEAN
  BY DEF Init
<1>8. pc = "staged" /\ state = "running" /\ rollbackFailures = {} /\ done = 0
  BY DEF Init
<1>9. \A f \in Fresh : live[f] = Absent
  BY PlansAssumption DEF Init, Rids
<1> QED
  BY <1>1, <1>2, <1>3, <1>4, <1>5, <1>6, <1>7, <1>8, <1>9 DEF TypeOK, PlaceInv

\* Every variable of an apply stays in its type, whatever fails, and a rollback
\* or a PUT is always at a mutation of the plan.
THEOREM ApplyTyped == Spec => []TypeOK
  BY InitTyped, TypeStep, PTL DEF Spec

-----------------------------------------------------------------------------
(* A stale plan writes nothing                                              *)

\* What the plan updates or deletes is its own.
LEMMA TouchedOwn ==
    ASSUME TypeOK
    PROVE  /\ Touched \subseteq Existing /\ Touched \subseteq Own /\ mine \subseteq Own
           /\ \A n \in DOMAIN plan : plan[n].op \in {"update", "delete"} => plan[n].id \in Touched
  BY PlanShape DEF Touched, Own, TypeOK

\* The resources of the plan do not depend on where the apply is.
LEMMA TouchedSame == UNCHANGED plan => Touched' = Touched
  BY DEF Touched

\* The check walks the plan over the controller the apply began on; when it
\* comes to the end, no resource of the plan had moved.
StaleInv ==
    /\ pc \in {"staged", "checking"} => ~wrote /\ flying = {}
    /\ pc = "checking" => i > 0
    /\ pc = "checking" /\ ~meddled =>
         /\ stale => \E r \in Touched : live[r] # pre[r]
         /\ \A n \in DOMAIN plan : n < i => Unmoved(plan[n])
    /\ pc \notin {"staged", "checking"} /\ stale /\ ~meddled =>
         pc = "returned" /\ ~wrote /\ flying = {}

\* Every step keeps it.
LEMMA StaleStep == TypeOK /\ PlaceInv /\ StaleInv /\ [Next]_vars => StaleInv'
<1> SUFFICES ASSUME TypeOK, PlaceInv, StaleInv, [Next]_vars PROVE StaleInv'
  OBVIOUS
<1>1. Len(plan) \in Nat /\ DOMAIN plan = 1 .. Len(plan)
  BY PlanShape DEF TypeOK
<1>2. CASE Foreign
  <2>1. /\ UNCHANGED <<plan, pre, flying, pc, i, stale, wrote>> /\ (meddled => meddled')
        /\ pc # "staged" /\ ~meddled' => \A id \in Own : live'[id] = live[id]
    BY <1>2, ForeignEffect DEF fixed, progress
  <2>2. ~meddled' /\ pc # "staged" => \A n \in DOMAIN plan : Unmoved(plan[n]) => Unmoved(plan[n])'
    BY <2>1, TouchedOwn DEF Unmoved
  <2>3. Touched' = Touched /\ Touched \subseteq Own
    BY <2>1, TouchedOwn, TouchedSame
  <2> QED
    BY <2>1, <2>2, <2>3 DEF StaleInv, Unmoved
<1>3. CASE Begin
  BY <1>1, <1>3 DEF Begin, StaleInv, Touched, fixed, controller
<1>4. CASE CheckOne
  <2>1. /\ pc = "checking" /\ pc' = pc /\ i' = i + 1 /\ Unmoved(plan[i]) /\ i > 0
        /\ UNCHANGED <<plan, pre, live, flying, stale, meddled, wrote>>
    BY <1>4 DEF CheckOne, fixed, controller, history, StaleInv
  <2>2. \A n \in DOMAIN plan : n < i' => n < i \/ n = i
    BY <1>1, <2>1 DEF TypeOK
  <2>3. i' > 0
    BY <2>1 DEF TypeOK
  <2> QED
    BY <2>1, <2>2, <2>3 DEF StaleInv, Touched, Unmoved
<1>5. CASE CheckRefuses
  BY <1>5 DEF CheckRefuses, StaleInv, fixed, controller, history
<1>6. CASE CheckPasses
  <2>1. /\ pc = "checking" /\ i \notin DOMAIN plan /\ pc' = "applying"
        /\ UNCHANGED <<plan, pre, live, stale, meddled, wrote>>
    BY <1>6 DEF CheckPasses, fixed, controller, history
  <2>2. \A n \in DOMAIN plan : n < i
    BY <1>1, <2>1 DEF StaleInv, TypeOK
  <2>3. ~meddled => ~ \E r \in Touched : live[r] # pre[r]
    BY <2>1, <2>2 DEF StaleInv, Touched, Unmoved
  <2> QED
    BY <2>1, <2>3 DEF StaleInv
<1>7. ASSUME /\ pc \notin {"staged", "checking", "returned"}
             /\ pc' \notin {"staged", "checking"} /\ UNCHANGED <<stale, meddled>>
      PROVE  StaleInv'
  BY <1>7 DEF StaleInv
<1>8. CASE CreateOne \/ PrepareUpdate \/ PutOne \/ DeleteOne \/ RestoreOne
  <2>1. pc \in {"applying", "putting"} /\ UNCHANGED <<stale, meddled>>
    BY <1>8 DEF CreateOne, PrepareUpdate, PutOne, DeleteOne, RestoreOne, Applying, history
  <2>2. pc' \in {"applying", "putting", "rolling"}
    BY <1>8 DEF CreateOne, PrepareUpdate, PutOne, DeleteOne, RestoreOne, Send, Advances,
       Unanswered, Fails
  <2> QED
    BY <1>7, <2>1, <2>2
<1>9. CASE AllApplied \/ VerifyOne \/ VerifyFails \/ Verified \/ RollbackCreate
           \/ RollbackUpdate \/ RollbackDelete \/ RollbackDone
  BY <1>7, <1>9 DEF AllApplied, VerifyOne, VerifyFails, Verified, RollbackCreate,
     RollbackUpdate, RollbackDelete, RollbackDone, RollbackAt, history
<1>10. CASE Late
  BY <1>10 DEF Late, StaleInv
<1>11. CASE UNCHANGED vars
  BY <1>11 DEF vars, StaleInv, Touched, Unmoved
<1> QED
  BY <1>2, <1>3, <1>4, <1>5, <1>6, <1>8, <1>9, <1>10, <1>11 DEF Next, ApplyStep

\* For plans of any length: if a resource of the plan had moved when the apply
\* began, the apply leaves the controller alone.
THEOREM StaleHolds == Spec => []StalePlanWritesNothing
<1>1. Init => TypeOK /\ PlaceInv /\ StaleInv
  BY InitTyped DEF Init, StaleInv
<1>2. StaleInv => StalePlanWritesNothing
  BY DEF StaleInv, StalePlanWritesNothing
<1> QED
  BY <1>1, <1>2, TypeStep, StaleStep, PTL DEF Spec

-----------------------------------------------------------------------------
(* Where the apply is                                                       *)

\* Before the first write.
EarlyInv ==
    /\ pc \in {"staged", "checking"} =>
         /\ ~lost /\ flying = {} /\ rollbackFailures = {} /\ mine = {}
         /\ home = [r \in Existing |-> r]
    /\ pc = "checking" /\ ~meddled => \A r \in Touched : live[r] = origin[r]
    /\ pc # "staged" => (stale <=> \E r \in Touched : origin[r] # pre[r])

\* While mutations are applied: what is about to be PUT is the body over what
\* is there.
ForwardInv ==
    /\ pc \in {"applying", "putting"} =>
         /\ ~lost /\ flying = {} /\ rollbackFailures = {}
         /\ home = [r \in Existing |-> r]
    /\ pc = "putting" /\ ~meddled =>
         body = Overlay(live[plan[i].id], plan[i].body)

OutcomeInv ==
    /\ pc # "returned" => state = "running"
    /\ state = "Partial" => pc = "returned" /\ i = 0 /\ rollbackFailures = {}

\* Before the first write what the plan names is as the apply found it, and whether
\* the plan is stale is decided once.
LEMMA EarlyStep == TypeOK /\ PlaceInv /\ EarlyInv /\ [Next]_vars => EarlyInv'
<1> SUFFICES ASSUME TypeOK, PlaceInv, EarlyInv, [Next]_vars PROVE EarlyInv'
  OBVIOUS
<1>1. CASE Foreign
  <2>1. /\ UNCHANGED <<plan, pre, flying, pc, lost, rollbackFailures, home, mine, origin, stale>>
        /\ (meddled => meddled')
        /\ pc # "staged" /\ ~meddled' => \A id \in Own : live'[id] = live[id]
    BY <1>1, ForeignEffect DEF fixed, progress
  <2>2. Touched' = Touched /\ Touched \subseteq Own
    BY <2>1, TouchedOwn, TouchedSame
  <2> QED
    BY <2>1, <2>2 DEF EarlyInv
<1>2. CASE Begin
  BY <1>2 DEF Begin, EarlyInv, Touched, fixed, controller
<1>3. CASE CheckOne \/ CheckRefuses \/ CheckPasses
  BY <1>3 DEF CheckOne, CheckRefuses, CheckPasses, EarlyInv, Touched, fixed, controller, history
<1>4. ASSUME pc \notin {"staged", "checking"}, pc' \notin {"staged", "checking"},
             UNCHANGED <<plan, pre, origin, stale>>
      PROVE  EarlyInv'
  BY <1>4 DEF EarlyInv, Touched
<1>5. CASE CreateOne \/ PrepareUpdate \/ PutOne \/ DeleteOne \/ RestoreOne
  <2>1. pc \in {"applying", "putting"} /\ UNCHANGED <<plan, pre, origin, stale>>
    BY <1>5 DEF CreateOne, PrepareUpdate, PutOne, DeleteOne, RestoreOne, Applying,
       history, fixed, controller
  <2>2. pc' \in {"applying", "putting", "rolling"}
    BY <1>5 DEF CreateOne, PrepareUpdate, PutOne, DeleteOne, RestoreOne, Send, Advances,
       Unanswered, Fails
  <2> QED
    BY <1>4, <2>1, <2>2
<1>6. CASE AllApplied \/ VerifyOne \/ VerifyFails \/ Verified \/ RollbackCreate
           \/ RollbackUpdate \/ RollbackDelete \/ RollbackDone
  BY <1>4, <1>6 DEF AllApplied, VerifyOne, VerifyFails, Verified, RollbackCreate,
     RollbackUpdate, RollbackDelete, RollbackDone, RollbackAt, history, fixed, controller
<1>7. CASE Late
  <2>1. /\ pc \notin {"staged", "checking"}
        /\ UNCHANGED <<fixed, pc, origin, stale>>
    BY <1>7 DEF Late, EarlyInv
  <2> QED
    BY <1>4, <2>1 DEF fixed
<1>8. CASE UNCHANGED vars
  BY <1>8 DEF vars, EarlyInv, Touched
<1> QED
  BY <1>1, <1>2, <1>3, <1>5, <1>6, <1>7, <1>8 DEF Next, ApplyStep

\* A whole body over a resource, or over nothing, is that body.
LEMMA OverlayWhole ==
    ASSUME NEW r, NEW b \in Resource
    PROVE  Overlay(r, b) = b
  BY ValuesAssumption DEF Overlay, Resource

\* While mutations are applied nothing was lost and nothing was undone.
LEMMA ForwardStep == TypeOK /\ PlaceInv /\ EarlyInv /\ ForwardInv /\ [Next]_vars => ForwardInv'
<1> SUFFICES ASSUME TypeOK, PlaceInv, EarlyInv, ForwardInv, [Next]_vars PROVE ForwardInv'
  OBVIOUS
<1>1. plan \in Plans /\ Len(plan) \in Nat /\ DOMAIN plan = 1 .. Len(plan)
  BY PlanShape DEF TypeOK
<1>2. CASE Foreign
  <2>1. /\ UNCHANGED <<plan, flying, pc, i, body, lost, rollbackFailures, home>> /\ (meddled => meddled')
        /\ pc # "staged" /\ ~meddled' => \A id \in Own : live'[id] = live[id]
    BY <1>2, ForeignEffect DEF fixed, progress
  <2>2. pc = "putting" => plan[i].id \in Own
    BY TouchedOwn DEF PlaceInv
  <2> QED
    BY <2>1, <2>2 DEF ForwardInv
<1>3. CASE CheckPasses
  BY <1>3 DEF CheckPasses, EarlyInv, ForwardInv, controller, history
<1>4. CASE PrepareUpdate
  <2>1. i \in DOMAIN plan /\ plan[i].op = "update" /\ plan[i].id \in Rids /\ pc = "applying"
    BY <1>1, <1>4, PlanShape DEF PrepareUpdate, Applying, Rids
  <2>2. ASSUME pc' = "putting"
        PROVE  body' = Overlay(live[plan[i].id], plan[i].body)
    <3>1. ~plan[i].partial => plan[i].body \in Resource
      BY <1>1, <2>1, PlanShape
    <3> QED
      BY <1>4, <2>2, <3>1, OverlayWhole DEF PrepareUpdate, Fails
  <2> QED
    BY <1>4, <2>1, <2>2 DEF PrepareUpdate, ForwardInv, Fails, fixed, controller, history
<1>5. CASE CreateOne \/ PutOne \/ DeleteOne
  <2>1. /\ ~lost /\ flying = {} /\ rollbackFailures = {} /\ home = [r \in Existing |-> r]
        /\ UNCHANGED <<lost, rollbackFailures, home>>
    BY <1>5 DEF CreateOne, PutOne, DeleteOne, Applying, ForwardInv
  <2>2. \/ Advances /\ UNCHANGED flying
        \/ Fails
    BY <1>5 DEF CreateOne, PutOne, DeleteOne, Send, Unanswered
  <2> QED
    BY <2>1, <2>2 DEF Advances, Fails, ForwardInv
<1>6. CASE RestoreOne
  BY <1>6 DEF RestoreOne, Fails, ForwardInv
<1>7. CASE Begin \/ CheckOne \/ CheckRefuses \/ AllApplied \/ VerifyOne \/ VerifyFails
           \/ Verified \/ RollbackCreate \/ RollbackUpdate \/ RollbackDelete \/ RollbackDone
  BY <1>7 DEF Begin, CheckOne, CheckRefuses, AllApplied, VerifyOne, VerifyFails, Verified,
     RollbackCreate, RollbackUpdate, RollbackDelete, RollbackDone, RollbackAt, ForwardInv
<1>8. CASE Late
  BY <1>8 DEF Late, ForwardInv
<1>9. CASE UNCHANGED vars
  BY <1>9 DEF vars, ForwardInv
<1> QED
  BY <1>2, <1>3, <1>4, <1>5, <1>6, <1>7, <1>8, <1>9 DEF Next, ApplyStep

\* Only a rollback that came to its end without a failure reports Partial.
LEMMA OutcomeStep == OutcomeInv /\ [Next]_vars => OutcomeInv'
<1> SUFFICES ASSUME OutcomeInv, [Next]_vars PROVE OutcomeInv'
  OBVIOUS
<1>1. CASE Foreign
  BY <1>1 DEF Foreign, Bystands, OutcomeInv, progress
<1>2. CASE Begin \/ CheckOne \/ CheckPasses \/ AllApplied
  BY <1>2 DEF Begin, CheckOne, CheckPasses, AllApplied, OutcomeInv
<1>3. CASE CheckRefuses
  BY <1>3 DEF CheckRefuses, OutcomeInv
<1>4. CASE CreateOne \/ PrepareUpdate \/ PutOne \/ DeleteOne \/ RestoreOne
  <2>1. pc \in {"applying", "putting"} /\ UNCHANGED state
    BY <1>4 DEF CreateOne, PrepareUpdate, PutOne, DeleteOne, RestoreOne, Applying
  <2> QED
    BY <2>1 DEF OutcomeInv
<1>5. CASE VerifyOne
  BY <1>5 DEF VerifyOne, OutcomeInv
<1>6. CASE VerifyFails \/ Verified
  BY <1>6 DEF VerifyFails, Verified, OutcomeInv
<1>7. CASE RollbackCreate \/ RollbackUpdate \/ RollbackDelete
  BY <1>7 DEF RollbackCreate, RollbackUpdate, RollbackDelete, RollbackAt, OutcomeInv
<1>8. CASE RollbackDone
  BY <1>8 DEF RollbackDone, OutcomeInv
<1>9. CASE Late
  BY <1>9 DEF Late, OutcomeInv, progress
<1>10. CASE UNCHANGED vars
  BY <1>10 DEF vars, OutcomeInv
<1> QED
  BY <1>1, <1>2, <1>3, <1>4, <1>5, <1>6, <1>7, <1>8, <1>9, <1>10 DEF Next, ApplyStep

\* An apply starts before its first write.
LEMMA InitPlaced == Init => EarlyInv /\ ForwardInv /\ OutcomeInv
<1> SUFFICES ASSUME Init PROVE EarlyInv /\ ForwardInv /\ OutcomeInv
  OBVIOUS
<1> QED
  BY DEF Init, EarlyInv, ForwardInv, OutcomeInv

-----------------------------------------------------------------------------
(* Induction over the plan                                                  *)

\* The resources after each mutation are well defined.
LEMMA ExpectedExists ==
    ASSUME NEW p \in Plans, NEW contents
    PROVE  \E f : f = [n \in 0 .. Len(p) |->
                         IF n = 0 THEN contents ELSE Changed(p[n], f[n - 1])]
<1> DEFINE IsResult(f, k) ==
             f = [n \in 0 .. k |-> IF n = 0 THEN contents ELSE Changed(p[n], f[n - 1])]
           T == {k \in Nat : ~ \E f : IsResult(f, k)}
<1>1. T \subseteq Nat /\ \A k \in Nat : k \notin T <=> \E f : IsResult(f, k)
  OBVIOUS
<1>2. Len(p) \in Nat
  BY PlansAssumption
<1>3. SUFFICES ASSUME T # {} PROVE FALSE
  BY <1>1, <1>2
<1> HIDE DEF T
<1>4. PICK k \in T : \A j \in T : k <= j
  BY <1>1, <1>3, LeastNatural
<1>5. k \in Nat
  BY <1>1
<1>6. CASE k = 0
  <2> DEFINE f == [n \in 0 .. k |-> contents]
  <2>1. \A n \in 0 .. k : n = 0
    BY <1>6
  <2>2. f = [n \in 0 .. k |-> IF n = 0 THEN contents ELSE Changed(p[n], f[n - 1])]
    BY <2>1
  <2> QED
    BY <1>1, <1>5, <2>2
<1>7. CASE k # 0
  <2>1. k - 1 \in Nat /\ k - 1 \notin T
    BY <1>4, <1>5, <1>7
  <2>2. PICK g : IsResult(g, k - 1)
    BY <1>1, <2>1
  <2> DEFINE f == [n \in 0 .. k |-> IF n = k THEN Changed(p[k], g[k - 1]) ELSE g[n]]
  <2>3. ASSUME NEW n \in 0 .. k
        PROVE  f[n] = IF n = 0 THEN contents ELSE Changed(p[n], f[n - 1])
    <3>1. \A j \in 0 .. k - 1 : f[j] = g[j]
      BY <1>5
    <3>2. CASE n = k
      <4>1. f[n] = Changed(p[k], g[k - 1]) /\ k - 1 \in 0 .. k - 1
        BY <1>5, <1>7, <3>2
      <4> QED
        BY <1>7, <3>1, <3>2, <4>1
    <3>3. CASE n # k
      <4>1. n \in 0 .. k - 1 /\ (n # 0 => n - 1 \in 0 .. k - 1)
        BY <1>5, <3>3
      <4>2. g[n] = IF n = 0 THEN contents ELSE Changed(p[n], g[n - 1])
        BY <2>2, <4>1
      <4> HIDE DEF f
      <4> QED
        BY <3>1, <4>1, <4>2
    <3> QED
      BY <3>2, <3>3
  <2>4. f = [n \in 0 .. k |-> f[n]]
    OBVIOUS
  <2>5. IsResult(f, k)
    <3> HIDE DEF f
    <3> QED
      BY <2>3, <2>4
  <2> QED
    BY <1>1, <1>5, <2>5
<1> QED
  BY <1>6, <1>7

\* They are what their definition says: induction on the length of the plan.
LEMMA ExpectedDef ==
    ASSUME NEW p \in Plans, NEW contents
    PROVE  /\ Expected(p, contents)[0] = contents
           /\ \A n \in 1 .. Len(p) :
                Expected(p, contents)[n] = Changed(p[n], Expected(p, contents)[n - 1])
<1>1. Expected(p, contents)
        = [n \in 0 .. Len(p) |->
             IF n = 0 THEN contents ELSE Changed(p[n], Expected(p, contents)[n - 1])]
  BY ExpectedExists DEF Expected
<1>2. Len(p) \in Nat
  BY PlansAssumption
<1> QED
  BY <1>1, <1>2

-----------------------------------------------------------------------------
(* Applied means all                                                        *)

Occupied == {f \in mine : live[f] # Absent}
Creates(n) == {m \in 1 .. n : plan[m].op = "create"}

\* What succeeded so far is on the controller, and nothing else.
Carried ==
    /\ [r \in Touched |-> live[r]] = Expected(plan, [q \in Touched |-> origin[q]])[done]
    /\ \A n \in 1 .. done : plan[n].op = "create" =>
         created[n] \in mine /\ live[created[n]] = plan[n].body
    /\ IsFiniteSet(Occupied) /\ Cardinality(Occupied) = Cardinality(Creates(done))

IsApplied == state \in {"Applied", "AppliedUnverified"}

CarriedInv ==
    /\ pc = "verifying" \/ IsApplied => done = Len(plan) /\ flying = {}
    /\ ~meddled /\ (pc \in {"applying", "putting", "verifying"} \/ IsApplied) => Carried

\* What it says of the controller is about its own resources alone.
LEMMA CarriedSame ==
    ASSUME Carried, \A id \in Own : live'[id] = live[id],
           UNCHANGED <<plan, done, created, origin, mine>>
    PROVE  Carried'
<1>1. Touched' = Touched /\ Touched \subseteq Own /\ mine \subseteq Own
  BY TouchedSame DEF Own
<1>2. Occupied' = Occupied /\ Creates(done)' = Creates(done)
  BY <1>1 DEF Occupied, Creates
<1>3. [r \in Touched' |-> live'[r]] = [r \in Touched |-> live[r]]
  BY <1>1
<1>4. [r \in Touched' |-> origin'[r]] = [r \in Touched |-> origin[r]]
  BY <1>1
<1>5. \A n \in 1 .. done : plan[n].op = "create" =>
        created[n] \in mine /\ live'[created[n]] = plan[n].body
  BY <1>1 DEF Carried
<1> QED
  BY <1>2, <1>3, <1>4, <1>5 DEF Carried

\* A write to a resource that succeeds is one more mutation carried out.
LEMMA CarriedWrite ==
    ASSUME TypeOK, Carried, i = done + 1, i \in DOMAIN plan,
           plan[i].op \in {"update", "delete"},
           NEW v \in Resource \cup {Absent},
           plan[i].op = "update" => v = Overlay(live[plan[i].id], plan[i].body),
           plan[i].op = "delete" => v = Absent,
           live' = [live EXCEPT ![plan[i].id] = v], done' = i,
           UNCHANGED <<plan, created, origin, mine>>
    PROVE  Carried'
<1> DEFINE r == plan[i].id
           E == Expected(plan, [q \in Touched |-> origin[q]])
<1>1. /\ plan \in Plans /\ Len(plan) \in Nat /\ DOMAIN plan = 1 .. Len(plan)
      /\ r \in Existing /\ r \in Rids /\ r \in Touched /\ done \in Nat
      /\ Touched \subseteq Existing /\ Touched' = Touched /\ mine \subseteq Fresh
  BY PlanShape, TouchedOwn, TouchedSame DEF TypeOK, Rids
<1>2. /\ live'[r] = v /\ \A q \in Touched : q # r => live'[q] = live[q]
      /\ \A f \in mine : live'[f] = live[f]
  BY <1>1, PlansAssumption DEF TypeOK, Rids
<1>3. E[i] = Changed(plan[i], E[done])
  BY <1>1, ExpectedDef
<1>4. [q \in Touched |-> live'[q]] = E[i]
  <2>1. E[done] = [q \in Touched |-> live[q]]
    BY DEF Carried
  <2>2. Changed(plan[i], E[done]) = [[q \in Touched |-> live[q]] EXCEPT ![r] = v]
    BY <1>1, <2>1 DEF Changed
  <2>3. [[q \in Touched |-> live[q]] EXCEPT ![r] = v] = [q \in Touched |-> live'[q]]
    BY <1>1, <1>2
  <2> QED
    BY <1>3, <2>2, <2>3
<1>5. Occupied' = Occupied
  BY <1>2 DEF Occupied
<1>6. Creates(i) = Creates(done)
  BY <1>1 DEF Creates
<1>7. Creates(done)' = Creates(i)
  BY DEF Creates
<1>8. \A n \in 1 .. i : plan[n].op = "create" =>
        created[n] \in mine /\ live'[created[n]] = plan[n].body
  BY <1>1, <1>2 DEF Carried
<1>9. [q \in Touched' |-> live'[q]] = Expected(plan', [q \in Touched' |-> origin'[q]])[i]
  BY <1>1, <1>4
<1> QED
  BY <1>5, <1>6, <1>7, <1>8, <1>9 DEF Carried

\* So is a create, which adds one resource.
LEMMA CarriedCreate ==
    ASSUME TypeOK, Carried, i = done + 1, i \in DOMAIN plan, plan[i].op = "create",
           NEW f \in NextId, live' = [live EXCEPT ![f] = plan[i].body],
           created' = [created EXCEPT ![i] = f], done' = i, mine' = mine \cup {f},
           UNCHANGED <<plan, origin>>
    PROVE  Carried'
<1> DEFINE E == Expected(plan, [q \in Touched |-> origin[q]])
<1>1. /\ plan \in Plans /\ Len(plan) \in Nat /\ DOMAIN plan = 1 .. Len(plan)
      /\ plan[i].body \in Resource /\ done \in Nat
  <2>1. plan \in Plans /\ done \in 0 .. Len(plan)
    BY DEF TypeOK
  <2> QED
    BY <2>1, PlanShape
<1>2. /\ f \in Fresh /\ f \notin mine /\ mine \subseteq Fresh
      /\ Touched \subseteq Existing /\ Touched' = Touched
  BY TouchedOwn, TouchedSame DEF NextId, Unused, TypeOK
<1>3. /\ live'[f] = plan[i].body /\ \A g \in mine : live'[g] = live[g]
      /\ \A q \in Touched : live'[q] = live[q]
      /\ created'[i] = f /\ \A n \in 1 .. done : created'[n] = created[n]
  BY <1>1, <1>2, PlansAssumption DEF TypeOK, Rids
<1>4. [q \in Touched' |-> live'[q]] = Expected(plan', [q \in Touched' |-> origin'[q]])[i]
  <2>1. E[i] = Changed(plan[i], E[done])
    BY <1>1, ExpectedDef
  <2>2. Changed(plan[i], E[done]) = E[done]
    BY DEF Changed
  <2>3. [q \in Touched |-> live'[q]] = E[i]
    BY <1>3, <2>1, <2>2 DEF Carried
  <2> QED
    BY <1>2, <2>3
<1>5. \A n \in 1 .. i : plan[n].op = "create" =>
        created'[n] \in mine' /\ live'[created'[n]] = plan[n].body
  <2>1. ASSUME NEW n \in 1 .. done, plan[n].op = "create"
        PROVE  created'[n] \in mine' /\ live'[created'[n]] = plan[n].body
    BY <1>3, <2>1 DEF Carried
  <2>2. created'[i] \in mine' /\ live'[created'[i]] = plan[i].body
    BY <1>3
  <2>3. \A n \in 1 .. i : n = i \/ n \in 1 .. done
    BY <1>1
  <2> QED
    BY <2>1, <2>2, <2>3
<1>6. Occupied' = Occupied \cup {f} /\ f \notin Occupied
  BY <1>1, <1>2, <1>3, ValuesAssumption DEF Occupied
<1>7. Creates(i) = Creates(done) \cup {i} /\ i \notin Creates(done)
  BY <1>1 DEF Creates
<1>8. IsFiniteSet(Creates(done))
  <2>1. Creates(done) \subseteq 1 .. done
    BY DEF Creates
  <2>2. 1 \in Int /\ done \in Int
    BY <1>1
  <2>3. IsFiniteSet(1 .. done)
    BY <2>2, FS_Interval
  <2> QED
    BY <2>1, <2>3, FS_Subset
<1>9. /\ IsFiniteSet(Occupied') /\ Cardinality(Occupied') = Cardinality(Occupied) + 1
      /\ Cardinality(Creates(i)) = Cardinality(Creates(done)) + 1
  BY <1>6, <1>7, <1>8, FS_AddElement DEF Carried
<1>10. Creates(done)' = Creates(i)
  BY DEF Creates
<1>11. Cardinality(Occupied') = Cardinality(Creates(done)')
  BY <1>9, <1>10 DEF Carried
<1> QED
  BY <1>4, <1>5, <1>9, <1>11 DEF Carried

\* Every step keeps it.
LEMMA CarriedStep ==
    /\ TypeOK /\ PlaceInv /\ EarlyInv /\ ForwardInv /\ OutcomeInv /\ CarriedInv /\ [Next]_vars
    => CarriedInv'
<1> SUFFICES ASSUME TypeOK, PlaceInv, EarlyInv, ForwardInv, OutcomeInv, CarriedInv,
                    [Next]_vars
             PROVE  CarriedInv'
  OBVIOUS
<1>1. plan \in Plans /\ Len(plan) \in Nat /\ DOMAIN plan = 1 .. Len(plan) /\ done \in 0 .. Len(plan)
  BY PlanShape DEF TypeOK
<1>2. CASE Foreign
  <2>1. /\ pc' = pc /\ state' = state /\ (meddled => meddled')
        /\ UNCHANGED <<plan, flying, done, created, origin, mine>>
        /\ pc # "staged" /\ ~meddled' => \A id \in Own : live'[id] = live[id]
    BY <1>2, ForeignEffect DEF fixed, progress
  <2>2. ASSUME ~meddled', pc \in {"applying", "putting", "verifying"} \/ IsApplied
        PROVE  Carried'
    <3>1. ~meddled /\ pc # "staged"
      BY <2>1, <2>2 DEF OutcomeInv, IsApplied
    <3> QED
      BY <2>1, <2>2, <3>1, CarriedSame DEF CarriedInv
  <2> QED
    BY <2>1, <2>2 DEF CarriedInv, IsApplied
<1>3. ASSUME pc' \in {"staged", "checking", "rolling"} \/ state' \in {"RefusedStale", "Partial", "PartialRollbackFailed"},
             pc' \in {"staged", "checking", "rolling", "returned"}, ~IsApplied'
      PROVE  CarriedInv'
  BY <1>3 DEF CarriedInv
<1>4. pc # "returned" => ~IsApplied
  BY DEF OutcomeInv, IsApplied
<1>5. CASE Begin \/ CheckOne
  BY <1>3, <1>4, <1>5 DEF Begin, CheckOne, IsApplied
<1>6. CASE CheckRefuses \/ RollbackDone
  BY <1>6 DEF CheckRefuses, RollbackDone, IsApplied, CarriedInv
<1>7. CASE CheckPasses
  <2>1. pc = "checking" /\ pc' = "applying" /\ state' = state
        /\ UNCHANGED <<plan, live, origin, done, meddled, created, mine>>
    BY <1>7 DEF CheckPasses, history, fixed, controller
  <2>2. ASSUME ~meddled PROVE Carried
    <3>1. (\A r \in Touched : live[r] = origin[r]) /\ done = 0 /\ mine = {}
      BY <2>1, <2>2 DEF EarlyInv, PlaceInv
    <3>2. Occupied = {} /\ Creates(0) = {}
      BY <3>1 DEF Occupied, Creates
    <3>3. Expected(plan, [q \in Touched |-> origin[q]])[0] = [r \in Touched |-> live[r]]
      BY <1>1, <3>1, ExpectedDef
    <3>4. IsFiniteSet(Occupied) /\ Cardinality(Occupied) = Cardinality(Creates(0))
      BY <3>2, FS_EmptySet
    <3> QED
      BY <3>1, <3>3, <3>4 DEF Carried
  <2>3. ~IsApplied'
    BY <1>4, <2>1 DEF IsApplied
  <2> QED
    BY <2>1, <2>2, <2>3, CarriedSame DEF CarriedInv
<1>8. ASSUME pc \in {"applying", "putting"} PROVE i = done + 1 /\ (~meddled => Carried)
  BY <1>8 DEF PlaceInv, CarriedInv
<1>9. ASSUME pc \in {"applying", "putting"}, pc' = "rolling", state' = state
      PROVE  CarriedInv'
  BY <1>4, <1>9 DEF CarriedInv, IsApplied
<1>10. ASSUME pc \in {"applying", "putting"}, pc' \in {"applying", "putting"}, state' = state,
              ~meddled => Carried', meddled' = meddled
       PROVE  CarriedInv'
  BY <1>4, <1>10 DEF CarriedInv, IsApplied
<1>11. CASE CreateOne
  <2>1. /\ pc = "applying" /\ i \in DOMAIN plan /\ plan[i].op = "create" /\ state' = state
        /\ UNCHANGED <<plan, origin, meddled>>
    BY <1>11 DEF CreateOne, Applying, fixed, controller
  <2>2. PICK f \in NextId : /\ Send([live EXCEPT ![f] = plan[i].body]) /\ Assigns(f)
                            /\ created' = IF done' = i THEN [created EXCEPT ![i] = f]
                                          ELSE created
    BY <1>11 DEF CreateOne
  <2>3. CASE Unanswered
    BY <1>9, <2>1, <2>3 DEF Unanswered, Fails
  <2>4. CASE Lands([live EXCEPT ![f] = plan[i].body]) /\ Advances
    <3>1. /\ pc' = "applying" /\ done' = i /\ live' = [live EXCEPT ![f] = plan[i].body]
          /\ created' = [created EXCEPT ![i] = f]
      BY <2>2, <2>4 DEF Lands, Advances
    <3>2. f \in Fresh /\ f \in Rids /\ live[f] = Absent /\ plan[i].body \in Resource
      BY <1>1, <2>1, PlanShape DEF NextId, Unused, Rids, PlaceInv
    <3>3. mine' = mine \cup {f}
      BY <2>2, <3>1, <3>2, AssignEffect
    <3> QED
      BY <1>8, <1>10, <2>1, <3>1, <3>3, CarriedCreate
  <2> QED
    BY <2>2, <2>3, <2>4 DEF Send
<1>12. CASE PrepareUpdate
  <2>1. /\ pc = "applying" /\ pc' \in {"putting", "rolling"} /\ state' = state
        /\ UNCHANGED <<plan, live, origin, meddled, created, done, mine>>
    BY <1>12 DEF PrepareUpdate, Applying, Fails, fixed, controller, history
  <2> QED
    BY <1>8, <1>9, <1>10, <2>1, CarriedSame
<1>13. CASE PutOne
  <2>1. /\ pc = "putting" /\ i \in DOMAIN plan /\ plan[i].op = "update" /\ state' = state
        /\ body \in Resource \cup {Absent} /\ UNCHANGED <<plan, origin, meddled, created, mine>>
    BY <1>13 DEF PutOne, PlaceInv, TypeOK, fixed
  <2>2. CASE Unanswered
    BY <1>9, <2>1, <2>2 DEF Unanswered, Fails
  <2>3. CASE live[plan[i].id] # Absent /\ Lands([live EXCEPT ![plan[i].id] = body]) /\ Advances
    <3>1. pc' = "applying" /\ done' = i /\ live' = [live EXCEPT ![plan[i].id] = body]
      BY <2>3 DEF Lands, Advances
    <3>2. ~meddled => body = Overlay(live[plan[i].id], plan[i].body)
      BY <2>1, <2>3 DEF ForwardInv
    <3> QED
      BY <1>8, <1>10, <2>1, <3>1, <3>2, CarriedWrite
  <2> QED
    BY <1>13, <2>2, <2>3 DEF PutOne, Send
<1>14. CASE DeleteOne
  <2>1. /\ pc = "applying" /\ i \in DOMAIN plan /\ plan[i].op = "delete" /\ state' = state
        /\ UNCHANGED <<plan, origin, meddled, created, mine>>
    BY <1>14 DEF DeleteOne, Applying, fixed, controller
  <2>2. CASE Unanswered
    BY <1>9, <2>1, <2>2 DEF Unanswered, Fails
  <2>3. CASE Lands([live EXCEPT ![plan[i].id] = Absent]) /\ Advances
    <3>1. pc' = "applying" /\ done' = i /\ live' = [live EXCEPT ![plan[i].id] = Absent]
      BY <2>3 DEF Lands, Advances
    <3> QED
      BY <1>8, <1>10, <2>1, <3>1, CarriedWrite
  <2> QED
    BY <1>14, <2>2, <2>3 DEF DeleteOne, Send
<1>15. CASE RestoreOne
  BY <1>9, <1>15 DEF RestoreOne, Applying, Fails
<1>16. CASE AllApplied
  <2>1. /\ pc = "applying" /\ pc' = "verifying" /\ state' = state /\ i \notin DOMAIN plan
        /\ UNCHANGED <<plan, live, origin, meddled, created, done, mine>>
    BY <1>16 DEF AllApplied, fixed, controller, history
  <2>2. done = Len(plan)
    <3>1. i = done + 1
      BY <2>1 DEF PlaceInv
    <3>2. i \notin 1 .. Len(plan)
      BY <1>1, <2>1
    <3>3. Len(plan) \in Nat /\ done \in 0 .. Len(plan)
      BY <1>1
    <3> QED
      BY <3>1, <3>2, <3>3
  <2>3. flying' = {}
    BY <1>16, <2>1 DEF AllApplied, controller, ForwardInv
  <2> QED
    BY <1>8, <2>1, <2>2, <2>3, CarriedSame DEF CarriedInv
<1>17. CASE VerifyOne \/ VerifyFails \/ Verified
  <2>1. /\ pc = "verifying" /\ pc' \in {"verifying", "returned"}
        /\ UNCHANGED <<plan, live, flying, origin, meddled, created, done, mine>>
    BY <1>17 DEF VerifyOne, VerifyFails, Verified, fixed, controller, history
  <2> QED
    BY <2>1, CarriedSame DEF CarriedInv
<1>18. CASE RollbackCreate \/ RollbackUpdate \/ RollbackDelete
  <2>1. pc = "rolling" /\ pc' = pc /\ state' = state
    BY <1>18 DEF RollbackCreate, RollbackUpdate, RollbackDelete, RollbackAt
  <2> QED
    BY <1>4, <2>1 DEF CarriedInv, IsApplied
<1>19. CASE Late
  <2>1. pc \notin {"applying", "putting", "verifying"} /\ ~IsApplied
        /\ UNCHANGED <<pc, state>>
    BY <1>19 DEF Late, ForwardInv, CarriedInv, progress
  <2> QED
    BY <2>1 DEF CarriedInv, IsApplied
<1>20. CASE UNCHANGED vars
  BY <1>20, CarriedSame DEF vars, progress, CarriedInv, IsApplied
<1> QED
  BY <1>2, <1>5, <1>6, <1>7, <1>11, <1>12, <1>13, <1>14, <1>15, <1>16, <1>17, <1>18, <1>19,
     <1>20 DEF Next, ApplyStep

LEMMA InitCarried == Init => CarriedInv
  BY DEF Init, CarriedInv, IsApplied

LEMMA CarriedApplies == TypeOK /\ CarriedInv => AppliedMeansAll
<1> SUFFICES ASSUME TypeOK, CarriedInv, IsApplied, ~meddled PROVE AppliedMeansAll
  BY DEF AppliedMeansAll, IsApplied
<1>1. Carried /\ done = Len(plan) /\ DOMAIN plan = 1 .. Len(plan)
  BY PlanShape DEF CarriedInv, TypeOK
<1>2. Creates(done) = {n \in DOMAIN plan : plan[n].op = "create"}
  BY <1>1 DEF Creates
<1> QED
  BY <1>1, <1>2 DEF Carried, AppliedMeansAll, Occupied

\* For plans of any length: an apply reported as applied has carried out every
\* mutation in order on what it found, and nothing besides, unless disturbed.
THEOREM AppliedHolds == Spec => []AppliedMeansAll
  BY InitTyped, InitPlaced, InitCarried, CarriedApplies, TypeStep, EarlyStep, ForwardStep,
     OutcomeStep, CarriedStep, PTL DEF Spec

-----------------------------------------------------------------------------
(* Undoing                                                                  *)

\* A mutation that changes the resource r, and one of the first n that does.
Touches(m, r) == m.op \in {"update", "delete"} /\ m.id = r
TouchedBy(r, n) == \E m \in 1 .. n : Touches(plan[m], r)

\* How many of the succeeded mutations have not been undone yet.
Standing == IF pc \in {"applying", "putting"} THEN done ELSE i

\* The pre-image of what the plan touches is what the apply found.
PreKept == \A r \in Touched : origin[r] = pre[r]

\* A deleted resource is not touched again, and is gone until it is restored.
Gone ==
    \A n \in 1 .. done : plan[n].op = "delete" =>
      /\ n <= Standing => live[plan[n].id] = Absent
      /\ \A m \in n + 1 .. done : ~Touches(plan[m], plan[n].id)

\* What a standing create made is nobody's new home.
Made ==
    \A n \in 1 .. Standing : plan[n].op = "create" =>
      created[n] \in mine /\ \A r \in Existing : home[r] # created[n]

\* A resource lives elsewhere only if its delete was undone under a new id.
Moved ==
    \A r \in Existing : home[r] # r =>
      /\ home[r] \in mine /\ live[home[r]] = origin[r] /\ origin[r] # Absent
      /\ live[r] = Absent
      /\ \E n \in Standing + 1 .. done : plan[n].op = "delete" /\ plan[n].id = r

\* What the plan names and no standing mutation touches is as the apply found it, or
\* as the mutation whose call failed left it.
Back(r) ==
    \/ live[home[r]] = origin[r]
    \/ lost /\ Touches(plan[done + 1], r) /\ live[home[r]] = Sent[r]
Kept == \A r \in Touched : ~TouchedBy(r, Standing) => Back(r)

\* The resources under ids of its own are those of standing creates, new homes, and
\* the one of a create whose answer was lost.
Accounted(f) ==
    \/ \E n \in 1 .. Standing : plan[n].op = "create" /\ created[n] = f
    \/ \E r \in Existing : home[r] = f
LostCreate == lost /\ plan[done + 1].op = "create"
Spare ==
    /\ LostCreate =>
         \E o \in mine :
           /\ live[o] = plan[done + 1].body /\ ~Accounted(o)
           /\ \A f \in mine \ {o} : live[f] # Absent => Accounted(f)
    /\ ~LostCreate => \A f \in mine : live[f] # Absent => Accounted(f)

Undone == PreKept /\ Gone /\ Made /\ Moved /\ Kept /\ Spare

Undoing ==
    /\ ~meddled /\ rollbackFailures = {}
    /\ pc \in {"applying", "putting", "rolling"} \/ state = "Partial"

UndoInv == Undoing => Undone

-----------------------------------------------------------------------------
(* What is still on its way                                                 *)

\* Without a rollback failure it is the request of the mutation whose call failed,
\* once, and what it leaves is decided.
SentInv ==
    /\ flying \subseteq 1 .. done + 1
    /\ rollbackFailures = {} => flying \subseteq {done + 1}
    /\ lost \/ done + 1 \in flying =>
         done + 1 \in DOMAIN plan /\ plan[done + 1].op \in {"create", "update", "delete"}
    /\ lost => done + 1 \notin flying
    /\ ~meddled /\ done + 1 \in flying /\ plan[done + 1].op \in {"update", "delete"} =>
         Value(done + 1) = Sent[plan[done + 1].id]

\* What it leaves does not depend on where the apply is.
LEMMA SentSame == UNCHANGED <<plan, origin, done>> => Sent' = Sent
<1> SUFFICES ASSUME UNCHANGED <<plan, origin, done>> PROVE Sent' = Sent
  OBVIOUS
<1>1. [r \in Touched' |-> origin'[r]] = [r \in Touched |-> origin[r]]
  BY TouchedSame
<1> QED
  BY <1>1 DEF Sent, Expected, Changed

\* A write to a resource is sent as the plan wants it.
LEMMA SentWrite ==
    ASSUME TypeOK, Carried, i = done + 1, i \in DOMAIN plan,
           plan[i].op \in {"update", "delete"}, NEW v,
           plan[i].op = "update" => v = Overlay(live[plan[i].id], plan[i].body),
           plan[i].op = "delete" => v = Absent
    PROVE  Sent[plan[i].id] = v
<1> DEFINE E == Expected(plan, [q \in Touched |-> origin[q]])
           r == plan[i].id
<1>1. /\ plan \in Plans /\ i \in 1 .. Len(plan) /\ i - 1 = done /\ r \in Touched
  BY PlanShape, TouchedOwn DEF TypeOK
<1>2. E[i] = Changed(plan[i], E[done])
  BY <1>1, ExpectedDef
<1>3. E[done] = [q \in Touched |-> live[q]]
  BY DEF Carried
<1>4. Changed(plan[i], E[done]) = [[q \in Touched |-> live[q]] EXCEPT ![r] = v]
  BY <1>1, <1>3 DEF Changed
<1>5. Sent = E[i]
  BY DEF Sent
<1> QED
  BY <1>1, <1>2, <1>4, <1>5

LEMMA SentStands ==
    ASSUME SentInv, meddled => meddled',
           UNCHANGED <<plan, pre, flying, done, body, rollbackFailures, origin, lost>>
    PROVE  SentInv'
<1>1. Sent' = Sent
  BY SentSame
<1>2. Value(done + 1)' = Value(done + 1)
  BY DEF Value
<1> QED
  BY <1>1, <1>2 DEF SentInv

\* Every step keeps it.
LEMMA SentStep ==
    /\ TypeOK /\ PlaceInv /\ StaleInv /\ EarlyInv /\ ForwardInv /\ CarriedInv /\ SentInv
    /\ [Next]_vars
    => SentInv'
<1> SUFFICES ASSUME TypeOK, PlaceInv, StaleInv, EarlyInv, ForwardInv, CarriedInv, SentInv,
                    [Next]_vars
             PROVE  SentInv'
  OBVIOUS
<1>1. /\ plan \in Plans /\ Len(plan) \in Nat /\ DOMAIN plan = 1 .. Len(plan)
      /\ done \in 0 .. Len(plan)
  BY PlanShape DEF TypeOK
<1>2. CASE Foreign
  BY <1>2, ForeignEffect, SentStands DEF fixed, progress
<1>3. CASE Begin
  BY <1>3 DEF Begin, SentInv, EarlyInv, controller, fixed
<1>4. CASE CheckOne \/ CheckRefuses \/ CheckPasses \/ AllApplied \/ VerifyOne \/ VerifyFails
           \/ Verified \/ RollbackDone
  <2>1. UNCHANGED <<plan, pre, flying, done, body, rollbackFailures, origin, lost, meddled>>
    BY <1>4 DEF CheckOne, CheckRefuses, CheckPasses, AllApplied, VerifyOne, VerifyFails,
                Verified, RollbackDone, controller, fixed, history
  <2> QED
    BY <2>1, SentStands
<1>5. ASSUME flying' = {}, ~lost' PROVE SentInv'
  BY <1>5 DEF SentInv
<1>6. CASE PrepareUpdate \/ RestoreOne
  <2>1. flying' = {} /\ ~lost'
    BY <1>6 DEF PrepareUpdate, RestoreOne, Applying, ForwardInv, controller, history
  <2> QED
    BY <1>5, <2>1
<1>7. CASE CreateOne \/ PutOne \/ DeleteOne
  <2>1. /\ i = done + 1 /\ i \in DOMAIN plan /\ plan[i].op \in {"create", "update", "delete"}
        /\ ~lost /\ flying = {} /\ pc \in {"applying", "putting"}
        /\ UNCHANGED <<plan, pre, lost, origin, meddled, rollbackFailures>>
    BY <1>7 DEF CreateOne, PutOne, DeleteOne, Applying, PlaceInv, ForwardInv, fixed
  <2>2. CASE UNCHANGED flying
    BY <1>5, <2>1, <2>2
  <2>3. done + 1 > done
    BY <1>1
  <2>4. CASE Unanswered
    <3>1. done' = done /\ flying' = {i} /\ UNCHANGED live
      BY <2>1, <2>4 DEF Unanswered, Fails
    <3>2. Sent' = Sent
      BY <2>1, <3>1, SentSame
    <3>3. ASSUME ~meddled, plan[i].op \in {"update", "delete"}
          PROVE  Value(done + 1)' = Sent[plan[i].id]
      <4>1. Carried
        BY <2>1, <3>3 DEF CarriedInv
      <4>2. CASE plan[i].op = "update"
        <5>1. PutOne /\ pc = "putting"
          BY <1>7, <4>2 DEF CreateOne, DeleteOne, Applying, PutOne
        <5>2. body = Overlay(live[plan[i].id], plan[i].body)
          BY <3>3, <5>1 DEF ForwardInv
        <5>3. body' = body
          BY <1>1, <2>1, <3>1, <5>1 DEF PutOne
        <5>4. Value(done + 1)' = body
          BY <2>1, <2>3, <3>1, <4>2, <5>3 DEF Value
        <5> QED
          BY <2>1, <3>3, <4>1, <4>2, <5>2, <5>4, SentWrite
      <4>3. CASE plan[i].op = "delete"
        <5>1. Value(done + 1)' = Absent
          BY <2>1, <2>3, <3>1, <4>3 DEF Value
        <5> QED
          BY <2>1, <3>3, <4>1, <4>3, <5>1, SentWrite
      <4> QED
        BY <3>3, <4>2, <4>3
    <3>4. flying' \subseteq 1 .. done + 1
      BY <1>1, <2>1, <3>1
    <3> QED
      BY <2>1, <3>1, <3>2, <3>3, <3>4 DEF SentInv
  <2> QED
    BY <1>7, <2>2, <2>4 DEF CreateOne, PutOne, DeleteOne, Send
<1>8. CASE RollbackCreate \/ RollbackUpdate \/ RollbackDelete
  <2>1. UNCHANGED <<plan, pre, done, body, origin, lost, meddled>>
    BY <1>8 DEF RollbackCreate, RollbackUpdate, RollbackDelete, fixed
  <2>2. i # done + 1 /\ i \in 1 .. done + 1
    BY <1>1, <1>8 DEF RollbackCreate, RollbackUpdate, RollbackDelete, RollbackAt, PlaceInv, TypeOK
  <2>3. \/ UNCHANGED <<flying, rollbackFailures>>
        \/ flying' = flying \cup {i} /\ rollbackFailures' = rollbackFailures \cup {i}
    BY <1>8 DEF RollbackCreate, RollbackUpdate, RollbackDelete, SendRollback, RollbackFails
  <2>4. Sent' = Sent /\ Value(done + 1)' = Value(done + 1)
    BY <2>1, SentSame DEF Value
  <2> QED
    BY <2>1, <2>2, <2>3, <2>4 DEF SentInv
<1>9. CASE Late
  <2>1. PICK n \in flying : lost' = (lost \/ n > done) /\ flying' = flying \ {n}
    BY <1>9 DEF Late
  <2>2. UNCHANGED <<plan, pre, done, body, rollbackFailures, origin, meddled>>
    BY <1>9 DEF Late, fixed, progress
  <2>3. Sent' = Sent /\ Value(done + 1)' = Value(done + 1)
    BY <2>2, SentSame DEF Value
  <2>4. n \in Nat /\ n \in DOMAIN plan
    BY <1>1, <2>1 DEF TypeOK
  <2>5. n > done => n = done + 1
    BY <1>1, <2>1, <2>4 DEF SentInv
  <2>6. done + 1 > done
    BY <1>1
  <2>7. lost' => lost \/ done + 1 \in flying
    BY <2>1, <2>5
  <2>8. lost' => done + 1 \notin flying'
    BY <2>1, <2>5 DEF SentInv
  <2> QED
    BY <2>1, <2>2, <2>3, <2>7, <2>8 DEF SentInv
<1>10. CASE UNCHANGED vars
  BY <1>10, SentStands DEF vars
<1> QED
  BY <1>2, <1>3, <1>4, <1>6, <1>7, <1>8, <1>9, <1>10 DEF Next, ApplyStep

-----------------------------------------------------------------------------
(* Steps that write nothing                                                 *)

\* What the invariant says of the controller depends on these variables alone.
LEMMA UndoneSame ==
    ASSUME Undone, UNCHANGED <<plan, pre, live, done, created, lost, origin, home, mine>>,
           Standing' = Standing
    PROVE  Undone'
<1>1. PreKept'
  BY DEF Undone, PreKept, Touched
<1>2. Gone' /\ Made' /\ Moved'
  BY DEF Undone, Gone, Made, Moved, Touches
<1>3. Kept'
  BY TouchedSame, SentSame DEF Undone, Kept, Back, TouchedBy, Touches
<1>4. Spare'
  BY DEF Undone, Spare, LostCreate, Accounted
<1> QED
  BY <1>1, <1>2, <1>3, <1>4 DEF Undone

\* Once the check has passed, the controller is as it was at staging, wherever
\* the plan touches it, and there is nothing to undo.
LEMMA CheckedUndone ==
    ASSUME TypeOK, PlaceInv, EarlyInv, StaleInv', CheckPasses, ~meddled
    PROVE  Undone'
<1>1. /\ pc = "checking" /\ pc' = "applying" /\ ~lost' /\ done' = 0 /\ mine' = {}
      /\ home' = [r \in Existing |-> r] /\ \A r \in Touched : live'[r] = origin'[r]
      /\ UNCHANGED <<plan, pre, origin, stale, meddled>>
  BY DEF CheckPasses, EarlyInv, PlaceInv, history, fixed, controller
<1>2. Standing' = 0 /\ Touched' = Touched /\ Touched \subseteq Existing
  BY <1>1, TouchedSame, TouchedOwn DEF Standing
<1>3. ~stale
  BY <1>1 DEF StaleInv
<1>4. PreKept'
  BY <1>1, <1>3 DEF EarlyInv, PreKept, Touched
<1>5. Gone' /\ Made' /\ Moved' /\ Spare'
  BY <1>1, <1>2 DEF Gone, Made, Moved, Spare, LostCreate
<1>6. Kept'
  BY <1>1, <1>2 DEF Kept, Back
<1> QED
  BY <1>4, <1>5, <1>6 DEF Undone

-----------------------------------------------------------------------------
(* Applying                                                                 *)

\* The invariant as it reads while mutations are applied.
LEMMA ForwardFacts ==
    ASSUME TypeOK, PlaceInv, ForwardInv, Undone, pc \in {"applying", "putting"}
    PROVE  /\ Standing = done /\ i = done + 1 /\ ~lost
           /\ \A r \in Existing : home[r] = r
           /\ \A r \in Touched : ~TouchedBy(r, done) => live[r] = origin[r]
           /\ \A n \in 1 .. done : plan[n].op = "delete" =>
                live[plan[n].id] = Absent /\ \A m \in n + 1 .. done : ~Touches(plan[m], plan[n].id)
           /\ \A f \in mine : live[f] # Absent =>
                \E n \in 1 .. done : plan[n].op = "create" /\ created[n] = f
           /\ \A n \in 1 .. done : plan[n].op = "create" => created[n] \in mine
           /\ PreKept
<1>1. Standing = done /\ i = done + 1 /\ ~lost /\ \A r \in Existing : home[r] = r
  BY DEF ForwardInv, PlaceInv, Standing
<1>2. \A r \in Touched : ~TouchedBy(r, done) => live[r] = origin[r]
  BY <1>1, TouchedOwn DEF Undone, Kept, Back
<1>3. \A n \in 1 .. done : plan[n].op = "delete" =>
        live[plan[n].id] = Absent /\ \A m \in n + 1 .. done : ~Touches(plan[m], plan[n].id)
  BY <1>1 DEF Undone, Gone, TypeOK
<1>4. \A f \in mine : f \in Fresh
  BY DEF TypeOK
<1>5. \A f \in mine : live[f] # Absent =>
        \E n \in 1 .. done : plan[n].op = "create" /\ created[n] = f
  BY <1>1, <1>4, PlansAssumption DEF Undone, Spare, LostCreate, Accounted
<1> QED
  BY <1>1, <1>2, <1>3, <1>5 DEF Undone, Made

\* A create that is acknowledged is one more to undo; one whose call fails leaves
\* nothing yet.
LEMMA CreateUndone ==
    ASSUME TypeOK, PlaceInv, ForwardInv, Undone, CreateOne
    PROVE  Undone'
<1>1. /\ plan \in Plans /\ Len(plan) \in Nat /\ DOMAIN plan = 1 .. Len(plan)
      /\ pc = "applying" /\ i \in DOMAIN plan /\ plan[i].op = "create"
      /\ plan[i].body \in Resource /\ done \in Nat
      /\ UNCHANGED <<plan, pre, origin, home, lost>>
  BY PlanShape DEF CreateOne, Applying, TypeOK, fixed
<1>2. PICK f \in NextId : /\ Send([live EXCEPT ![f] = plan[i].body]) /\ Assigns(f)
                          /\ created' = IF done' = i THEN [created EXCEPT ![i] = f]
                                        ELSE created
  BY DEF CreateOne
<1>3. f \in Fresh /\ live[f] = Absent /\ f \in Rids /\ f \notin Existing /\ f \notin mine
  BY PlansAssumption DEF NextId, Unused, Rids, TypeOK, PlaceInv
<1>4. /\ Standing = done /\ i = done + 1 /\ ~lost
      /\ \A r \in Existing : home[r] = r
      /\ \A r \in Touched : ~TouchedBy(r, done) => live[r] = origin[r]
      /\ \A n \in 1 .. done : plan[n].op = "delete" =>
           live[plan[n].id] = Absent /\ \A m \in n + 1 .. done : ~Touches(plan[m], plan[n].id)
      /\ \A g \in mine : live[g] # Absent =>
           \E n \in 1 .. done : plan[n].op = "create" /\ created[n] = g
      /\ \A n \in 1 .. done : plan[n].op = "create" => created[n] \in mine
      /\ PreKept
  BY <1>1, ForwardFacts
<1>5. PreKept' /\ Touched' = Touched /\ Touched \subseteq Existing /\ mine \subseteq Fresh
  BY <1>1, <1>4, TouchedSame, TouchedOwn DEF PreKept, TypeOK
<1>6. \A n \in 1 .. done : plan[n].op = "delete" => plan[n].id \in Existing
  BY <1>1, PlanShape DEF TypeOK
<1>7. ASSUME live' = [live EXCEPT ![f] = plan[i].body]
      PROVE  /\ mine' = mine \cup {f} /\ live'[f] = plan[i].body
             /\ \A r \in Existing : live'[r] = live[r]
             /\ \A g \in mine : live'[g] = live[g]
  <2>1. mine' = mine \cup {f}
    BY <1>1, <1>2, <1>3, <1>7, AssignEffect
  <2> QED
    BY <1>3, <1>5, <1>7, <2>1, PlansAssumption DEF TypeOK, Rids
<1>8. CASE Lands([live EXCEPT ![f] = plan[i].body]) /\ Advances
  <2>1. /\ pc' = "applying" /\ done' = i /\ ~lost' /\ live' = [live EXCEPT ![f] = plan[i].body]
        /\ Standing' = done' /\ created' = [created EXCEPT ![i] = f]
    BY <1>1, <1>2, <1>4, <1>8 DEF Lands, Advances, Standing
  <2>2. /\ mine' = mine \cup {f} /\ live'[f] = plan[i].body
        /\ \A r \in Existing : live'[r] = live[r]
        /\ \A g \in mine : live'[g] = live[g]
    BY <1>7, <2>1
  <2>3. (\A n \in 1 .. done : created'[n] = created[n]) /\ created'[i] = f
    BY <1>1, <1>4, <2>1 DEF TypeOK
  <2>4. Gone'
    BY <1>1, <1>4, <1>6, <2>1, <2>2 DEF Gone, Touches
  <2>5. Made'
    BY <1>1, <1>3, <1>4, <1>5, <2>1, <2>2, <2>3, PlansAssumption DEF Made
  <2>6. Moved'
    BY <1>1, <1>4 DEF Moved
  <2>7. Kept'
    BY <1>1, <1>4, <1>5, <2>1, <2>2 DEF Kept, Back, TouchedBy, Touches
  <2>8. Spare'
    <3>1. ASSUME NEW g \in mine', live'[g] # Absent
          PROVE  \E n \in 1 .. i : plan[n].op = "create" /\ created'[n] = g
      <4>1. CASE g = f
        BY <1>1, <2>3, <4>1
      <4>2. CASE g # f
        <5>1. PICK n \in 1 .. done : plan[n].op = "create" /\ created[n] = g
          BY <1>4, <2>2, <3>1, <4>2
        <5> QED
          BY <1>1, <1>4, <2>3, <5>1
      <4> QED
        BY <4>1, <4>2
    <3> QED
      BY <1>1, <2>1, <3>1 DEF Spare, LostCreate, Accounted
  <2> QED
    BY <1>5, <2>1, <2>4, <2>5, <2>6, <2>7, <2>8 DEF Undone
<1>9. CASE Unanswered
  <2>1. done' = done /\ created' = created /\ live' = live /\ Standing' = Standing
    BY <1>1, <1>2, <1>4, <1>9 DEF Unanswered, Fails, Standing
  <2>2. mine' = mine
    BY <1>2, <2>1 DEF Assigns
  <2> QED
    BY <1>1, <2>1, <2>2, UndoneSame
<1> QED
  BY <1>2, <1>8, <1>9 DEF Send

\* An update or delete, in terms of the value it leaves.
LEMMA WriteUndone ==
    ASSUME TypeOK, PlaceInv, ForwardInv, Undone, pc \in {"applying", "putting"},
           i \in DOMAIN plan, plan[i].op \in {"update", "delete"},
           NEW v \in Resource \cup {Absent},
           live[plan[i].id] # Absent,
           plan[i].op = "update" => v = Overlay(live[plan[i].id], plan[i].body),
           plan[i].op = "delete" => v = Absent,
           Send([live EXCEPT ![plan[i].id] = v]),
           UNCHANGED <<plan, pre, origin, home, created, mine, lost>>
    PROVE  Undone'
<1> DEFINE r == plan[i].id
<1>1. /\ plan \in Plans /\ Len(plan) \in Nat /\ DOMAIN plan = 1 .. Len(plan)
      /\ r \in Existing /\ r \in Rids /\ done \in Nat
      /\ \A n \in DOMAIN plan : plan[n].op \in {"update", "delete"} => plan[n].id \in Existing
  BY PlanShape DEF TypeOK, Rids
<1>2. /\ Standing = done /\ i = done + 1 /\ ~lost
      /\ \A q \in Existing : home[q] = q
      /\ \A q \in Touched : ~TouchedBy(q, done) => live[q] = origin[q]
      /\ \A n \in 1 .. done : plan[n].op = "delete" =>
           live[plan[n].id] = Absent /\ \A m \in n + 1 .. done : ~Touches(plan[m], plan[n].id)
      /\ \A g \in mine : live[g] # Absent =>
           \E n \in 1 .. done : plan[n].op = "create" /\ created[n] = g
      /\ \A n \in 1 .. done : plan[n].op = "create" => created[n] \in mine
      /\ PreKept
  BY ForwardFacts
<1>3. \A n \in 1 .. done : plan[n].op = "delete" => plan[n].id # r
  BY <1>2
<1>4. PreKept' /\ Touched' = Touched /\ Touched \subseteq Existing /\ mine \subseteq Fresh
  BY <1>2, TouchedSame, TouchedOwn DEF PreKept, TypeOK
<1>5. \A n \in 1 .. done : n \in DOMAIN plan
  BY <1>1, <1>2
<1>6. Touches(plan[i], r)
  BY DEF Touches
<1>7. CASE Lands([live EXCEPT ![r] = v]) /\ Advances
  <2>1. /\ live'[r] = v /\ \A q \in Rids \ {r} : live'[q] = live[q]
        /\ \A f \in mine : live'[f] = live[f]
    BY <1>1, <1>4, <1>7, PlansAssumption DEF Lands, TypeOK, Rids
  <2>2. \A n \in 1 .. done : plan[n].op = "delete" => live'[plan[n].id] = Absent
    BY <1>1, <1>2, <1>3, <1>5, <2>1 DEF Rids
  <2>3. Undone'
    <3>1. done' = i /\ Standing' = i /\ ~lost'
      BY <1>2, <1>7 DEF Advances, Standing
    <3>2. Gone'
      <4>1. ASSUME NEW n \in 1 .. i, plan[n].op = "delete"
            PROVE  live'[plan[n].id] = Absent
        BY <1>1, <1>2, <2>1, <2>2, <4>1
      <4>2. ASSUME NEW n \in 1 .. i, plan[n].op = "delete", NEW m \in n + 1 .. i
            PROVE  ~Touches(plan[m], plan[n].id)
        <5>1. n \in 1 .. done
          BY <1>1, <1>2
        <5>2. CASE m = i
          BY <1>3, <4>2, <5>1, <5>2 DEF Touches
        <5>3. CASE m # i
          BY <1>1, <1>2, <4>2, <5>1, <5>3
        <5> QED
          BY <5>2, <5>3
      <4> QED
        BY <3>1, <4>1, <4>2 DEF Gone, Touches
    <3>3. Made'
      BY <1>1, <1>2, <1>4, <3>1, PlansAssumption DEF Made
    <3>4. Moved'
      BY <1>2 DEF Moved
    <3>5. Kept'
      <4>1. ASSUME NEW q \in Touched, ~TouchedBy(q, i)
            PROVE  live'[q] = origin[q]
        <5>1. q # r /\ ~TouchedBy(q, done)
          BY <1>1, <1>2, <1>6, <4>1 DEF TouchedBy
        <5> QED
          BY <1>2, <1>4, <2>1, <5>1 DEF Rids
      <4> QED
        BY <1>2, <1>4, <3>1, <4>1 DEF Kept, Back, TouchedBy, Touches
    <3>6. Spare'
      BY <1>1, <1>2, <2>1, <3>1 DEF Spare, LostCreate, Accounted
    <3> QED
      BY <1>4, <3>1, <3>2, <3>3, <3>4, <3>5, <3>6 DEF Undone
  <2> QED
    BY <2>3
<1>8. CASE Unanswered
  <2>1. done' = done /\ live' = live /\ Standing' = Standing
    BY <1>2, <1>8 DEF Unanswered, Fails, Standing
  <2> QED
    BY <2>1, UndoneSame
<1> QED
  BY <1>7, <1>8 DEF Send

-----------------------------------------------------------------------------
(* Rolling back                                                             *)

\* A step of the rollback without a failure has landed.
LEMMA RollbackLanded ==
    ASSUME NEW new, i \in DOMAIN plan, SendRollback(new) \/ RollbackFails,
           rollbackFailures' = {}
    PROVE  Lands(new) /\ rollbackFailures = {}
  BY DEF SendRollback, RollbackFails, Lands

\* Undoing a create removes what nothing else accounts for.
LEMMA RollbackCreateUndone ==
    ASSUME TypeOK, PlaceInv, Undone, RollbackCreate, rollbackFailures' = {}
    PROVE  Undone'
<1>1. /\ plan \in Plans /\ Len(plan) \in Nat /\ DOMAIN plan = 1 .. Len(plan)
      /\ pc = "rolling" /\ pc' = "rolling" /\ i \in 1 .. done /\ i \in DOMAIN plan
      /\ plan[i].op = "create" /\ i' = i - 1 /\ done \in Nat
      /\ Standing = i /\ Standing' = i - 1
      /\ UNCHANGED <<plan, pre, done, created, origin, home, mine, lost>>
  BY PlanShape DEF RollbackCreate, RollbackAt, PlaceInv, TypeOK, Standing, fixed, controller
<1>2. live' = [live EXCEPT ![created[i]] = Absent]
  BY <1>1, RollbackLanded DEF RollbackCreate, Lands, RollbackFails
<1>3. /\ created[i] \in mine /\ created[i] \in Fresh /\ mine \subseteq Fresh
      /\ \A r \in Existing : home[r] # created[i]
      /\ Touched' = Touched /\ Touched \subseteq Existing
  BY <1>1, TouchedSame, TouchedOwn DEF Undone, Made, TypeOK
<1>4. /\ \A r \in Existing : live'[r] = live[r] /\ live'[home[r]] = live[home[r]]
      /\ \A f \in mine \ {created[i]} : live'[f] = live[f]
      /\ live'[created[i]] = Absent
  BY <1>2, <1>3, PlansAssumption DEF TypeOK, Rids
<1>5. PreKept' /\ Sent' = Sent
  BY <1>1, SentSame DEF Undone, PreKept, Touched
<1>6. Gone'
  BY <1>1, <1>4, PlanShape DEF Undone, Gone, Touches
<1>7. Made' /\ Moved'
  BY <1>1, <1>4 DEF Undone, Made, Moved
<1>8. Kept'
  <2>1. ASSUME NEW r \in Touched, ~TouchedBy(r, i - 1)
        PROVE  ~TouchedBy(r, i)
    BY <1>1, <2>1 DEF TouchedBy, Touches
  <2> QED
    BY <1>1, <1>3, <1>4, <1>5, <2>1 DEF Undone, Kept, Back, TouchedBy, Touches
<1>9. Spare'
  <2>1. ASSUME NEW f \in mine, f # created[i], Accounted(f)
        PROVE  Accounted(f)'
    BY <1>1, <2>1 DEF Accounted
  <2>2. ASSUME NEW f, ~Accounted(f)
        PROVE  ~Accounted(f)' /\ f # created[i]
    BY <1>1, <2>2 DEF Accounted
  <2>3. CASE LostCreate
    <3>1. PICK o \in mine :
            /\ live[o] = plan[done + 1].body /\ ~Accounted(o)
            /\ \A f \in mine \ {o} : live[f] # Absent => Accounted(f)
      BY <2>3 DEF Undone, Spare
    <3>2. live'[o] = plan[done + 1].body /\ ~Accounted(o)'
      BY <1>4, <2>2, <3>1
    <3>3. \A f \in mine \ {o} : live'[f] # Absent => Accounted(f)'
      BY <1>4, <2>1, <3>1
    <3> QED
      BY <1>1, <2>3, <3>2, <3>3 DEF Spare, LostCreate
  <2>4. CASE ~LostCreate
    <3>1. \A f \in mine : live'[f] # Absent => Accounted(f)'
      BY <1>4, <2>1, <2>4 DEF Undone, Spare
    <3> QED
      BY <1>1, <2>4, <3>1 DEF Spare, LostCreate
  <2> QED
    BY <2>3, <2>4
<1> QED
  BY <1>5, <1>6, <1>7, <1>8, <1>9 DEF Undone

\* Undoing an update restores the resource, which is where it always was: a
\* delete that came after it was undone under the same id.
LEMMA RollbackUpdateUndone ==
    ASSUME TypeOK, PlaceInv, Undone, RollbackUpdate, rollbackFailures' = {}
    PROVE  Undone'
<1> DEFINE r == plan[i].id
<1>1. /\ plan \in Plans /\ Len(plan) \in Nat /\ DOMAIN plan = 1 .. Len(plan)
      /\ pc = "rolling" /\ pc' = "rolling" /\ i \in 1 .. done /\ i \in DOMAIN plan
      /\ plan[i].op = "update" /\ i' = i - 1 /\ done \in Nat
      /\ Standing = i /\ Standing' = i - 1 /\ r \in Existing
      /\ UNCHANGED <<plan, pre, done, created, origin, home, mine, lost>>
  BY PlanShape DEF RollbackUpdate, RollbackAt, PlaceInv, TypeOK, Standing, fixed, controller
<1>2. live[r] # Absent /\ live' = [live EXCEPT ![r] = pre[r]]
  BY <1>1, RollbackLanded DEF RollbackUpdate, Lands, RollbackFails
<1>3. home[r] = r
  BY <1>1, <1>2 DEF Undone, Moved
<1>4. /\ r \in Touched /\ pre[r] = origin[r] /\ mine \subseteq Fresh
      /\ Touched' = Touched /\ Touched \subseteq Existing
  BY <1>1, TouchedSame, TouchedOwn DEF Undone, PreKept, Touched, TypeOK
<1>5. /\ \A q \in Existing : q # r => live'[q] = live[q] /\ live'[home[q]] = live[home[q]]
      /\ \A f \in mine : live'[f] = live[f]
      /\ live'[r] = origin[r]
  <2>1. \A q \in Existing : q # r => home[q] # r
    BY <1>1, <1>4, PlansAssumption DEF Undone, Moved
  <2> QED
    BY <1>1, <1>2, <1>4, <2>1, PlansAssumption DEF TypeOK, Rids
<1>6. PreKept' /\ Sent' = Sent
  BY <1>1, SentSame DEF Undone, PreKept, Touched
<1>7. Gone'
  <2>1. \A n \in 1 .. done : n \in DOMAIN plan
    BY <1>1 DEF TypeOK
  <2>2. \A n \in 1 .. done : plan[n].op = "delete" => plan[n].id \in Existing
    BY <1>1, <2>1, PlanShape
  <2>3. ASSUME NEW n \in 1 .. done, plan[n].op = "delete", n <= i - 1
        PROVE  live'[plan[n].id] = Absent
    <3>1. live[plan[n].id] = Absent
      BY <1>1, <2>3 DEF Undone, Gone
    <3> QED
      BY <1>2, <1>5, <2>2, <2>3, <3>1
  <2> QED
    BY <1>1, <2>3 DEF Undone, Gone, Touches
<1>8. Made'
  BY <1>1 DEF Undone, Made
<1>9. Moved'
  <2>1. ASSUME NEW q \in Existing, home[q] # q
        PROVE  /\ home[q] \in mine /\ live'[home[q]] = origin[q] /\ origin[q] # Absent
               /\ live'[q] = Absent
               /\ \E n \in i .. done : plan[n].op = "delete" /\ plan[n].id = q
    <3>1. q # r
      BY <1>3, <2>1
    <3> QED
      BY <1>1, <1>5, <2>1, <3>1 DEF Undone, Moved
  <2> QED
    BY <1>1, <2>1 DEF Moved
<1>10. Kept'
  <2>1. ASSUME NEW q \in Touched, ~TouchedBy(q, i - 1)
        PROVE  Back(q)'
    <3>1. CASE q = r
      BY <1>1, <1>3, <1>5, <3>1 DEF Back
    <3>2. CASE q # r
      <4>1. ~TouchedBy(q, i)
        BY <1>1, <2>1, <3>2 DEF TouchedBy, Touches
      <4>2. Back(q)
        BY <1>1, <4>1 DEF Undone, Kept
      <4> QED
        BY <1>1, <1>4, <1>5, <1>6, <3>2, <4>2 DEF Back, Touches
    <3> QED
      BY <3>1, <3>2
  <2> QED
    BY <1>1, <1>4, <2>1 DEF Kept, TouchedBy, Touches
<1>11. Spare'
  <2>1. \A f : Accounted(f)' <=> Accounted(f)
    BY <1>1 DEF Accounted
  <2> QED
    BY <1>1, <1>5, <2>1 DEF Undone, Spare, LostCreate
<1> QED
  BY <1>6, <1>7, <1>8, <1>9, <1>10, <1>11 DEF Undone

\* Undoing a delete gives the resource its home again, under its own id or one
\* that nothing uses.
LEMMA RollbackDeleteUndone ==
    ASSUME TypeOK, PlaceInv, SentInv, Undone, RollbackDelete, rollbackFailures' = {}
    PROVE  Undone'
<1> DEFINE r == plan[i].id
<1>1. /\ plan \in Plans /\ Len(plan) \in Nat /\ DOMAIN plan = 1 .. Len(plan)
      /\ pc = "rolling" /\ pc' = "rolling" /\ i \in 1 .. done /\ i \in DOMAIN plan
      /\ plan[i].op = "delete" /\ i' = i - 1 /\ done \in Nat
      /\ Standing = i /\ Standing' = i - 1 /\ r \in Existing /\ r \in Rids
      /\ UNCHANGED <<plan, pre, done, created, origin, lost>>
  BY PlanShape DEF RollbackDelete, RollbackAt, PlaceInv, TypeOK, Standing, fixed, controller, Rids
<1>2. PICK id \in NextId \cup (IF live[r] = Absent THEN {r} ELSE {}) :
        /\ SendRollback([live EXCEPT ![id] = pre[r]])
        /\ home' = IF live'[id] = pre[r] THEN [home EXCEPT ![r] = id] ELSE home
        /\ Assigns(id)
  BY DEF RollbackDelete
<1>3. /\ r \in Touched /\ pre[r] = origin[r] /\ origin[r] \in Resource /\ origin[r] # Absent
      /\ Touched' = Touched /\ Touched \subseteq Existing /\ mine \subseteq Fresh
  <2>1. r \in Touched
    BY <1>1 DEF Touched
  <2>2. pre[r] \in Resource
    BY <1>1 DEF TypeOK
  <2> QED
    BY <1>1, <2>1, <2>2, ValuesAssumption, TouchedSame, TouchedOwn DEF Undone, PreKept, TypeOK
<1>4. live[r] = Absent /\ \A m \in i + 1 .. done : ~Touches(plan[m], r)
  BY <1>1 DEF Undone, Gone
<1>5. home[r] = r
  BY <1>1, <1>4 DEF Undone, Moved, Touches
<1>6. /\ id \in Rids /\ live[id] = Absent
      /\ id = r \/ (id \in Fresh /\ id \notin mine)
  BY <1>1, <1>2, <1>4 DEF NextId, Unused, Rids, TypeOK, PlaceInv
<1>7. live' = [live EXCEPT ![id] = origin[r]]
  BY <1>1, <1>2, <1>3, RollbackLanded DEF Lands
<1>8. /\ live'[id] = origin[r] /\ home'[r] = id
      /\ \A q \in Existing \ {r} : home'[q] = home[q]
      /\ \A g \in Rids \ {id} : live'[g] = live[g]
      /\ mine \subseteq mine' /\ mine' \subseteq mine \cup {id} /\ (id # r => id \in mine')
  <2>1. /\ live'[id] = origin[r] /\ home'[r] = id
        /\ \A q \in Existing \ {r} : home'[q] = home[q]
        /\ \A g \in Rids \ {id} : live'[g] = live[g]
    BY <1>1, <1>2, <1>3, <1>6, <1>7 DEF TypeOK
  <2>2. mine \subseteq mine' /\ mine' \subseteq mine \cup {id} /\ (id # r => id \in mine')
    BY <1>2, <1>3, <1>6, <1>7, AssignEffect
  <2> QED
    BY <2>1, <2>2
<1>9. \A q \in Existing \ {r} : home[q] # id /\ q # id /\ live'[home[q]] = live[home[q]]
                                /\ live'[q] = live[q]
  <2>1. ASSUME NEW q \in Existing, q # r
        PROVE  home[q] # id /\ q # id /\ home[q] \in Rids /\ q \in Rids
    <3>1. q # id
      BY <1>6, <2>1, PlansAssumption
    <3>2. CASE home[q] = q
      BY <2>1, <3>1, <3>2 DEF Rids
    <3>3. CASE home[q] # q
      <4>1. home[q] \in Fresh /\ live[home[q]] # Absent
        BY <1>3, <2>1, <3>3 DEF Undone, Moved
      <4> QED
        BY <1>6, <2>1, <3>1, <4>1 DEF Rids
    <3> QED
      BY <3>2, <3>3
  <2> QED
    BY <1>8, <2>1
<1>10. PreKept' /\ Sent' = Sent
  BY <1>1, SentSame DEF Undone, PreKept, Touched
<1>11. Gone'
  <2>1. \A n \in 1 .. done : n \in DOMAIN plan
    BY <1>1 DEF TypeOK
  <2>2. \A n \in 1 .. done : plan[n].op = "delete" => plan[n].id \in Existing
    BY <1>1, <2>1, PlanShape
  <2>3. ASSUME NEW n \in 1 .. done, plan[n].op = "delete", n <= i - 1
        PROVE  live'[plan[n].id] = Absent
    <3>1. live[plan[n].id] = Absent /\ ~Touches(plan[i], plan[n].id)
      BY <1>1, <2>3 DEF Undone, Gone
    <3>2. plan[n].id # r
      BY <1>1, <3>1 DEF Touches
    <3> QED
      BY <1>9, <2>2, <2>3, <3>1, <3>2
  <2> QED
    BY <1>1, <2>3 DEF Undone, Gone, Touches
<1>12. Made'
  <2>1. ASSUME NEW n \in 1 .. i - 1, plan[n].op = "create"
        PROVE  created[n] \in mine' /\ \A q \in Existing : home'[q] # created[n]
    <3>1. n \in DOMAIN plan /\ n \in 1 .. i
      BY <1>1
    <3>2. created[n] \in mine /\ \A q \in Existing : home[q] # created[n]
      BY <1>1, <2>1, <3>1 DEF Undone, Made
    <3>3. created[n] # id
      BY <1>1, <1>3, <1>6, <3>1, <3>2, PlansAssumption
    <3> QED
      BY <1>8, <3>2, <3>3
  <2> QED
    BY <1>1, <2>1 DEF Made
<1>13. Moved'
  <2>1. ASSUME NEW q \in Existing, home'[q] # q
        PROVE  /\ home'[q] \in mine' /\ live'[home'[q]] = origin[q] /\ origin[q] # Absent
               /\ live'[q] = Absent
               /\ \E n \in i .. done : plan[n].op = "delete" /\ plan[n].id = q
    <3>1. CASE q = r
      <4>1. id \in Fresh /\ id # r
        BY <1>6, <1>8, <2>1, <3>1
      <4>2. live'[r] = Absent
        BY <1>1, <1>4, <1>8, <4>1
      <4> QED
        BY <1>1, <1>3, <1>8, <3>1, <4>1, <4>2
    <3>2. CASE q # r
      BY <1>1, <1>8, <1>9, <2>1, <3>2 DEF Undone, Moved
    <3> QED
      BY <3>1, <3>2
  <2> QED
    BY <1>1, <2>1 DEF Moved
<1>14. Kept'
  <2>1. ASSUME NEW q \in Touched, ~TouchedBy(q, i - 1)
        PROVE  Back(q)'
    <3>1. CASE q = r
      BY <1>1, <1>8, <3>1 DEF Back
    <3>2. CASE q # r
      <4>1. ~TouchedBy(q, i)
        BY <1>1, <2>1, <3>2 DEF TouchedBy, Touches
      <4>2. Back(q)
        BY <1>1, <4>1 DEF Undone, Kept
      <4> QED
        BY <1>1, <1>3, <1>8, <1>9, <1>10, <3>2, <4>2 DEF Back, Touches
    <3> QED
      BY <3>1, <3>2
  <2> QED
    BY <1>1, <1>3, <2>1 DEF Kept, TouchedBy, Touches
<1>15. Spare'
  <2>1. ASSUME NEW f \in mine, Accounted(f)
        PROVE  Accounted(f)'
    <3>1. ASSUME NEW q \in Existing, home[q] = f
          PROVE  home'[q] = f
      BY <1>3, <1>5, <1>8, <2>1, <3>1, PlansAssumption
    <3> QED
      BY <1>1, <2>1, <3>1 DEF Accounted
  <2>2. ASSUME NEW f, f # id, ~Accounted(f)
        PROVE  ~Accounted(f)'
    BY <1>1, <1>8, <2>2 DEF Accounted
  <2>3. Accounted(id)'
    BY <1>1, <1>8 DEF Accounted
  <2>4. \A f \in mine : f # id => live'[f] = live[f]
    BY <1>3, <1>8 DEF Rids
  <2>5. CASE LostCreate
    <3>1. PICK o \in mine :
            /\ live[o] = plan[done + 1].body /\ ~Accounted(o)
            /\ \A f \in mine \ {o} : live[f] # Absent => Accounted(f)
      BY <2>5 DEF Undone, Spare
    <3>2. live[o] # Absent
      BY <1>1, <2>5, <3>1, PlanShape, ValuesAssumption DEF SentInv, LostCreate
    <3>3. live'[o] = plan[done + 1].body /\ ~Accounted(o)'
      BY <1>6, <1>8, <2>2, <2>4, <3>1, <3>2
    <3>4. \A f \in mine' \ {o} : live'[f] # Absent => Accounted(f)'
      BY <1>8, <2>1, <2>3, <2>4, <3>1
    <3> QED
      BY <1>1, <1>8, <2>5, <3>3, <3>4 DEF Spare, LostCreate
  <2>6. CASE ~LostCreate
    <3>1. \A f \in mine' : live'[f] # Absent => Accounted(f)'
      BY <1>8, <2>1, <2>3, <2>4, <2>6 DEF Undone, Spare
    <3> QED
      BY <1>1, <2>6, <3>1 DEF Spare, LostCreate
  <2> QED
    BY <2>5, <2>6
<1> QED
  BY <1>10, <1>11, <1>12, <1>13, <1>14, <1>15 DEF Undone

-----------------------------------------------------------------------------
(* A call that failed is carried out late                                   *)

\* What lands late is the one mutation whose call failed: a create leaves one more
\* resource that nothing accounts for, a write reaches a resource that is there, and
\* no undo that was acknowledged before it is lost but on that resource.
LEMMA LateUndone ==
    ASSUME TypeOK, PlaceInv, SentInv, Undone, rollbackFailures = {}, ~meddled, Late
    PROVE  Undone'
<1>1. /\ plan \in Plans /\ Len(plan) \in Nat /\ DOMAIN plan = 1 .. Len(plan)
      /\ done \in Nat /\ Touched \subseteq Existing /\ mine \subseteq Fresh
      /\ Existing \cap Fresh = {}
      /\ \A n \in DOMAIN plan : plan[n].op \in {"update", "delete"} => plan[n].id \in Touched
  BY PlanShape, TouchedOwn, PlansAssumption DEF TypeOK
<1>2. PICK n \in flying : \E id \in Reach(n) :
        /\ Lands([live EXCEPT ![id] = Value(n)]) /\ Assigns(id)
        /\ lost' = (lost \/ n > done)
        /\ UNCHANGED <<fixed, pc, progress, origin, home, stale, meddled>>
  BY DEF Late
<1> DEFINE m == plan[n]
           v == Value(n)
<1>3. n = done + 1 /\ n > done /\ n \in DOMAIN plan /\ ~lost
  BY <1>1, <1>2 DEF SentInv, TypeOK
<1>4. PICK id \in Reach(n) :
        /\ live' = [live EXCEPT ![id] = v] /\ Assigns(id) /\ lost' = TRUE
        /\ UNCHANGED <<plan, pre, pc, i, done, created, origin, home>>
  BY <1>2, <1>3 DEF Lands, fixed, progress
<1>5. PICK new : new \subseteq Fresh \cap {id} /\ mine' = mine \cup new
  BY <1>4 DEF Assigns
<1>6. Touched' = Touched /\ Sent' = Sent /\ Standing' = Standing /\ PreKept'
  BY <1>4, TouchedSame, SentSame DEF Standing, Undone, PreKept
<1>7. \A k \in 1 .. done : k \in DOMAIN plan
  BY <1>1 DEF TypeOK
<1>8. /\ id \in Rids /\ \A g \in Rids : g # id => live'[g] = live[g]
      /\ live'[id] = v
  <2>1. id \in Rids
    BY <1>2, <1>3, <1>4, ReachShape
  <2> QED
    BY <1>4, <2>1 DEF TypeOK
<1>9. Existing \subseteq Rids /\ mine \subseteq Rids /\ \A r \in Existing : home[r] \in Rids
  BY <1>1 DEF Rids, TypeOK
<1>10. CASE m.op = "create"
  <2>1. id \in NextId /\ v = m.body /\ m.body \in Resource
    BY <1>1, <1>3, <1>10, PlanShape DEF Reach, Value
  <2>2. id \in Fresh /\ id \notin mine /\ id \notin Existing /\ live[id] = Absent
    BY <1>1, <2>1 DEF NextId, Unused, TypeOK, PlaceInv
  <2>3. mine' = mine \cup {id}
    BY <1>4, <1>8, <2>1, <2>2, AssignEffect
  <2>4. \A r \in Existing : home[r] # id
    BY <2>2 DEF Undone, Moved
  <2>5. Gone'
    BY <1>1, <1>4, <1>6, <1>7, <1>8, <1>9, <2>2 DEF Undone, Gone, Touches
  <2>6. Made'
    BY <1>4, <1>6, <2>3 DEF Undone, Made
  <2>7. Moved'
    BY <1>4, <1>6, <1>8, <1>9, <2>2, <2>3, <2>4 DEF Undone, Moved
  <2>8. Kept'
    BY <1>1, <1>3, <1>4, <1>6, <1>8, <1>9, <2>4 DEF Undone, Kept, Back, TouchedBy, Touches
  <2>9. Spare'
    <3>1. ~Accounted(id)'
      BY <1>4, <1>6, <2>2, <2>4 DEF Accounted, Undone, Made
    <3>2. \A f \in mine : live'[f] # Absent => Accounted(f)'
      BY <1>3, <1>4, <1>6, <1>8, <1>9, <2>2 DEF Accounted, Undone, Spare, LostCreate
    <3> QED
      BY <1>3, <1>4, <1>8, <1>10, <2>1, <2>3, <3>1, <3>2 DEF Spare, LostCreate
  <2> QED
    BY <1>6, <2>5, <2>6, <2>7, <2>8, <2>9 DEF Undone
<1>11. CASE m.op \in {"update", "delete"}
  <2> DEFINE r == m.id
  <2>1. r \in Touched /\ r \in Existing /\ id = r /\ live[r] # Absent
    <3>1. r \in Touched
      BY <1>1, <1>3, <1>11
    <3>2. id \in {q \in Rids : q = r /\ live[q] # Absent}
      BY <1>3, <1>4, <1>11 DEF Reach
    <3> QED
      BY <1>1, <3>1, <3>2
  <2>2. v = Sent[r]
    BY <1>2, <1>3, <1>11 DEF SentInv
  <2>3. mine' = mine
    BY <1>1, <1>5, <2>1
  <2>4. home[r] = r
    BY <2>1 DEF Undone, Moved
  <2>5. /\ \A q \in Existing : q # r => live'[q] = live[q] /\ live'[home[q]] = live[home[q]]
        /\ \A f \in mine : live'[f] = live[f]
    <3>1. \A q \in Existing : q # r => home[q] # r
      BY <1>1, <2>1 DEF Undone, Moved
    <3> QED
      BY <1>1, <1>8, <1>9, <2>1, <3>1
  <2>6. Gone'
    <3>1. \A k \in 1 .. done : plan[k].op = "delete" => plan[k].id \in Existing
      BY <1>1, <1>7
    <3> QED
      BY <1>4, <1>6, <2>1, <2>5, <3>1 DEF Undone, Gone, Touches
  <2>7. Made'
    BY <1>4, <1>6, <2>3 DEF Undone, Made
  <2>8. Moved'
    BY <1>4, <1>6, <2>3, <2>4, <2>5 DEF Undone, Moved
  <2>9. Kept'
    <3>1. ASSUME NEW q \in Touched, ~TouchedBy(q, Standing)
          PROVE  Back(q)'
      <4>1. CASE q = r
        BY <1>3, <1>4, <1>6, <1>8, <1>11, <2>1, <2>2, <2>4, <4>1 DEF Back, Touches
      <4>2. CASE q # r
        <5>1. live[home[q]] = origin[q]
          BY <1>3, <3>1 DEF Undone, Kept, Back
        <5> QED
          BY <1>1, <1>4, <2>5, <4>2, <5>1 DEF Back
      <4> QED
        BY <4>1, <4>2
    <3> QED
      BY <1>4, <1>6, <3>1 DEF Kept, TouchedBy, Touches
  <2>10. Spare'
    BY <1>3, <1>4, <1>6, <1>11, <2>3, <2>5 DEF Undone, Spare, LostCreate, Accounted
  <2> QED
    BY <1>6, <2>6, <2>7, <2>8, <2>9, <2>10 DEF Undone
<1> QED
  BY <1>2, <1>3, <1>10, <1>11 DEF SentInv

-----------------------------------------------------------------------------
(* Every step                                                               *)

\* What others write to the rest of the controller disturbs nothing.
LEMMA ForeignUndone ==
    ASSUME TypeOK, Undone, \A id \in Own : live'[id] = live[id], Standing' = Standing,
           UNCHANGED <<plan, pre, done, created, lost, origin, home, mine>>
    PROVE  Undone'
<1>1. /\ Touched' = Touched /\ Touched \subseteq Own /\ mine \subseteq Own
      /\ Touched \subseteq Existing
      /\ \A n \in DOMAIN plan : plan[n].op \in {"update", "delete"} => plan[n].id \in Own
  BY TouchedOwn, TouchedSame
<1>2. \A n \in 1 .. done : n \in DOMAIN plan
  BY PlanShape DEF TypeOK
<1>3. PreKept' /\ Sent' = Sent
  BY <1>1, SentSame DEF Undone, PreKept
<1>4. Gone'
  BY <1>1, <1>2 DEF Undone, Gone, Touches
<1>5. Made'
  BY DEF Undone, Made
<1>6. Moved'
  <2>1. ASSUME NEW r \in Existing, home[r] # r
        PROVE  r \in Own /\ home[r] \in Own
    <3>1. home[r] \in mine /\ \E n \in Standing + 1 .. done : plan[n].op = "delete" /\ plan[n].id = r
      BY <2>1 DEF Undone, Moved
    <3>2. PICK n \in Standing + 1 .. done : plan[n].op = "delete" /\ plan[n].id = r
      BY <3>1
    <3>3. n \in DOMAIN plan
      BY <1>2, <3>2, PlanShape DEF TypeOK, Standing
    <3> QED
      BY <1>1, <3>1, <3>2, <3>3
  <2> QED
    BY <2>1 DEF Undone, Moved
<1>7. Kept'
  <2>1. \A r \in Touched : home[r] \in Own
    BY <1>1 DEF Undone, Moved
  <2> QED
    BY <1>1, <1>3, <2>1 DEF Undone, Kept, Back, TouchedBy, Touches
<1>8. Spare'
  BY <1>1 DEF Undone, Spare, LostCreate, Accounted
<1> QED
  BY <1>3, <1>4, <1>5, <1>6, <1>7, <1>8 DEF Undone

\* A step keeps the invariant of the rollback, whatever fails in it.
LEMMA UndoStep ==
    /\ TypeOK /\ PlaceInv /\ StaleInv /\ EarlyInv /\ ForwardInv /\ OutcomeInv /\ SentInv
    /\ UndoInv /\ [Next]_vars /\ StaleInv' /\ OutcomeInv'
    => UndoInv'
<1> SUFFICES ASSUME TypeOK, PlaceInv, StaleInv, EarlyInv, ForwardInv, OutcomeInv, SentInv,
                    UndoInv, [Next]_vars, StaleInv', OutcomeInv', Undoing'
             PROVE  Undone'
  BY DEF UndoInv
<1>1. plan \in Plans /\ Len(plan) \in Nat /\ DOMAIN plan = 1 .. Len(plan)
  BY PlanShape DEF TypeOK
<1>2. CASE Foreign
  <2>1. /\ UNCHANGED <<plan, pre, pc, i, done, created, rollbackFailures, state, lost, origin,
                       home, mine>>
        /\ meddled => meddled'
        /\ pc # "staged" /\ ~meddled' => \A id \in Own : live'[id] = live[id]
    BY <1>2, ForeignEffect DEF fixed, progress
  <2>2. Undone /\ \A id \in Own : live'[id] = live[id]
    BY <2>1 DEF Undoing, UndoInv, OutcomeInv
  <2>3. Standing' = Standing
    BY <2>1 DEF Standing
  <2> QED
    BY <2>1, <2>2, <2>3, ForeignUndone
<1>3. CASE Begin \/ CheckOne \/ CheckRefuses \/ AllApplied \/ VerifyOne \/ VerifyFails
           \/ Verified
  BY <1>3 DEF Begin, CheckOne, CheckRefuses, AllApplied, VerifyOne, VerifyFails, Verified,
     Undoing, OutcomeInv
<1>4. CASE CheckPasses
  <2>1. ~meddled
    BY <1>4 DEF CheckPasses, Undoing, history
  <2> QED
    BY <1>4, <2>1, CheckedUndone
<1>5. ASSUME pc \in {"applying", "putting"}, UNCHANGED <<meddled, rollbackFailures>>
      PROVE  Undone
  BY <1>5 DEF Undoing, UndoInv
<1>6. CASE CreateOne
  BY <1>5, <1>6, CreateUndone DEF CreateOne, Applying
<1>7. CASE PrepareUpdate
  <2>1. Undone
    BY <1>5, <1>7 DEF PrepareUpdate, Applying, history
  <2>2. Standing' = Standing
    BY <1>7 DEF PrepareUpdate, Applying, Standing, Fails
  <2>3. UNCHANGED <<plan, pre, live, done, created, lost, origin, home, mine>>
    BY <1>7 DEF PrepareUpdate, Fails, fixed, controller, history
  <2> QED
    BY <2>1, <2>2, <2>3, UndoneSame
<1>8. CASE PutOne
  <2>1. Undone /\ ~meddled /\ pc = "putting"
    BY <1>5, <1>8 DEF PutOne, Undoing
  <2>2. UNCHANGED <<plan, pre, origin, home, created, mine, lost>>
    BY <1>8 DEF PutOne, fixed, controller
  <2>3. CASE live[plan[i].id] # Absent
    <3>1. body = Overlay(live[plan[i].id], plan[i].body)
      BY <2>1 DEF ForwardInv
    <3>2. Send([live EXCEPT ![plan[i].id] = body])
      BY <1>8, <2>3 DEF PutOne
    <3>3. i \in DOMAIN plan /\ plan[i].op = "update" /\ body \in Resource \cup {Absent}
      BY <2>1 DEF PlaceInv, TypeOK
    <3> QED
      BY <2>1, <2>2, <2>3, <3>1, <3>2, <3>3, WriteUndone
  <2>4. CASE live[plan[i].id] = Absent
    <3>1. Fails /\ UNCHANGED live
      BY <1>8, <2>4 DEF PutOne, Unanswered
    <3>2. Standing' = Standing
      BY <2>1, <3>1 DEF Fails, Standing
    <3> QED
      BY <2>1, <2>2, <3>1, <3>2, UndoneSame DEF Fails
  <2> QED
    BY <2>3, <2>4
<1>9. CASE DeleteOne
  <2>1. Undone /\ pc = "applying" /\ i \in DOMAIN plan /\ plan[i].op = "delete"
    BY <1>5, <1>9 DEF DeleteOne, Applying
  <2>2. UNCHANGED <<plan, pre, origin, home, created, mine, lost>>
    BY <1>9 DEF DeleteOne, fixed, controller
  <2>3. CASE live[plan[i].id] # Absent
    <3>1. Send([live EXCEPT ![plan[i].id] = Absent])
      BY <1>9, <2>3 DEF DeleteOne
    <3> QED
      BY <2>1, <2>2, <2>3, <3>1, WriteUndone
  <2>4. CASE live[plan[i].id] = Absent
    <3>1. Fails /\ UNCHANGED live
      BY <1>9, <2>4 DEF DeleteOne, Unanswered
    <3>2. Standing' = Standing
      BY <2>1, <3>1 DEF Fails, Standing
    <3> QED
      BY <2>1, <2>2, <3>1, <3>2, UndoneSame DEF Fails
  <2> QED
    BY <2>3, <2>4
<1>10. CASE RestoreOne
  <2>1. Undone /\ pc = "applying"
    BY <1>5, <1>10 DEF RestoreOne, Applying, history
  <2>2. UNCHANGED <<plan, pre, live, done, created, lost, origin, home, mine>>
        /\ Standing' = Standing
    BY <1>10, <2>1 DEF RestoreOne, Fails, fixed, controller, history, Standing
  <2> QED
    BY <2>1, <2>2, UndoneSame
<1>11. ASSUME pc = "rolling", rollbackFailures = {}, UNCHANGED meddled
       PROVE  Undone
  BY <1>11 DEF Undoing, UndoInv
<1>12. rollbackFailures' = {}
  BY DEF Undoing
<1>13. CASE RollbackCreate
  <2>1. i \in DOMAIN plan /\ pc = "rolling" /\ UNCHANGED meddled
    BY <1>1, <1>13 DEF RollbackCreate, RollbackAt, PlaceInv, TypeOK
  <2>2. rollbackFailures = {}
    BY <1>12, <1>13 DEF RollbackCreate, SendRollback, RollbackFails
  <2> QED
    BY <1>11, <1>12, <1>13, <2>1, <2>2, RollbackCreateUndone
<1>14. CASE RollbackUpdate
  <2>1. pc = "rolling" /\ UNCHANGED meddled
    BY <1>14 DEF RollbackUpdate, RollbackAt
  <2>2. rollbackFailures = {}
    BY <1>12, <1>14 DEF RollbackUpdate, SendRollback, RollbackFails
  <2> QED
    BY <1>11, <1>12, <1>14, <2>1, <2>2, RollbackUpdateUndone
<1>15. CASE RollbackDelete
  <2>1. pc = "rolling" /\ UNCHANGED meddled
    BY <1>15 DEF RollbackDelete, RollbackAt
  <2>2. rollbackFailures = {}
    BY <1>12, <1>15 DEF RollbackDelete, SendRollback, RollbackFails
  <2> QED
    BY <1>11, <1>12, <1>15, <2>1, <2>2, RollbackDeleteUndone
<1>16. CASE RollbackDone
  <2>1. /\ pc = "rolling" /\ pc' = "returned" /\ UNCHANGED <<meddled, rollbackFailures>>
        /\ UNCHANGED <<plan, pre, live, i, done, created, lost, origin, home, mine>>
    BY <1>16 DEF RollbackDone, fixed, controller, history
  <2>2. Standing' = Standing
    BY <2>1 DEF Standing
  <2> QED
    BY <1>11, <1>12, <2>1, <2>2, UndoneSame
<1>17. CASE Late
  <2>1. UNCHANGED <<pc, state, rollbackFailures, meddled>>
    BY <1>17 DEF Late, progress
  <2>2. Undone /\ ~meddled /\ rollbackFailures = {}
    BY <2>1 DEF Undoing, UndoInv
  <2> QED
    BY <1>17, <2>2, LateUndone
<1>18. CASE UNCHANGED vars
  <2>1. Undone /\ Standing' = Standing
    BY <1>18 DEF vars, Undoing, UndoInv, Standing
  <2> QED
    BY <1>18, <2>1, UndoneSame DEF vars
<1> QED
  BY <1>2, <1>3, <1>4, <1>6, <1>7, <1>8, <1>9, <1>10, <1>13, <1>14, <1>15, <1>16, <1>17,
     <1>18 DEF Next, ApplyStep

-----------------------------------------------------------------------------
(* A clean rollback restores                                                *)

\* When nothing is left to undo, every resource is where and what it was, but
\* for the mutation whose answer was lost.
LEMMA UndoneRestores ==
    ASSUME TypeOK, SentInv, Undone, Standing = 0
    PROVE  \/ Holds(origin) /\ Extras = {}
           \/ lost /\ Residue(plan[done + 1])
<1> DEFINE m == plan[done + 1]
<1>1. \A r \in Touched : Back(r)
  BY DEF Undone, Kept, TouchedBy
<1>2. Touched \subseteq Existing /\ mine \subseteq Fresh /\ plan \in Plans
  BY TouchedOwn DEF TypeOK
<1>3. \A f \in mine : Accounted(f) => f \in {home[r] : r \in Touched}
  <2>1. ASSUME NEW f \in mine, NEW r \in Existing, home[r] = f
        PROVE  r \in Touched
    <3>1. home[r] # r
      BY <1>2, <2>1, PlansAssumption
    <3>2. PICK n \in Standing + 1 .. done : plan[n].op = "delete" /\ plan[n].id = r
      BY <3>1 DEF Undone, Moved
    <3>3. n \in DOMAIN plan
      BY <1>2, <3>2, PlanShape DEF TypeOK
    <3> QED
      BY <3>2, <3>3 DEF Touched
  <2> QED
    BY <2>1 DEF Accounted
<1>4. /\ \A id \in Extras : id \in mine /\ id \notin {home[r] : r \in Touched}
                            /\ live[id] # Absent
      /\ ~LostCreate => Extras = {}
  <2>1. \A id \in Touched : id \notin Extras
    BY <1>2 DEF Extras, Undone, Moved
  <2>2. \A id \in Extras : id \in mine /\ id \notin {home[r] : r \in Touched} /\ live[id] # Absent
    BY <2>1 DEF Extras, Own
  <2> QED
    BY <1>3, <2>2 DEF Undone, Spare
<1>5. CASE Holds(origin)
  <2>2. CASE LostCreate
    <3>1. PICK o \in mine :
            /\ live[o] = m.body /\ ~Accounted(o)
            /\ \A f \in mine \ {o} : live[f] # Absent => Accounted(f)
      BY <2>2 DEF Undone, Spare
    <3>2. plan \in Plans /\ m.op = "create" /\ m.body \in Resource
      BY <2>2, PlanShape DEF SentInv, LostCreate, TypeOK
    <3>3. o \in Own \ {home[r] : r \in Touched} /\ live[o] # Absent
      BY <1>2, <3>1, <3>2, ValuesAssumption DEF Accounted, Own
    <3>4. Extras = {o}
      <4>1. o \in Extras
        BY <3>3 DEF Extras
      <4>2. \A id \in Extras : id = o
        BY <1>3, <1>4, <3>1
      <4> QED
        BY <4>1, <4>2
    <3> QED
      BY <1>5, <2>2, <3>1, <3>2, <3>3, <3>4 DEF Residue, LostCreate
  <2> QED
    BY <1>4, <1>5, <2>2
<1>6. CASE ~Holds(origin)
  <2>1. PICK r \in Touched : live[home[r]] # origin[r]
    BY <1>6 DEF Holds
  <2>2. lost /\ m.op \in {"update", "delete"} /\ m.id = r /\ live[home[r]] = Sent[r]
    BY <1>1, <2>1 DEF Back, Touches
  <2>3. Extras = {}
    BY <1>4, <2>2 DEF LostCreate
  <2>4. \A q \in Touched \ {r} : live[home[q]] = origin[q]
    BY <1>1, <2>2 DEF Back, Touches
  <2>5. \A q \in Touched : q \in DOMAIN origin
    BY <1>2 DEF TypeOK, Rids
  <2>6. Holds([origin EXCEPT ![m.id] = Sent[m.id]])
    BY <2>2, <2>4, <2>5 DEF Holds
  <2> QED
    BY <2>2, <2>3, <2>6 DEF Residue
<1> QED
  BY <1>5, <1>6

LEMMA InitUndo == Init => StaleInv /\ SentInv /\ UndoInv
  BY DEF Init, StaleInv, SentInv, UndoInv, Undoing

LEMMA UndoRestores == TypeOK /\ OutcomeInv /\ SentInv /\ UndoInv => RollbackRestores
<1> SUFFICES ASSUME TypeOK, OutcomeInv, SentInv, UndoInv, state = "Partial", ~meddled
             PROVE  \/ Holds(origin) /\ Extras = {}
                    \/ lost /\ Residue(plan[done + 1])
  BY DEF RollbackRestores
<1>1. Undone /\ Standing = 0
  BY DEF OutcomeInv, UndoInv, Undoing, Standing
<1> QED
  BY <1>1, UndoneRestores

\* For plans of any length, wherever the apply fails and whenever the controller
\* carries out what it did not answer: a rollback that reports no failure has
\* restored an undisturbed controller, with deletes perhaps under new ids, up to the
\* one request whose call failed although it was carried out, then or later.
THEOREM RollbackHolds == Spec => []RollbackRestores
  BY InitTyped, InitPlaced, InitUndo, InitCarried, UndoRestores, TypeStep, StaleStep,
     EarlyStep, ForwardStep, OutcomeStep, CarriedStep, SentStep, UndoStep, PTL DEF Spec

-----------------------------------------------------------------------------
(* The footprint of an apply                                                *)

\* The ids by which a rollback will delete are the apply's own.
KnownInv == \A n \in 1 .. done : plan[n].op = "create" => created[n] \in mine

\* What one step of an apply, or a request of it that is late, does to the controller: nothing, a write to one of
\* its own resources, or a creation under the next id, which becomes its own.
Writes ==
    \/ UNCHANGED <<live, assigned, mine>>
    \/ /\ \E id \in Own, v \in Resource \cup {Absent} : live' = [live EXCEPT ![id] = v]
       /\ UNCHANGED <<assigned, mine>>
    \/ \E f \in NextId, v \in Resource :
         /\ live' = [live EXCEPT ![f] = v]
         /\ assigned' = assigned \cup {f} /\ mine' = mine \cup {f}

LEMMA WritesOwn ==
    ASSUME NEW id \in Own, NEW v \in Resource \cup {Absent},
           live' \in {live, [live EXCEPT ![id] = v]}, UNCHANGED <<assigned, mine>>
    PROVE  Writes
  BY DEF Writes

LEMMA WritesNew ==
    ASSUME TypeOK, PlaceInv, NEW id \in NextId, NEW v \in Resource, Assigns(id),
           live' \in {live, [live EXCEPT ![id] = v]}
    PROVE  Writes
<1>1. id \in Fresh /\ id \in Rids /\ live[id] = Absent
  BY DEF NextId, Unused, Rids, PlaceInv
<1>2. CASE live' = live
  BY <1>1, <1>2, AssignEffect DEF Writes
<1>3. CASE live' = [live EXCEPT ![id] = v]
  BY <1>1, <1>3, AssignEffect DEF Writes
<1> QED
  BY <1>2, <1>3

LEMMA WriteShape ==
    ASSUME TypeOK, PlaceInv, KnownInv, ApplyStep \/ Late
    PROVE  Writes
<1>1. plan \in Plans /\ Len(plan) \in Nat /\ DOMAIN plan = 1 .. Len(plan)
  BY PlanShape DEF TypeOK
<1>2. /\ Touched \subseteq Existing /\ Touched \subseteq Own /\ mine \subseteq Own
      /\ pre \in [Existing -> Resource]
  BY TouchedOwn DEF TypeOK
<1>3. CASE Begin \/ CheckOne \/ CheckRefuses \/ CheckPasses \/ PrepareUpdate \/ RestoreOne
           \/ AllApplied \/ VerifyOne \/ VerifyFails \/ Verified \/ RollbackDone
  BY <1>3 DEF Writes, Begin, CheckOne, CheckRefuses, CheckPasses, PrepareUpdate, RestoreOne,
              AllApplied, VerifyOne, VerifyFails, Verified, RollbackDone, controller, history
<1>4. CASE CreateOne
  <2>1. PICK f \in NextId : Send([live EXCEPT ![f] = plan[i].body]) /\ Assigns(f)
    BY <1>4 DEF CreateOne
  <2>2. plan[i].body \in Resource
    BY <1>1, <1>4, PlanShape DEF CreateOne, Applying
  <2>3. live' \in {live, [live EXCEPT ![f] = plan[i].body]}
    BY <2>1 DEF Send, Unanswered, Lands
  <2> QED
    BY <2>1, <2>2, <2>3, WritesNew
<1>5. CASE PutOne
  <2>1. plan[i].id \in Own /\ body \in Resource \cup {Absent}
    BY <1>2, <1>5, TouchedOwn DEF PutOne, PlaceInv, TypeOK
  <2>2. live' \in {live, [live EXCEPT ![plan[i].id] = body]} /\ UNCHANGED <<assigned, mine>>
    BY <1>5 DEF PutOne, Send, Unanswered, Lands
  <2> QED
    BY <2>1, <2>2, WritesOwn
<1>6. CASE DeleteOne
  <2>1. plan[i].id \in Own
    BY <1>2, <1>6, TouchedOwn DEF DeleteOne, Applying
  <2>2. live' \in {live, [live EXCEPT ![plan[i].id] = Absent]} /\ UNCHANGED <<assigned, mine>>
    BY <1>6 DEF DeleteOne, Send, Unanswered, Lands
  <2> QED
    BY <2>1, <2>2, WritesOwn
<1>7. ASSUME pc = "rolling", i > 0 PROVE i \in 1 .. done /\ i \in DOMAIN plan
  BY <1>1, <1>7 DEF PlaceInv, TypeOK
<1>8. CASE RollbackCreate
  <2>1. created[i] \in Own
    BY <1>2, <1>7, <1>8 DEF RollbackCreate, RollbackAt, KnownInv
  <2>2. /\ live' \in {live, [live EXCEPT ![created[i]] = Absent]}
        /\ UNCHANGED <<assigned, mine>>
    BY <1>8 DEF RollbackCreate, SendRollback, RollbackFails, Lands
  <2> QED
    BY <2>1, <2>2, WritesOwn
<1>9. CASE RollbackUpdate
  <2>1. plan[i].id \in Touched
    BY <1>7, <1>9, TouchedOwn DEF RollbackUpdate, RollbackAt
  <2>2. /\ live' \in {live, [live EXCEPT ![plan[i].id] = pre[plan[i].id]]}
        /\ UNCHANGED <<assigned, mine>>
    BY <1>9 DEF RollbackUpdate, SendRollback, RollbackFails, Lands
  <2>3. pre[plan[i].id] \in Resource
    BY <1>2, <2>1
  <2> QED
    BY <1>2, <2>1, <2>2, <2>3, WritesOwn
<1>10. CASE RollbackDelete
  <2>1. plan[i].id \in Touched
    BY <1>7, <1>10, TouchedOwn DEF RollbackDelete, RollbackAt
  <2>2. PICK id \in NextId \cup (IF live[plan[i].id] = Absent THEN {plan[i].id} ELSE {}) :
          SendRollback([live EXCEPT ![id] = pre[plan[i].id]]) /\ Assigns(id)
    BY <1>10 DEF RollbackDelete
  <2>3. live' \in {live, [live EXCEPT ![id] = pre[plan[i].id]]}
    BY <2>2 DEF SendRollback, RollbackFails, Lands
  <2>4. pre[plan[i].id] \in Resource
    BY <1>2, <2>1
  <2>5. CASE id \in NextId
    BY <2>2, <2>3, <2>4, <2>5, WritesNew
  <2>6. CASE id = plan[i].id /\ live[id] = Absent
    <3>1. id \in Own /\ id \in Rids /\ id \notin Fresh
      BY <1>2, <2>1, <2>6, PlansAssumption DEF Rids
    <3>2. UNCHANGED <<assigned, mine>>
      BY <2>2, <2>3, <2>4, <2>6, <3>1, AssignEffect
    <3> QED
      BY <2>3, <2>4, <3>1, <3>2, WritesOwn
  <2> QED
    BY <2>2, <2>5, <2>6
<1>11. CASE Late
  <2>1. PICK n \in flying : \E id \in Reach(n) :
          live' = [live EXCEPT ![id] = Value(n)] /\ Assigns(id)
    BY <1>11 DEF Late, Lands
  <2>2. PICK id \in Reach(n) : live' = [live EXCEPT ![id] = Value(n)] /\ Assigns(id)
    BY <2>1
  <2>3. /\ n \in DOMAIN plan /\ id \in Rids
        /\ \/ id \in NextId /\ Value(n) \in Resource
           \/ /\ plan[n].op = "create" /\ n <= done /\ id = created[n]
              /\ live[id] # Absent /\ Value(n) = Absent
           \/ /\ plan[n].op \in {"update", "delete"} /\ id = plan[n].id
              /\ plan[n].id \in Existing /\ Value(n) \in Resource \cup {Absent}
    BY ReachShape
  <2>4. CASE id \in NextId /\ Value(n) \in Resource
    BY <2>2, <2>4, WritesNew
  <2>5. CASE id \in Own /\ id \notin Fresh \ mine /\ Value(n) \in Resource \cup {Absent}
    <3>1. UNCHANGED <<assigned, mine>>
      BY <2>2, <2>5 DEF Assigns, TypeOK
    <3> QED
      BY <2>2, <2>5, <3>1, WritesOwn
  <2>6. plan[n].op = "create" /\ n <= done => created[n] \in mine
    BY <1>1, <2>3 DEF KnownInv, TypeOK
  <2>7. plan[n].op \in {"update", "delete"} => plan[n].id \in Own
    BY <1>2, <2>3, TouchedOwn
  <2> QED
    BY <1>2, <2>3, <2>4, <2>5, <2>6, <2>7, PlansAssumption
<1> QED
  BY <1>3, <1>4, <1>5, <1>6, <1>8, <1>9, <1>10, <1>11 DEF ApplyStep

LEMMA FootprintStep ==
    ASSUME TypeOK, Writes
    PROVE  \A id \in Rids \ (Touched \cup mine') : live'[id] = live[id]
  BY DEF Writes, Own, TypeOK

LEMMA KnownSame ==
    ASSUME KnownInv, UNCHANGED <<plan, created>>, done' = done, mine \subseteq mine'
    PROVE  KnownInv'
  BY DEF KnownInv

\* A create that succeeds adds the id it returned.
LEMMA KnownStep == TypeOK /\ PlaceInv /\ KnownInv /\ [Next]_vars => KnownInv'
<1> SUFFICES ASSUME TypeOK, PlaceInv, KnownInv, [Next]_vars PROVE KnownInv'
  OBVIOUS
<1>1. plan \in Plans /\ Len(plan) \in Nat /\ DOMAIN plan = 1 .. Len(plan) /\ done \in Nat
  BY PlanShape DEF TypeOK
<1>2. CASE UNCHANGED vars
  BY <1>2, KnownSame DEF vars
<1>3. CASE Foreign
  BY <1>3, KnownSame DEF Foreign, Bystands, progress, fixed
<1>4. CASE Begin \/ CheckOne \/ CheckRefuses \/ CheckPasses \/ RestoreOne \/ AllApplied
           \/ VerifyOne \/ VerifyFails \/ Verified \/ RollbackDone \/ RollbackCreate
           \/ RollbackUpdate \/ PrepareUpdate
  <2>1. UNCHANGED <<plan, created, done, mine>>
    BY <1>4 DEF Begin, CheckOne, CheckRefuses, CheckPasses, RestoreOne, AllApplied, VerifyOne,
                VerifyFails, Verified, RollbackDone, RollbackCreate, RollbackUpdate,
                PrepareUpdate, Fails, fixed, history
  <2> QED
    BY <2>1, KnownSame
<1>5. CASE RollbackDelete
  <2>1. UNCHANGED <<plan, created, done>> /\ mine \subseteq mine'
    BY <1>5 DEF RollbackDelete, Assigns, fixed
  <2> QED
    BY <2>1, KnownSame
<1>6. ASSUME i = done + 1, done' \in {done, i}, UNCHANGED <<plan, created, mine>>,
             plan[i].op # "create"
      PROVE  KnownInv'
  <2>1. \A n \in 1 .. i : n \in 1 .. done \/ n = i
    BY <1>1, <1>6
  <2> QED
    BY <1>6, <2>1 DEF KnownInv
<1>7. CASE PutOne \/ DeleteOne
  <2>1. i = done + 1 /\ plan[i].op # "create"
    BY <1>7 DEF PutOne, DeleteOne, Applying, PlaceInv
  <2>2. done' \in {done, i} /\ UNCHANGED <<plan, created, mine>>
    BY <1>7 DEF PutOne, DeleteOne, Send, Unanswered, Fails, Advances, fixed
  <2> QED
    BY <1>6, <2>1, <2>2
<1>8. CASE CreateOne
  <2>1. PICK f \in NextId : /\ Send([live EXCEPT ![f] = plan[i].body]) /\ Assigns(f)
                            /\ created' = IF done' = i THEN [created EXCEPT ![i] = f]
                                          ELSE created
    BY <1>8 DEF CreateOne
  <2>2. i = done + 1 /\ i \in DOMAIN plan /\ plan[i].op = "create" /\ plan' = plan
    BY <1>8 DEF CreateOne, Applying, PlaceInv, fixed
  <2>3. CASE Unanswered
    <3>1. done' = done /\ mine \subseteq mine' /\ created' = created
      BY <1>1, <2>1, <2>2, <2>3 DEF Unanswered, Fails, Assigns
    <3> QED
      BY <2>2, <3>1, KnownSame
  <2>4. CASE Lands([live EXCEPT ![f] = plan[i].body]) /\ Advances
    <3>1. done' = i /\ live' = [live EXCEPT ![f] = plan[i].body]
      BY <2>4 DEF Lands, Advances
    <3>2. f \in Fresh /\ f \in Rids /\ live[f] = Absent /\ plan[i].body \in Resource
      BY <1>1, <2>2, PlanShape DEF NextId, Unused, Rids, PlaceInv
    <3>3. f \in mine' /\ mine \subseteq mine'
      BY <2>1, <3>1, <3>2, AssignEffect
    <3>4. created' = [created EXCEPT ![i] = f] /\ DOMAIN created = DOMAIN plan
      BY <2>1, <3>1 DEF TypeOK
    <3>5. \A n \in 1 .. i : n \in 1 .. done \/ n = i
      BY <1>1, <2>2
    <3>6. i \notin 1 .. done
      BY <1>1, <2>2
    <3> QED
      BY <1>1, <2>2, <3>1, <3>3, <3>4, <3>5, <3>6 DEF KnownInv
  <2> QED
    BY <2>1, <2>3, <2>4 DEF Send
<1>9. CASE Late
  <2>1. UNCHANGED <<plan, created, done>> /\ mine \subseteq mine'
    BY <1>9 DEF Late, Assigns, fixed, progress
  <2> QED
    BY <2>1, KnownSame
<1> QED
  BY <1>2, <1>3, <1>4, <1>5, <1>7, <1>8, <1>9 DEF Next, ApplyStep

LEMMA InitKnown == Init => KnownInv
  BY DEF Init, KnownInv

LEMMA FootprintKept ==
    TypeOK /\ PlaceInv /\ KnownInv /\ [Next]_vars
    => [ApplyStep \/ Late => \A id \in Rids \ (Touched \cup mine') : live'[id] = live[id]]_vars
  BY FootprintStep, WriteShape

\* An apply writes only to what its plan names and to what the controller created
\* for it, also by what is carried out late.
THEOREM FootprintHolds == Spec => Footprint
  BY FootprintKept, InitTyped, InitKnown, TypeStep, KnownStep, PTL DEF Spec, Footprint

-----------------------------------------------------------------------------
(* The steps an apply takes                                                 *)

LEMMA FewerSteps ==
    ASSUME TypeOK, PlaceInv, pc = "checking" => i > 0, ApplyStep
    PROVE  StepsLeft' \in Nat /\ StepsLeft' < StepsLeft
<1>1. /\ plan' = plan /\ Len(plan) \in Nat /\ DOMAIN plan = 1 .. Len(plan)
      /\ i \in 0 .. Len(plan) + 1 /\ done \in 0 .. Len(plan)
  <2>1. plan \in Plans /\ i \in 0 .. Len(plan) + 1 /\ done \in 0 .. Len(plan)
    BY DEF TypeOK
  <2>2. plan' = plan
    BY DEF ApplyStep, Begin, CheckOne, CheckRefuses, CheckPasses, CreateOne, PrepareUpdate,
           PutOne, DeleteOne, RestoreOne, AllApplied, VerifyOne, VerifyFails, Verified,
           RollbackCreate, RollbackUpdate, RollbackDelete, RollbackDone, fixed
  <2> QED
    BY <2>1, <2>2, PlanShape
<1> DEFINE n == Len(plan)
<1>2. CASE Begin
  <2>1. pc = "staged" /\ pc' = "checking" /\ i' = 1
    BY <1>2 DEF Begin
  <2> QED
    BY <1>1, <2>1 DEF StepsLeft
<1>3. CASE CheckOne
  <2>1. pc = "checking" /\ pc' = pc /\ i \in 1 .. n /\ i' = i + 1
    BY <1>1, <1>3 DEF CheckOne
  <2> QED
    BY <1>1, <2>1 DEF StepsLeft
<1>4. CASE CheckRefuses
  <2>1. pc = "checking" /\ pc' = "returned"
    BY <1>4 DEF CheckRefuses
  <2> QED
    BY <1>1, <2>1 DEF StepsLeft
<1>5. CASE CheckPasses
  <2>1. pc = "checking" /\ pc' = "applying" /\ i = n + 1 /\ i' = 1
    BY <1>1, <1>5 DEF CheckPasses
  <2> QED
    BY <1>1, <2>1 DEF StepsLeft
<1>6. ASSUME pc \in {"applying", "putting"}, i = done + 1, i \in 1 .. n, Fails
      PROVE  StepsLeft' \in Nat /\ StepsLeft' < StepsLeft
  <2>1. pc' = "rolling" /\ i' = i - 1
    BY <1>1, <1>6 DEF Fails
  <2> QED
    BY <1>1, <1>6, <2>1 DEF StepsLeft
<1>7. ASSUME pc \in {"applying", "putting"}, i \in 1 .. n, Advances
      PROVE  StepsLeft' \in Nat /\ StepsLeft' < StepsLeft
  <2>1. pc' = "applying" /\ i' = i + 1
    BY <1>7 DEF Advances
  <2> QED
    BY <1>1, <1>7, <2>1 DEF StepsLeft
<1>8. CASE CreateOne \/ PutOne \/ DeleteOne \/ RestoreOne
  <2>1. pc \in {"applying", "putting"} /\ i = done + 1 /\ i \in 1 .. n
    BY <1>1, <1>8 DEF CreateOne, PutOne, DeleteOne, RestoreOne, Applying, PlaceInv
  <2>2. Advances \/ Fails
    BY <1>8 DEF CreateOne, PutOne, DeleteOne, RestoreOne, Send, Unanswered
  <2> QED
    BY <1>6, <1>7, <2>1, <2>2
<1>9. CASE PrepareUpdate
  <2>1. pc = "applying" /\ i = done + 1 /\ i \in 1 .. n
    BY <1>1, <1>9 DEF PrepareUpdate, Applying, PlaceInv
  <2>2. Fails \/ (pc' = "putting" /\ i' = i)
    BY <1>9 DEF PrepareUpdate
  <2>3. CASE pc' = "putting" /\ i' = i
    BY <1>1, <2>1, <2>3 DEF StepsLeft
  <2> QED
    BY <1>6, <2>1, <2>2, <2>3
<1>10. CASE AllApplied
  <2>1. pc = "applying" /\ i = done + 1 /\ i \notin 1 .. n /\ pc' = "verifying" /\ i' = 1
    BY <1>1, <1>10 DEF AllApplied, PlaceInv
  <2>2. i = n + 1
    BY <1>1, <2>1
  <2> QED
    BY <1>1, <2>1, <2>2 DEF StepsLeft
<1>11. CASE VerifyOne
  <2>1. pc = "verifying" /\ pc' = pc /\ i \in 1 .. n /\ i' = i + 1
    BY <1>1, <1>11 DEF VerifyOne
  <2> QED
    BY <1>1, <2>1 DEF StepsLeft
<1>12. CASE VerifyFails \/ Verified
  <2>1. pc = "verifying" /\ pc' = "returned"
    BY <1>12 DEF VerifyFails, Verified
  <2> QED
    BY <1>1, <2>1 DEF StepsLeft
<1>13. CASE RollbackCreate \/ RollbackUpdate \/ RollbackDelete
  <2>1. pc = "rolling" /\ pc' = pc /\ i > 0 /\ i' = i - 1
    BY <1>13 DEF RollbackCreate, RollbackUpdate, RollbackDelete, RollbackAt
  <2> QED
    BY <1>1, <2>1 DEF StepsLeft
<1>14. CASE RollbackDone
  <2>1. pc = "rolling" /\ pc' = "returned"
    BY <1>14 DEF RollbackDone
  <2> QED
    BY <1>1, <2>1 DEF StepsLeft
<1> QED
  BY <1>2, <1>3, <1>4, <1>5, <1>8, <1>9, <1>10, <1>11, <1>12, <1>13, <1>14 DEF ApplyStep

LEMMA Advancing ==
    TypeOK /\ PlaceInv /\ StaleInv /\ [Next]_vars
    => [ApplyStep => StepsLeft' \in Nat /\ StepsLeft' < StepsLeft]_vars
  BY FewerSteps DEF StaleInv

\* Whatever fails and whatever others write, every step brings the apply nearer to
\* its outcome, so that one over n mutations takes at most 4n + 4 steps.
THEOREM AdvancesHolds == Spec => ApplyAdvances
  BY Advancing, InitTyped, InitUndo, TypeStep, StaleStep, PTL DEF Spec, ApplyAdvances

-----------------------------------------------------------------------------
(* Two applies                                                              *)

\* The second apply's variables, as far as they say what it writes.
OtherInv ==
    /\ plan2 \in Plans /\ pre2 \in [Existing -> Resource]
    /\ mine2 \subseteq assigned /\ mine \cap mine2 = {}
    /\ meddled2 \in BOOLEAN
    /\ i2 \in 0 .. Len(plan2) + 1 /\ done2 \in 0 .. Len(plan2)
    /\ flying2 \subseteq DOMAIN plan2
    /\ body2 \in Resource \cup {Absent}
    /\ created2 \in [DOMAIN plan2 -> mine2 \cup {Absent}]
    /\ \A n \in 1 .. done2 : plan2[n].op = "create" => created2[n] \in mine2
    /\ pc2 \in {"staged", "checking"} => done2 = 0
    /\ pc2 \in {"applying", "putting"} => i2 = done2 + 1
    /\ pc2 = "rolling" => i2 <= done2
    /\ pc2 = "putting" => i2 \in DOMAIN plan2 /\ plan2[i2].op = "update"

Writes2 ==
    \/ UNCHANGED <<live, assigned, mine2>>
    \/ /\ \E id \in O!Own, v \in Resource \cup {Absent} : live' = [live EXCEPT ![id] = v]
       /\ UNCHANGED <<assigned, mine2>>
    \/ \E f \in NextId, v \in Resource :
         /\ live' = [live EXCEPT ![f] = v]
         /\ assigned' = assigned \cup {f} /\ mine2' = mine2 \cup {f}

\* What is a plan to the first apply is one to the second.
LEMMA OtherShape ==
    ASSUME OtherInv
    PROVE  /\ Len(plan2) \in Nat /\ DOMAIN plan2 = 1 .. Len(plan2)
           /\ \A n \in DOMAIN plan2 :
                /\ plan2[n].op \in {"create", "update", "delete", "restore"}
                /\ plan2[n].op = "create" => plan2[n].body \in Resource
                /\ plan2[n].op \in {"update", "delete"} => plan2[n].id \in Existing
                /\ plan2[n].op = "update" =>
                     IF plan2[n].partial THEN plan2[n].body \in Body
                     ELSE plan2[n].body \in Resource
<1>1. plan2 \in Seq(StagedMutation)
  BY PlansAssumption DEF OtherInv
<1>2. ASSUME NEW m \in StagedMutation
      PROVE  /\ m.op \in {"create", "update", "delete", "restore"}
             /\ m.op = "create" => m.body \in Resource
             /\ m.op \in {"update", "delete"} => m.id \in Existing
             /\ m.op = "update" => IF m.partial THEN m.body \in Body
                                   ELSE m.body \in Resource
  BY <1>2 DEF StagedMutation
<1>3. Len(plan2) \in Nat /\ DOMAIN plan2 = 1 .. Len(plan2)
      /\ \A n \in DOMAIN plan2 : plan2[n] \in StagedMutation
  BY <1>1
<1> QED
  BY <1>2, <1>3

LEMMA OtherOwn ==
    ASSUME OtherInv
    PROVE  /\ O!Touched \subseteq Existing /\ O!Touched \subseteq O!Own /\ mine2 \subseteq O!Own
           /\ \A n \in DOMAIN plan2 :
                plan2[n].op \in {"update", "delete"} => plan2[n].id \in O!Touched
  BY OtherShape DEF O!Touched, O!Own

LEMMA Writes2Own ==
    ASSUME NEW id \in O!Own, NEW v \in Resource \cup {Absent},
           live' \in {live, [live EXCEPT ![id] = v]}, UNCHANGED <<assigned, mine2>>
    PROVE  Writes2
  BY DEF Writes2

\* An id assigned to the second apply is its own if the creation was carried out.
LEMMA Assigns2Effect ==
    ASSUME TypeOK, PlaceInv, OtherInv, NEW id \in Rids, NEW v \in Resource, O!Assigns(id),
           live' \in {live, [live EXCEPT ![id] = v]}, live[id] = Absent
    PROVE  /\ live' = [live EXCEPT ![id] = v] /\ id \in Fresh =>
                mine2' = mine2 \cup {id} /\ assigned' = assigned \cup {id}
           /\ live' = live \/ id \notin Fresh => mine2' = mine2 /\ assigned' = assigned
<1>1. PICK new : /\ new = {f \in Fresh \cap {id} : live'[f] # live[f]}
                 /\ assigned' = assigned \cup new /\ mine2' = mine2 \cup new
  BY DEF O!Assigns
<1>2. v # Absent /\ DOMAIN live = Rids
  BY ValuesAssumption DEF TypeOK
<1>3. live' = [live EXCEPT ![id] = v] /\ id \in Fresh => new = {id}
  BY <1>1, <1>2
<1>4. live' = live \/ id \notin Fresh => new = {}
  BY <1>1
<1> QED
  BY <1>1, <1>3, <1>4

LEMMA Writes2New ==
    ASSUME TypeOK, PlaceInv, OtherInv, NEW id \in NextId, NEW v \in Resource, O!Assigns(id),
           live' \in {live, [live EXCEPT ![id] = v]}
    PROVE  Writes2
<1>1. id \in Fresh /\ id \in Rids /\ live[id] = Absent
  BY DEF NextId, Unused, Rids, PlaceInv
<1>2. CASE live' = live
  BY <1>1, <1>2, Assigns2Effect DEF Writes2
<1>3. CASE live' = [live EXCEPT ![id] = v]
  BY <1>1, <1>3, Assigns2Effect DEF Writes2
<1> QED
  BY <1>2, <1>3

LEMMA NextIdSame == O!NextId = NextId
  BY DEF NextId, Unused, O!NextId, O!Unused

\* What is a late request to the first apply is one to the second.
LEMMA Reach2Shape ==
    ASSUME OtherInv, NEW n \in flying2, NEW id \in O!Reach(n)
    PROVE  /\ n \in DOMAIN plan2 /\ id \in Rids
           /\ \/ id \in NextId /\ O!Value(n) \in Resource
              \/ plan2[n].op = "create" /\ id \in mine2 /\ O!Value(n) = Absent
              \/ /\ plan2[n].op \in {"update", "delete"} /\ id = plan2[n].id
                 /\ plan2[n].id \in Existing /\ O!Value(n) \in Resource \cup {Absent}
<1> DEFINE m == plan2[n]
<1>1. /\ n \in DOMAIN plan2 /\ n \in Nat /\ n \in 1 .. Len(plan2) /\ done2 \in Nat
      /\ m.op \in {"create", "update", "delete", "restore"}
      /\ m.op = "create" => m.body \in Resource
      /\ m.op \in {"update", "delete"} => m.id \in Existing
  BY OtherShape DEF OtherInv
<1>2. NextId \subseteq Rids /\ O!NextId = NextId
  BY NextIdSame DEF NextId, Unused, Rids
<1>3. CASE m.op = "create"
  <2>1. CASE n > done2
    BY <1>1, <1>2, <1>3, <2>1 DEF O!Reach, O!Value
  <2>2. CASE ~(n > done2)
    <3>1. id \in {r \in O!Rids : r = created2[n] /\ live[r] # Absent} /\ O!Value(n) = Absent
      BY <1>3, <2>2 DEF O!Reach, O!Value
    <3>2. n \in 1 .. done2
      BY <1>1, <2>2
    <3>3. created2[n] \in mine2
      BY <1>3, <3>2 DEF OtherInv
    <3> QED
      BY <1>1, <1>3, <3>1, <3>3 DEF Rids, O!Rids
  <2> QED
    BY <2>1, <2>2
<1>4. CASE m.op = "update"
  <2>1. id \in O!Rids /\ id = m.id
    BY <1>4 DEF O!Reach
  <2>2. O!Value(n) = IF n > done2 THEN body2 ELSE pre2[m.id]
    BY <1>4 DEF O!Value
  <2>3. O!Value(n) \in Resource \cup {Absent}
    BY <1>1, <1>4, <2>2 DEF OtherInv
  <2> QED
    BY <1>1, <1>4, <2>1, <2>3 DEF Rids, O!Rids
<1>5. CASE m.op = "delete"
  <2>1. O!Value(n) = IF n > done2 THEN Absent ELSE pre2[m.id]
    BY <1>5 DEF O!Value
  <2>2. pre2[m.id] \in Resource
    BY <1>1, <1>5 DEF OtherInv
  <2>3. CASE n > done2
    <3>1. id \in O!Rids /\ id = m.id
      BY <1>5, <2>3 DEF O!Reach
    <3> QED
      BY <1>1, <1>5, <2>1, <2>3, <3>1 DEF Rids, O!Rids
  <2>4. CASE ~(n > done2)
    <3>1. id \in NextId \/ (id \in O!Rids /\ id = m.id)
      BY <1>2, <1>5, <2>4 DEF O!Reach
    <3> QED
      BY <1>1, <1>2, <1>5, <2>1, <2>2, <2>4, <3>1 DEF Rids, O!Rids
  <2> QED
    BY <2>3, <2>4
<1>6. m.op # "restore"
  BY DEF O!Reach
<1> QED
  BY <1>1, <1>3, <1>4, <1>5, <1>6

LEMMA Write2Shape ==
    ASSUME TypeOK, PlaceInv, OtherInv, O!ApplyStep \/ O!Late
    PROVE  Writes2
<1>1. /\ Len(plan2) \in Nat /\ DOMAIN plan2 = 1 .. Len(plan2)
      /\ O!Touched \subseteq Existing /\ O!Touched \subseteq O!Own /\ mine2 \subseteq O!Own
      /\ pre2 \in [Existing -> Resource]
  BY OtherShape, OtherOwn DEF OtherInv
<1>3. CASE \/ O!Begin \/ O!CheckOne \/ O!CheckRefuses \/ O!CheckPasses \/ O!PrepareUpdate
           \/ O!RestoreOne \/ O!AllApplied \/ O!VerifyOne \/ O!VerifyFails \/ O!Verified
           \/ O!RollbackDone
  BY <1>3 DEF Writes2, O!Begin, O!CheckOne, O!CheckRefuses, O!CheckPasses, O!PrepareUpdate,
              O!RestoreOne, O!AllApplied, O!VerifyOne, O!VerifyFails, O!Verified,
              O!RollbackDone, O!controller, O!history
<1>4. CASE O!CreateOne
  <2>1. PICK f \in NextId : O!Send([live EXCEPT ![f] = plan2[i2].body]) /\ O!Assigns(f)
    BY <1>4, NextIdSame DEF O!CreateOne
  <2>2. plan2[i2].body \in Resource
    BY <1>4, OtherShape DEF O!CreateOne, O!Applying
  <2>3. live' \in {live, [live EXCEPT ![f] = plan2[i2].body]}
    BY <2>1 DEF O!Send, O!Unanswered, O!Lands
  <2> QED
    BY <2>1, <2>2, <2>3, Writes2New
<1>5. CASE O!PutOne
  <2>1. plan2[i2].id \in O!Own /\ body2 \in Resource \cup {Absent}
    BY <1>1, <1>5, OtherOwn DEF O!PutOne, OtherInv
  <2>2. /\ live' \in {live, [live EXCEPT ![plan2[i2].id] = body2]}
        /\ UNCHANGED <<assigned, mine2>>
    BY <1>5 DEF O!PutOne, O!Send, O!Unanswered, O!Lands
  <2> QED
    BY <2>1, <2>2, Writes2Own
<1>6. CASE O!DeleteOne
  <2>1. plan2[i2].id \in O!Own
    BY <1>1, <1>6, OtherOwn DEF O!DeleteOne, O!Applying
  <2>2. /\ live' \in {live, [live EXCEPT ![plan2[i2].id] = Absent]}
        /\ UNCHANGED <<assigned, mine2>>
    BY <1>6 DEF O!DeleteOne, O!Send, O!Unanswered, O!Lands
  <2> QED
    BY <2>1, <2>2, Writes2Own
<1>7. ASSUME pc2 = "rolling", i2 > 0 PROVE i2 \in 1 .. done2 /\ i2 \in DOMAIN plan2
  BY <1>1, <1>7 DEF OtherInv
<1>8. CASE O!RollbackCreate
  <2>1. created2[i2] \in O!Own
    BY <1>1, <1>7, <1>8 DEF O!RollbackCreate, O!RollbackAt, OtherInv
  <2>2. /\ live' \in {live, [live EXCEPT ![created2[i2]] = Absent]}
        /\ UNCHANGED <<assigned, mine2>>
    BY <1>8 DEF O!RollbackCreate, O!SendRollback, O!RollbackFails, O!Lands
  <2> QED
    BY <2>1, <2>2, Writes2Own
<1>9. CASE O!RollbackUpdate
  <2>1. plan2[i2].id \in O!Touched
    BY <1>7, <1>9, OtherOwn DEF O!RollbackUpdate, O!RollbackAt
  <2>2. /\ live' \in {live, [live EXCEPT ![plan2[i2].id] = pre2[plan2[i2].id]]}
        /\ UNCHANGED <<assigned, mine2>>
    BY <1>9 DEF O!RollbackUpdate, O!SendRollback, O!RollbackFails, O!Lands
  <2>3. pre2[plan2[i2].id] \in Resource
    BY <1>1, <2>1
  <2> QED
    BY <1>1, <2>1, <2>2, <2>3, Writes2Own
<1>10. CASE O!RollbackDelete
  <2>1. plan2[i2].id \in O!Touched
    BY <1>7, <1>10, OtherOwn DEF O!RollbackDelete, O!RollbackAt
  <2>2. PICK id \in NextId \cup (IF live[plan2[i2].id] = Absent THEN {plan2[i2].id} ELSE {}) :
          O!SendRollback([live EXCEPT ![id] = pre2[plan2[i2].id]]) /\ O!Assigns(id)
    BY <1>10, NextIdSame DEF O!RollbackDelete
  <2>3. live' \in {live, [live EXCEPT ![id] = pre2[plan2[i2].id]]}
    BY <2>2 DEF O!SendRollback, O!RollbackFails, O!Lands
  <2>4. pre2[plan2[i2].id] \in Resource
    BY <1>1, <2>1
  <2>5. CASE id \in NextId
    BY <2>2, <2>3, <2>4, <2>5, Writes2New
  <2>6. CASE id = plan2[i2].id /\ live[id] = Absent
    <3>1. id \in O!Own /\ id \in Rids /\ id \notin Fresh
      BY <1>1, <2>1, <2>6, PlansAssumption DEF Rids
    <3>2. UNCHANGED <<assigned, mine2>>
      BY <2>2, <2>3, <2>4, <2>6, <3>1, Assigns2Effect
    <3> QED
      BY <2>3, <2>4, <3>1, <3>2, Writes2Own
  <2> QED
    BY <2>2, <2>5, <2>6
<1>11. CASE O!Late
  <2>1. PICK n \in flying2 : \E id \in O!Reach(n) :
          live' = [live EXCEPT ![id] = O!Value(n)] /\ O!Assigns(id)
    BY <1>11 DEF O!Late, O!Lands
  <2>2. PICK id \in O!Reach(n) : live' = [live EXCEPT ![id] = O!Value(n)] /\ O!Assigns(id)
    BY <2>1
  <2>3. /\ n \in DOMAIN plan2 /\ id \in Rids
        /\ \/ id \in NextId /\ O!Value(n) \in Resource
           \/ plan2[n].op = "create" /\ id \in mine2 /\ O!Value(n) = Absent
           \/ /\ plan2[n].op \in {"update", "delete"} /\ id = plan2[n].id
              /\ plan2[n].id \in Existing /\ O!Value(n) \in Resource \cup {Absent}
    BY Reach2Shape
  <2>4. CASE id \in NextId /\ O!Value(n) \in Resource
    BY <2>2, <2>4, Writes2New
  <2>5. CASE id \in O!Own /\ id \notin Fresh \ mine2 /\ O!Value(n) \in Resource \cup {Absent}
    <3>1. UNCHANGED <<assigned, mine2>>
      BY <2>2, <2>5 DEF O!Assigns, OtherInv
    <3> QED
      BY <2>2, <2>5, <3>1, Writes2Own
  <2>6. plan2[n].op \in {"update", "delete"} => plan2[n].id \in O!Own
    BY <1>1, <2>3, OtherOwn
  <2> QED
    BY <1>1, <2>3, <2>4, <2>5, <2>6, PlansAssumption
<1> QED
  BY <1>3, <1>4, <1>5, <1>6, <1>8, <1>9, <1>10, <1>11 DEF O!ApplyStep

\* To the first apply, a step of the second is one more write of others, or none.
LEMMA OtherIsForeign ==
    ASSUME TypeOK, OtherInv, Writes2, Bystands
    PROVE  [Next]_vars
<1>1. O!Own \subseteq Existing \cup assigned
  BY OtherOwn DEF O!Own, OtherInv
<1>2. CASE live' = live /\ assigned' = assigned
  <2>1. meddled' = meddled
    BY <1>2 DEF Bystands, TypeOK
  <2> QED
    BY <1>2, <2>1 DEF Bystands, vars, fixed, progress
<1>3. CASE live' # live \/ assigned' # assigned
  <2>1. OthersWrite
    <3>1. CASE /\ \E id \in O!Own, v \in Resource \cup {Absent} : live' = [live EXCEPT ![id] = v]
               /\ UNCHANGED assigned
      <4>1. PICK id \in O!Own, v \in Resource \cup {Absent} : live' = [live EXCEPT ![id] = v]
        BY <3>1
      <4>2. v # live[id]
        BY <1>3, <3>1, <4>1 DEF TypeOK
      <4> QED
        BY <1>1, <3>1, <4>1, <4>2 DEF OthersWrite
    <3> QED
      BY <1>3, <3>1 DEF Writes2, OthersWrite
  <2> QED
    BY <2>1 DEF Next, Foreign
<1> QED
  BY <1>2, <1>3

\* A step that is not the second apply's own leaves its invariant alone.
LEMMA OtherStands ==
    ASSUME OtherInv, assigned \subseteq assigned', mine' \cap mine2 = {}, meddled2' \in BOOLEAN,
           UNCHANGED <<plan2, pre2, flying2, pc2, i2, done2, body2, created2, mine2>>
    PROVE  OtherInv'
<1>1. mine2' \subseteq assigned'
  BY DEF OtherInv
<1>2. \A n \in 1 .. done2' : plan2'[n].op = "create" => created2'[n] \in mine2'
  BY DEF OtherInv
<1> QED
  BY <1>1, <1>2 DEF OtherInv

\* Where a step of the second apply takes it.
Moves2 ==
    /\ UNCHANGED <<plan2, pre2, meddled2>>
    /\ i2' \in 0 .. Len(plan2) + 1 /\ done2' \in 0 .. Len(plan2)
    /\ flying2' \subseteq DOMAIN plan2
    /\ body2' \in Resource \cup {Absent}
    /\ \/ done2' = done2 /\ created2' = created2
       \/ done2' = i2 /\ i2 = done2 + 1 /\ plan2[i2].op # "create" /\ created2' = created2
       \/ /\ done2' = i2 /\ i2 = done2 + 1 /\ i2 \in DOMAIN plan2
          /\ \E f \in mine2' : created2' = [created2 EXCEPT ![i2] = f]
    /\ pc2' \in {"staged", "checking"} => done2' = 0
    /\ pc2' \in {"applying", "putting"} => i2' = done2' + 1
    /\ pc2' = "rolling" => i2' <= done2'
    /\ pc2' = "putting" => i2' \in DOMAIN plan2 /\ plan2[i2'].op = "update"

LEMMA Moves2Keep ==
    ASSUME TypeOK, OtherInv, Writes2, Moves2, UNCHANGED mine
    PROVE  OtherInv'
<1>1. /\ mine2' \subseteq assigned' /\ mine' \cap mine2' = {} /\ mine2 \subseteq mine2'
      /\ mine2' \subseteq mine2 \cup (assigned' \ assigned)
  <2>1. \A f \in NextId : f \notin assigned
    BY DEF NextId, Unused
  <2>2. mine \subseteq assigned /\ mine2 \subseteq assigned /\ mine \cap mine2 = {}
    BY DEF OtherInv, TypeOK
  <2> QED
    BY <2>1, <2>2 DEF Writes2
<1>2. DOMAIN plan2 = 1 .. Len(plan2) /\ Len(plan2) \in Nat /\ done2 \in Nat
  BY OtherShape DEF OtherInv
<1>3. created2 \in [DOMAIN plan2 -> mine2 \cup {Absent}]
  BY DEF OtherInv
<1>4. /\ created2' \in [DOMAIN plan2' -> mine2' \cup {Absent}]
      /\ \A n \in 1 .. done2' : plan2'[n].op = "create" => created2'[n] \in mine2'
  <2>1. CASE done2' = done2 /\ created2' = created2
    BY <1>1, <1>3, <2>1 DEF Moves2, OtherInv
  <2>2. ASSUME i2 = done2 + 1 PROVE \A n \in 1 .. i2 : n \in 1 .. done2 \/ n = i2
    BY <1>2, <2>2
  <2>3. CASE done2' = i2 /\ i2 = done2 + 1 /\ plan2[i2].op # "create" /\ created2' = created2
    BY <1>1, <1>3, <2>2, <2>3 DEF Moves2, OtherInv
  <2>4. CASE /\ done2' = i2 /\ i2 = done2 + 1 /\ i2 \in DOMAIN plan2
             /\ \E f \in mine2' : created2' = [created2 EXCEPT ![i2] = f]
    <3>1. PICK f \in mine2' : created2' = [created2 EXCEPT ![i2] = f]
      BY <2>4
    <3>2. created2' \in [DOMAIN plan2 -> mine2' \cup {Absent}]
      BY <1>1, <1>3, <3>1
    <3>3. created2'[i2] = f /\ \A n \in 1 .. done2 : n # i2 /\ created2'[n] = created2[n]
      BY <1>2, <1>3, <2>4, <3>1
    <3> QED
      BY <1>1, <2>2, <2>4, <3>2, <3>3 DEF Moves2, OtherInv
  <2> QED
    BY <2>1, <2>3, <2>4 DEF Moves2
<1> QED
  BY <1>1, <1>4 DEF Moves2, OtherInv

LEMMA Move2Shape ==
    ASSUME TypeOK, PlaceInv, OtherInv, Writes2, O!ApplyStep \/ O!Late
    PROVE  Moves2
<1>1. /\ Len(plan2) \in Nat /\ DOMAIN plan2 = 1 .. Len(plan2)
      /\ i2 \in 0 .. Len(plan2) + 1 /\ done2 \in 0 .. Len(plan2)
      /\ body2 \in Resource \cup {Absent} /\ Absent \notin Resource
  BY OtherShape, ValuesAssumption DEF OtherInv
<1>2. UNCHANGED <<plan2, pre2, meddled2>> /\ flying2' \subseteq DOMAIN plan2
  <2>1. UNCHANGED <<plan2, pre2, meddled2>>
    BY DEF O!Late, O!ApplyStep, O!Begin, O!CheckOne, O!CheckRefuses, O!CheckPasses, O!CreateOne,
         O!PrepareUpdate, O!PutOne, O!DeleteOne, O!RestoreOne, O!AllApplied, O!VerifyOne,
         O!VerifyFails, O!Verified, O!RollbackCreate, O!RollbackUpdate, O!RollbackDelete,
         O!RollbackDone, O!fixed, O!history
  <2>2. flying2 \subseteq DOMAIN plan2
    BY DEF OtherInv
  <2>3. CASE \/ O!Begin \/ O!CheckOne \/ O!CheckRefuses \/ O!CheckPasses \/ O!PrepareUpdate
             \/ O!RestoreOne \/ O!AllApplied \/ O!VerifyOne \/ O!VerifyFails \/ O!Verified
             \/ O!RollbackDone
    <3>1. UNCHANGED flying2
      BY <2>3 DEF O!Begin, O!CheckOne, O!CheckRefuses, O!CheckPasses, O!PrepareUpdate,
                  O!RestoreOne, O!AllApplied, O!VerifyOne, O!VerifyFails, O!Verified,
                  O!RollbackDone, O!controller
    <3> QED
      BY <2>1, <2>2, <3>1
  <2>4. CASE \/ O!CreateOne \/ O!PutOne \/ O!DeleteOne
    <3>1. i2 \in DOMAIN plan2
      BY <2>4 DEF O!CreateOne, O!PutOne, O!DeleteOne, O!Applying, OtherInv
    <3>2. flying2' = flying2 \/ flying2' = flying2 \cup {i2}
      BY <2>4 DEF O!CreateOne, O!PutOne, O!DeleteOne, O!Send, O!Unanswered
    <3> QED
      BY <2>1, <2>2, <3>1, <3>2
  <2>5. CASE O!RollbackCreate \/ O!RollbackUpdate \/ O!RollbackDelete
    <3>1. pc2 = "rolling" /\ i2 > 0
      BY <2>5 DEF O!RollbackCreate, O!RollbackUpdate, O!RollbackDelete, O!RollbackAt
    <3>2. i2 \in DOMAIN plan2
      BY <1>1, <3>1 DEF OtherInv
    <3>3. flying2' = flying2 \/ flying2' = flying2 \cup {i2}
      BY <2>5 DEF O!RollbackCreate, O!RollbackUpdate, O!RollbackDelete, O!SendRollback,
                  O!RollbackFails
    <3> QED
      BY <2>1, <2>2, <3>2, <3>3
  <2>6. CASE O!Late
    <3>1. flying2' \subseteq flying2
      BY <2>6 DEF O!Late
    <3> QED
      BY <2>1, <2>2, <3>1
  <2> QED
    BY <2>1, <2>3, <2>4, <2>5, <2>6 DEF O!ApplyStep
<1>3. CASE O!Begin \/ O!CheckOne
  <2>1. i2' = 1 \/ (i2 \in 1 .. Len(plan2) /\ i2' = i2 + 1)
    BY <1>1, <1>3 DEF O!Begin, O!CheckOne
  <2>2. pc2' = "checking" /\ done2 = 0 /\ UNCHANGED <<done2, body2, created2>>
    BY <1>3 DEF O!Begin, O!CheckOne, OtherInv
  <2>3. i2' \in 0 .. Len(plan2) + 1
    BY <1>1, <2>1
  <2> QED
    BY <1>1, <1>2, <2>2, <2>3 DEF Moves2
<1>4. CASE O!CheckPasses
  <2>1. pc2' = "applying" /\ i2' = 1 /\ done2 = 0 /\ UNCHANGED <<done2, body2, created2>>
    BY <1>1, <1>4 DEF O!CheckPasses, OtherInv
  <2> QED
    BY <1>1, <1>2, <2>1 DEF Moves2
<1>5. CASE O!CheckRefuses \/ O!VerifyFails \/ O!Verified \/ O!RollbackDone
  <2>1. pc2' = "returned" /\ UNCHANGED <<i2, done2, body2, created2>>
    BY <1>5 DEF O!CheckRefuses, O!VerifyFails, O!Verified, O!RollbackDone
  <2> QED
    BY <1>1, <1>2, <2>1 DEF Moves2
<1>6. CASE O!AllApplied \/ O!VerifyOne
  <2>1. /\ pc2' = "verifying" /\ i2' \in 0 .. Len(plan2) + 1
        /\ UNCHANGED <<done2, body2, created2>>
    BY <1>1, <1>6 DEF O!AllApplied, O!VerifyOne
  <2> QED
    BY <1>1, <1>2, <2>1 DEF Moves2
<1>7. ASSUME O!Fails, body2' \in Resource \cup {Absent}, created2' = created2
      PROVE  Moves2
  <2>1. pc2' = "rolling" /\ i2' = done2 /\ done2' = done2
    BY <1>7 DEF O!Fails
  <2> QED
    BY <1>1, <1>2, <1>7, <2>1 DEF Moves2
<1>8. ASSUME O!Advances, i2 = done2 + 1, i2 \in DOMAIN plan2, plan2[i2].op # "create",
             body2' \in Resource \cup {Absent}, created2' = created2
      PROVE  Moves2
  <2>1. pc2' = "applying" /\ i2' = i2 + 1 /\ done2' = i2
    BY <1>8 DEF O!Advances
  <2> QED
    BY <1>1, <1>2, <1>8, <2>1 DEF Moves2
<1>9. CASE O!CreateOne
  <2>1. PICK f \in NextId :
          /\ O!Send([live EXCEPT ![f] = plan2[i2].body]) /\ O!Assigns(f)
          /\ created2' = IF done2' = i2 THEN [created2 EXCEPT ![i2] = f] ELSE created2
    BY <1>9, NextIdSame DEF O!CreateOne
  <2>2. /\ i2 = done2 + 1 /\ i2 \in DOMAIN plan2 /\ body2' = body2
        /\ plan2[i2].body \in Resource
    BY <1>9, OtherShape DEF O!CreateOne, O!Applying, OtherInv
  <2>3. CASE O!Unanswered
    <3>1. created2' = created2
      BY <1>1, <2>1, <2>2, <2>3 DEF O!Unanswered, O!Fails
    <3> QED
      BY <1>1, <1>7, <2>2, <2>3, <3>1 DEF O!Unanswered
  <2>4. CASE O!Lands([live EXCEPT ![f] = plan2[i2].body]) /\ O!Advances
    <3>1. /\ pc2' = "applying" /\ i2' = i2 + 1 /\ done2' = i2
          /\ live' = [live EXCEPT ![f] = plan2[i2].body]
          /\ created2' = [created2 EXCEPT ![i2] = f]
      BY <2>1, <2>4 DEF O!Lands, O!Advances
    <3>2. f \in Fresh /\ f \in Rids /\ live[f] = Absent
      BY DEF NextId, Unused, Rids, PlaceInv
    <3>3. f \in mine2'
      BY <2>1, <2>2, <3>1, <3>2, Assigns2Effect
    <3>4. \E g \in mine2' : created2' = [created2 EXCEPT ![i2] = g]
      BY <3>1, <3>3
    <3>5. i2' \in 0 .. Len(plan2) + 1 /\ done2' \in 0 .. Len(plan2) /\ i2' = done2' + 1
      BY <1>1, <2>2, <3>1
    <3>6. body2' \in Resource \cup {Absent}
      BY <1>1, <2>2
    <3> QED
      BY <1>2, <2>2, <3>1, <3>4, <3>5, <3>6 DEF Moves2
  <2> QED
    BY <2>1, <2>3, <2>4 DEF O!Send
<1>10. CASE O!PrepareUpdate
  <2>1. i2 = done2 + 1 /\ i2 \in DOMAIN plan2 /\ plan2[i2].op = "update" /\ created2' = created2
    BY <1>10 DEF O!PrepareUpdate, O!Applying, OtherInv
  <2>2. CASE O!Fails /\ UNCHANGED body2
    BY <1>1, <1>7, <2>1, <2>2
  <2>3. CASE pc2' = "putting" /\ UNCHANGED <<i2, done2>> /\ body2' \in Resource
    BY <1>1, <1>2, <2>1, <2>3 DEF Moves2
  <2>4. ASSUME plan2[i2].partial, live[plan2[i2].id] # Absent
        PROVE  O!Overlay(live[plan2[i2].id], plan2[i2].body) \in Resource
    <3>1. plan2[i2].id \in Existing /\ plan2[i2].body \in Body
      BY <2>1, <2>4, OtherShape
    <3>2. live[plan2[i2].id] \in Resource
      BY <2>4, <3>1 DEF TypeOK, Rids
    <3> QED
      BY <3>1, <3>2 DEF O!Overlay, Resource, Body
  <2>5. ~plan2[i2].partial => plan2[i2].body \in Resource
    BY <2>1, OtherShape
  <2> QED
    BY <1>10, <2>2, <2>3, <2>4, <2>5 DEF O!PrepareUpdate
<1>11. CASE O!PutOne \/ O!DeleteOne
  <2>1. /\ i2 = done2 + 1 /\ i2 \in DOMAIN plan2 /\ plan2[i2].op # "create"
        /\ created2' = created2 /\ body2' \in Resource \cup {Absent}
    BY <1>1, <1>11 DEF O!PutOne, O!DeleteOne, O!Applying, OtherInv
  <2>2. O!Fails \/ O!Advances
    BY <1>11 DEF O!PutOne, O!DeleteOne, O!Send, O!Unanswered
  <2> QED
    BY <1>7, <1>8, <2>1, <2>2
<1>12. CASE O!RestoreOne
  BY <1>1, <1>7, <1>12 DEF O!RestoreOne
<1>13. CASE O!RollbackCreate \/ O!RollbackUpdate \/ O!RollbackDelete
  <2>1. /\ pc2 = "rolling" /\ pc2' = pc2 /\ i2 > 0 /\ i2' = i2 - 1
        /\ UNCHANGED <<done2, body2, created2>>
    BY <1>13 DEF O!RollbackCreate, O!RollbackUpdate, O!RollbackDelete, O!RollbackAt
  <2>2. i2 <= done2
    BY <2>1 DEF OtherInv
  <2> QED
    BY <1>1, <1>2, <2>1, <2>2 DEF Moves2
<1>14. CASE O!Late
  <2>1. UNCHANGED <<pc2, i2, done2, body2, created2>>
    BY <1>14 DEF O!Late, O!progress
  <2> QED
    BY <1>1, <1>2, <2>1 DEF Moves2, OtherInv
<1> QED
  BY <1>3, <1>4, <1>5, <1>6, <1>9, <1>10, <1>11, <1>12, <1>13, <1>14 DEF O!ApplyStep

\* Every step of the two implements a step of the first alone among others, and
\* keeps what is known of the second.
LEMMA BothStep ==
    TypeOK /\ PlaceInv /\ KnownInv /\ OtherInv /\ [NextBoth]_both => [Next]_vars /\ OtherInv'
<1> SUFFICES ASSUME TypeOK, PlaceInv, KnownInv, OtherInv, [NextBoth]_both
             PROVE  [Next]_vars /\ OtherInv'
  OBVIOUS
<1>1. \A f \in NextId : f \notin assigned
  BY DEF NextId, Unused
<1>2. mine \subseteq assigned /\ mine2 \subseteq assigned /\ mine \cap mine2 = {}
  BY DEF OtherInv, TypeOK
<1>3. CASE ThisApply \/ ThisLate
  <2>1. (ApplyStep \/ Late) /\ Writes /\ O!Bystands
    BY <1>3, WriteShape DEF ThisApply, ThisLate
  <2>2. assigned \subseteq assigned' /\ mine' \cap mine2 = {}
    BY <1>1, <1>2, <2>1 DEF Writes
  <2>3. /\ UNCHANGED <<plan2, pre2, flying2, pc2, i2, done2, body2, created2, mine2>>
        /\ meddled2' \in BOOLEAN
    BY <2>1 DEF O!Bystands, O!progress, O!fixed, OtherInv
  <2> QED
    BY <2>1, <2>2, <2>3, OtherStands DEF Next
<1>4. CASE OtherApply \/ OtherLate
  <2>1. Writes2 /\ Bystands /\ Moves2
    BY <1>4, Write2Shape, Move2Shape DEF OtherApply, OtherLate
  <2>2. mine' = mine
    BY <2>1 DEF Bystands
  <2> QED
    BY <2>1, <2>2, OtherIsForeign, Moves2Keep
<1>5. CASE Drift
  <2>1. Foreign /\ assigned \subseteq assigned' /\ mine' = mine
    BY <1>5, ForeignEffect DEF Drift, Foreign
  <2>2. /\ UNCHANGED <<plan2, pre2, flying2, pc2, i2, done2, body2, created2, mine2>>
        /\ meddled2' \in BOOLEAN
    BY <1>5 DEF Drift, O!Bystands, O!progress, O!fixed, OtherInv
  <2> QED
    BY <1>2, <2>1, <2>2, OtherStands DEF Next
<1>6. CASE UNCHANGED both
  <2>1. /\ UNCHANGED vars /\ UNCHANGED <<assigned, mine, meddled2>>
        /\ UNCHANGED <<plan2, pre2, flying2, pc2, i2, done2, body2, created2, mine2>>
    BY <1>6 DEF both, vars, O!vars
  <2> QED
    BY <1>2, <2>1, OtherStands DEF OtherInv
<1> QED
  BY <1>3, <1>4, <1>5, <1>6 DEF NextBoth, Applies

LEMMA InitOther == InitBoth => OtherInv
<1> SUFFICES ASSUME InitBoth PROVE OtherInv
  OBVIOUS
<1>1. /\ plan2 \in Plans /\ pre2 \in [Existing -> Resource] /\ pc2 = "staged" /\ i2 = 0
      /\ done2 = 0 /\ body2 = Absent /\ mine2 = {} /\ mine = {} /\ meddled2 = FALSE
      /\ flying2 = {}
      /\ created2 = [n \in DOMAIN plan2 |-> Absent]
  BY DEF InitBoth, Init, O!Init
<1>2. Len(plan2) \in Nat
  BY <1>1, PlansAssumption
<1>3. i2 \in 0 .. Len(plan2) + 1 /\ done2 \in 0 .. Len(plan2) /\ 1 .. done2 = {}
  BY <1>1, <1>2
<1>4. created2 \in [DOMAIN plan2 -> mine2 \cup {Absent}]
  BY <1>1
<1> QED
  BY <1>1, <1>3, <1>4 DEF OtherInv

\* The one among two is the one among others: what the theorems above say of an
\* apply next to whatever others write, they say of one next to a second apply.
THEOREM BothImplement == SpecBoth => Init /\ [][Next]_vars
<1>1. InitBoth => Init
  BY DEF InitBoth
<1> QED
  BY <1>1, InitTyped, InitKnown, InitOther, TypeStep, KnownStep, BothStep, PTL DEF SpecBoth

\* In particular, next to a second apply of whatever plan, which may stop anywhere.
THEOREM BothHold ==
    SpecBoth => /\ [](StalePlanWritesNothing /\ RollbackRestores /\ AppliedMeansAll)
                /\ Footprint /\ ApplyAdvances
<1>1. StaleInv => StalePlanWritesNothing
  BY DEF StaleInv, StalePlanWritesNothing
<1>2. Init /\ [][Next]_vars => [](TypeOK /\ PlaceInv /\ StaleInv)
  BY InitTyped, InitUndo, TypeStep, StaleStep, PTL
<1>3. Init /\ [][Next]_vars => []RollbackRestores
  BY InitTyped, InitPlaced, InitUndo, InitCarried, UndoRestores, TypeStep, StaleStep,
     EarlyStep, ForwardStep, OutcomeStep, CarriedStep, SentStep, UndoStep, PTL
<1>4. Init /\ [][Next]_vars => []AppliedMeansAll
  BY InitTyped, InitPlaced, InitCarried, CarriedApplies, TypeStep, EarlyStep, ForwardStep,
     OutcomeStep, CarriedStep, PTL
<1>5. Init /\ [][Next]_vars => Footprint
  BY FootprintKept, InitTyped, InitKnown, TypeStep, KnownStep, PTL DEF Footprint
<1>6. Init /\ [][Next]_vars => ApplyAdvances
  BY <1>2, Advancing, PTL DEF ApplyAdvances
<1> QED
  BY <1>1, <1>2, <1>3, <1>4, <1>5, <1>6, BothImplement, PTL

\* Neither of two applies over different resources touches what is the other's.
LEMMA IsolationStep ==
    ASSUME TypeOK, PlaceInv, KnownInv, OtherInv, Touched \cap O!Touched = {},
           Applies
    PROVE  UNCHANGED <<meddled, meddled2>>
<1>1. /\ Touched \subseteq Existing /\ O!Touched \subseteq Existing
      /\ mine \subseteq Fresh /\ mine2 \subseteq Fresh /\ mine \cap mine2 = {}
      /\ mine \subseteq assigned /\ mine2 \subseteq assigned
      /\ Existing \cap Fresh = {} /\ live \in [Rids -> Resource \cup {Absent}]
  BY TouchedOwn, OtherOwn, PlansAssumption DEF OtherInv, TypeOK
<1>2. Own \cap O!Own = {} /\ Own \subseteq Rids /\ O!Own \subseteq Rids
  BY <1>1 DEF Own, O!Own, Rids
<1>3. \A f \in NextId : f \notin Own /\ f \notin O!Own
  BY <1>1 DEF Own, O!Own, NextId, Unused
<1>4. meddled \in BOOLEAN /\ meddled2 \in BOOLEAN
  BY DEF OtherInv, TypeOK
<1>5. CASE ThisApply \/ ThisLate
  <2>1. (ApplyStep \/ Late) /\ Writes /\ O!Bystands
    BY <1>5, WriteShape DEF ThisApply, ThisLate
  <2>2. meddled' = meddled
    BY <2>1 DEF Late, ApplyStep, Begin, CheckOne, CheckRefuses, CheckPasses, CreateOne,
           PrepareUpdate, PutOne, DeleteOne, RestoreOne, AllApplied, VerifyOne, VerifyFails,
           Verified, RollbackCreate, RollbackUpdate, RollbackDelete, RollbackDone, history
  <2>3. \A id \in O!Own : live'[id] = live[id]
    BY <1>1, <1>2, <1>3, <2>1 DEF Writes
  <2> QED
    BY <1>4, <2>1, <2>2, <2>3 DEF O!Bystands
<1>6. CASE OtherApply \/ OtherLate
  <2>1. Writes2 /\ Moves2 /\ Bystands
    BY <1>6, Write2Shape, Move2Shape DEF OtherApply, OtherLate
  <2>2. \A id \in Own : live'[id] = live[id]
    BY <1>1, <1>2, <1>3, <2>1 DEF Writes2
  <2> QED
    BY <1>4, <2>1, <2>2 DEF Bystands, Moves2
<1> QED
  BY <1>5, <1>6 DEF Applies

\* Two change sets over different resources do not get into each other's way,
\* however many resources either creates or re-creates, and whenever a call of either
\* that had failed is carried out.
THEOREM IsolationHolds == SpecBoth => Isolation
<1>1. TypeOK /\ PlaceInv /\ KnownInv /\ OtherInv /\ [NextBoth]_both
        => [Touched \cap O!Touched = {} /\ Applies
              => UNCHANGED <<meddled, meddled2>>]_both
  BY IsolationStep
<1>2. InitBoth => Init
  BY DEF InitBoth
<1> QED
  BY <1>1, <1>2, InitTyped, InitKnown, InitOther, TypeStep, KnownStep, BothStep, PTL
     DEF SpecBoth, Isolation

=============================================================================
