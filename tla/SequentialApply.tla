--------------------------- MODULE SequentialApply ---------------------------
(***************************************************************************)
(* apply_sequentially and rollback_to_preimage (changeset/apply.rs,        *)
(* changeset/rollback.rs) driving a live controller through UnifiClient's  *)
(* ControllerOps (client.rs).                                              *)
(*                                                                         *)
(* UniFi has no atomic commit: every mutation is a REST call of its own,   *)
(* other administrators (and other change sets) write between the calls,   *)
(* and a call that returns an error may be carried out all the same -- a   *)
(* timeout, a dropped connection, a body that does not parse -- at once,   *)
(* or while the rollback runs, or after it.                                *)
(***************************************************************************)
EXTENDS Naturals, Sequences, FiniteSets

CONSTANTS
    Existing,   \* resources on the controller when the plan is staged
    Fresh,      \* ids the controller can assign, disjoint from Existing
    Names,      \* values of the "name" field
    Rests,      \* values of all other fields together
    Unset,      \* a field a partial body leaves out
    Absent,     \* no resource under an id
    Plans       \* the plans that may be staged

Resource == [name: Names, rest: Rests]
Body == [name: Names \cup {Unset}, rest: Rests \cup {Unset}]
Rids == Existing \cup Fresh

\* partial marks a Private v2 update, which the client merges over the live
\* object; any other update sends its whole body.
StagedMutation ==
    [op: {"create"}, body: Resource]
    \cup [op: {"update"}, id: Existing, body: Resource, partial: {FALSE}]
    \cup [op: {"update"}, id: Existing, body: Body, partial: {TRUE}]
    \cup [op: {"delete"}, id: Existing]
    \cup [op: {"restore"}]

ASSUME PlansAssumption ==
    /\ \A p \in Plans : p \in Seq(StagedMutation) /\ p # <<>>
    /\ Existing \cap Fresh = {}

ASSUME ValuesAssumption == Absent \notin Resource /\ Unset \notin Names \cup Rests

VARIABLES
    plan,       \* the mutations of the claimed change set
    pre,        \* its pre-image: the resources as read at staging
    live,       \* the controller
    assigned,   \* the ids it has ever handed out; it reuses none
    pc,         \* where apply_sequentially is
    i,          \* the mutation it is at
    done,       \* succeeded: the first done mutations of the plan
    flying,     \* mutations of which a call failed that may still be carried out
    body,       \* the body about to be PUT, or that of the PUT that failed
    created,    \* created_ids
    rollbackFailures,   \* mutations whose rollback failed
    mismatch,   \* verify_applied found a resource that does not look as staged
    state,      \* Outcome.state, or "running"
    origin,     \* history: the controller when the apply began
    home,       \* history: where each resource lives after a re-creation
    mine,       \* history: the ids assigned to this apply
    stale,      \* history: a resource of the plan had moved when it began
    meddled,    \* history: others have written to what is its own since then
    lost,       \* history: the mutation whose call failed landed after all
    wrote       \* history: the apply changed the controller

vars == <<plan, pre, live, assigned, flying, pc, i, done, body, created, rollbackFailures,
          mismatch, state, origin, home, mine, stale, meddled, lost, wrote>>

progress == <<i, done, body, created, rollbackFailures, mismatch, state>>
history == <<origin, home, mine, stale, meddled, lost, wrote>>
controller == <<live, assigned, flying>>
fixed == <<plan, pre>>

Touched == {plan[n].id : n \in {n \in DOMAIN plan : plan[n].op \in {"update", "delete"}}}

\* What the apply may write to: the rest of the controller is none of its business.
Own == Touched \cup mine

\* The id the controller assigns next.
Unused == Fresh \ assigned
NextId == {f \in Unused : \A g \in Unused : f <= g}

\* The client's merge of a partial body over the current object.
Overlay(r, b) ==
    [name |-> IF b.name = Unset THEN r.name ELSE b.name,
     rest |-> IF b.rest = Unset THEN r.rest ELSE b.rest]

TypeOK ==
    /\ plan \in Plans
    /\ pre \in [Existing -> Resource]
    /\ live \in [Rids -> Resource \cup {Absent}]
    /\ mine \subseteq assigned /\ assigned \subseteq Fresh
    /\ flying \subseteq DOMAIN plan
    /\ pc \in {"staged", "checking", "applying", "putting", "rolling",
               "verifying", "returned"}
    /\ i \in 0 .. Len(plan) + 1 /\ done \in 0 .. Len(plan)
    /\ body \in Resource \cup {Absent}
    /\ created \in [DOMAIN plan -> mine \cup {Absent}]
    /\ rollbackFailures \subseteq DOMAIN plan
    /\ state \in {"running", "Applied", "AppliedUnverified", "Partial",
                  "PartialRollbackFailed", "RefusedStale"}
    /\ origin \in [Rids -> Resource \cup {Absent}] /\ home \in [Existing -> Rids]
    /\ {mismatch, stale, meddled, lost, wrote} \subseteq BOOLEAN

Init ==
    /\ plan \in Plans
    /\ pre \in [Existing -> Resource]
    /\ live = [r \in Rids |-> IF r \in Existing THEN pre[r] ELSE Absent]
    /\ assigned = {} /\ flying = {}
    /\ pc = "staged" /\ i = 0 /\ done = 0 /\ body = Absent
    /\ created = [n \in DOMAIN plan |-> Absent]
    /\ rollbackFailures = {} /\ mismatch = FALSE /\ state = "running"
    /\ origin = live /\ home = [r \in Existing |-> r]
    /\ mine = {} /\ stale = FALSE /\ meddled = FALSE /\ lost = FALSE
    /\ wrote = FALSE

-----------------------------------------------------------------------------
\* What anybody else may do: edit or delete a resource, put one back, create one.
OthersWrite ==
    \/ /\ \E r \in Existing \cup assigned, v \in Resource \cup {Absent} :
            v # live[r] /\ live' = [live EXCEPT ![r] = v]
       /\ UNCHANGED assigned
    \/ \E f \in NextId, v \in Resource :
            live' = [live EXCEPT ![f] = v] /\ assigned' = assigned \cup {f}

\* What a step of others is to this apply.
Bystands ==
    /\ meddled' = (meddled \/ (pc # "staged" /\ \E id \in Own : live'[id] # live[id]))
    /\ UNCHANGED <<fixed, flying, pc, progress, origin, home, mine, stale, lost, wrote>>

Foreign == OthersWrite /\ Bystands

-----------------------------------------------------------------------------
(* The pre-image check, before anything is written                          *)

Begin ==
    /\ pc = "staged"
    /\ pc' = "checking" /\ i' = 1
    /\ origin' = live
    /\ stale' = (\E r \in Touched : live[r] # pre[r])
    /\ UNCHANGED <<fixed, controller, done, body, created, rollbackFailures, mismatch,
                   state, home, mine, meddled, lost, wrote>>

\* Mutant: a delete is not compared with its pre-image.
UnmovedUpdates(m) == m.op = "update" => live[m.id] = pre[m.id]

\* preimage_matches on one mutation: creates and restores have nothing to
\* compare.
Unmoved(m) == m.op \in {"update", "delete"} => live[m.id] = pre[m.id]

CheckOne ==
    /\ pc = "checking" /\ i \in DOMAIN plan
    /\ Unmoved(plan[i])
    /\ i' = i + 1
    /\ UNCHANGED <<fixed, controller, pc, done, body, created, rollbackFailures,
                   mismatch, state, history>>

\* The resource moved, or the check itself could not be completed.
CheckRefuses ==
    /\ pc = "checking" /\ i \in DOMAIN plan
    /\ plan[i].op \in {"update", "delete"}
    /\ pc' = "returned" /\ state' = "RefusedStale"
    /\ UNCHANGED <<fixed, controller, i, done, body, created, rollbackFailures,
                   mismatch, history>>

CheckPasses ==
    /\ pc = "checking" /\ i \notin DOMAIN plan
    /\ pc' = "applying" /\ i' = 1
    /\ UNCHANGED <<fixed, controller, done, body, created, rollbackFailures, mismatch,
                   state, history>>

-----------------------------------------------------------------------------
(* apply_mutation, one mutation after another                               *)

Lands(new) == live' = new /\ wrote' = TRUE

\* The new id, if any, under which a POST was carried out.
Assigns(id) ==
    LET new == {f \in Fresh \cap {id} : live'[f] # live[f]}
    IN assigned' = assigned \cup new /\ mine' = mine \cup new

\* The mutation is pushed on succeeded and the loop goes on.
Advances == pc' = "applying" /\ i' = i + 1 /\ done' = i

\* Mutant: the last success is left out of the rollback.
FailsShort ==
    pc' = "rolling" /\ i' = (IF done = 0 THEN 0 ELSE done - 1) /\ UNCHANGED done

\* Mutant: a failed call is tried again.
FailsRetries ==
    \/ pc' = "rolling" /\ i' = done /\ UNCHANGED done
    \/ pc' = "applying" /\ UNCHANGED <<i, done>>

\* The loop breaks at the first error; what succeeded is to be rolled back.
Fails == pc' = "rolling" /\ i' = done /\ UNCHANGED done

\* The call fails.  What it asked for is done later or never.
Unanswered == Fails /\ flying' = flying \cup {i} /\ UNCHANGED <<live, wrote>>

\* Mutant: an error of the call is swallowed.
SendSwallows(new) ==
    \/ Lands(new) /\ Advances /\ UNCHANGED flying
    \/ Advances /\ flying' = flying \cup {i} /\ UNCHANGED <<live, wrote>>

\* A write is carried out and acknowledged, or its call fails.
Send(new) ==
    \/ Lands(new) /\ Advances /\ UNCHANGED flying
    \/ Unanswered

Applying(op) == pc = "applying" /\ i \in DOMAIN plan /\ plan[i].op = op

\* POST; an answer without an _id is an error too, though the resource exists.
CreateOne ==
    /\ Applying("create")
    /\ \E f \in NextId :
         /\ Send([live EXCEPT ![f] = plan[i].body])
         /\ Assigns(f)
         /\ created' = IF done' = i THEN [created EXCEPT ![i] = f] ELSE created
    /\ UNCHANGED <<fixed, body, rollbackFailures, mismatch, state, origin, home,
                   stale, meddled, lost>>

\* What an update will PUT: its body, or for Private v2 its body merged over
\* the object as it is fetched now.
PrepareUpdate ==
    /\ Applying("update")
    /\ LET m == plan[i]
       IN \/ /\ ~m.partial
             /\ body' = m.body /\ pc' = "putting" /\ UNCHANGED <<i, done>>
          \/ /\ m.partial /\ live[m.id] # Absent
             /\ body' = Overlay(live[m.id], m.body)
             /\ pc' = "putting" /\ UNCHANGED <<i, done>>
          \/ /\ m.partial     \* the fetch fails, or finds nothing
             /\ Fails /\ UNCHANGED body
    /\ UNCHANGED <<fixed, controller, created, rollbackFailures, mismatch, state,
                   history>>

\* PUT, which is not acknowledged for a resource that is gone.
PutOne ==
    /\ pc = "putting"
    /\ LET r == plan[i].id
       IN \/ live[r] # Absent /\ Send([live EXCEPT ![r] = body])
          \/ live[r] = Absent /\ Unanswered
    /\ body' = IF done' = i THEN Absent ELSE body
    /\ UNCHANGED <<fixed, assigned, created, rollbackFailures, mismatch, state, origin,
                   home, mine, stale, meddled, lost>>

DeleteOne ==
    /\ Applying("delete")
    /\ LET r == plan[i].id
       IN \/ live[r] # Absent /\ Send([live EXCEPT ![r] = Absent])
          \/ live[r] = Absent /\ Unanswered
    /\ UNCHANGED <<fixed, assigned, body, created, rollbackFailures, mismatch, state,
                   origin, home, mine, stale, meddled, lost>>

\* "backup restore not implemented"
RestoreOne ==
    /\ Applying("restore")
    /\ Fails
    /\ UNCHANGED <<fixed, controller, body, created, rollbackFailures, mismatch, state,
                   history>>

AllApplied ==
    /\ pc = "applying" /\ i \notin DOMAIN plan
    /\ pc' = "verifying" /\ i' = 1
    /\ UNCHANGED <<fixed, controller, done, body, created, rollbackFailures, mismatch,
                   state, history>>

-----------------------------------------------------------------------------
(* verify_applied                                                           *)

LooksApplied(n) ==
    LET m == plan[n]
    IN CASE m.op = "create" -> live[created[n]] # Absent
         [] m.op = "update" -> /\ live[m.id] # Absent
                               /\ m.body.name = Unset \/ live[m.id].name = m.body.name
         [] m.op = "delete" -> live[m.id] = Absent
         [] OTHER -> TRUE

\* One resource is read back; a mismatch is noted and the rest still read.
VerifyOne ==
    /\ pc = "verifying" /\ i \in DOMAIN plan
    /\ mismatch' = (mismatch \/ ~LooksApplied(i))
    /\ i' = i + 1
    /\ UNCHANGED <<fixed, controller, pc, done, body, created, rollbackFailures, state,
                   history>>

\* A read fails: nothing more is verified.
VerifyFails ==
    /\ pc = "verifying" /\ i \in DOMAIN plan
    /\ pc' = "returned" /\ state' = "AppliedUnverified"
    /\ UNCHANGED <<fixed, controller, i, done, body, created, rollbackFailures,
                   mismatch, history>>

Verified ==
    /\ pc = "verifying" /\ i \notin DOMAIN plan
    /\ pc' = "returned"
    /\ state' = IF mismatch THEN "AppliedUnverified" ELSE "Applied"
    /\ UNCHANGED <<fixed, controller, i, done, body, created, rollbackFailures,
                   mismatch, history>>

-----------------------------------------------------------------------------
(* rollback_to_preimage: the succeeded mutations, last one first            *)

RollbackAt(op) == pc = "rolling" /\ i > 0 /\ plan[i].op = op

RollbackFails ==
    /\ rollbackFailures' = rollbackFailures \cup {i}
    /\ flying' = flying \cup {i}
    /\ UNCHANGED <<live, wrote>>

\* Best effort: the loop goes on whatever the call returns.
SendRollback(new) ==
    \/ Lands(new) /\ UNCHANGED <<rollbackFailures, flying>>
    \/ RollbackFails

\* Mutant: deletes whatever was created last.
RollbackCreateLast ==
    /\ RollbackAt("create")
    /\ \E f \in {f \in assigned : \A g \in assigned : g <= f} :
         IF live[f] = Absent THEN RollbackFails
         ELSE SendRollback([live EXCEPT ![f] = Absent])
    /\ i' = i - 1
    /\ UNCHANGED <<fixed, assigned, pc, done, body, created, mismatch, state, origin,
                   home, mine, stale, meddled, lost>>

\* Deletes the id the create returned.
RollbackCreate ==
    /\ RollbackAt("create")
    /\ IF live[created[i]] = Absent THEN RollbackFails
       ELSE SendRollback([live EXCEPT ![created[i]] = Absent])
    /\ i' = i - 1
    /\ UNCHANGED <<fixed, assigned, pc, done, body, created, mismatch, state, origin,
                   home, mine, stale, meddled, lost>>

\* Mutant: puts the whole pre-image back.
RollbackUpdateAll ==
    /\ RollbackAt("update")
    /\ IF live[plan[i].id] = Absent THEN RollbackFails
       ELSE SendRollback([r \in Rids |-> IF r \in Existing THEN pre[r] ELSE live[r]])
    /\ i' = i - 1
    /\ UNCHANGED <<fixed, assigned, pc, done, body, created, mismatch, state, origin,
                   home, mine, stale, meddled, lost>>

\* PUTs the pre-image back, over whatever is there by now.
RollbackUpdate ==
    /\ RollbackAt("update")
    /\ IF live[plan[i].id] = Absent THEN RollbackFails
       ELSE SendRollback([live EXCEPT ![plan[i].id] = pre[plan[i].id]])
    /\ i' = i - 1
    /\ UNCHANGED <<fixed, assigned, pc, done, body, created, mismatch, state, origin,
                   home, mine, stale, meddled, lost>>

\* POSTs the pre-image as a new resource.  Whether the controller keeps the old
\* id or assigns another is up to it.
RollbackDelete ==
    /\ RollbackAt("delete")
    /\ LET r == plan[i].id
       IN \E id \in NextId \cup (IF live[r] = Absent THEN {r} ELSE {}) :
            /\ SendRollback([live EXCEPT ![id] = pre[r]])
            /\ home' = IF live'[id] = pre[r] THEN [home EXCEPT ![r] = id] ELSE home
            /\ Assigns(id)
    /\ i' = i - 1
    /\ UNCHANGED <<fixed, pc, done, body, created, mismatch, state, origin,
                   stale, meddled, lost>>

\* Mutant: no outcome when a rollback failed.
RollbackDoneClean ==
    /\ pc = "rolling" /\ i = 0 /\ rollbackFailures = {}
    /\ pc' = "returned" /\ state' = "Partial"
    /\ UNCHANGED <<fixed, controller, i, done, body, created, rollbackFailures,
                   mismatch, history>>

RollbackDone ==
    /\ pc = "rolling" /\ i = 0
    /\ pc' = "returned"
    /\ state' = IF rollbackFailures = {} THEN "Partial" ELSE "PartialRollbackFailed"
    /\ UNCHANGED <<fixed, controller, i, done, body, created, rollbackFailures,
                   mismatch, history>>

-----------------------------------------------------------------------------
(* Calls that failed                                                        *)

\* The request of mutation n, or that of its undo if the mutation succeeded: where
\* it can be carried out, and what it leaves there.
Reach(n) ==
    LET m == plan[n]
        There(r) == {id \in Rids : id = r /\ live[id] # Absent}
        Room(r) == {id \in Rids : id = r /\ live[id] = Absent}
    IN CASE m.op = "create" -> IF n > done THEN NextId ELSE There(created[n])
         [] m.op = "update" -> There(m.id)
         [] m.op = "delete" -> IF n > done THEN There(m.id) ELSE NextId \cup Room(m.id)
         [] OTHER -> {}
Value(n) ==
    LET m == plan[n]
    IN CASE m.op = "create" -> IF n > done THEN m.body ELSE Absent
         [] m.op = "update" -> IF n > done THEN body ELSE pre[m.id]
         [] OTHER -> IF n > done THEN Absent ELSE pre[m.id]

\* The controller carries it out after all, whatever the apply has done since.
Late ==
    \E n \in flying : \E id \in Reach(n) :
      /\ Lands([live EXCEPT ![id] = Value(n)]) /\ Assigns(id)
      /\ lost' = (lost \/ n > done)
      /\ flying' = flying \ {n}
      /\ UNCHANGED <<fixed, pc, progress, origin, home, stale, meddled>>

-----------------------------------------------------------------------------
ApplyStep ==
    \/ Begin \/ CheckOne \/ CheckRefuses \/ CheckPasses
    \/ CreateOne \/ PrepareUpdate \/ PutOne \/ DeleteOne \/ RestoreOne
    \/ AllApplied \/ VerifyOne \/ VerifyFails \/ Verified
    \/ RollbackCreate \/ RollbackUpdate \/ RollbackDelete \/ RollbackDone

Next == ApplyStep \/ Late \/ Foreign

\* Every request ends within the client's timeout, so the loop goes on.
Spec == Init /\ [][Next]_vars /\ WF_vars(ApplyStep)

-----------------------------------------------------------------------------
(* Properties                                                               *)

Extras == {id \in Own \ {home[r] : r \in Touched} : live[id] # Absent}

Holds(contents) == \A r \in Touched : live[home[r]] = contents[r]

\* A mutation done to the resources, and the resources after each mutation of p.
Changed(m, contents) ==
    CASE m.op = "update" -> [contents EXCEPT ![m.id] = Overlay(@, m.body)]
      [] m.op = "delete" -> [contents EXCEPT ![m.id] = Absent]
      [] OTHER -> contents
Expected(p, contents) ==
    LET Result[n \in 0 .. Len(p)] ==
            IF n = 0 THEN contents ELSE Changed(p[n], Result[n - 1])
    IN Result

\* What the mutation whose call failed leaves if it lands after all: its request as
\* it was sent, which for a merged update brings the updates before it back.
Sent == Expected(plan, [r \in Touched |-> origin[r]])[done + 1]
Residue(m) ==
    CASE m.op = "create" -> /\ Holds(origin)
                            /\ \E id \in mine : Extras = {id} /\ live[id] = m.body
      [] m.op \in {"update", "delete"} ->
           Holds([origin EXCEPT ![m.id] = Sent[m.id]]) /\ Extras = {}
      [] OTHER -> FALSE

\* An apply reported as Partial, with no rollback failure, has undone every
\* mutation that succeeded, in spite of repeated edits of one resource, deletes
\* re-created under new ids and creates removed by the ids they returned, whatever
\* others write elsewhere meanwhile.  All that can disturb it, then or later, is the
\* one request whose call failed, and only if it is carried out after all: during
\* the rollback or at any time after it.
RollbackRestores ==
    state = "Partial" /\ ~meddled =>
      \/ Holds(origin) /\ Extras = {}
      \/ lost /\ Residue(plan[done + 1])

\* An apply reported as applied, verified or not, has carried out the whole
\* plan in order: every update on top of the one before it, every create once.
AppliedMeansAll ==
    state \in {"Applied", "AppliedUnverified"} /\ ~meddled =>
      /\ [r \in Touched |-> live[r]]
           = Expected(plan, [r \in Touched |-> origin[r]])[Len(plan)]
      /\ \A n \in DOMAIN plan :
           plan[n].op = "create" => live[created[n]] = plan[n].body
      /\ Cardinality({f \in mine : live[f] # Absent})
           = Cardinality({n \in DOMAIN plan : plan[n].op = "create"})

\* An approval given for one controller state is never applied to another: if a
\* resource of the plan had moved when the apply began, the apply leaves the
\* controller alone.
StalePlanWritesNothing == stale /\ ~meddled => ~wrote

\* An apply writes to the resources its plan names and to those the controller
\* created for it, and to nothing else: a rollback deletes by the ids its own
\* creates returned, however many resources others create in between.  Neither does
\* a request of it that is carried out late.
Footprint ==
    [][ApplyStep \/ Late => \A id \in Rids \ (Touched \cup mine') : live'[id] = live[id]]_vars

\* The steps an apply can still take at most: with n mutations, it is over after
\* 4n + 4.
StepsLeft ==
    LET n == Len(plan)
    IN CASE pc = "staged" -> 4 * n + 4
         [] pc = "checking" -> 4 * n + 4 - i
         [] pc = "applying" -> 3 * n + 4 - 2 * i
         [] pc = "putting" -> 3 * n + 3 - 2 * i
         [] pc = "verifying" -> n + 2 - i
         [] pc = "rolling" -> i + 1
         [] pc = "returned" -> 0

\* Every step brings the apply nearer to its outcome: nothing is checked, sent,
\* rolled back or verified again, whatever fails.
ApplyAdvances == [][ApplyStep => StepsLeft' \in Nat /\ StepsLeft' < StepsLeft]_vars

\* apply_sequentially always returns an outcome.
ApplyReturns == <>(pc = "returned")

\* The documentation of ControllerOps::verify_applied: "For updates, verifies
\* the resource matches the staged body" -- so what is reported as Applied
\* looked as staged when it was read back.  Another edit between the write and
\* the read is what verification is there to notice.
VerifiedMatchesBody ==
    [][VerifyOne /\ plan[i].op = "update" /\ ~mismatch'
         => live[plan[i].id] = Overlay(live[plan[i].id], plan[i].body)]_vars

=============================================================================
