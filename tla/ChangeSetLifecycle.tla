------------------------- MODULE ChangeSetLifecycle -------------------------
(***************************************************************************)
(* The change-set handlers of the UniFi MCP server (server/mod.rs):        *)
(* unifi_create_change_set, unifi_stage_change, unifi_approve_change_set,  *)
(* unifi_apply_change_set and unifi_get_change_set, with the state they    *)
(* share: the in-memory drafts, the coordinator's change-set records, the  *)
(* plan lock and the SSDF evidence recorder.                               *)
(*                                                                         *)
(* A handler is an async function on a multi-threaded runtime, so it is    *)
(* split where another handler can run: one action per stretch of code     *)
(* between two awaits.  What a call in flight remembers across an await is *)
(* the record call[k].  A refusal that changes nothing and happens before  *)
(* the first await is a disabled action.                                   *)
(*                                                                         *)
(* The coordinator (mecmcp-changeset) is a library outside the repository; *)
(* its operations are modelled from the calls, comments and tests of       *)
(* server/mod.rs, each one atomic because each runs under the library's    *)
(* own lock.                                                               *)
(***************************************************************************)
EXTENDS Naturals, FiniteSets

CONSTANTS
    Principals,     \* token names (or "unknown", the stdio caller)
    Controllers,    \* the controllers of the inventory
    Plans,          \* staged mutations together with their pre-image
    Calls,          \* slots for tool calls in flight at the same time
    Grants,         \* the token files loaded one after the other: what each
                    \* principal's token carries, see Grant
    LabMode,        \* --lab-mode
    StateFile,      \* whether --state-file is given: records survive a restart
    StoreMayFail,   \* whether a durable write (record store, evidence) can fail
    ApprovalTtl,    \* --approval-timeout-secs, in clock ticks
    MaxDrafts,      \* MAX_DRAFTS
    MaxMinted,      \* bound: change-set ids handed out
    MaxClock,       \* bound: the last instant of the clock
    MaxRestarts,    \* bound: process restarts
    MaxReloads,     \* bound: token files loaded after the first
    None,           \* "absent", for every Option in the code
    Forgotten       \* a proposal the recorder lost at a restart

-----------------------------------------------------------------------------
(* Types                                                                    *)

Ids == 1 .. MaxMinted
Instants == 0 .. MaxClock
Deadlines == 0 .. MaxClock + ApprovalTtl

Tools == {"create", "stage", "approve", "apply", "get"}
ActorTypes == {"Human", "Agent", "Unknown"}

\* A caller's token: its tool scope, its controllers, its verified actor type.
\* token = FALSE is the stdio caller, which carries no token at all.
Grant == [tools: SUBSET Tools, controllers: SUBSET Controllers,
          actor: ActorTypes, token: BOOLEAN]

\* CallerCtx: a principal with the grant its request was authenticated with,
\* which the call keeps while the token store moves on.
Caller == [name: Principals, grant: Grant]

\* The plan digest binds (owner, device, fingerprint, actions); a plan stands
\* for the last two.
Digest == [owner: Principals, device: Controllers, plan: Plans]

ChangeSetState == {"Planned", "Approved", "Applying", "Applied", "Failed", "Expired"}

\* stager is history: the caller that staged the plan, whom the code forgets.
\* The code keeps the name and the actor type of the approver, not the rest.
ChangeSetRecord ==
    [owner: Principals, device: Controllers, plan: Plans, state: ChangeSetState,
     approver: Caller \cup {None}, waived: BOOLEAN, expires: Deadlines,
     stager: Caller]

Draft == [owner: Principals, controller: Controllers, created: Instants]

CreatingCall   == [pc: {"creating"}, who: Principals, controller: Controllers,
                   created: Instants]
CapturingCall  == [pc: {"capturing"}, who: Caller, id: Ids,
                   owner: Principals, device: Controllers, plan: Plans]
StoringCall    == [pc: {"storing"}, id: Ids, rec: ChangeSetRecord]
PublishingCall == [pc: {"publishing"}, id: Ids, digest: Digest]
ApprovingCall  == [pc: {"approving"}, who: Caller, id: Ids, digest: Digest]
ClaimingCall   == [pc: {"claiming"}, id: Ids, device: Controllers]
ClaimedCall    == [pc: {"claimed"}, id: Ids, rec: ChangeSetRecord]
AdmittedCall   == [pc: {"checking", "writing"}, id: Ids, rec: ChangeSetRecord,
                   admitted: Instants]
SettlingCall   == [pc: {"settling"}, id: Ids, rec: ChangeSetRecord,
                   admitted: Instants, succeeded: BOOLEAN]

Call == CreatingCall \cup CapturingCall \cup StoringCall \cup PublishingCall
        \cup ApprovingCall \cup ClaimingCall \cup ClaimedCall \cup AdmittedCall
        \cup SettlingCall

\* What the recorder knows of a change set: no proposal yet, a proposal that a
\* restart made it forget, or the digest it published.
Proposal == Digest \cup {None, Forgotten}

ASSUME BoundsAssumption ==
    /\ ApprovalTtl \in Nat \ {0} /\ MaxDrafts \in Nat
    /\ MaxMinted \in Nat /\ MaxClock \in Nat /\ MaxRestarts \in Nat
    /\ MaxReloads \in Nat

ASSUME FlagsAssumption ==
    /\ LabMode \in BOOLEAN /\ StateFile \in BOOLEAN /\ StoreMayFail \in BOOLEAN

ASSUME GrantsAssumption == Grants \in [0 .. MaxReloads -> [Principals -> Grant]]

ASSUME NoneAssumption ==
    /\ None \notin Principals /\ None \notin Caller
    /\ None \notin ChangeSetRecord /\ None \notin Draft /\ None \notin Call /\ None \notin Calls
    /\ None \notin Digest /\ Forgotten \notin Digest /\ None # Forgotten

-----------------------------------------------------------------------------
VARIABLES
    now,        \* the wall clock, unix_seconds_now()
    minted,     \* ids handed out so far: id n is the n-th
    drafts,     \* UnifiServer.drafts
    sets,       \* the coordinator's records (memory and state file alike)
    planLock,   \* the call that holds UnifiServer.plan_lock, or None
    proposal,   \* the recorder's diff hash of each change set
    attested,   \* the diff hash copied into the approval record
    intents,    \* durable apply-intent records written per change set
    writable,   \* the plans check_writable_fields accepts in this build
    restarts,   \* restarts so far
    tokens,     \* which of the token files the token store holds
    call        \* the tool call in each slot, or None

vars == <<now, minted, drafts, sets, planLock, proposal, attested, intents,
          writable, restarts, tokens, call>>

TypeOK ==
    /\ now \in Instants
    /\ minted \in 0 .. MaxMinted
    /\ drafts \in [Ids -> Draft \cup {None}]
    /\ sets \in [Ids -> ChangeSetRecord \cup {None}]
    /\ planLock \in Calls \cup {None}
    /\ proposal \in [Ids -> Proposal]
    /\ attested \in [Ids -> Proposal]
    /\ intents \in [Ids -> Nat]
    /\ writable \in SUBSET Plans
    /\ restarts \in 0 .. MaxRestarts
    /\ tokens \in 0 .. MaxReloads
    /\ call \in [Calls -> Call \cup {None}]

Init ==
    /\ now = 0
    /\ minted = 0
    /\ drafts = [i \in Ids |-> None]
    /\ sets = [i \in Ids |-> None]
    /\ planLock = None
    /\ proposal = [i \in Ids |-> None]
    /\ attested = [i \in Ids |-> None]
    /\ intents = [i \in Ids |-> 0]
    /\ writable = Plans
    /\ restarts = 0
    /\ tokens = 0
    /\ call = [k \in Calls |-> None]

-----------------------------------------------------------------------------
(* Callers                                                                  *)

\* The bearer layer: principal p with what its token carries now.
CallerOf(p) == [name |-> p, grant |-> Grants[tokens][p]]

\* authorize_call: the tool and the controller are in the token's scope.
Authorized(q, tool, c) ==
    q.grant.token => tool \in q.grant.tools /\ c \in q.grant.controllers

\* holds_combined_two_person_control_scope
Combined(q) == q.grant.token /\ {"stage", "approve"} \subseteq q.grant.tools

\* Mutant: the combination is looked for in the first token file only.
TwoPersonScopeAtStart(q) ==
    LabMode \/ ~Combined([q EXCEPT !.grant = Grants[0][q.name]])

\* The refusal at the head of unifi_stage_change and unifi_approve_change_set.
TwoPersonScope(q) == LabMode \/ ~Combined(q)

\* approver_actor_type: a caller without a token is Unknown.
ActorType(q) == IF q.grant.token THEN q.grant.actor ELSE "Unknown"

-----------------------------------------------------------------------------
(* Drafts and records                                                       *)

DigestOf(r) == [owner |-> r.owner, device |-> r.device, plan |-> r.plan]

DraftLapsed(d) == now - d.created >= ApprovalTtl

SetLapsed(r) == now >= r.expires

\* The coordinator's retire_if_deadline_passed: a Planned record, or a
\* lab-mode waiver, whose window has closed.
Retire(r) ==
    IF r # None /\ SetLapsed(r)
         /\ (r.state = "Planned" \/ (r.state = "Approved" /\ r.waived))
    THEN [r EXCEPT !.state = "Expired"] ELSE r

\* The records insert_change_set may find after its sweep of lapsed records.
\* Whether the sweep also takes a lapsed two-person approval is not settled by
\* the repository, so both outcomes are allowed.
Sweeps ==
    {[i \in Ids |-> IF i \in taken THEN [sets[i] EXCEPT !.state = "Expired"]
                    ELSE Retire(sets[i])] :
       taken \in SUBSET {i \in Ids : sets[i] # None /\ SetLapsed(sets[i])
                                     /\ sets[i].state = "Approved"}}

\* The coordinator's guard: one pending set per principal per controller.
PendingIn(store, p, c) ==
    \E i \in Ids : /\ store[i] # None
                   /\ store[i].owner = p /\ store[i].device = c
                   /\ store[i].state \in {"Planned", "Approved", "Applying"}

\* hold_draft's own reading of that guard, taken from a snapshot.
Blocked(p, c) ==
    \E i \in Ids : /\ sets[i] # None
                   /\ sets[i].owner = p /\ sets[i].device = c
                   /\ \/ sets[i].state = "Applying"
                      \/ sets[i].state \in {"Planned", "Approved"} /\ ~SetLapsed(sets[i])

Begin(k, c) == call[k] = None /\ call' = [call EXCEPT ![k] = c]
Continue(k, c) == call' = [call EXCEPT ![k] = c]
Return(k) == call' = [call EXCEPT ![k] = None]

At(k, pc) == call[k] # None /\ call[k].pc = pc

\* Mutant: nobody waits for plan_lock.
PlanLockIgnored == TRUE

\* plan_lock.lock().await returns.
PlanLockFree == planLock = None

-----------------------------------------------------------------------------
(* unifi_create_change_set                                                  *)

\* Up to the snapshot of the records that hold_draft checks for a blocker.
\* The draft's creation time is stamped before the snapshot.
CreateBegin(k, p, c) ==
    /\ Authorized(CallerOf(p), "create", c)
    /\ ~Blocked(p, c)
    /\ Begin(k, [pc |-> "creating", who |-> p, controller |-> c, created |-> now])
    /\ UNCHANGED <<now, minted, drafts, sets, planLock, proposal, attested,
                   intents, writable, restarts, tokens>>

\* The drafts that survive hold_draft's sweep.
SweptDrafts ==
    [i \in Ids |-> IF drafts[i] # None /\ DraftLapsed(drafts[i]) THEN None
                   ELSE drafts[i]]

\* Mutant: the cap lets one draft too many in.
HoldRefusedLate(p, c) ==
    LET held == {i \in Ids : SweptDrafts[i] # None}
    IN \/ \E i \in held : drafts[i].owner = p /\ drafts[i].controller = c
       \/ Cardinality(held) > MaxDrafts

\* One draft per principal per controller, and the cap, after the sweep.
HoldRefused(p, c) ==
    LET held == {i \in Ids : SweptDrafts[i] # None}
    IN \/ \E i \in held : drafts[i].owner = p /\ drafts[i].controller = c
       \/ Cardinality(held) >= MaxDrafts

\* The rest of hold_draft, under the drafts lock: sweep, refuse or insert.  A
\* refusal keeps the sweep.  (MaxMinted is the model's bound; the code mints
\* ids without one.)
CreateHold(k) ==
    /\ At(k, "creating")
    /\ LET c == call[k]
       IN IF HoldRefused(c.who, c.controller) \/ minted = MaxMinted
          THEN /\ drafts' = SweptDrafts
               /\ UNCHANGED minted
          ELSE /\ drafts' = [SweptDrafts EXCEPT ![minted + 1] =
                     [owner |-> c.who, controller |-> c.controller,
                      created |-> c.created]]
               /\ minted' = minted + 1
    /\ Return(k)
    /\ UNCHANGED <<now, sets, planLock, proposal, attested, intents, writable,
                   restarts, tokens>>

-----------------------------------------------------------------------------
(* unifi_stage_change                                                       *)

\* Up to the pre-image capture.  The change set's owner is the draft's owner,
\* whoever stages it.
StageBegin(k, p, c, i, plan) ==
    /\ Authorized(CallerOf(p), "stage", c)
    /\ TwoPersonScope(CallerOf(p))
    /\ drafts[i] # None /\ drafts[i].controller = c /\ ~DraftLapsed(drafts[i])
    /\ plan \in writable
    /\ Begin(k, [pc |-> "capturing", who |-> CallerOf(p), id |-> i,
                 owner |-> drafts[i].owner, device |-> c, plan |-> plan])
    /\ UNCHANGED <<now, minted, drafts, sets, planLock, proposal, attested,
                   intents, writable, restarts, tokens>>

\* The reads from the controller are answered; the record is built, its window
\* starting now.
StageCaptured(k) ==
    /\ At(k, "capturing")
    /\ LET c == call[k]
       IN Continue(k, [pc |-> "storing", id |-> c.id, rec |->
             [owner |-> c.owner, device |-> c.device, plan |-> c.plan,
              state |-> "Planned", approver |-> None, waived |-> FALSE,
              expires |-> now + ApprovalTtl, stager |-> c.who]])
    /\ UNCHANGED <<now, minted, drafts, sets, planLock, proposal, attested,
                   intents, writable, restarts, tokens>>

\* The capture fails, or check_plan_limits refuses the plan: the draft stays.
StageRefused(k) ==
    /\ At(k, "capturing")
    /\ Return(k)
    /\ UNCHANGED <<now, minted, drafts, sets, planLock, proposal, attested,
                   intents, writable, restarts, tokens>>

\* plan_lock is taken and insert_change_set runs.  Refused (another pending
\* set of this owner, an id already stored, a store failure): the lock guard is
\* dropped and the draft stays.
StageInsert(k) ==
    /\ At(k, "storing")
    /\ PlanLockFree
    /\ LET c == call[k]
       IN \E swept \in Sweeps :
            \/ /\ ~PendingIn(swept, c.rec.owner, c.rec.device)
               /\ swept[c.id] = None
               /\ sets' = [swept EXCEPT ![c.id] = c.rec]
               /\ planLock' = k
               /\ Continue(k, [pc |-> "publishing", id |-> c.id,
                               digest |-> DigestOf(c.rec)])
            \/ /\ \/ PendingIn(swept, c.rec.owner, c.rec.device)
                  \/ swept[c.id] # None
                  \/ StoreMayFail
               /\ sets' = swept
               /\ Return(k)
               /\ UNCHANGED planLock
    /\ UNCHANGED <<now, minted, drafts, proposal, attested, intents, writable,
                   restarts, tokens>>

\* Mutant: the lock is leaked.
StagePublishLeaks(k) ==
    /\ At(k, "publishing")
    /\ drafts' = [drafts EXCEPT ![call[k].id] = None]
    /\ proposal' = [proposal EXCEPT ![call[k].id] = call[k].digest]
    /\ Return(k)
    /\ UNCHANGED <<now, minted, sets, planLock, attested, intents, writable,
                   restarts, tokens>>

\* release_draft, the recorder's proposal, and the lock is dropped.
StagePublish(k) ==
    /\ At(k, "publishing")
    /\ drafts' = [drafts EXCEPT ![call[k].id] = None]
    /\ proposal' = [proposal EXCEPT ![call[k].id] = call[k].digest]
    /\ planLock' = None
    /\ Return(k)
    /\ UNCHANGED <<now, minted, sets, attested, intents, writable, restarts,
                   tokens>>

-----------------------------------------------------------------------------
(* unifi_approve_change_set                                                 *)

\* Up to plan_lock: the record the approver is shown is read here.
ApproveBegin(k, p, c, i) ==
    /\ Authorized(CallerOf(p), "approve", c)
    /\ TwoPersonScope(CallerOf(p))
    /\ sets[i] # None /\ sets[i].device = c
    /\ sets[i].plan \in writable
    /\ Begin(k, [pc |-> "approving", who |-> CallerOf(p), id |-> i,
                 digest |-> DigestOf(sets[i])])
    /\ UNCHANGED <<now, minted, drafts, sets, planLock, proposal, attested,
                   intents, writable, restarts, tokens>>

\* Mutant: the second approver need not be a verified human.
ApprovableByAnyone(r, q, digest) ==
    /\ r # None /\ r.state = "Planned" /\ ~SetLapsed(r)
    /\ DigestOf(r) = digest
    /\ q.name = digest.owner => LabMode

\* The coordinator accepts the approval, or the lab-mode waiver when the owner
\* approves their own set.
Approvable(r, q, digest) ==
    /\ r # None /\ r.state = "Planned" /\ ~SetLapsed(r)
    /\ DigestOf(r) = digest
    /\ IF q.name = digest.owner THEN LabMode ELSE ActorType(q) = "Human"

\* Mutant: the approval restarts the window.
EndorsedAnew(r, q, owner) ==
    IF q.name = owner THEN [r EXCEPT !.state = "Approved", !.waived = TRUE]
    ELSE [r EXCEPT !.state = "Approved", !.approver = q, !.expires = now + ApprovalTtl]

\* The record with its consent: a waiver for the owner, an approver otherwise.
Endorsed(r, q, owner) ==
    IF q.name = owner THEN [r EXCEPT !.state = "Approved", !.waived = TRUE]
    ELSE [r EXCEPT !.state = "Approved", !.approver = q]

\* Under plan_lock: approve_change_set or waive_approval, which also emits the
\* approval record with the diff hash the recorder holds for this change set.
ApproveCommit(k) ==
    /\ At(k, "approving")
    /\ PlanLockFree
    /\ LET c == call[k]
           r == sets[c.id]
       IN \/ /\ Approvable(r, c.who, c.digest)
             /\ sets' = [sets EXCEPT ![c.id] = Endorsed(r, c.who, c.digest.owner)]
             /\ attested' = [attested EXCEPT ![c.id] = proposal[c.id]]
          \/ /\ ~Approvable(r, c.who, c.digest) \/ StoreMayFail
             /\ UNCHANGED <<sets, attested>>
    /\ Return(k)
    /\ UNCHANGED <<now, minted, drafts, planLock, proposal, intents, writable,
                   restarts, tokens>>

-----------------------------------------------------------------------------
(* unifi_apply_change_set                                                   *)

\* Up to the claim: change_set_status retires the record if its window closed.
ApplyBegin(k, p, c, i) ==
    /\ Authorized(CallerOf(p), "apply", c)
    /\ sets[i] # None /\ sets[i].device = c
    /\ sets' = [sets EXCEPT ![i] = Retire(sets[i])]
    /\ Begin(k, [pc |-> "claiming", id |-> i, device |-> c])
    /\ UNCHANGED <<now, minted, drafts, planLock, proposal, attested, intents,
                   writable, restarts, tokens>>

\* Mutant: a claimed set can be claimed again.
ClaimableTwice(r, c) == r # None /\ r.device = c /\ r.state \in {"Approved", "Applying"}

\* What claim_change_set_for_apply asks of the stored record.
Claimable(r, c) == r # None /\ r.device = c /\ r.state = "Approved"

\* claim_change_set_for_apply: the check and the write under one lock.
ApplyClaim(k) ==
    /\ At(k, "claiming")
    /\ LET c == call[k]
           r == sets[c.id]
           claimed == [r EXCEPT !.state = "Applying"]
       IN \/ /\ Claimable(r, c.device)
             /\ sets' = [sets EXCEPT ![c.id] = claimed]
             /\ Continue(k, [pc |-> "claimed", id |-> c.id, rec |-> claimed])
          \/ /\ ~Claimable(r, c.device) \/ StoreMayFail
             /\ Return(k)
             /\ UNCHANGED sets
    /\ UNCHANGED <<now, minted, drafts, planLock, proposal, attested, intents,
                   writable, restarts, tokens>>

\* Mutant: a failed apply hands the approval back.
SettleReopens(i, rec, state) ==
    \/ sets' = [sets EXCEPT ![i] =
           [rec EXCEPT !.state = IF state = "Failed" THEN "Approved" ELSE state]]
    \/ StoreMayFail /\ UNCHANGED sets

\* update_change_set writes the claimed record back whole, with a new state; a
\* failed write is only logged and leaves the stored record as it is.
Settle(i, rec, state) ==
    \/ sets' = [sets EXCEPT ![i] = [rec EXCEPT !.state = state]]
    \/ StoreMayFail /\ UNCHANGED sets

\* Mutant: the deadline is not looked at again after the claim.
AdmissibleLate(rec) == rec.plan \in writable

\* What the handler checks between the claim and the apply-intent record.
Admissible(rec) == ~SetLapsed(rec) /\ rec.plan \in writable

\* Mutant: the early return forgets to settle the claim.
ApplyAbandonOpen(k) ==
    /\ At(k, "claimed")
    /\ ~Admissible(call[k].rec) \/ StoreMayFail
    /\ Return(k)
    /\ UNCHANGED <<now, minted, drafts, sets, planLock, proposal, attested,
                   intents, writable, restarts, tokens>>

\* The window closed, the plan is no longer writable, or the apply-intent
\* record cannot be made durable: settled as Failed, nothing is written.
ApplyAbandon(k) ==
    /\ At(k, "claimed")
    /\ ~Admissible(call[k].rec) \/ StoreMayFail
    /\ Settle(call[k].id, call[k].rec, "Failed")
    /\ Return(k)
    /\ UNCHANGED <<now, minted, drafts, planLock, proposal, attested, intents,
                   writable, restarts, tokens>>

\* The apply is admitted: the apply-intent record is durable and
\* apply_sequentially begins to read the pre-image back.
ApplyIntent(k) ==
    /\ At(k, "claimed")
    /\ LET c == call[k]
       IN /\ Admissible(c.rec)
          /\ intents' = [intents EXCEPT ![c.id] = @ + 1]
          /\ Continue(k, [pc |-> "checking", id |-> c.id, rec |-> c.rec,
                          admitted |-> now])
    /\ UNCHANGED <<now, minted, drafts, sets, planLock, proposal, attested,
                   writable, restarts, tokens>>

\* preimage_matches has read every touched resource, however long that took, and
\* the first write goes out.  Nobody looks at the deadline again.
ApplyMatches(k) ==
    /\ At(k, "checking")
    /\ Continue(k, [call[k] EXCEPT !.pc = "writing"])
    /\ UNCHANGED <<now, minted, drafts, sets, planLock, proposal, attested,
                   intents, writable, restarts, tokens>>

\* The pre-image moved or could not be read: refused_stale, nothing is written.
ApplyStale(k) ==
    /\ At(k, "checking")
    /\ Continue(k, [pc |-> "settling", id |-> call[k].id, rec |-> call[k].rec,
                    admitted |-> call[k].admitted, succeeded |-> FALSE])
    /\ UNCHANGED <<now, minted, drafts, sets, planLock, proposal, attested,
                   intents, writable, restarts, tokens>>

\* apply_sequentially returns after its writes: applied or applied_unverified, or
\* else partial or partial_rollback_failed.
ApplyWritten(k) ==
    /\ At(k, "writing")
    /\ \E ok \in BOOLEAN :
         Continue(k, [pc |-> "settling", id |-> call[k].id, rec |-> call[k].rec,
                      admitted |-> call[k].admitted, succeeded |-> ok])
    /\ UNCHANGED <<now, minted, drafts, sets, planLock, proposal, attested,
                   intents, writable, restarts, tokens>>

\* The verdict is recorded.
ApplySettle(k) ==
    /\ At(k, "settling")
    /\ Settle(call[k].id, call[k].rec,
              IF call[k].succeeded THEN "Applied" ELSE "Failed")
    /\ Return(k)
    /\ UNCHANGED <<now, minted, drafts, planLock, proposal, attested, intents,
                   writable, restarts, tokens>>

-----------------------------------------------------------------------------
(* unifi_get_change_set, the clock and restarts                             *)

\* draft() of an id: a lapsed draft is released and reads as absent.  Both
\* unifi_stage_change and unifi_get_change_set start with it.
LapseDraft(p, c, i) ==
    /\ \/ Authorized(CallerOf(p), "get", c)
       \/ Authorized(CallerOf(p), "stage", c) /\ TwoPersonScope(CallerOf(p))
    /\ drafts[i] # None /\ drafts[i].controller = c /\ DraftLapsed(drafts[i])
    /\ drafts' = [drafts EXCEPT ![i] = None]
    /\ UNCHANGED <<now, minted, sets, planLock, proposal, attested, intents,
                   writable, restarts, tokens, call>>

\* unifi_get_change_set of a stored set: change_set_status retires it.
GetChangeSet(p, c, i) ==
    /\ Authorized(CallerOf(p), "get", c)
    /\ ~(drafts[i] # None /\ drafts[i].controller = c)
    /\ sets[i] # None /\ sets[i].device = c
    /\ sets' = [sets EXCEPT ![i] = Retire(sets[i])]
    /\ UNCHANGED <<now, minted, drafts, planLock, proposal, attested, intents,
                   writable, restarts, tokens, call>>

Tick ==
    /\ now < MaxClock
    /\ now' = now + 1
    /\ UNCHANGED <<minted, drafts, sets, planLock, proposal, attested, intents,
                   writable, restarts, tokens, call>>

\* perform_sighup_reload takes over the next token file: principals gain and
\* lose tools while drafts, plans and approvals are pending.  A call in flight
\* keeps its Caller.
ReloadTokens ==
    /\ tokens < MaxReloads
    /\ tokens' = tokens + 1
    /\ UNCHANGED <<now, minted, drafts, sets, planLock, proposal, attested,
                   intents, writable, restarts, call>>

\* The process stops at any point and starts again, possibly with a later token
\* file or as a build with tighter writable-field rules.  Calls in flight and
\* everything in memory are lost; build_coordinator reloads the records from the
\* state file, an Applying one included.
Restart ==
    /\ restarts < MaxRestarts
    /\ restarts' = restarts + 1
    /\ call' = [k \in Calls |-> None]
    /\ planLock' = None
    /\ drafts' = [i \in Ids |-> None]
    /\ sets' = IF StateFile THEN sets ELSE [i \in Ids |-> None]
    /\ proposal' = [i \in Ids |-> IF sets[i] = None THEN None ELSE Forgotten]
    /\ writable' \in SUBSET writable
    /\ tokens' \in tokens .. MaxReloads
    /\ UNCHANGED <<now, minted, attested, intents>>

-----------------------------------------------------------------------------
\* A handler runs on from where it was suspended.
Resume(k) ==
    \/ CreateHold(k)
    \/ StageCaptured(k) \/ StageRefused(k) \/ StageInsert(k) \/ StagePublish(k)
    \/ ApproveCommit(k)
    \/ ApplyClaim(k) \/ ApplyAbandon(k) \/ ApplyIntent(k)
    \/ ApplyMatches(k) \/ ApplyStale(k) \/ ApplyWritten(k) \/ ApplySettle(k)

Next ==
    \/ \E k \in Calls : Resume(k)
    \/ \E k \in Calls, p \in Principals, c \in Controllers :
         \/ CreateBegin(k, p, c)
         \/ \E i \in Ids : \/ \E plan \in Plans : StageBegin(k, p, c, i, plan)
                           \/ ApproveBegin(k, p, c, i)
                           \/ ApplyBegin(k, p, c, i)
    \/ \E p \in Principals, c \in Controllers, i \in Ids :
         LapseDraft(p, c, i) \/ GetChangeSet(p, c, i)
    \/ Tick
    \/ ReloadTokens
    \/ Restart

Spec == Init /\ [][Next]_vars

\* The runtime polls every task that can make progress, every request to a
\* controller ends within its 30 s timeout, and tokio's mutex is first come,
\* first served: a call that waits for plan_lock gets it.
Fairness ==
    \A k \in Calls : WF_vars(Resume(k)) /\ SF_vars(StageInsert(k))
                     /\ SF_vars(ApproveCommit(k))

FairSpec == Spec /\ Fairness

-----------------------------------------------------------------------------
(* Safety                                                                   *)

\* The tools a caller may use.
Scope(q) == IF q.grant.token THEN q.grant.tools ELSE Tools

\* A call whose apply was admitted and is not settled yet.
Admitted(k) == call[k] # None /\ call[k].pc \in {"checking", "writing", "settling"}

\* The consent a plan needs before it may be written.
ConsentIsSound(r) ==
    IF r.waived THEN LabMode
    ELSE /\ r.approver # None /\ r.approver.name # r.owner
         /\ ActorType(r.approver) = "Human"
         /\ \/ LabMode
            \/ r.approver.name = r.stager.name => Scope(r.approver) # Scope(r.stager)

\* unifi_apply_change_set only writes a plan that somebody else consented to: a
\* human, verified when the approval was given, who is neither the set's owner
\* nor, outside lab mode, the caller that staged the plan -- unless that token's
\* scope was changed in between, for the server compares neither the stager with
\* the owner nor the approver with the stager -- or else the recorded waiver,
\* which only lab mode grants.
TwoPersonControl ==
    \A k \in Calls : At(k, "writing") => ConsentIsSound(call[k].rec)

\* An approval is spent once: over any number of concurrent applies, failed
\* settlements and restarts in the middle of one, at most one apply is ever
\* admitted for a change set (claim_change_set_for_apply, ApplyHandle::None).
ApprovalSpentOnce == \A i \in Ids : intents[i] <= 1

\* An apply is admitted inside the approval window, and from then until its
\* verdict is stored, however long it takes to read the pre-image and to write,
\* the stored record is still the one the call claimed: nothing moves the plan,
\* the deadline, the approver or the state under a running apply -- no sweep, get,
\* rival apply or other call's settlement, though the window may close meanwhile.
\* (The deadline is checked once, before the pre-image is read: the first write
\* itself may go out after it.)
AdmittedWithinWindow ==
    \A k \in Calls : Admitted(k) =>
      /\ call[k].admitted < sets[call[k].id].expires
      /\ sets[call[k].id] = call[k].rec
      /\ call[k].rec.state = "Applying"

\* plan_lock: the approval record never attests to anything but the digest that
\* was approved.  After a restart the recorder may have forgotten the proposal,
\* but an approval can never slip in before the proposal is published.
NoFalseAttestation ==
    \A i \in Ids :
      sets[i] # None /\ (sets[i].waived \/ sets[i].approver # None)
        => attested[i] \in {DigestOf(sets[i]), Forgotten}

\* hold_draft under concurrent creates: at most MAX_DRAFTS drafts, and one per
\* principal per controller, however the sweeps and inserts interleave.
DraftsBounded ==
    /\ Cardinality({i \in Ids : drafts[i] # None}) <= MaxDrafts
    /\ \A i, j \in Ids :
         drafts[i] # None /\ drafts[j] # None /\ i # j
           => \/ drafts[i].owner # drafts[j].owner
              \/ drafts[i].controller # drafts[j].controller

\* What a stored change set may never do in one step: move its plan, owner,
\* controller or deadline (approval does not restart the window), leave a
\* terminal state, or change its approval once it is given.  Two stages of one
\* draft, or a settlement that writes a stale record back, would.
RecordsFrozen ==
    [][\A i \in Ids : sets[i] # None /\ sets'[i] # None =>
         /\ DigestOf(sets'[i]) = DigestOf(sets[i])
         /\ sets'[i].expires = sets[i].expires
         /\ sets[i].state \in {"Applied", "Failed", "Expired"} => sets'[i] = sets[i]
         /\ sets[i].state # "Planned" =>
              /\ sets'[i].approver = sets[i].approver
              /\ sets'[i].waived = sets[i].waived]_vars

-----------------------------------------------------------------------------
(* Why they hold: the inductive invariant                                   *)

\* A call between its claim and its settlement.
Claims(k) == call[k] # None /\ (call[k].pc = "claimed" \/ Admitted(k))

\* A call that may still store a change set under its id.
Stages(k) == call[k] # None /\ call[k].pc \in {"capturing", "storing"}

Consented(r) == r.waived \/ r.approver # None

\* Who may have staged, and who may be approving.
MayStage(q, c) == Authorized(q, "stage", c) /\ TwoPersonScope(q)
MayApprove(q, c) == Authorized(q, "approve", c) /\ TwoPersonScope(q)

\* Ids are handed out once: nothing exists under an id not yet minted.
MintedInv ==
    /\ \A i \in Ids : drafts[i] # None \/ sets[i] # None \/ intents[i] # 0
                        => i <= minted
    /\ \A k \in Calls : Stages(k) => call[k].id <= minted

\* Plans are staged, and approvals awaited, by callers whose scope allows it.
ScopeInv ==
    /\ \A i \in Ids : sets[i] # None => MayStage(sets[i].stager, sets[i].device)
    /\ \A k \in Calls :
         /\ At(k, "capturing") => MayStage(call[k].who, call[k].device)
         /\ At(k, "storing") => /\ MayStage(call[k].rec.stager, call[k].rec.device)
                                /\ call[k].rec.state = "Planned"
                                /\ ~Consented(call[k].rec)
         /\ At(k, "approving") => MayApprove(call[k].who, call[k].digest.device)

\* A record carries consent exactly from its approval on.
ConsentInv ==
    \A i \in Ids : sets[i] # None =>
      /\ sets[i].state = "Planned" => ~Consented(sets[i])
      /\ sets[i].state \in {"Approved", "Applying"} => ConsentIsSound(sets[i])

\* A claim is exclusive, and the claimed record does not move under it.
ClaimInv ==
    /\ \A k \in Calls : Claims(k) => /\ sets[call[k].id] = call[k].rec
                                     /\ call[k].rec.state = "Applying"
    /\ \A k, l \in Calls : Claims(k) /\ Claims(l) /\ call[k].id = call[l].id => k = l
    /\ \A k \in Calls : Admitted(k) => call[k].admitted < call[k].rec.expires

\* Whatever can still lead to an admission has not had one.
IntentInv ==
    /\ \A i \in Ids : /\ intents[i] <= 1
                      /\ drafts[i] # None /\ sets[i] = None => intents[i] = 0
                      /\ sets[i] # None
                           /\ sets[i].state \in {"Planned", "Approved", "Expired"}
                         => intents[i] = 0
    /\ \A k \in Calls :
         /\ Stages(k) /\ sets[call[k].id] = None => intents[call[k].id] = 0
         /\ At(k, "claimed") => intents[call[k].id] = 0

\* plan_lock covers the gap between a stored plan and its proposal.
PublishInv ==
    /\ \A k \in Calls : At(k, "publishing") =>
         /\ planLock = k
         /\ sets[call[k].id] # None
         /\ call[k].digest = DigestOf(sets[call[k].id])
    /\ \A i \in Ids : sets[i] # None =>
         \/ proposal[i] \in {DigestOf(sets[i]), Forgotten}
         \/ \E k \in Calls : At(k, "publishing") /\ call[k].id = i

\* The conjunction every step preserves; the safety properties above follow.
LifecycleInv ==
    /\ MintedInv /\ ScopeInv /\ ConsentInv /\ ClaimInv /\ IntentInv /\ PublishInv
    /\ NoFalseAttestation

-----------------------------------------------------------------------------
(* What is left held                                                        *)

\* An Applying record that no call will settle.
Orphaned(i) ==
    /\ sets[i] # None /\ sets[i].state = "Applying"
    /\ \A k \in Calls : Claims(k) => call[k].id # i

\* Call k returns from the end of its apply of change set i, or from before its start.
SettlesNow(k, i) ==
    /\ At(k, "claimed") \/ At(k, "settling")
    /\ call[k].id = i /\ call'[k] = None

\* A claim is orphaned by a restart, or by a settlement that could not be stored,
\* and by nothing else: every path of unifi_apply_change_set after the claim
\* settles it.  Once orphaned it stays so, through every later call and restart: it
\* is never applied again, expired, or settled by somebody else's verdict; only
\* where no state file is kept does a restart forget it.
OrphansExplained ==
    [][\A i \in Ids :
         /\ Orphaned(i)' /\ ~Orphaned(i) =>
              \/ restarts' # restarts
              \/ StoreMayFail /\ \E k \in Calls : SettlesNow(k, i)
         /\ Orphaned(i) => \/ Orphaned(i)'
                           \/ ~StateFile /\ restarts' # restarts]_vars

\* plan_lock is never leaked: its holder is a call about to publish, whose next
\* step gives it back, so whoever waits for it waits for one step.
LockHeld == planLock # None => At(planLock, "publishing")

\* Steps of its own a call takes at most.
StepsLeft(c) ==
    CASE c.pc = "claiming" -> 5
      [] c.pc = "claimed" -> 4
      [] c.pc \in {"capturing", "checking"} -> 3
      [] c.pc \in {"storing", "writing"} -> 2
      [] c.pc \in {"creating", "publishing", "approving", "settling"} -> 1

\* No interleaving sends a call back or onto another change set: a step of its own
\* returns it or leaves it fewer steps for the same id, and nothing but the end of
\* the process takes a call away, so it answers for every claim it made.
CallsAdvance ==
    [][\A k \in Calls : call[k] # None =>
         /\ Resume(k) => \/ call'[k] = None
                         \/ /\ StepsLeft(call'[k]) < StepsLeft(call[k])
                            /\ call'[k].id = call[k].id
         /\ ~Resume(k) => call'[k] = call[k] \/ restarts' # restarts]_vars

-----------------------------------------------------------------------------
(* Liveness, under Fairness                                                 *)

\* Every tool call returns: no handler waits for plan_lock for ever.
CallsReturn == \A k \in Calls : call[k] # None ~> call[k] = None

\* A claimed change set is settled, because every path of
\* unifi_apply_change_set after the claim settles it -- while no restart and no
\* failed store write intervenes.
ClaimsSettle ==
    \A i \in Ids, n \in 0 .. MaxRestarts :
        (sets[i] # None /\ sets[i].state = "Applying" /\ ~Orphaned(i) /\ restarts = n)
          ~> \/ sets[i] # None /\ sets[i].state \in {"Applied", "Failed"}
             \/ restarts # n

-----------------------------------------------------------------------------
(* The abstract change set                                                  *)

\* What an observer of the store and the evidence log sees of change set i.
LifeOf(i) ==
    IF sets[i] = None
    THEN [phase |-> "Absent", digest |-> None, consent |-> None,
          runs |-> intents[i]]
    ELSE [phase |-> sets[i].state, digest |-> DigestOf(sets[i]),
          consent |-> CASE sets[i].waived -> "waiver"
                        [] ~sets[i].waived /\ sets[i].approver = None -> None
                        [] OTHER -> sets[i].approver.name,
          runs |-> intents[i]]

Abstract == INSTANCE ChangeSet WITH
              life <- [i \in Ids |-> LifeOf(i)], Durable <- StateFile

\* The handlers implement the abstract change set: proposed once, consented to
\* by a second principal or a lab-mode waiver, spent once, one outcome -- with
\* the drafts, the clock, the lock, the failures and the restarts hidden.
ImplementsChangeSet == Abstract!Spec

-----------------------------------------------------------------------------
(* What the repository says and the code does not do                        *)

\* The comment of hold_draft: the blocker check runs "Across *both* stores", so
\* that no principal holds a draft "that can never become" a change set beside
\* a pending one on the same controller.
NoStrandedDraft ==
    \A i, j \in Ids :
      /\ drafts[i] # None /\ ~DraftLapsed(drafts[i])
      /\ sets[j] # None /\ sets[j].state \in {"Planned", "Approved"}
      /\ ~SetLapsed(sets[j])
      /\ i # j
      => \/ drafts[i].owner # sets[j].owner
         \/ drafts[i].controller # sets[j].device

=============================================================================
