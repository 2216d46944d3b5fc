# Verification of rustunifimcp

`rustunifimcp` is an MCP server that lets operators and agents read and change
UniFi network controllers.  Its core is a *change set*: a plan of configuration
mutations that one principal stages, another approves, and a third call applies,
over a REST API that has no transactions.  This directory holds TLA+ models of
that core, the TLC instances that check them, and TLAPS proofs.

## The system

| part | state it keeps | operations | talks to |
|---|---|---|---|
| change-set handlers (`rustunifimcp/src/server/mod.rs`) | `drafts` (memory), `plan_lock` | create, stage, diff, validate, approve, apply, get | coordinator, client, evidence recorder |
| coordinator (`mecmcp-changeset`, outside the repository; set up in `changeset_state.rs`) | change-set records, in memory and in `--state-file` | insert, approve, waive, claim, update, status, list | handlers |
| evidence recorder (outside the repository) | diff hash per change set, durable intents and receipts | proposal, approval, apply intent, receipt | handlers, coordinator |
| sequential apply (`rustunifimcp-core/src/changeset/apply.rs`, `rollback.rs`, `preimage.rs`, `record.rs`) | progress of one apply | check pre-image, apply, verify, roll back | `ControllerOps` |
| controller client (`client.rs`, `version.rs`, `error.rs`) | site UUID and version caches | get, post, put, delete, `ControllerOps` | the controller |
| plan validation (`changeset/validate.rs`, `diff.rs`) | none | writable fields, zone references, zone deletions | stage, validate, approve, apply |
| tokens and scopes (`grant.rs`, `cli.rs`, `main.rs`) | token store on disk and in the server, audit records of the commands | add, revoke, rotate, set-scope, list, reload; `authorize_call` | every handler, the server process |
| inventory and SIGHUP (`inventory.rs`, `main.rs`, `tools/admin.rs`) | controller registry, clients | reload, rebuild; `unifi_add_controller` always refuses | every handler |
| operational tools (`tools/ops.rs`) | none | device, client, backup actions, direct-commit gate | client |
| read and workflow tools (`tools/read.rs`, `workflow.rs`, `pagination.rs`) | none | list, get, search, stats, reports | client |
| result shaping and redaction (`server/mod.rs`, `redact.rs`) | none | shrink a result to its byte limit, redact | every handler |
| start-up (`main.rs`, `changeset_state.rs`) | state file, audit key, the process | start, crash, restart, SIGHUP, stop | systemd, token commands |
| transport and command line (`http_transport.rs`, `cli.rs`) | none | serve, parse | - |

What is hard: the handlers are async functions on a multi-threaded runtime and
give way at every await, so the steps of two calls interleave; a check made
before an await may be stale after it; the process may stop anywhere, with
records on disk in the middle of an apply; durable writes fail; requests to a
controller fail with or without being carried out, at once or later; and other
administrators write to the same controller.  `PROJECT.json` lists these hazards
at the lines where they bite.

What makes each part correct:

* change sets: nothing is written without a second principal's consent, twice, by
  an apply admitted outside the approval window, or for a plan other than the
  approved one;
  approval records are true; every call returns; every claim is settled, unless a
  restart or a failed write leaves it behind, and then it stays as it is;
* sequential apply: a stale plan writes nothing; *applied* means the whole plan;
  *partial* with a clean rollback means everything acknowledged is undone, and that
  only the request whose call failed can still change that; an apply
  touches nothing but what its plan names and what it created, and leaves alone what
  only a concurrent apply of another plan works on;
* operational tools and reload: a command goes where its call was admitted to,
  its audit record is true, a reload is taken as a whole or not at all, and a
  revoked token comes to an end;
* validation: a plan found valid is not stopped half way by a firewall zone, one
  found invalid would have been;
* paged reads: following the cursors shows everything and comes to an end;
* read tools: a search that calls itself complete is, a list shows the window that
  was asked for, a report correlates exactly what applies, and nothing a call uses
  is older than the last reload;
* start-up: no change set is lost or served around, the audit key is one, a token
  command's record is true and reaches the server it signals, and what can come
  back up does.

## Modules

**`ChangeSetLifecycle`** models five handlers: create, stage, approve, apply and
get.  `drafts` is `UnifiServer.drafts`, `sets` the coordinator's records,
`planLock` the holder of `plan_lock`, `proposal` and `attested` the recorder's
diff hash and the copy in the approval record, `intents` the applies
admitted, `writable` the plans `check_writable_fields` accepts in the running
build, `tokens` the number of the token file the token store holds, and `call[k]`
what the call in slot `k` remembers across an await.  The clock is `now`.  A caller
is a principal with the grant its request was authenticated with (`CallerOf`);
a reload changes the grants of later requests only.

A handler is cut where another one can run:

| handler | actions |
|---|---|
| `unifi_create_change_set` | `CreateBegin` (to the record snapshot), `CreateHold` |
| `unifi_stage_change` | `StageBegin` (to the capture), `StageCaptured` / `StageRefused`, `StageInsert` (takes `plan_lock`), `StagePublish` (drops it) |
| `unifi_approve_change_set` | `ApproveBegin` (to `plan_lock`), `ApproveCommit` |
| `unifi_apply_change_set` | `ApplyBegin`, `ApplyClaim`, `ApplyAbandon` / `ApplyIntent` (to the pre-image check), `ApplyMatches` / `ApplyStale`, `ApplyWritten`, `ApplySettle` |
| `unifi_get_change_set` | `LapseDraft`, `GetChangeSet` |
| SIGHUP | `ReloadTokens` |
| environment | `Tick`, `Restart` |

A refusal before the first await that changes nothing is a disabled action.  The
deadline is checked once, before the apply intent (`Admissible`); then
`apply_sequentially` reads every touched resource back, each with a request of its own,
and the clock may pass the deadline before its first write.  So what the approval
window bounds is the admission (`admitted`), and `AdmittedWithinWindow` says that and no
more of the clock; that a controller which moved meanwhile is noticed is
`StalePlanWritesNothing` of `SequentialApply`.  A
record's plan stands for its mutations together with their pre-image, so its
digest is (owner, controller, plan).  `stager` is history the code does not keep.  `unifi_diff_change_set` and `unifi_validate_change_set` only
read and have no action here.

The coordinator's source is not in the repository.  Its operations are modelled
from the calls, the comments at the calls and the coordinator tests in
`server/mod.rs`: insert refuses an id it has and a second pending set of one
owner on one controller, after a sweep of lapsed records; status retires a
lapsed `Planned` record or waiver; claim is the only way from `Approved` to
`Applying` and looks at the state, not the clock; update replaces the record.
Whether the insert's sweep also takes a lapsed two-person approval is not
visible from here, so both are allowed.  The coordinator's record cap is not
modelled.

**`ChangeSet`** is the abstract specification: a plan is proposed once,
consented to by a principal other than its owner or by a lab-mode waiver, spent
once, run at most once, and concluded at most once.  `ImplementsChangeSet` maps
the handlers to it, hiding drafts, calls, clock, lock and failures.

**`SequentialApply`** models `apply_sequentially` and `rollback_to_preimage`
with the client's `ControllerOps`: pre-image check, one write per mutation
(fetch, merge and PUT of a partial update are two steps), verification, and the
rollback in reverse.  A write is acknowledged, or its call fails: then it joins
`flying`, and the controller carries it out at any later time (`Late`) or never -- at
once, while the rollback runs, or after the outcome was reported.  Its body is the one
that was sent, so a merged PUT brings the fields along that it was merged over.  A resource is a `name` and the `rest`, because that is the
distinction `verify_applied` makes.  The controller hands out ids it never
reuses (`assigned`).  Others write to anything at any time (`Foreign`), as often
as they like; what is the apply's `Own`, the resources its plan names and those
created for it, is all the properties speak of, and `meddled` notes a foreign write
to it.  `origin`, `home`, `mine`, `stale`, `meddled`, `lost` and `wrote` are history.

What `RollbackRestores` promises is bounded by that late request.  A plan that updates
one resource twice, the second update being merged and timing out, is rolled back
cleanly and reported as *partial*; the late PUT then leaves both updates, although the
first had been acknowledged and undone.  The code cannot exclude it without conditional
writes, and the property names exactly what is left (`Residue`).

**`TwoApplies`** composes two of them on one controller: a claim excludes a
second apply of the same change set, not of another.  The variables of the second
end in 2 and `O` is its instance of `SequentialApply`; they share `live` and
`assigned`, and each has calls of its own in flight (`ThisLate`, `OtherLate`).  What the second does is to the first a step of others (`Bystands`),
and the other way round.

**`DirectActions`** models the operational tools, which command a device in one
call, and the SIGHUP reload under them.  `file` and `tokenFile` are on disk,
`registry`, `clients` and `store` the snapshots the server holds,
`hup` the place `perform_sighup_reload` has reached, `unit` what a controller
knows of a device, `call[k]` a call with the grant and client it was admitted
with, its audit scope and its command.

| code | actions |
|---|---|
| `perform_sighup_reload` | `ReloadRegistry`, `RebuildClients`, `ReloadTokens` |
| bearer boundary | `Arrive` |
| the three handlers, to their first request | `Handle` |
| `find_private_device` and the decision on its answer | `Look` |
| the `cmd/devmgr`, `cmd/stamgr`, `cmd/backup` request | `Post`, `Answer` |
| environment | `EditInventory`, `EditTokens`, `Signal`, `Arrives`, `Drift` |

A command in flight is carried out at any time, also after its caller timed
out, or never.  Carried out means here what the client can see of it, that the
controller took the command with a 2xx: `post` does not look into the body, and
`ops.rs` notes that a controller may say ok to a power cycle it ignores, which is why
it looks at the port first.  An inventory entry is `sound` if its endpoint and credential let
a client be built.  `where`, `got` and `loaded` are history.  A call without a
token is one on stdio.  MAC and version syntax is left out.

**`ZoneCheck`** models `unifi_validate_change_set` and the apply it foresees.
`CheckZoneDeletions` walks the plan over the pre-image as `check_zone_deletions`
does, `CheckZoneReferences` looks the named zones up in the zone list `seen`,
which `ValidateReferences` reads as the first page of `zones`.  `ApplyBegin`,
`ApplyOne` and `ApplyDone` carry the plan out on a controller that refuses to
remove a zone in use and to write a policy with a zone it does not have; `fault`
tells that refusal from all others.  A policy is its two zone references.
Validation is not mandatory, so `check` and `pc` advance independently.  `whole`,
`trusted` and `meddled` are history.

**`PagedReport`** models `query_stats` and the three paged workflow reports, read
to the end by a caller.  `QueryStats`, `SiteHealthReport`, `TopologyReport` and
`TrafficFlowReport` fetch their legs, join and page them; `Answer` is `json_tool_result` with the binary search of `shrink_largest_array`,
and `Follow` is the caller, who goes on from `next_offset` or by `limit`.  An item
is its place and its rendered size.  The reports fetch `devices` and `clients` from the
Integration API, which pages by itself, without asking for a page, so they work on its
first `UpstreamPage` items (`Fetched`); `query_stats` reads a private surface, which
answers with everything.  `seen` and `astray` are history.

**`ReadTools`** models the tools that only read, with the client they share.
`clients` is the sequence of clients one controller has had: a call clones the
last one and keeps it, and a reload appends a new one.  Each call makes its
requests one after the other, and each request answers what the controller holds
at that moment.

| code | actions |
|---|---|
| `unifi_search` | `Search`, then a `Scan` for every page of a leg, `SearchSites` |
| `unifi_list_resources`, `unifi_get_resource`, `unifi_list_sites` | `ListResources`, `GetResource`, `ListSites`, then `Fetch` |
| `unifimcp_status` | `Status` |
| `unifi_client_troubleshoot` | `Troubleshoot`, then `Stations`, `Uplinks`, `Policies`, `ZonesAndReport` |
| `default_site_for`, `fetch_version_if_absent` with their caches | `LookUpSite`, `ResolveSite`, `FillSite`, `LookUpVersion`, `AskVersion`, `RememberVersion` |
| environment | `Change`, `Rebuild`, `Break` |

A member of a collection is whether the query matches it.  `bornUuid`,
`bornVersion`, `began`, `shrunk` and `moved` are history.  A 404 on a private route
is decided by asking the version, as in the client; a private get of a missing id
takes that path too and is reported as an absent endpoint.  `unifi_search` and the
reports ignore the `site` they are given, so it is no part of their requests; the
`omitted` that `build_client_troubleshoot` fills is overwritten by its caller, and
`Report` does the same.

**`TokenCommands`** models `rustunifimcp token ...`, a process of its own: it is
validated and described (`Describe`), runs (`Run`), is perhaps heard by no server
(`Unheard`) or interrupted (`Interrupt`), and emits its audit record (`Emit`).  The
edit is `mecmcp-runtime`'s and taken as one step; changing the provenance of a
token is treated like changing its scope.

**`ServerStart`** puts the commands beside a deployment: the process `pc`, started
again and again by systemd over `config`, `stateFile`, `keyFile` and `store`.  The
stages are those of `run_inner`, in its order, and each may refuse or be
interrupted:

| code | actions |
|---|---|
| arguments, inventory, evidence, digest key, clients, listener | `Arguments`, `LoadRegistry`, `StartEvidence`, `LoadApprovalDigestKey`, `NewServer`, `Listen` |
| `ensure_audit_hmac_key`, `init_audit` | `EnsureAuditHmacKey`, `WriteKey`, `InitAudit` |
| `build_coordinator` | `ReadStateFile`, `DiscardBlank`, `RefuseLegacy`, `Load` |
| token store, SIGHUP handler | `LoadTokens`, `InstallHandler` |
| the running server | `Save`, `SighupReload`, `Stop` |
| environment | `Launch`, `Start`, `Crash`, `Operate`, `Signal` |

A command that names a process holds a `pid` that is live, told or gone.  A SIGHUP
before the handler is installed ends the process, and `Restart=on-failure` does not
restart that.  `saved` and `signed` are history.

**`DurableStore`** is the abstract specification of that deployment as its change
sets see it: a server that comes up holds what is stored, only one that serves adds to
it, and only an operator, while none runs, changes it otherwise.  `ImplementsStore` maps the
deployment to it, hiding the stages, the keys, the tokens and the crashes.

**`MCLifecycle`**, **`MCTwoApplies`**, **`MCDirect`**, **`MCZone`**,
**`MCPagedReport`**, **`MCReadTools`** and **`MCServerStart`** instantiate them
for TLC; **`ChangeSetLifecycle_proofs`**, **`SequentialApply_proofs`**,
**`ZoneCheck_proofs`**, **`PagedReport_proofs`**, **`DirectActions_proofs`**,
**`ReadTools_proofs`** and **`ServerStart_proofs`** hold the theorems, and
**`LeastNumber`** the induction principle three of them share.  Operators
commented *Mutant* are deliberately wrong variants of the definition that follows;
no specification uses them.

## Runs

| run | instance | checks |
|---|---|---|
| `lifecycle_two_person` | 3 principals, 2 calls, 2 ids, window 1, clock 0..1, 1 restart, 1 reload of a second token file that exchanges scopes and combines two, state file, failing writes | `TwoPersonControl`, `ApprovalSpentOnce`, `AdmittedWithinWindow`, `NoFalseAttestation`, `DraftsBounded`, `OrphansExplained`, `ImplementsChangeSet` |
| `lifecycle_lab` | lab mode, an agent and a human as approvers, 2 plans, 2 calls, 1 id, window 2, clock 0..2, fair scheduling, no failures | `TwoPersonControl`, `RecordsFrozen`, `CallsReturn`, `ClaimsSettle` |
| `apply_plans` | every plan of up to 3 of 7 mutations, 2 resources, any failure, carried out at any time or never; alone, with 1 edit by others of plans of up to 2, and 4 plans next to the apply of a second | `RollbackRestores`, `AppliedMeansAll`, `StalePlanWritesNothing`, `ApplyReturns`, `ApplyAdvances`, `Footprint`, `Isolation` |
| `direct` | 1 call, 3 commands, with and without `--allow-direct-commit`, 2 controllers, 1 token, files good, partly unsound or malformed, 2 edits or changes of the device, fair scheduling | `Confined`, `AuditTrue`, `WholeInventory`, `ReloadTakesEffect`, `RevocationCompletes` |
| `zones` | every plan of up to 3 of 11 mutations over 2 policies and 2 zones, 5 controllers, 1 edit by others of the shorter plans | `ValidSetRuns`, `RefusedSetFails` |
| `pages_walk` | all 4 tools, any legs refused, up to 5 items, pages of 1, 2 and 4, upstream pages of 4, one change of the site | `LargestPrefix`, `WalkSeesAll`, `WalkEnds` |
| `read_tools` | a search, list, get, site list or report beside a status or get call, collections of 0, 3 or 5 members, pages of 2, cap 4, 1 change of the controller, 1 reload, any request failing | `SearchSeesAll`, `PageIsWindow`, `NothingOlderThanReload`, `CorrelationExact`, `CallsReturn` |
| `startup` | every kind of state file under every key, every fault, 1 crash, 1 edit of the operator; and 2 token commands of any kind beside a server | `ServesWhatWasSaved`, `OneAuditKey`, `ToldIsServed`, `TrailTrue`, `StartAdvances`, `ImplementsStore`, `Recovers` |
| `lifecycle_stranded` | violation of `NoStrandedDraft` | a draft beside a pending set |
| `apply_verify` | violation of `VerifiedMatchesBody` | an unverified field reported as applied |
| `direct_upgrade` | violation of `InstallsNamedBuild` | another build queued between look and command |
| `pages_topology` | violation of `NextOffsetIsCursor` | edges counted as devices |

**Bounds.**  Two calls in flight are enough for every race the handlers can have
pairwise, and each slot is reused, so longer histories arise one after the
other; one run has two ids because a draft and a record of one principal then
compete.  A window closes when the clock reaches the deadline, so a
window of one tick on two instants has open and closed, and a window of two on
three instants has an approval later than the staging that opened it; the clock
also ticks while an admitted apply reads its pre-image.
One restart reaches every crash point,
and a second cannot find a kind of state the first did not leave.  One more token
file suffices for a scope to differ between any two steps.  `MAX_DRAFTS`
is 1 where it is checked at its limit.  The theorems below do not depend on any
of these.  Three mutations let one resource be updated twice, or updated and
deleted, before a third fails, and the request that
failed may come in at every step after that; one edit comes before, during or after the apply.  The
second apply creates, deletes what some of the first plans name, then fails and
rolls back, so that each of two applies creates, deletes and re-creates between any
two calls of the other, and four ids are as many as two such plans can take.
Two edits or changes in `direct` are one
before and one during a pass of the reload, one of each file, or one of a file and
one of the device between a look and its command.  Calls of `DirectActions`
share no state of the server but what a reload replaces, and what another
call does to a device is what another administrator does, so one call is
enough: it names one controller, which a reload may move to another endpoint or take
away; the theorems hold for any number of calls and any requests.  In `zones`
three mutations are a zone delete with the two writes that free and name the
zone, in every order, and two zones fit the page of the list where three do not;
the check reads no more than one page, so page size matters only there.  In
`pages_walk` five items are three pages of two, and the limits let the third or
the first item of a page be the one that no longer fits; four items are what the
Integration API answers with, one less than there may be.  In
`read_tools` three members are a page and a half, and five are more than the cap of
two pages; two calls are enough because a call meets another one only in the
caches of a client.  One change and one reload come in every order with the
requests.  In `startup` one crash comes at every stage, and one edit before or
after it; the two commands race in every order at every stage of a start, so that
a third would only repeat one.  The theorems about these modules have no bounds.
Deadlock is not checked because every run
stops when its bounded clock, ids, calls or plan are used up.

**Symmetry** is over call slots and plans, which the specification does not tell
apart, and only where no liveness is checked.

**Fairness.**  `Resume(k)` is weakly fair: tokio polls every task that can run,
and each request ends within the client's 30 s timeout.  `StageInsert` and
`ApproveCommit` are strongly fair because tokio's mutex queues its waiters in
order.  Calls need not be started, the clock need not advance and a restart need
not happen.  `ApplyStep` of `SequentialApply` is weakly fair for the same
reasons; in `TwoApplies` only the first apply is, so that the second may stop
anywhere.  In `DirectActions` `Reload` and `Proceed(k)` are weakly fair: the
signal task and the task of a call run, and a request that is not answered
times out.  Nothing is assumed of a command on its way (`Arrives`), of files,
of signals or of new calls.  In `PagedReport` the server's steps are weakly fair
like any call's, and so is `Follow`: the question is whether a caller who goes on
reaches an end.  `ServerStart` has weak
fairness of `Launch` and `Stage`: systemd restarts what exited with an error, and
a start goes on.  Nothing is assumed of crashes, operators or commands, and a start
that is refused again and again is excused by `Unsound`.  In `ReadTools` some call
that can proceed does (`WF` of `\E k : Proceed(k)`), which is enough for finitely many calls;
that a request fails is not relied on.

## Where the repository says otherwise

* `hold_draft` is documented to keep a principal from holding a draft that can
  never become a change set.  Its check is a snapshot taken before the drafts
  lock, and a draft also lapses while its own stage is capturing.
* `ControllerOps::verify_applied` is documented to compare updates with the
  staged body.  It compares the `name` field.
* `ops.rs` says an upgrade never installs a build the caller did not name.  The
  queued build is read in one request and installed by another, which carries
  no version.
* The comment of `shrink_largest_array` calls `next_offset` the correct cursor for
  the next call.  It adds the number of items shown of the array that was cut,
  and in a topology report that is usually `edges`, while `offset` counts
  devices: a caller that follows it skips devices.

## Proofs

`ChangeSetLifecycle_proofs` proves, for all principals, controllers, plans,
sequences of token files, numbers of concurrent calls, windows, ids, clock ticks,
reloads and restarts:

| theorem | states |
|---|---|
| `TypeCorrect` | `Spec => []TypeOK` |
| `LifecycleSafe` | `Spec => []LifecycleInv` |
| `TwoPersonHolds` | `Spec => []TwoPersonControl` |
| `SpentOnce` | `Spec => []ApprovalSpentOnce` |
| `WindowHolds` | `Spec => []AdmittedWithinWindow` |
| `AttestationHolds` | `Spec => []NoFalseAttestation` |
| `FrozenHolds` | `Spec => RecordsFrozen` |
| `OrphansHold` | `Spec => OrphansExplained` |
| `LockComesFree` | `Spec => []LockHeld` |
| `CallsComeCloser` | `Spec => CallsAdvance` |

They assume that the bounds are naturals and the window is not zero, that flags
are Boolean, that every principal has a grant in every token file (an empty one once
revoked), and that `None` is none of the
other values.

None of the safety properties is inductive: that an approval is spent once
depends on what every call in flight may still do.  `LifecycleInv` is the
strengthening.  `MintedInv`: nothing exists under an id not handed out.
`ScopeInv`: stagers and waiting approvers had the scope.  `ConsentInv`: a
`Planned` record has no consent, an `Approved` or `Applying` one a sound
consent.  The argument there is the one two-person control rests on: a caller that
stages may stage, one that approves may approve, and both handlers refuse a token
that may do both outside lab mode; so an approver who also staged did it under
another scope, and a caller without a token is not a verified human.
`ClaimInv`: a claim is exclusive and its record does not move.  `IntentInv`:
whatever can still lead to a run of writes has had none.  `PublishInv`: a stored
plan without a published proposal is covered by `plan_lock`.

`OrphansExplained` is about the record an apply leaves behind in `Applying`, which no
later call can settle: it says who may leave one (a restart, or a settlement whose
write failed), and that it then stays as it is.  The argument follows the owner of the
claim (`ClaimGoesOn`): its call goes from the claim to the settlement and returns
nowhere in between without one (`SettlesStored`), and by `ClaimInv` no other call
moves the record (`OnlyConcludes`).

`RecordStep` says what a step can do to a stored record (insert, consent, move
the state forward) and `CallStep` what it can do to a call; the lemma for each
part of the invariant cites them instead of going through every action again.

The same module proves of the refinement, from the same assumptions:

| theorem | states |
|---|---|
| `DraftsHold` | `Spec => []DraftsBounded` |
| `ImplementsHolds` | `Spec => ImplementsChangeSet` |

The refinement needs one more invariant, `RanInv`: a call that writes or has its
verdict has counted its run, so that only a run concludes as *applied*
(`OnlySettles`).  Each way a record can move is then one abstract action
(`ProposeStep`, `ApproveStep`, `MoveStep`), a counted intent is `Run`
(`RunStep`), and a record that vanishes was lost with the process
(`LoseStep`), which no run does: the runs restart only with a state file.

`SequentialApply_proofs` proves, for plans of any length over any resources, with
any number of writes by others between any two steps:

| theorem | states |
|---|---|
| `ApplyTyped` | `Spec => []TypeOK` |
| `StaleHolds` | `Spec => []StalePlanWritesNothing` |
| `RollbackHolds` | `Spec => []RollbackRestores` |
| `AppliedHolds` | `Spec => []AppliedMeansAll` |
| `FootprintHolds` | `Spec => Footprint` |
| `AdvancesHolds` | `Spec => ApplyAdvances` |
| `BothImplement` | `SpecBoth => Init /\ [][Next]_vars` |
| `BothHold` | `SpecBoth => [](StalePlanWritesNothing /\ RollbackRestores /\ AppliedMeansAll) /\ Footprint /\ ApplyAdvances` |
| `IsolationHolds` | `SpecBoth => Isolation` |

from `PlansAssumption` and `ValuesAssumption`.  The type invariant needs
`PlaceInv` (a rollback and a PUT are at a mutation of the plan, and there is nothing
under an id not handed out).  `StaleInv` follows the check over the plan: what it
has passed has not moved, so when it comes to the end nothing had.

`Writes` is what one step of an apply can do to the controller: nothing, a write to
one of its own resources, or a creation under the next id, which then is its own.
That it does no more (`WriteShape`) needs `KnownInv`, that the ids a rollback will
delete were assigned to this apply.  `Footprint` follows at once, and so does the
composition: the second apply's step is one more write of others
(`OtherIsForeign`), so that whatever holds of an apply among others holds of one
next to a second (`BothImplement`); and the ids of the two stay apart because
each new one is new to both, hence `Isolation`.  `OtherInv` is the second apply's
share of the invariant: it is stated anew because the prover cannot cite a theorem
of an instance.  The two applies differ in nothing but fairness and `Apart`, so
the theorems are stated for the first.

`ApplyReturns` itself is out of reach, but `AdvancesHolds` leaves only scheduling
to assume: every step lowers `StepsLeft`, a natural number, so an apply that
goes on returns.

`RollbackRestores` speaks of the end of a rollback; `UndoInv` says what holds at
every step on the way, in terms of the mutations still `Standing` (succeeded and
not yet undone).  What no standing mutation touches is as the apply found it
(`Kept`), at its old id or at the one its restored delete was given (`Moved`); a
standing delete's resource is absent, and no later mutation touches it (`Gone`); a
standing create's resource is nobody's new home (`Made`); every other resource
under a fresh id is the one of a create whose answer was lost (`Spare`).  Each
rollback step takes one mutation out of `Standing`; when none is left the
invariant is the property (`UndoneRestores`).  The request of the mutation that
failed may be carried out at any step, before or after: then what it left is the
second case of `Back`.  What that request carries is kept by `SentInv`: it was merged over
what the mutations before it had made of the resource, which `Carried` describes, so it is
the prefix of the plan up to it applied to that resource (`Sent`), whatever the
rollback has done to the controller since (`LateUndone`).

`AppliedMeansAll` compares the controller with the recursive function `Expected`.
The prover has no induction principle for it to use, so the induction is done by
hand: `LeastNatural` of module `LeastNumber` (a set of naturals that is not empty has a least member, from
the well-foundedness of finite sets under inclusion) gives the least prefix for
which the function would not be defined, and there is none (`ExpectedExists`,
`ExpectedDef`).  `Carried` then follows the apply mutation by mutation; it comes before `UndoInv`, which
needs it for what a late request was merged over.

`DirectActions_proofs` proves, for all inventories, token files, requests,
fleets and numbers of calls, edits and drifts:

| theorem | states |
|---|---|
| `DirectTyped` | `Spec => []TypeOK` |
| `DirectSafe` | `Spec => []DirectInv` |
| `ConfinedHolds` | `Spec => []Confined` |
| `AuditHolds` | `Spec => []AuditTrue` |
| `WholeHolds` | `Spec => []WholeInventory` |
| `ReloadsOwed` | `Spec => ReloadOwed` |
| `CallsComeCloser` | `Spec => CallsAdvance` |

from `DirectAssumption` and `NoneAssumption` (no call is `None`): the instance's values have their types and `None` and
`Malformed` are none of them.  `Confined` says where a command went, which
nothing in the state of a call about to send it promises; `DirectInv` adds
that such a call was admitted with the very grant and client it still holds
(`Admitted`), and that its audit scope is live exactly while it needs one
(`Recorded`).  A call's part of the invariant mentions no variable a reload
writes, which is the argument why a reload cannot redirect or widen a call in
flight.  `ReloadOwed` follows what a signal asks for: the tokens and the inventory it
named stay due until the server has them or the file they would be read from
changes, and every step of the reload lowers `ReloadLeft`, so no other step can lose a
signal.  `CallsAdvance` does the same for a call (`StepsLeft`): it goes on to its end and is
never sent back, and one begins only with a token the server has.

`ServerStart_proofs` proves, for all deployments, change sets, token commands,
crashes and edits:

| theorem | states |
|---|---|
| `StartTyped` | `Spec => []TypeOK` |
| `NothingDiscardedHolds` | `Spec => []NothingDiscarded` |
| `ServesSaved` | `Spec => []ServesWhatWasSaved` |
| `StoreImplemented` | `Spec => ImplementsStore` |
| `OneKeyHolds` | `Spec => []OneAuditKey` |
| `ToldHolds` | `Spec => []ToldIsServed` |
| `TrailHolds` | `Spec => []TrailTrue` |
| `StartsAdvance` | `Spec => StartAdvances` |

from `StartAssumption` and `TokenAssumption`.  `FileInv`: what a start has read is
what is there until the blank file is discarded, and from the load on the process
holds what the file holds.  `HeldInv` says the same of what is stored where no file is
kept; with both, `StoreStep` maps every step of a deployment to one of
`DurableStore` or to none: the removal of a blank file is unseen, because what was read is still
there and held nothing.  `KeyInv`: nothing is signed before there is a key.
`ToldInv`: a command that told a server told one that had installed the handler,
and it is served unless a reload is due.  `TrailInv`: an undisturbed command
finds the store as it described it.  `CauseInv`: when a start may refuse its files,
what it read of them is what is there, so that a refusal has a cause that is still
there (`Unsound`) and no interrupted start leaves one.

`ReadTools_proofs` proves, for any number of calls, changes and reloads,
collections of any length and any page size and cap:

| theorem | states |
|---|---|
| `ReadTyped` | `Spec => []TypeOK` |
| `FreshHolds` | `Spec => []NothingOlderThanReload` |
| `SearchHolds` | `Spec => []SearchSeesAll` |
| `WindowHolds` | `Spec => []PageIsWindow` |
| `CorrelationHolds` | `Spec => []CorrelationExact` |
| `CallsComeCloser` | `Spec => CallsAdvance` |

from `ReadAssumption` and `NoneAssumption`.  `ReadInv` is `Built` (a client is no older than what it
cached) and, for every call, `Kept`: it is on the route of its tool, what it uses
is `Fresh`, the collections have `Grown` since it began, what it has `Scanned`
agrees with them, its page is `Windowed`, and a report has `Gathered` what is
still there.  `CallsAdvance` is proved action by action (`Nearer`): where a page does
not end a scan it was a full one and below the cap, by `SliceIs`.

`ZoneCheck_proofs` proves, for plans of any length over any zones and policies, any
state of the controller at staging and any number of edits by others:

| theorem | states |
|---|---|
| `ZoneTyped` | `Spec => []TypeOK` |
| `ValidHolds` | `Spec => []ValidSetRuns` |
| `RefusedSetsFail` | `Spec => []RefusedSetFails` |

from `ZoneAssumption`, which says among others that at staging policies name only
zones the controller has.  Both properties compare a check that runs once over the
whole plan with an apply that takes it one mutation at a time.  `ZoneInv` puts them
side by side: `Matched` says that an apply left alone has created, updated and
deleted what the walk had by that mutation (`Foreseen`), `Verdict` what a verdict
that is still current says of the zones named, and `Intact` that the controller
never has a policy with a zone it lacks, which is why a zone the walk lets go is
one nobody else holds.  `Walked`, the walk, is a recursive function; that it is
well defined (`WalkedExists`), keeps its shape (`WalkFollowed`) and never forgets a
contradiction (`WalkMonotone`) are inductions over the plan by `LeastNatural`.

`PagedReport_proofs` proves, for collections of any length, items of any size, any
page, byte budget and number of changes:

| theorem | states |
|---|---|
| `LargestHolds` | `Spec => []LargestPrefix` |
| `SeesAllHolds` | `Spec => []WalkSeesAll` |
| `WalkMoves` | `Spec => WalkAdvances` |

from `PagedAssumption`.  `SearchFinds` is the correctness of the binary search of
`shrink_largest_array`: where whatever is below something that fits fits too, it
ends at the greatest that does (induction on the distance of its bounds).  That
this is so of the prefixes of an array is `RenderedLess`: a shorter prefix renders
to no more bytes.  `WalkInv` then follows the caller: before each call everything
up to the cursor was shown (`AskInv`), the report is the page the cursor names
(`ReportInv`), and the answer is that page, shortened, and seen (`AnswerInv`).  A page is not
shortened to nothing where its first item fits (`OneItem`), so the cursor moves.  That
what was fetched is everything needs one page of the Integration API to hold it
(`Fetched`); nothing in the walk says when it does not.

**Liveness** is outside the prover's reach and only model-checked.  What it rests on
besides the scheduler is safety, and proved where a step could undo another's work:

| liveness, checked by TLC | its core, proved | states |
|---|---|---|
| `ApplyReturns` | `AdvancesHolds` | every step of an apply lowers `StepsLeft` |
| `CallsReturn` of `ReadTools` | `CallsComeCloser` of `ReadTools` | every step of a read call leaves it fewer steps, of at most `10 + 2 * Cap`, and nothing else gives it one back |
| `CallsReturn`, `ClaimsSettle` of the handlers | `CallsComeCloser` of the handlers, `LockComesFree`, `OrphansHold` | a call only goes on, and only a restart takes it away; `plan_lock` is held by a call about to give it back; a claim stays unsettled only after a restart or a failed write |
| `Recovers` | `StartsAdvance` | a start goes on to a later stage or refuses for a cause an operator must remove |
| `WalkEnds` | `WalkMoves` | an answer moves the cursor on or ends the walk |
| `ReloadTakesEffect` | `ReloadsOwed` | what a signal asked for stays due until the server has it or its file changes; each reload step lowers `ReloadLeft` |
| `RevocationCompletes` | `CallsComeCloser` of `DirectActions` | a call that began goes on to its end; only a token the server has begins one |

No run repeats a type invariant or the parts of an inductive one: all are proved.

## Assumptions and what is not modelled

* `--lab-mode` does not change between restarts and the clock does not go back.  A call is not
  cancelled between its awaits other than by a restart.
* The evidence recorder is configured; without one there is no approval record to
  be wrong.  Its buffering is left out: an intent is durable or refused.
* `TwoApplies` begins when both change sets are staged; that the claim, the window
  and the settlement around each apply do not depend on the other is
  `ChangeSetLifecycle`, which shares no controller state with it.
* An operator changes the configuration and the state file only while the server
  is down (`Operate`); a state file that changes between the two times a start reads
  it, which `discard_blank_state_file` cannot exclude, is not modelled.
* The reports, and the uplinks of `unifi_client_troubleshoot`, read the first page of
  the Integration API and no more.  `WalkSeesAll` says so; in `ReadTools` the device leg
  carries no data, since no property is about it.
* Library code is modelled from its use and marked external: the coordinator,
  with the rule that a store without keyed digests loads under any key; the token
  store edit of `mecmcp-runtime`; tokio's mutex; the controllers.
* An audit key file is configured.  A process id is not reused.
* `unifimcp_status` may call a controller reachable by its cached version alone;
  the model follows it and no property says otherwise.
* JSON layout, previews, diffs, `validate_locally`, argument syntax, redaction, TLS
  and the grammar of the command line are left out: they keep no state.  The
  resource model is data declarations.
* The coordinator's record cap and the concurrency limit of a client are not
  modelled.

The two hazards of `PROJECT.json` without a property say why in their note: places
where the code does consistently what a reader would not expect (the overwritten
`omitted`, the ignored `site`).  Between check and write an edit by others of the
same resource is lost, since UniFi offers no conditional write; the properties say
what is promised of an undisturbed apply, and to whom the disturbance can be due.

## Plan

Done: the specifications above with their runs, and the theorems.

What is left: the composition of `ChangeSetLifecycle` with `SequentialApply`: the
apply that `ApplyIntent` admits and `ApplyStale` or `ApplyWritten` ends is one of
`SequentialApply`, and its outcome is the verdict `ApplySettle` stores.
