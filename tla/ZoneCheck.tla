------------------------------ MODULE ZoneCheck ------------------------------
(* unifi_validate_change_set: the check of a plan's firewall zones against    *)
(* itself, its pre-image and the live zone list, and the apply it foresees.   *)
(*                                                                            *)
(* UniFi validates nothing in advance, so the check walks the plan in staging *)
(* order the way the apply will.  The apply below is that of a controller     *)
(* that refuses to remove a zone in use and to write a policy with a zone it  *)
(* does not have.  Validation is not mandatory: any plan may be applied.      *)
EXTENDS Naturals, Sequences, FiniteSets

CONSTANTS
    Zones, Policies,
    ExternalIds, ExternalOf,  \* what each zone is called outside: [Zones -> ExternalIds]
    Plans,                    \* change sets staged
    Starts,                   \* zones and policies of the controller at staging
    PageSize,                 \* zones in one page of the list
    MaxDrifts,                \* bound: edits by others, by plan
    None,                     \* no zone on a side; no policy under an id
    Keep                      \* a side a body leaves out

\* ZONE_REFERENCE_FIELDS
Sides == {"source", "destination"}
Named == Zones \cup ExternalIds
Policy == [Sides -> Zones \cup {None}]
Body == [Sides -> Named \cup {None, Keep}]
NoSide == [s \in Sides |-> None]
Ids == Policies \cup Zones

StagedMutation ==
    [op : {"create"}, body : [Sides -> Named \cup {None}]]
    \cup [op : {"update"}, id : Policies, body : Body]
    \cup [op : {"update"}, id : Zones, body : {NoSide}]
    \cup [op : {"delete"}, id : Ids]
    \cup [op : {"restore"}]

ASSUME ZoneAssumption ==
    /\ \A p \in Plans : p \in Seq(StagedMutation)
    /\ ExternalOf \in [Zones -> ExternalIds]
    /\ Starts \subseteq [zones : SUBSET Zones, policies : [Policies -> Policy \cup {None}]]
    /\ \A start \in Starts, p \in Policies : start.policies[p] # None =>
         \A s \in Sides : start.policies[p][s] \in start.zones \cup {None}
    /\ PageSize \in Nat \ {0} /\ MaxDrifts \in [Plans -> Nat]
    /\ Zones \cap ExternalIds = {} /\ Policies \cap Zones = {}
    /\ None \notin Named /\ Keep \notin Named \cup {None}

VARIABLES
    plan, pre,   \* the staged change set and the policies as captured
    zones,       \* the controller: zones and policies
    policies,
    made,        \* policies the apply created
    check,       \* where unifi_validate_change_set is, or its verdict
    pc, n,       \* where apply_sequentially is
    fault,       \* why the apply ended
    seen,        \* the zones validation was shown
    whole,       \* history: those were all
    trusted,     \* history: the verdict was reached before the apply began, and
                 \* no zone came or went since
    drifts,
    meddled      \* history: others changed something since the apply began

controller == <<zones, policies, made>>
validation == <<check, seen, whole, trusted>>
apply == <<pc, n, fault>>
vars == <<plan, pre, controller, validation, apply, drifts, meddled>>

Names(resource, zs) == \E s \in Sides : resource[s] \in zs

\* Ids the plan addresses.
Touched == {plan[m].id : m \in {m \in DOMAIN plan : plan[m].op \in {"update", "delete"}}}

TypeOK ==
    /\ plan \in Plans /\ pre \in [Policies -> Policy \cup {None}]
    /\ zones \subseteq Zones /\ policies \in [Policies -> Policy \cup {None}]
    /\ made \subseteq Policy
    /\ check \in {"none", "listing", "valid", "conflict", "missing"}
    /\ seen \subseteq Zones /\ {whole, trusted} \subseteq BOOLEAN
    /\ pc \in {"staged", "applying", "returned"} /\ n \in 1 .. Len(plan) + 1
    /\ fault \in {"none", "stale", "reference", "untouched", "gone", "other"}
    /\ drifts \in 0 .. MaxDrifts[plan] /\ meddled \in BOOLEAN

\* A plan is staged when everything it addresses was captured.
Init ==
    /\ plan \in Plans
    /\ \E start \in Starts : zones = start.zones /\ pre = start.policies
    /\ policies = pre /\ made = {}
    /\ \A id \in Touched : IF id \in Zones THEN id \in zones ELSE pre[id] # None
    /\ check = "none" /\ seen = {} /\ whole = FALSE /\ trusted = FALSE
    /\ pc = "staged" /\ n = 1 /\ fault = "none"
    /\ drifts = 0 /\ meddled = FALSE

-----------------------------------------------------------------------------
(* The check                                                                *)

\* Whole top-level keys replace those of the base.
Overlay(base, fragment) ==
    [s \in Sides |-> IF fragment[s] = Keep THEN base[s] ELSE fragment[s]]

\* referenced_zone_ids
Referenced(mutations) ==
    (UNION {{mutations[m].body[s] : s \in Sides} :
              m \in {m \in DOMAIN mutations : mutations[m].op \in {"create", "update"}}})
    \ {None, Keep}

ZonesDeletedBy(mutations) ==
    {mutations[m].id : m \in {m \in DOMAIN mutations : mutations[m].op = "delete"}} \cap Zones

\* Mutant: every update is projected from the pre-image.
ProjectedAlone(w, mutation) ==
    Overlay(IF mutation.id \in Policies THEN pre[mutation.id] ELSE NoSide, mutation.body)

\* An update lands on what the mutations before it left, or on nothing.
Projected(w, mutation) ==
    Overlay(IF w.live[mutation.id] = None THEN NoSide ELSE w.live[mutation.id],
            mutation.body)

\* Mutant: only what the set itself wrote blocks the delete of a zone.
BlockersWritten(w) == w.created

\* What a zone delete is held against: the live resources and the created ones.
Blockers(w) == ({w.live[id] : id \in Ids} \ {None}) \cup w.created

\* One step of the walk of check_zone_deletions: w is what the set has done so far.
Walk(w, mutation) ==
    CASE mutation.op = "create" ->
           [w EXCEPT !.created = @ \cup {mutation.body},
                     !.ok = @ /\ ~Names(mutation.body, w.deleted)]
      [] mutation.op = "update" ->
           [w EXCEPT !.live[mutation.id] = Projected(w, mutation),
                     !.ok = @ /\ ~Names(Projected(w, mutation), w.deleted)]
      [] mutation.op = "delete" /\ mutation.id \in Zones ->
           [w EXCEPT !.deleted = @ \cup {mutation.id},
                     !.ok = @ /\ \A r \in Blockers(w) : ~Names(r, {mutation.id})]
      [] mutation.op = "delete" /\ mutation.id \in Policies ->
           [w EXCEPT !.live[mutation.id] = None]
      [] OTHER -> w

\* The live state of every policy the set addresses by id.
Seeded == [id \in Ids |-> IF id \in Touched \cap Policies THEN pre[id] ELSE None]

\* What each prefix of the mutations has done.
Walked(mutations, seeded) ==
    LET After[m \in 0 .. Len(mutations)] ==
            IF m = 0 THEN [live |-> seeded, created |-> {}, deleted |-> {}, ok |-> TRUE]
            ELSE Walk(After[m - 1], mutations[m])
    IN After

CheckZoneDeletions ==
    ZonesDeletedBy(plan) # {} => Walked(plan, Seeded)[Len(plan)].ok

\* ZoneIndex::resolve; an external id is refused with the id to use instead.
Resolve(identifier) ==
    IF identifier \in seen' THEN "Known"
    ELSE IF \E z \in seen' : ExternalOf[z] = identifier THEN "ExternalId"
    ELSE "Absent"

\* check_zone_references
CheckZoneReferences == \A z \in Referenced(plan) : Resolve(z) = "Known"

\* The handler up to the zone list, which it reads only when a body names a zone.
Validate ==
    /\ check = "none"
    /\ check' = IF ~CheckZoneDeletions THEN "conflict"
                ELSE IF Referenced(plan) = {} THEN "valid" ELSE "listing"
    /\ trusted' = (check' = "valid" /\ pc = "staged")
    /\ UNCHANGED <<plan, pre, controller, seen, whole, apply, drifts, meddled>>

\* The first page of the zone list, and the verdict.
ValidateReferences ==
    /\ check = "listing"
    /\ seen' \in {zs \in SUBSET zones : zs = zones \/ Cardinality(zs) = PageSize}
    /\ Cardinality(seen') <= PageSize
    /\ whole' = (seen' = zones)
    /\ check' = IF CheckZoneReferences THEN "valid" ELSE "missing"
    /\ trusted' = (pc = "staged")
    /\ UNCHANGED <<plan, pre, controller, apply, drifts, meddled>>

-----------------------------------------------------------------------------
(* The apply                                                                *)

\* preimage_matches
ApplyBegin ==
    /\ pc = "staged"
    /\ \/ /\ \A id \in Touched : IF id \in Zones THEN id \in zones ELSE policies[id] = pre[id]
          /\ pc' = "applying" /\ UNCHANGED fault
       \/ /\ \E id \in Touched : IF id \in Zones THEN id \notin zones ELSE policies[id] # pre[id]
          /\ pc' = "returned" /\ fault' = "stale"
    /\ UNCHANGED <<plan, pre, controller, validation, n, drifts, meddled>>

Ends(why) == pc' = "returned" /\ fault' = why /\ UNCHANGED <<controller, n>>
Advances == n' = n + 1 /\ UNCHANGED <<pc, fault>>

\* What the controller accepts as a policy.
Resolvable(policy) == \A s \in Sides : policy[s] \in zones \cup {None}

CreatePolicy(mutation) ==
    \/ /\ Resolvable(mutation.body)
       /\ made' = made \cup {mutation.body} /\ UNCHANGED <<zones, policies>> /\ Advances
    \/ ~Resolvable(mutation.body) /\ Ends("reference")

\* Fetch, overlay and PUT.
UpdatePolicy(mutation) ==
    LET id == mutation.id
    IN \/ /\ policies[id] # None /\ Resolvable(Overlay(policies[id], mutation.body))
          /\ policies' = [policies EXCEPT ![id] = Overlay(@, mutation.body)]
          /\ UNCHANGED <<zones, made>> /\ Advances
       \/ /\ policies[id] # None /\ ~Resolvable(Overlay(policies[id], mutation.body))
          /\ Ends("reference")
       \/ policies[id] = None /\ Ends("gone")

UpdateZone(mutation) ==
    IF mutation.id \in zones THEN UNCHANGED controller /\ Advances ELSE Ends("gone")

DeletePolicy(mutation) ==
    \/ /\ policies[mutation.id] # None
       /\ policies' = [policies EXCEPT ![mutation.id] = None]
       /\ UNCHANGED <<zones, made>> /\ Advances
    \/ policies[mutation.id] = None /\ Ends("gone")

\* Policies that hold on to a zone: those the set touches or made, and others.
OwnUsers(z) ==
    \/ \E r \in made : Names(r, {z})
    \/ \E p \in Policies \cap Touched : policies[p] # None /\ Names(policies[p], {z})
OtherUsers(z) ==
    \E p \in Policies \ Touched : policies[p] # None /\ Names(policies[p], {z})

DeleteZone(mutation) ==
    LET z == mutation.id
    IN \/ z \notin zones /\ Ends("gone")
       \/ z \in zones /\ OwnUsers(z) /\ Ends("reference")
       \/ z \in zones /\ ~OwnUsers(z) /\ OtherUsers(z) /\ Ends("untouched")
       \/ /\ z \in zones /\ ~OwnUsers(z) /\ ~OtherUsers(z)
          /\ zones' = zones \ {z} /\ UNCHANGED <<policies, made>> /\ Advances

\* The next mutation, which may also fail for a reason of its own; what is
\* rolled back then is the subject of SequentialApply.
ApplyOne ==
    /\ pc = "applying" /\ n <= Len(plan)
    /\ LET mutation == plan[n]
       IN \/ mutation.op = "create" /\ CreatePolicy(mutation)
          \/ mutation.op = "update" /\ mutation.id \in Policies /\ UpdatePolicy(mutation)
          \/ mutation.op = "update" /\ mutation.id \in Zones /\ UpdateZone(mutation)
          \/ mutation.op = "delete" /\ mutation.id \in Policies /\ DeletePolicy(mutation)
          \/ mutation.op = "delete" /\ mutation.id \in Zones /\ DeleteZone(mutation)
          \/ Ends("other")
    /\ UNCHANGED <<plan, pre, validation, drifts, meddled>>

ApplyDone ==
    /\ pc = "applying" /\ n = Len(plan) + 1
    /\ pc' = "returned"
    /\ UNCHANGED <<plan, pre, controller, validation, n, fault, drifts, meddled>>

-----------------------------------------------------------------------------
\* Another administrator moves, removes or restores a policy, or adds or
\* removes a zone, within the same rules.
Drift ==
    /\ drifts < MaxDrifts[plan] /\ drifts' = drifts + 1
    /\ \/ /\ \E p \in Policies, r \in Policy \cup {None} :
               /\ r # policies[p] /\ r # None => Resolvable(r)
               /\ policies' = [policies EXCEPT ![p] = r]
          /\ UNCHANGED <<zones, trusted>>
       \/ /\ \E z \in Zones :
               zones' = IF z \in zones /\ ~OwnUsers(z) /\ ~OtherUsers(z)
                        THEN zones \ {z} ELSE zones \cup {z}
          /\ zones' # zones
          /\ trusted' = FALSE /\ UNCHANGED policies
    /\ meddled' = (meddled \/ pc = "applying")
    /\ UNCHANGED <<plan, pre, made, check, seen, whole, apply>>

Next == Validate \/ ValidateReferences \/ ApplyBegin \/ ApplyOne \/ ApplyDone \/ Drift

Spec == Init /\ [][Next]_vars

-----------------------------------------------------------------------------
\* A change set found valid is not stopped half way by a zone: if no zone came
\* or went since and nobody interferes with the apply, no write names a zone
\* that is not there and no zone is deleted that the set's own resources hold.
\* Policies others moved before the apply are caught by its pre-image check.
ValidSetRuns == check = "valid" /\ trusted /\ ~meddled => fault # "reference"

\* A change set is refused for a reason: one with contradicting deletions never
\* applies to the end undisturbed, nor one with missing references -- as long as
\* the zone list was not cut to its first page.
RefusedSetFails ==
    /\ pc = "returned" /\ ~meddled
    /\ check = "conflict" \/ (check = "missing" /\ trusted /\ whole)
    => fault # "none"
=============================================================================
