------------------------------ MODULE ChangeSet ------------------------------
(***************************************************************************)
(* What a change set promises its operators, whatever handlers, locks,     *)
(* clocks, drafts and restarts implement it: a plan is proposed once,      *)
(* consented to by somebody entitled to, spent once, and reaches at most   *)
(* one outcome.  ChangeSetLifecycle is shown to implement it.              *)
(***************************************************************************)
EXTENDS Naturals

CONSTANTS
    Ids,            \* change-set ids
    Digest,         \* plan digests, records with an owner
    Principals,     \* who may consent
    LabMode,        \* whether an owner's waiver counts as consent
    Durable,        \* whether a stored change set survives a restart
    None

VARIABLE life       \* the life of each change set so far

\* Where a change set is: not stored, then the states of the record.  consent
\* is the second principal or the string "waiver"; runs counts the times an
\* apply of its plan was admitted.
Nothing(runs) == [phase |-> "Absent", digest |-> None, consent |-> None,
                  runs |-> runs]

Init == life = [i \in Ids |-> Nothing(0)]

Propose(a, b) ==
    /\ a = Nothing(0)
    /\ \E d \in Digest : b = [a EXCEPT !.phase = "Planned", !.digest = d]

Consent(a, b) ==
    /\ a.phase = "Planned"
    /\ \/ \E p \in Principals \ {a.digest.owner} :
            b = [a EXCEPT !.phase = "Approved", !.consent = p]
       \/ LabMode /\ b = [a EXCEPT !.phase = "Approved", !.consent = "waiver"]

Expire(a, b) ==
    /\ a.phase \in {"Planned", "Approved"}
    /\ b = [a EXCEPT !.phase = "Expired"]

Spend(a, b) ==
    /\ a.phase = "Approved"
    /\ b = [a EXCEPT !.phase = "Applying"]

Run(a, b) ==
    /\ a.phase = "Applying" /\ a.runs = 0
    /\ b = [a EXCEPT !.runs = 1]

Conclude(a, b) ==
    /\ a.phase = "Applying"
    /\ \/ a.runs = 1 /\ b = [a EXCEPT !.phase = "Applied"]
       \/ b = [a EXCEPT !.phase = "Failed"]

Lose(a, b) == ~Durable /\ b = Nothing(a.runs)

Step(a, b) ==
    \/ Propose(a, b) \/ Consent(a, b) \/ Expire(a, b) \/ Spend(a, b)
    \/ Run(a, b) \/ Conclude(a, b) \/ Lose(a, b)

\* Several change sets may move at once: a sweep expires all that have lapsed,
\* a restart without a state file loses all of them.
Next ==
    /\ life' = [i \in Ids |-> life'[i]]
    /\ \A i \in Ids : life'[i] = life[i] \/ Step(life[i], life'[i])

Spec == Init /\ [][Next]_life
=============================================================================
