---------------------------- MODULE MCServerStart ----------------------------
(* Instances of ServerStart for TLC. *)
EXTENDS ServerStart, TLC

CONSTANTS c1, c2, n1, s1

File(shape, exposed, sets, sealed) ==
    [shape |-> shape, exposed |-> exposed, sets |-> sets, sealed |-> sealed]

\* Every state file: each shape, readable or not, approvals under either key.
StateFiles ==
    {File(shape, exposed, {}, None) : exposed \in BOOLEAN,
        shape \in {"none", "absent", "blank", "padding", "empty map", "foreign"}}
    \cup {File("legacy", exposed, {s1}, None) : exposed \in BOOLEAN}
    \cup {File("store", exposed, sets, sealed) : exposed \in BOOLEAN,
             sets \in {{}, {s1}}, sealed \in {None, "old", "new"}}

World(transport, faults, key, file, sound, names, asked, n) ==
    [config |-> [transport |-> transport, faults |-> faults, key |-> key],
     stateFile |-> file, sound |-> sound, names |-> names, requests |-> asked, crashes |-> n, edits |-> n]

\* No commands, a crash and an edit: every file under every key, and every fault over some files.
Deployments ==
    {World(transport, {}, key, file, TRUE, {}, {}, 1) :
        transport \in {"stdio", "http"}, key \in {None, "old"}, file \in StateFiles}
    \cup {World("stdio", {fault}, None, file, TRUE, {}, {}, 1) : fault \in Checked,
             file \in {File("blank", FALSE, {}, None), File("store", FALSE, {s1}, None)}}

Ask(op, combined, waived) ==
    [op |-> op, name |-> n1, combined |-> combined, waived |-> waived]

\* Commands over a store with and without the token, readable or not; a change of
\* scope does to the store what a rotation does.
Asked == {Ask("add", TRUE, FALSE), Ask("add", TRUE, TRUE), Ask("revoke", FALSE, FALSE),
          Ask("rotate", FALSE, FALSE), Ask("list", FALSE, FALSE)}
Administered ==
    {World("http", {}, None, File("none", FALSE, {}, None), sound, names, Asked, 0) :
       sound \in BOOLEAN, names \in {{}, {n1}}}

Starts == Deployments \cup Administered
=============================================================================
