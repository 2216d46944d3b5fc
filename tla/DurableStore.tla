---------------------------- MODULE DurableStore ----------------------------
(***************************************************************************)
(* What a deployment promises of its change sets, whatever files, stages,   *)
(* crashes and signals implement it: what a server stored, the next one     *)
(* serves.  Only a server that serves adds to the store, and only an        *)
(* operator, while none runs, changes it otherwise.  ServerStart is shown   *)
(* to implement it.                                                         *)
(***************************************************************************)
CONSTANT Sets       \* change sets

VARIABLES
    phase,      \* "down", "starting" or "serving"
    kept,       \* whether there is a store at all
    stored,     \* the change sets in it
    held        \* those the server has

vars == <<phase, kept, stored, held>>

Init ==
    /\ phase = "down" /\ held = {}
    /\ kept \in BOOLEAN /\ stored \in SUBSET Sets

\* The operator, while no process runs.
Restore ==
    /\ phase = "down"
    /\ kept' \in BOOLEAN /\ stored' \in SUBSET Sets
    /\ UNCHANGED <<phase, held>>

Begin == phase = "down" /\ phase' = "starting" /\ UNCHANGED <<kept, stored, held>>

\* A server that comes up has what is stored: no more and no less.
Serve ==
    /\ phase = "starting" /\ phase' = "serving"
    /\ held' = stored
    /\ UNCHANGED <<kept, stored>>

Save ==
    /\ phase = "serving"
    /\ \E s \in Sets \ held : held' = held \cup {s}
    /\ stored' = IF kept THEN held' ELSE stored
    /\ UNCHANGED <<phase, kept>>

\* A start is refused, a server stops, or either crashes.
End ==
    /\ phase # "down" /\ phase' = "down" /\ held' = {}
    /\ UNCHANGED <<kept, stored>>

Next == Restore \/ Begin \/ Serve \/ Save \/ End

Spec == Init /\ [][Next]_vars
=============================================================================
