---------------------------- MODULE TokenCommands ----------------------------
(* `rustunifimcp token ...`: processes of their own that edit the token store *)
(* and leave an audit record of it.  A command is validated, looks whether its*)
(* token is there (PendingTokenAudit::describe), runs, and emits its record   *)
(* after it ran, so another command may run in between.  The edit and the     *)
(* signal to the server are mecmcp_runtime's; what the server does with the   *)
(* signal is in ServerStart.                                                  *)
EXTENDS Naturals

CONSTANTS
    Commands,    \* commands run, at once or one after the other
    Names,       \* names of tokens
    None

\* `combined`: the tools asked for hold both change-set control tools; `waived`:
\* --allow-self-approval.
Request ==
    [op : {"add", "revoke", "rotate", "set-scope", "list"}, name : Names,
     combined : BOOLEAN, waived : BOOLEAN]

ASSUME TokenAssumption ==
    /\ None \notin BOOLEAN
    /\ None \notin {"live", "told", "gone", "succeeded", "no_op", "failed"}

VARIABLES
    store,     \* the token file: the names in it, whether it parses, its version
    command

TokenStore == [names : SUBSET Names, sound : BOOLEAN, version : Nat]

\* A command.  `pid` is the server it names, running, told or gone; `existed` what
\* describe found.  History: whether it changed the store and which version it
\* wrote, and whether nothing came between what it looked at and what it did.
Command ==
    [req : Request, pid : {None, "live", "told", "gone"},
     pc : {"described", "written", "ran", "died", "done"},
     existed : BOOLEAN \cup {None}, failed : BOOLEAN,
     record : {None, "succeeded", "no_op", "failed"},
     changed : BOOLEAN, wrote : Nat, undisturbed : BOOLEAN]

TokensTyped ==
    /\ store \in TokenStore
    /\ command \in [Commands -> Command \cup {None}]

\* validate_token_command: only what a command mints or gives is looked at.
Validated(req) ==
    req.op \in {"add", "set-scope"} /\ req.combined => req.waived

\* token_name_present; a mint does not ask, and an unreadable store is unknown.
Existed(req) ==
    IF req.op = "add" \/ ~store.sound THEN None ELSE req.name \in store.names

\* The command up to the description of its record; a refused one leaves nothing.
Describe(k, req, pid) ==
    /\ command[k] = None /\ Validated(req)
    /\ command' = [command EXCEPT ![k] =
          [req |-> req, pid |-> pid, pc |-> "described", existed |-> Existed(req),
           failed |-> FALSE, record |-> None, changed |-> FALSE, wrote |-> 0,
           undisturbed |-> TRUE]]
    /\ UNCHANGED store

\* The names after an edit; revoking, rotating or changing a token that is not
\* there changes nothing and succeeds.
Edited(req) ==
    CASE req.op = "add" -> store.names \cup {req.name}
      [] req.op = "revoke" -> store.names \ {req.name}
      [] OTHER -> store.names

Edits(req) ==
    /\ req.op # "list"
    /\ (req.op = "add") = (req.name \notin store.names)

\* run_with_grant: the edit, which may fail, and adding a name twice does.
Run(k) ==
    /\ command[k] # None /\ command[k].pc = "described"
    /\ LET c == command[k]
       IN \/ /\ command' = [command EXCEPT ![k].failed = TRUE, ![k].pc = "ran"]
             /\ UNCHANGED store
          \/ /\ store.sound /\ ~Edits(c.req) /\ c.req.op # "add"
             /\ command' = [command EXCEPT ![k].pc = "ran"]
             /\ UNCHANGED store
          \/ /\ store.sound /\ Edits(c.req)
             /\ store' = [store EXCEPT !.names = Edited(c.req), !.version = @ + 1]
             /\ command' =
                  [j \in Commands |->
                     IF j = k THEN [c EXCEPT !.pc = IF c.pid = None THEN "ran" ELSE "written",
                                             !.changed = TRUE, !.wrote = store'.version]
                     ELSE IF command[j] = None THEN None
                     ELSE [command[j] EXCEPT !.undisturbed =
                             @ /\ (command[j].pc = "described" =>
                                     command[j].req.name # c.req.name)]]

\* The signal could not be sent, which the runtime may call a failure.
Unheard(k) ==
    /\ command[k] # None /\ command[k].pc = "written" /\ command[k].pid = "gone"
    /\ \E failed \in BOOLEAN :
         command' = [command EXCEPT ![k].pc = "ran", ![k].failed = failed,
                                    ![k].undisturbed = FALSE]
    /\ UNCHANGED store

\* Mutant: what returned Ok has changed the store.
SuccessOutcomeWordBlind(c) == "succeeded"

\* success_outcome_word.
SuccessOutcomeWord(c) == IF c.existed = FALSE THEN "no_op" ELSE "succeeded"

\* emit, of a command that has something to attest to.
Emit(k) ==
    /\ command[k] # None /\ command[k].pc = "ran"
    /\ LET c == command[k]
           record == IF c.req.op = "list" THEN None
                     ELSE IF c.failed THEN "failed" ELSE SuccessOutcomeWord(c)
       IN command' = [command EXCEPT ![k].record = record, ![k].pc = "done"]
    /\ UNCHANGED store

\* The command is interrupted: what it wrote stays, without a record.
Interrupt(k) ==
    /\ command[k] # None /\ command[k].pc \in {"described", "written", "ran"}
    /\ command' = [command EXCEPT ![k].pc = "died"]
    /\ UNCHANGED store

-----------------------------------------------------------------------------
\* The record of a command says what became of the store: it "succeeded" exactly
\* if it changed it, which Ok alone does not mean, "no_op" and "failed" only if it
\* did not; for commands that no other edit of their token came between, and whose
\* server could be told.
TrailTrue ==
    \A k \in Commands :
        command[k] # None /\ command[k].record # None /\ command[k].undisturbed =>
            (command[k].record = "succeeded") = command[k].changed
=============================================================================
