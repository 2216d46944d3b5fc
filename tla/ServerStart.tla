----------------------------- MODULE ServerStart -----------------------------
(* A deployment: the server process, started again and again by systemd over  *)
(* the files it keeps, and the token commands run beside it.  A start is a    *)
(* sequence of stages, in the order of run_inner; each may refuse, a crash may*)
(* come between any two, and a SIGHUP before the handler is installed ends the*)
(* process, which systemd counts as a clean end.                              *)
EXTENDS TokenCommands

CONSTANTS
    Sets,        \* change sets
    Worlds       \* deployments, what operators make of them, and, as bounds, how
                 \* often they do and how often a process crashes

\* The stages a start may be refused at for what operators configured: arguments,
\* the audit key and sink, the inventory, the evidence pipeline, the digest key, a
\* state file that cannot be removed, a client, the listener.
Checked == {"arguments", "audit key", "audit", "inventory", "evidence", "digest key",
            "discard", "clients", "listener"}
Stages == Checked \cup {"write key", "read state", "legacy", "load", "tokens", "handler"}

\* Keys of approval digests; None is the unkeyed digest.
Keys == {"old", "new"}
Config == [transport : {"stdio", "http"}, faults : SUBSET Checked, key : Keys \cup {None}]

\* A state file: not configured or absent; whitespace, and more of it than is
\* looked at; the empty map and the map of the store before; something that is
\* neither; a store, with the key its approvals are signed with.  `exposed`: the
\* hardened reader refuses it.  Only the two stores hold change sets.
StateFile ==
    {f \in [shape : {"none", "absent", "blank", "padding", "empty map", "legacy",
                     "foreign", "store"},
            exposed : BOOLEAN, sets : SUBSET Sets, sealed : Keys \cup {None}] :
       f.sets # {} => f.shape \in {"legacy", "store"}}
Absent == [shape |-> "absent", exposed |-> FALSE, sets |-> {}, sealed |-> None]

ASSUME StartAssumption ==
    /\ Worlds \subseteq [config : Config, stateFile : StateFile, sound : BOOLEAN,
                         names : SUBSET Names, requests : SUBSET Request,
                         crashes : Nat, edits : Nat]
    /\ None \notin BOOLEAN \cup StateFile

VARIABLES
    config, stateFile, requests,
    keyFile,   \* the audit HMAC key; 0 when the file is absent or empty
    pc,        \* "down", which systemd restarts, "stopped", a stage, or "serving"
    contents,  \* what the start read of the state file
    memory,    \* the change sets the process holds
    loaded,    \* version of the token store it holds
    hup,       \* a SIGHUP is to be handled
    crashes,   \* those to come
    edits,     \* edits the operator has left
    saved,     \* history: the change sets operators and servers put into the file
    signed     \* history: the keys audit records were signed with

files == <<config, stateFile, keyFile, saved, signed>>
bounds == <<requests, crashes, edits>>
process == <<contents, memory, loaded, hup>>
vars == <<store, command, files, bounds, pc, process>>

TypeOK ==
    /\ TokensTyped
    /\ config \in Config /\ stateFile \in StateFile /\ requests \in SUBSET Request
    /\ keyFile \in Nat /\ signed \subseteq Nat
    /\ pc \in Stages \cup {"down", "stopped", "serving"}
    /\ contents \in StateFile \cup {None}
    /\ memory \in SUBSET Sets /\ saved \in SUBSET Sets
    /\ loaded \in Nat
    /\ hup \in BOOLEAN /\ (hup => pc \in {"listener", "serving"})
    /\ crashes \in Nat /\ edits \in Nat

Init ==
    /\ \E w \in Worlds :
         /\ config = w.config /\ stateFile = w.stateFile /\ requests = w.requests
         /\ crashes = w.crashes /\ edits = w.edits
         /\ store = [names |-> w.names, sound |-> w.sound, version |-> 0]
         /\ saved = w.stateFile.sets
    /\ command = [k \in Commands |-> None]
    /\ keyFile = 0 /\ signed = {} /\ pc = "down"
    /\ contents = None /\ memory = {} /\ loaded = 0 /\ hup = FALSE

-----------------------------------------------------------------------------
(* The process                                                              *)

\* The commands that name a process that ended, or told it something.
Orphaned ==
    [k \in Commands |->
       IF command[k] = None \/ command[k].pid = None THEN command[k]
       ELSE [command[k] EXCEPT !.pid = "gone"]]

\* The process is over; what it did not save is lost.
Ends(next) ==
    /\ pc' = next /\ contents' = None /\ memory' = {} /\ loaded' = 0 /\ hup' = FALSE
    /\ command' = Orphaned /\ UNCHANGED store

Enters(next) == pc' = next /\ UNCHANGED <<store, command>>

\* An error of main: exit 1, which systemd restarts.
Refused == Ends("down")

\* A stage that changes nothing.
Check(stage, next) ==
    /\ pc = stage
    /\ \/ stage \notin config.faults /\ Enters(next) /\ UNCHANGED process
       \/ stage \in config.faults /\ Refused
    /\ UNCHANGED <<files, bounds>>

\* systemd, after RestartSec, or the operator.
Launch ==
    /\ pc = "down" /\ Enters("arguments")
    /\ UNCHANGED <<files, bounds, process>>
Start ==
    /\ pc = "stopped" /\ Enters("arguments")
    /\ UNCHANGED <<files, bounds, process>>

Crash ==
    /\ pc \in Stages \cup {"serving"} /\ crashes > 0 /\ crashes' = crashes - 1
    /\ Refused
    /\ UNCHANGED <<files, requests, edits>>

\* The operator reconfigures a server that is not running, moves its state file
\* aside, restores one, or corrects its mode.
Operate ==
    /\ pc \in {"down", "stopped"} /\ edits > 0 /\ edits' = edits - 1
    /\ \E w \in Worlds :
         /\ \/ config' = w.config /\ UNCHANGED <<stateFile, saved>>
            \/ stateFile' = w.stateFile /\ saved' = w.stateFile.sets /\ UNCHANGED config
    /\ UNCHANGED <<store, command, keyFile, signed, requests, crashes, pc, process>>

-----------------------------------------------------------------------------
(* The stages, in order                                                     *)

\* The command line, and cli_validate before any file is opened.
Arguments == Check("arguments", "audit key")

\* Mutant: every start provisions a key.
KeyAnew == FALSE

\* A key file that is not empty is never rotated.
KeyPresent == keyFile # 0

\* ensure_audit_hmac_key: an empty file, which a crash before the write leaves,
\* counts as none.
EnsureAuditHmacKey ==
    /\ pc = "audit key"
    /\ \/ "audit key" \in config.faults /\ ~KeyPresent /\ Refused
       \/ "audit key" \notin config.faults /\ ~KeyPresent /\ Enters("write key") /\ UNCHANGED process
       \/ KeyPresent /\ Enters("audit") /\ UNCHANGED process
    /\ UNCHANGED <<files, bounds>>
WriteKey ==
    /\ pc = "write key" /\ Enters("audit") /\ keyFile' = keyFile + 1
    /\ UNCHANGED <<config, stateFile, saved, signed, bounds, process>>

\* init_audit: redaction, no otel, the audit file; records are signed from here on.
InitAudit ==
    /\ pc = "audit"
    /\ \/ "audit" \in config.faults /\ Refused /\ UNCHANGED signed
       \/ /\ "audit" \notin config.faults /\ Enters("inventory") /\ UNCHANGED process
          /\ signed' = signed \cup {keyFile}
    /\ UNCHANGED <<config, stateFile, keyFile, saved, bounds>>

LoadRegistry == Check("inventory", "evidence")
StartEvidence == Check("evidence", "digest key")
LoadApprovalDigestKey == Check("digest key", "read state")

\* read_state_file: an unreadable file is left to load to complain about.
ReadStateFile ==
    /\ pc = "read state" /\ Enters("discard")
    /\ contents' = IF stateFile.shape \in {"none", "absent"} \/ stateFile.exposed
                   THEN None ELSE stateFile
    /\ UNCHANGED <<files, bounds, memory, loaded, hup>>

\* Mutant: a map without a version is one of the store before, and goes.
HoldsNothingVersioned(file) == file.shape \in {"blank", "empty map", "legacy"}

\* Whitespace of at most MAX_BLANK_STATE_BYTES, or the empty map.
HoldsNothing(file) == file.shape \in {"blank", "empty map"}

\* Mutant: what holds nothing is left where it is.
DiscardBlankKeeps == pc = "discard" /\ Check("discard", "legacy")

\* discard_blank_state_file.
DiscardBlank ==
    /\ pc = "discard"
    /\ \/ contents = None /\ Enters("legacy") /\ UNCHANGED <<stateFile, process>>
       \/ /\ contents # None
          /\ \/ ~HoldsNothing(contents) /\ Enters("legacy") /\ UNCHANGED <<stateFile, process>>
             \/ /\ HoldsNothing(contents) /\ "discard" \notin config.faults
                /\ stateFile' = Absent /\ Enters("legacy") /\ UNCHANGED process
             \/ /\ HoldsNothing(contents) /\ "discard" \in config.faults
                /\ Refused /\ UNCHANGED stateFile
    /\ UNCHANGED <<config, keyFile, saved, signed, bounds>>

\* refuse_legacy_state_file: records are refused by name, never converted.
RefuseLegacy ==
    /\ pc = "legacy"
    /\ IF contents # None /\ contents.shape = "legacy" THEN Refused
       ELSE Enters("load") /\ UNCHANGED process
    /\ UNCHANGED <<files, bounds>>

\* Mutant: what the reader refuses is no state.
LoadsUnread(file) ==
    \/ file.shape \in {"none", "absent"} \/ file.exposed
    \/ file.shape = "store" /\ file.sealed \in {None, config.key}

\* Mutant: with a key configured, a store that was sealed with none is refused.
LoadsSealed(file) ==
    \/ file.shape \in {"none", "absent"}
    \/ file.shape = "store" /\ ~file.exposed /\ file.sealed = config.key

\* load_with_key: nothing, or a store it may read and whose digests verify.
Loads(file) ==
    \/ file.shape \in {"none", "absent"}
    \/ file.shape = "store" /\ ~file.exposed /\ file.sealed \in {None, config.key}

\* What the coordinator makes of a file it may read.
Understood(file) == IF file.exposed THEN {} ELSE file.sets

Load ==
    /\ pc = "load"
    /\ \/ /\ Loads(stateFile) /\ Enters("clients")
          /\ memory' = Understood(stateFile) /\ contents' = None /\ UNCHANGED <<loaded, hup>>
       \/ ~Loads(stateFile) /\ Refused
    /\ UNCHANGED <<files, bounds>>

\* UnifiServer::new: every client of the inventory is built.
NewServer == Check("clients", IF config.transport = "http" THEN "tokens" ELSE "handler")

\* serve_http: the token store, then the handler of SIGHUP, then the listener
\* (limits, router, address, TLS, bind); over stdio only the handler.
LoadTokens ==
    /\ pc = "tokens"
    /\ \/ /\ store.sound /\ Enters("handler")
          /\ loaded' = store.version /\ UNCHANGED <<contents, memory, hup>>
       \/ ~store.sound /\ Refused
    /\ UNCHANGED <<files, bounds>>
InstallHandler ==
    /\ pc = "handler"
    /\ Enters(IF config.transport = "http" THEN "listener" ELSE "serving")
    /\ UNCHANGED <<files, bounds, process>>
Listen == Check("listener", "serving")

-----------------------------------------------------------------------------
(* The server                                                               *)

\* The coordinator persists a change set, and signs approvals with its key.
Save ==
    /\ pc = "serving"
    /\ \E s \in Sets \ memory : memory' = memory \cup {s}
    /\ IF stateFile.shape = "none" THEN UNCHANGED <<stateFile, saved>>
       ELSE /\ \E sealed \in {stateFile.sealed, config.key} :
                 stateFile' = [shape |-> "store", exposed |-> stateFile.exposed,
                               sets |-> memory', sealed |-> sealed]
            /\ saved' = saved \cup memory'
    /\ Enters(pc)
    /\ UNCHANGED <<config, keyFile, signed, bounds, contents, loaded, hup>>

\* Mutant: as over stdio, the handler was not given the token store.
SighupReloadNoTokens ==
    /\ hup /\ hup' = FALSE /\ Enters(pc)
    /\ UNCHANGED <<files, bounds, contents, memory, loaded>>

\* perform_sighup_reload, of the token store.
SighupReload ==
    /\ hup /\ hup' = FALSE /\ Enters(pc)
    /\ loaded' = IF config.transport = "http" /\ store.sound THEN store.version ELSE loaded
    /\ UNCHANGED <<files, bounds, contents, memory>>

\* Serving ends: the evidence is flushed either way; an error is exit 1.
Stop ==
    /\ pc = "serving"
    /\ Ends("stopped") \/ Ends("down")
    /\ UNCHANGED <<files, bounds>>

-----------------------------------------------------------------------------
(* The commands                                                             *)

Alive == pc \notin {"down", "stopped"}

\* A command names no server, or the one that runs when it begins.
Issue(k) ==
    \/ \E req \in requests, pid \in {None, "live"} :
         (pid = "live" => Alive) /\ Describe(k, req, pid)
    \/ Run(k) \/ Unheard(k) \/ Emit(k) \/ Interrupt(k)

TokenCommand(k) == Issue(k) /\ UNCHANGED <<files, bounds, pc, process>>

\* SIGHUP to the pid the command names, which ends a process without a handler.
Signal(k) ==
    /\ command[k] # None /\ command[k].pc = "written" /\ command[k].pid = "live"
    /\ \/ /\ pc \in {"listener", "serving"} /\ hup' = TRUE
          /\ command' = [command EXCEPT ![k].pid = "told", ![k].pc = "ran"]
          /\ UNCHANGED <<store, pc, contents, memory, loaded>>
       \/ /\ pc \in Stages \ {"listener"}
          /\ pc' = "stopped" /\ contents' = None /\ memory' = {} /\ loaded' = 0
          /\ hup' = FALSE
          /\ command' = [Orphaned EXCEPT ![k].pc = "ran"]
          /\ UNCHANGED store
    /\ UNCHANGED <<files, bounds>>

-----------------------------------------------------------------------------
Stage ==
    \/ Arguments \/ EnsureAuditHmacKey \/ WriteKey \/ InitAudit \/ LoadRegistry
    \/ StartEvidence \/ LoadApprovalDigestKey \/ ReadStateFile \/ DiscardBlank
    \/ RefuseLegacy \/ Load \/ NewServer \/ LoadTokens \/ InstallHandler \/ Listen

Next ==
    \/ Launch \/ Start \/ Crash \/ Operate \/ Stage
    \/ Save \/ SighupReload \/ Stop
    \/ \E k \in Commands : TokenCommand(k) \/ Signal(k)

Spec == Init /\ [][Next]_vars

\* systemd restarts what failed, and a start goes on.
FairSpec == Spec /\ WF_vars(Launch) /\ WF_vars(Stage)

-----------------------------------------------------------------------------
\* No start and no server loses a change set of the state file: a blank file is
\* discarded, and nothing that holds one is, whatever is wrong with it.
NothingDiscarded == stateFile.sets = saved

\* A server that serves holds every change set of its file: it never starts empty
\* over a file that it could not read or did not understand.
ServesWhatWasSaved ==
    pc = "serving" /\ stateFile.shape # "none" => memory = saved

\* The records of all starts are signed with the key that is still there: "a
\* non-empty file is never rotated", and an interrupted first write has signed
\* nothing.
OneAuditKey == signed \subseteq {keyFile} \ {0}

\* A server that a command told of its edit serves what the command wrote: an edit
\* that meets the start either is in the store the start reads or ends it.
ToldIsServed ==
    \A k \in Commands :
        command[k] # None /\ command[k].pid = "told" /\ ~hup
          /\ config.transport = "http" /\ store.sound =>
            loaded >= command[k].wrote

\* The deployment as its change sets see it.
Phase == IF pc \in {"down", "stopped"} THEN "down"
         ELSE IF pc = "serving" THEN "serving" ELSE "starting"
Held == IF pc = "serving" THEN memory ELSE {}

Durable == INSTANCE DurableStore WITH
              phase <- Phase, kept <- stateFile.shape # "none",
              stored <- stateFile.sets, held <- Held

\* The starts, the server and the state file implement a store that no crash,
\* refused start, signal or repair of what an interrupted start left behind takes
\* from or adds to, and a server comes up with all of it or not at all.
ImplementsStore == Durable!Spec

\* What only an operator can put right.
Unsound ==
    \/ config.faults # {}
    \/ config.transport = "http" /\ ~store.sound
    \/ stateFile.shape \in {"padding", "legacy", "foreign"}
    \/ stateFile.exposed /\ stateFile.shape \notin {"none", "absent"}
    \/ stateFile.sealed \notin {None, config.key}

\* The order of a start.
StageOrder ==
    <<"arguments", "audit key", "write key", "audit", "inventory", "evidence",
      "digest key", "read state", "discard", "legacy", "load", "clients", "tokens",
      "handler", "listener", "serving">>

Later(from, to) ==
    \E m, n \in 1 .. 16 : m < n /\ StageOrder[m] = from /\ StageOrder[n] = to

\* A start goes on or refuses, and refuses only what an operator has to put right:
\* no stage is gone back to, and what an interrupted start leaves behind, an empty
\* key file or a blank state file, never stops the next.
StartAdvances ==
    [][Stage => Later(pc, pc') \/ (pc' = "down" /\ Unsound)]_vars

\* A server that went down serves again, whatever was interrupted: an empty key
\* file and a blank state file are repaired.  Only a clean end stops it, of which a
\* SIGHUP during the start is one.
Recovers == []<>(pc \in {"serving", "stopped"} \/ Unsound)
=============================================================================
