------------------------- MODULE ServerStart_proofs -------------------------
(***************************************************************************)
(* Proofs about the start of the server and the token commands, for every  *)
(* set of commands, tokens and change sets, every deployment, and any      *)
(* number of crashes and edits.                                            *)
(***************************************************************************)
EXTENDS ServerStart, TLAPS

ProcessTyped ==
    /\ pc \in Stages \cup {"down", "stopped", "serving"}
    /\ contents \in StateFile \cup {None}
    /\ memory \in SUBSET Sets
    /\ loaded \in Nat
    /\ hup \in BOOLEAN /\ (hup => pc \in {"listener", "serving"})

RestTyped ==
    /\ config \in Config /\ stateFile \in StateFile /\ requests \in SUBSET Request
    /\ keyFile \in Nat /\ signed \subseteq Nat
    /\ saved \in SUBSET Sets
    /\ crashes \in Nat /\ edits \in Nat

LEMMA TypeParts == TokensTyped' /\ ProcessTyped' /\ RestTyped' => TypeOK'
  BY DEF TypeOK, ProcessTyped, RestTyped

LEMMA AbsentTyped == Absent \in StateFile
  BY DEF Absent, StateFile

\* The actions that are not a token command's.
ServerStep ==
    \/ Launch \/ Start \/ Crash \/ Operate \/ Stage \/ Save \/ SighupReload \/ Stop

-----------------------------------------------------------------------------
(* Types                                                                    *)

LEMMA OrphanedTyped ==
    ASSUME TokensTyped
    PROVE  Orphaned \in [Commands -> Command \cup {None}]
<1> SUFFICES ASSUME NEW k \in Commands, command[k] # None
             PROVE  [command[k] EXCEPT !.pid = "gone"] \in Command
  BY DEF Orphaned, TokensTyped
<1>1. command[k] \in Command
  BY DEF TokensTyped
<1> QED
  BY <1>1 DEF Command

LEMMA EndsTyped ==
    ASSUME TypeOK, NEW next \in {"down", "stopped"}, Ends(next)
    PROVE  TokensTyped' /\ ProcessTyped'
  BY OrphanedTyped DEF TypeOK, Ends, TokensTyped, ProcessTyped

LEMMA EntersTyped ==
    ASSUME TypeOK, NEW next \in Stages \cup {"serving"}, Enters(next), UNCHANGED process,
           pc \notin {"listener", "serving"} \/ next \in {"listener", "serving"}
    PROVE  TokensTyped' /\ ProcessTyped'
  BY DEF TypeOK, Enters, TokensTyped, ProcessTyped, process

LEMMA KeptTyped ==
    ASSUME TypeOK, UNCHANGED <<files, bounds>> PROVE RestTyped'
  BY DEF TypeOK, RestTyped, files, bounds

LEMMA CheckTyped ==
    ASSUME TypeOK, NEW stage, NEW next \in Stages \cup {"serving"}, Check(stage, next),
           stage # "serving", stage = "listener" => next = "serving"
    PROVE  TypeOK'
<1>1. RestTyped'
  BY KeptTyped DEF Check
<1>2. CASE Refused
  BY <1>1, <1>2, EndsTyped, TypeParts DEF Refused
<1>3. CASE Enters(next) /\ UNCHANGED process
  BY <1>1, <1>3, EntersTyped, TypeParts DEF Check
<1> QED
  BY <1>2, <1>3 DEF Check

LEMMA InitTyped == Init => TypeOK
<1> SUFFICES ASSUME Init PROVE TypeOK
  OBVIOUS
<1>1. PICK w \in Worlds :
        /\ config = w.config /\ stateFile = w.stateFile /\ requests = w.requests
        /\ crashes = w.crashes /\ edits = w.edits
        /\ store = [names |-> w.names, sound |-> w.sound, version |-> 0]
        /\ saved = w.stateFile.sets
  BY DEF Init
<1>2. w \in [config : Config, stateFile : StateFile, sound : BOOLEAN,
             names : SUBSET Names, requests : SUBSET Request, crashes : Nat, edits : Nat]
  BY StartAssumption
<1>3. TokensTyped
  BY <1>1, <1>2 DEF Init, TokensTyped, TokenStore
<1>4. saved \in SUBSET Sets
  BY <1>1, <1>2 DEF StateFile
<1> QED
  BY <1>1, <1>2, <1>3, <1>4 DEF Init, TypeOK

LEMMA RunTyped ==
    ASSUME TokensTyped, NEW k \in Commands, Run(k)
    PROVE  TokensTyped'
<1>1. command[k] \in Command /\ command[k].req \in Request
  BY DEF Run, TokensTyped, Command
<1>2. store.version + 1 \in Nat /\ Edited(command[k].req) \in SUBSET Names
  BY <1>1 DEF TokensTyped, TokenStore, Edited, Request
<1>3. CASE UNCHANGED store
  <2>1. /\ [command[k] EXCEPT !.pc = "ran"] \in Command
        /\ [command[k] EXCEPT !.failed = TRUE, !.pc = "ran"] \in Command
    BY <1>1 DEF Command
  <2>2. \/ command' = [command EXCEPT ![k] = [command[k] EXCEPT !.pc = "ran"]]
        \/ command' = [command EXCEPT ![k] =
                         [command[k] EXCEPT !.failed = TRUE, !.pc = "ran"]]
        \/ store' = [store EXCEPT !.names = Edited(command[k].req), !.version = @ + 1]
    BY DEF Run, TokensTyped
  <2>3. store' # [store EXCEPT !.names = Edited(command[k].req), !.version = @ + 1]
    <3>1. [store EXCEPT !.names = Edited(command[k].req), !.version = @ + 1].version
            = store.version + 1
      BY DEF TokensTyped, TokenStore
    <3>2. store.version \in Nat /\ store'.version = store.version
      BY <1>3 DEF TokensTyped, TokenStore
    <3>3. store.version + 1 # store.version
      BY <3>2
    <3> QED
      BY <3>1, <3>2, <3>3, Zenon
  <2> QED
    BY <1>3, <2>1, <2>2, <2>3 DEF TokensTyped
<1>4. CASE store' = [store EXCEPT !.names = Edited(command[k].req), !.version = @ + 1]
  <2>1. store' \in TokenStore /\ store'.version \in Nat /\ store' # store
    <3>1. store' \in TokenStore
      <4>1. store' = [names |-> Edited(command[k].req), sound |-> store.sound,
                      version |-> store.version + 1]
        BY <1>4 DEF TokensTyped, TokenStore
      <4>2. store.sound \in BOOLEAN
        BY DEF TokensTyped, TokenStore
      <4> QED
        BY <1>2, <4>1, <4>2 DEF TokenStore
    <3>2. store'.version = store.version + 1 /\ store.version \in Nat
      BY <1>4 DEF TokensTyped, TokenStore
    <3> QED
      BY <3>1, <3>2
  <2>2. command' = [j \in Commands |->
           IF j = k THEN [command[k] EXCEPT !.pc = IF command[k].pid = None THEN "ran" ELSE "written",
                                   !.changed = TRUE, !.wrote = store'.version]
           ELSE IF command[j] = None THEN None
           ELSE [command[j] EXCEPT !.undisturbed =
                   @ /\ (command[j].pc = "described" =>
                           command[j].req.name # command[k].req.name)]]
    BY <2>1 DEF Run
  <2>3. [command[k] EXCEPT !.pc = IF command[k].pid = None THEN "ran" ELSE "written",
                           !.changed = TRUE, !.wrote = store'.version] \in Command
    BY <1>1, <2>1 DEF Command
  <2>4. ASSUME NEW j \in Commands, command[j] # None, NEW b \in BOOLEAN
        PROVE  [command[j] EXCEPT !.undisturbed = b] \in Command
    BY <2>4 DEF TokensTyped, Command
  <2>5. ASSUME NEW j \in Commands, command[j] # None
        PROVE  (command[j].undisturbed /\ (command[j].pc = "described" =>
                  command[j].req.name # command[k].req.name)) \in BOOLEAN
    OBVIOUS
  <2> QED
    BY <2>1, <2>2, <2>3, <2>4, <2>5 DEF TokensTyped
<1> QED
  BY <1>3, <1>4 DEF Run

\* A command stays one when its record, place or outcome changes.
LEMMA CommandStepTyped ==
    ASSUME TokensTyped, NEW k \in Commands,
           \/ \E req \in requests, pid \in {None, "live"} : Describe(k, req, pid)
           \/ Run(k) \/ Unheard(k) \/ Emit(k) \/ Interrupt(k),
           requests \in SUBSET Request
    PROVE  TokensTyped'
<1>1. CASE \E req \in requests, pid \in {None, "live"} : Describe(k, req, pid)
  <2>1. PICK req \in requests, pid \in {None, "live"} : Describe(k, req, pid)
    BY <1>1
  <2>2. req \in Request /\ Existed(req) \in BOOLEAN \cup {None}
    BY DEF Existed
  <2>3. [req |-> req, pid |-> pid, pc |-> "described", existed |-> Existed(req),
         failed |-> FALSE, record |-> None, changed |-> FALSE, wrote |-> 0,
         undisturbed |-> TRUE] \in Command
    BY <2>2 DEF Command
  <2> QED
    BY <2>1, <2>3 DEF Describe, TokensTyped
<1>2. CASE Run(k)
  BY <1>2, RunTyped
<1>3. CASE Unheard(k)
  <2>1. PICK failed \in BOOLEAN :
          command' = [command EXCEPT ![k].pc = "ran", ![k].failed = failed,
                                     ![k].undisturbed = FALSE]
    BY <1>3 DEF Unheard
  <2>2. command[k] \in Command
    BY <1>3 DEF Unheard, TokensTyped
  <2>3. [command[k] EXCEPT !.pc = "ran", !.failed = failed, !.undisturbed = FALSE] \in Command
    BY <2>2 DEF Command
  <2> QED
    BY <1>3, <2>1, <2>3 DEF Unheard, TokensTyped
<1>4. CASE Emit(k)
  <2>1. command[k] \in Command
    BY <1>4 DEF Emit, TokensTyped
  <2>2. ASSUME NEW record \in {None, "succeeded", "no_op", "failed"}
        PROVE  [command[k] EXCEPT !.record = record, !.pc = "done"] \in Command
    BY <2>1 DEF Command
  <2> QED
    BY <1>4, <2>2 DEF Emit, TokensTyped, SuccessOutcomeWord
<1>5. CASE Interrupt(k)
  <2>1. command[k] \in Command
    BY <1>5 DEF Interrupt, TokensTyped
  <2>2. [command[k] EXCEPT !.pc = "died"] \in Command
    BY <2>1 DEF Command
  <2> QED
    BY <1>5, <2>2 DEF Interrupt, TokensTyped
<1> QED
  BY <1>1, <1>2, <1>3, <1>4, <1>5

LEMMA SignalTyped ==
    ASSUME TypeOK, NEW k \in Commands, Signal(k)
    PROVE  TypeOK'
<1>1. command[k] \in Command
  BY DEF Signal, TypeOK, TokensTyped
<1>2. RestTyped'
  BY KeptTyped DEF Signal
<1>3. CASE pc \in {"listener", "serving"} /\ hup' = TRUE
  <2>1. [command[k] EXCEPT !.pid = "told", !.pc = "ran"] \in Command
    BY <1>1 DEF Command
  <2>2. /\ command' = [command EXCEPT ![k].pid = "told", ![k].pc = "ran"]
        /\ UNCHANGED <<store, pc, contents, memory, loaded>>
    BY <1>3 DEF Signal
  <2>3. TokensTyped'
    BY <2>1, <2>2 DEF TypeOK, TokensTyped
  <2>4. ProcessTyped'
    BY <1>3, <2>2 DEF TypeOK, ProcessTyped
  <2> QED
    BY <1>2, <2>3, <2>4, TypeParts
<1>4. CASE pc' = "stopped"
  <2>1. Orphaned \in [Commands -> Command \cup {None}]
    BY OrphanedTyped DEF TypeOK
  <2>2. Orphaned[k] \in Command
    BY <1>1, <2>1 DEF Signal, Orphaned, Command
  <2>3. [Orphaned[k] EXCEPT !.pc = "ran"] \in Command
    BY <2>2 DEF Command
  <2>4. /\ contents' = None /\ memory' = {} /\ loaded' = 0 /\ hup' = FALSE
        /\ command' = [Orphaned EXCEPT ![k].pc = "ran"] /\ UNCHANGED store
    BY <1>4 DEF Signal, TypeOK
  <2>5. TokensTyped'
    BY <2>1, <2>3, <2>4 DEF TypeOK, TokensTyped
  <2>6. ProcessTyped'
    BY <1>4, <2>4 DEF ProcessTyped
  <2> QED
    BY <1>2, <2>5, <2>6, TypeParts
<1> QED
  BY <1>3, <1>4 DEF Signal

\* Every step leaves every variable within its type.
LEMMA StepTyped == TypeOK /\ [Next]_vars => TypeOK'
<1> SUFFICES ASSUME TypeOK, [Next]_vars PROVE TypeOK'
  OBVIOUS
<1>1. CASE Launch \/ Start
  <2>1. TokensTyped' /\ ProcessTyped'
    BY <1>1, EntersTyped DEF Launch, Start, Stages, Checked
  <2> QED
    BY <1>1, <2>1, KeptTyped, TypeParts DEF Launch, Start
<1>2. CASE Crash
  <2>1. RestTyped'
    BY <1>2 DEF Crash, TypeOK, RestTyped, files
  <2> QED
    BY <1>2, <2>1, EndsTyped, TypeParts DEF Crash, Refused
<1>3. CASE Operate
  <2>1. PICK w \in Worlds :
          \/ config' = w.config /\ UNCHANGED <<stateFile, saved>>
          \/ stateFile' = w.stateFile /\ saved' = w.stateFile.sets /\ UNCHANGED config
    BY <1>3 DEF Operate
  <2>2. w.config \in Config /\ w.stateFile \in StateFile
    BY StartAssumption
  <2>3. w.stateFile.sets \in SUBSET Sets
    BY <2>2 DEF StateFile
  <2>4. RestTyped'
    BY <1>3, <2>1, <2>2, <2>3 DEF Operate, TypeOK, RestTyped
  <2>5. TokensTyped' /\ ProcessTyped'
    BY <1>3 DEF Operate, TypeOK, TokensTyped, ProcessTyped, process
  <2> QED
    BY <2>4, <2>5, TypeParts
<1>4. CASE \/ Arguments \/ LoadRegistry \/ StartEvidence \/ LoadApprovalDigestKey
           \/ NewServer \/ Listen
  BY <1>4, CheckTyped DEF Arguments, LoadRegistry, StartEvidence, LoadApprovalDigestKey,
     NewServer, Listen, Stages, Checked
<1>5. CASE EnsureAuditHmacKey \/ RefuseLegacy
  <2>1. RestTyped'
    BY <1>5, KeptTyped DEF EnsureAuditHmacKey, RefuseLegacy
  <2>2. CASE Refused
    BY <2>1, <2>2, EndsTyped, TypeParts DEF Refused
  <2>3. CASE UNCHANGED process /\ \E next \in {"write key", "audit", "load"} : Enters(next)
    <3>1. pc \notin {"listener", "serving"}
      BY <1>5 DEF EnsureAuditHmacKey, RefuseLegacy
    <3>2. {"write key", "audit", "load"} \subseteq Stages
      BY DEF Stages, Checked
    <3> QED
      BY <2>1, <2>3, <3>1, <3>2, EntersTyped, TypeParts
  <2> QED
    BY <1>5, <2>2, <2>3 DEF EnsureAuditHmacKey, RefuseLegacy
<1>6. CASE WriteKey
  <2>1. RestTyped'
    <3>1. keyFile \in Nat /\ keyFile' = keyFile + 1
      BY <1>6 DEF WriteKey, TypeOK
    <3>2. keyFile' \in Nat
      BY <3>1
    <3> QED
      BY <1>6, <3>2 DEF WriteKey, TypeOK, RestTyped, bounds
  <2>2. TokensTyped' /\ ProcessTyped'
    BY <1>6, EntersTyped DEF WriteKey, Stages, Checked
  <2> QED
    BY <2>1, <2>2, TypeParts
<1>7. CASE InitAudit
  <2>1. RestTyped'
    BY <1>7 DEF InitAudit, TypeOK, RestTyped, bounds
  <2>2. CASE Refused
    BY <2>1, <2>2, EndsTyped, TypeParts DEF Refused
  <2>3. CASE Enters("inventory") /\ UNCHANGED process
    BY <1>7, <2>1, <2>3, EntersTyped, TypeParts DEF InitAudit, Stages, Checked
  <2> QED
    BY <1>7, <2>2, <2>3 DEF InitAudit
<1>8. CASE ReadStateFile
  <2>1. contents' \in StateFile \cup {None}
    BY <1>8 DEF ReadStateFile, TypeOK
  <2> QED
    BY <1>8, <2>1 DEF ReadStateFile, TypeOK, TokensTyped, Enters, files, bounds, Stages, Checked
<1>9. CASE DiscardBlank
  <2>1. RestTyped'
    BY <1>9, AbsentTyped DEF DiscardBlank, TypeOK, RestTyped, bounds
  <2>2. CASE Refused
    BY <2>1, <2>2, EndsTyped, TypeParts DEF Refused
  <2>3. CASE Enters("legacy") /\ UNCHANGED process
    BY <1>9, <2>1, <2>3, EntersTyped, TypeParts DEF DiscardBlank, Stages, Checked
  <2> QED
    BY <1>9, <2>2, <2>3 DEF DiscardBlank
<1>10. CASE Load
  <2>1. RestTyped'
    BY <1>10, KeptTyped DEF Load
  <2>2. CASE Refused
    BY <2>1, <2>2, EndsTyped, TypeParts DEF Refused
  <2>3. CASE /\ Enters("clients") /\ memory' = Understood(stateFile)
             /\ contents' = None /\ UNCHANGED <<loaded, hup>>
    <3>1. Understood(stateFile) \in SUBSET Sets
      BY DEF Understood, TypeOK, StateFile
    <3> QED
      BY <1>10, <2>1, <2>3, <3>1, TypeParts
         DEF Load, Enters, TypeOK, TokensTyped, ProcessTyped, Stages, Checked
  <2> QED
    BY <1>10, <2>2, <2>3 DEF Load
<1>11. CASE LoadTokens
  <2>1. RestTyped'
    BY <1>11, KeptTyped DEF LoadTokens
  <2>2. CASE Refused
    BY <2>1, <2>2, EndsTyped, TypeParts DEF Refused
  <2>3. CASE /\ Enters("handler") /\ loaded' = store.version
             /\ UNCHANGED <<contents, memory, hup>>
    <3>1. store.version \in Nat
      BY DEF TypeOK, TokensTyped, TokenStore
    <3> QED
      BY <1>11, <2>1, <2>3, <3>1, TypeParts
         DEF LoadTokens, Enters, TypeOK, TokensTyped, ProcessTyped, Stages, Checked
  <2> QED
    BY <1>11, <2>2, <2>3 DEF LoadTokens
<1>12. CASE InstallHandler
  <2>1. TokensTyped' /\ ProcessTyped'
    BY <1>12, EntersTyped DEF InstallHandler, Stages, Checked
  <2> QED
    BY <1>12, <2>1, KeptTyped, TypeParts DEF InstallHandler
<1>13. CASE Save
  <2>1. memory' \in SUBSET Sets
    BY <1>13 DEF Save, TypeOK
  <2>2. stateFile' \in StateFile /\ saved' \in SUBSET Sets
    <3>1. CASE UNCHANGED <<stateFile, saved>>
      BY <3>1 DEF TypeOK
    <3>2. CASE /\ \E sealed \in {stateFile.sealed, config.key} :
                    stateFile' = [shape |-> "store", exposed |-> stateFile.exposed,
                                  sets |-> memory', sealed |-> sealed]
               /\ saved' = saved \cup memory'
      <4>1. /\ stateFile.sealed \in Keys \cup {None} /\ config.key \in Keys \cup {None}
            /\ stateFile.exposed \in BOOLEAN
        BY DEF TypeOK, StateFile, Config
      <4>2. PICK sealed \in Keys \cup {None} :
              stateFile' = [shape |-> "store", exposed |-> stateFile.exposed,
                            sets |-> memory', sealed |-> sealed]
        BY <3>2, <4>1
      <4>3. stateFile' \in StateFile
        BY <2>1, <4>1, <4>2 DEF StateFile
      <4> QED
        BY <2>1, <3>2, <4>3 DEF TypeOK
    <3> QED
      BY <1>13, <3>1, <3>2 DEF Save
  <2> QED
    BY <1>13, <2>1, <2>2 DEF Save, TypeOK, TokensTyped, Enters, bounds
<1>14. CASE SighupReload
  <2>1. RestTyped' /\ store.version \in Nat
    BY <1>14, KeptTyped DEF SighupReload, TypeOK, TokensTyped, TokenStore
  <2>2. TokensTyped'
    BY <1>14 DEF SighupReload, Enters, TypeOK, TokensTyped
  <2>3. ProcessTyped'
    BY <1>14, <2>1 DEF SighupReload, Enters, TypeOK, ProcessTyped
  <2> QED
    BY <2>1, <2>2, <2>3, TypeParts
<1>15. CASE Stop
  BY <1>15, EndsTyped, KeptTyped, TypeParts DEF Stop
<1>16. ASSUME NEW k \in Commands, TokenCommand(k) PROVE TypeOK'
  <2>1. requests \in SUBSET Request /\ TokensTyped
    BY DEF TypeOK
  <2>2. TokensTyped'
    BY <1>16, <2>1, CommandStepTyped DEF TokenCommand, Issue
  <2>3. RestTyped' /\ ProcessTyped'
    BY <1>16 DEF TokenCommand, TypeOK, RestTyped, ProcessTyped, files, bounds, process
  <2> QED
    BY <2>2, <2>3, TypeParts
<1>17. ASSUME NEW k \in Commands, Signal(k) PROVE TypeOK'
  BY <1>17, SignalTyped
<1>18. CASE UNCHANGED vars
  <2>1. TokensTyped' /\ ProcessTyped' /\ RestTyped'
    BY <1>18 DEF vars, files, bounds, process, TypeOK, TokensTyped, ProcessTyped, RestTyped
  <2> QED
    BY <2>1, TypeParts
<1> QED
  BY <1>1, <1>2, <1>3, <1>4, <1>5, <1>6, <1>7, <1>8, <1>9, <1>10, <1>11, <1>12, <1>13,
     <1>14, <1>15, <1>16, <1>17, <1>18 DEF Next, Stage

\* Every state of every deployment is well-typed.
THEOREM StartTyped == Spec => []TypeOK
<1> QED
  BY InitTyped, StepTyped, PTL DEF Spec

-----------------------------------------------------------------------------
(* The state file                                                           *)

\* What was read is what is there until the blank file is discarded, and from the
\* load on the process holds what the file holds.
FileInv ==
    /\ NothingDiscarded
    /\ pc = "discard" /\ contents # None => contents = stateFile
    /\ pc \in {"clients", "tokens", "handler", "listener", "serving"}
         /\ stateFile.shape # "none" => memory = saved

\* Steps that leave the file alone and do not enter a stage that relies on it.
LEMMA FileKept ==
    ASSUME FileInv, UNCHANGED <<stateFile, saved>>,
           \/ UNCHANGED <<pc, contents, memory>>
           \/ pc' \notin {"discard", "clients", "tokens", "handler", "listener", "serving"}
           \/ /\ pc \in {"clients", "tokens", "handler", "listener", "serving"}
              /\ pc' # "discard" /\ UNCHANGED memory
    PROVE  FileInv'
  BY DEF FileInv, NothingDiscarded

LEMMA FileStep == TypeOK /\ FileInv /\ [Next]_vars => FileInv'
<1> SUFFICES ASSUME TypeOK, FileInv, [Next]_vars PROVE FileInv'
  OBVIOUS
<1>1. CASE Refused /\ UNCHANGED <<stateFile, saved>>
  BY <1>1, FileKept DEF Refused, Ends
<1>2. CASE Launch \/ Start
  BY <1>2, FileKept DEF Launch, Start, Enters, files
<1>3. CASE Crash
  BY <1>1, <1>3 DEF Crash, files
<1>4. CASE Operate
  BY <1>4 DEF Operate, FileInv, NothingDiscarded
<1>5. CASE Arguments \/ LoadRegistry \/ StartEvidence \/ LoadApprovalDigestKey
  BY <1>1, <1>5, FileKept DEF Arguments, LoadRegistry, StartEvidence, LoadApprovalDigestKey,
     Check, Enters, files
<1>6. CASE EnsureAuditHmacKey \/ WriteKey \/ InitAudit \/ RefuseLegacy
  BY <1>1, <1>6, FileKept DEF EnsureAuditHmacKey, WriteKey, InitAudit, RefuseLegacy, Enters, files
<1>7. CASE ReadStateFile
  BY <1>7 DEF ReadStateFile, Enters, files, FileInv, NothingDiscarded
<1>8. CASE DiscardBlank
  <2>1. CASE UNCHANGED stateFile
    BY <1>1, <1>8, <2>1, FileKept DEF DiscardBlank, Enters
  <2>2. CASE /\ contents # None /\ HoldsNothing(contents)
             /\ stateFile' = Absent /\ Enters("legacy")
    <3>1. stateFile.shape \in {"blank", "empty map"}
      BY <1>8, <2>2 DEF DiscardBlank, FileInv, HoldsNothing
    <3>2. saved = {} /\ stateFile'.sets = {}
      BY <2>2, <3>1 DEF TypeOK, StateFile, FileInv, NothingDiscarded, Absent
    <3> QED
      BY <1>8, <2>2, <3>2 DEF DiscardBlank, Enters, FileInv, NothingDiscarded
  <2> QED
    BY <1>8, <2>1, <2>2 DEF DiscardBlank
<1>9. CASE Load
  <2>1. CASE Refused
    BY <1>1, <1>9, <2>1 DEF Load, files
  <2>2. CASE /\ Loads(stateFile) /\ Enters("clients")
             /\ memory' = Understood(stateFile)
    <3>1. Understood(stateFile) = stateFile.sets
      BY <2>2 DEF Loads, Understood, TypeOK, StateFile
    <3> QED
      BY <1>9, <2>2, <3>1 DEF Load, Enters, files, FileInv, NothingDiscarded
  <2> QED
    BY <1>9, <2>1, <2>2 DEF Load
<1>10. CASE NewServer \/ Listen
  BY <1>1, <1>10, FileKept DEF NewServer, Listen, Check, Enters, files, process
<1>11. CASE LoadTokens \/ InstallHandler
  BY <1>1, <1>11, FileKept DEF LoadTokens, InstallHandler, Enters, files, process
<1>12. CASE Save
  <2>1. CASE stateFile.shape = "none"
    BY <1>12, <2>1 DEF Save, Enters, FileInv, NothingDiscarded
  <2>2. CASE stateFile.shape # "none"
    <3>1. PICK sealed \in {stateFile.sealed, config.key} :
            stateFile' = [shape |-> "store", exposed |-> stateFile.exposed,
                          sets |-> memory', sealed |-> sealed]
      BY <1>12, <2>2 DEF Save
    <3>2. memory = saved /\ saved' = saved \cup memory' /\ memory \subseteq memory'
      BY <1>12, <2>2 DEF Save, FileInv
    <3>3. saved' = memory' /\ stateFile'.sets = memory'
      BY <3>1, <3>2
    <3> QED
      BY <1>12, <3>3 DEF Save, Enters, FileInv, NothingDiscarded
  <2> QED
    BY <2>1, <2>2
<1>13. CASE SighupReload
  BY <1>13, FileKept DEF SighupReload, Enters, files
<1>14. CASE Stop
  BY <1>14, FileKept DEF Stop, Ends, files
<1>15. ASSUME NEW k \in Commands, TokenCommand(k) PROVE FileInv'
  BY <1>15, FileKept DEF TokenCommand, files, process
<1>16. ASSUME NEW k \in Commands, Signal(k) PROVE FileInv'
  BY <1>16, FileKept DEF Signal, files
<1>17. CASE UNCHANGED vars
  BY <1>17, FileKept DEF vars, files, process
<1> QED
  BY <1>2, <1>3, <1>4, <1>5, <1>6, <1>7, <1>8, <1>9, <1>10, <1>11, <1>12, <1>13,
     <1>14, <1>15, <1>16, <1>17 DEF Next, Stage

LEMMA FileHolds == Spec => []FileInv
<1>1. Init => FileInv
  BY DEF Init, FileInv, NothingDiscarded
<1> QED
  BY <1>1, FileStep, StartTyped, PTL DEF Spec

\* No change set of a state file is ever lost to a start or a server.
THEOREM NothingDiscardedHolds == Spec => []NothingDiscarded
<1>1. FileInv => NothingDiscarded
  BY DEF FileInv
<1> QED
  BY <1>1, FileHolds, PTL

\* A server never serves with fewer, or other, change sets than its file holds.
THEOREM ServesSaved == Spec => []ServesWhatWasSaved
<1>1. FileInv => ServesWhatWasSaved
  BY DEF FileInv, ServesWhatWasSaved
<1> QED
  BY <1>1, FileHolds, PTL

-----------------------------------------------------------------------------
(* The abstract store                                                       *)

\* Between the load and the first request the process has what is stored, also where
\* nothing is kept.
HeldInv == pc \in {"clients", "tokens", "handler", "listener"} => memory = stateFile.sets

\* Steps that touch nothing it speaks of, or leave those stages.
LEMMA HeldKept ==
    ASSUME HeldInv,
           \/ pc' \notin {"clients", "tokens", "handler", "listener"}
           \/ /\ UNCHANGED <<memory, stateFile>>
              /\ pc \in {"clients", "tokens", "handler", "listener"}
    PROVE  HeldInv'
  BY DEF HeldInv

LEMMA HeldStep == TypeOK /\ FileInv /\ HeldInv /\ [Next]_vars => HeldInv'
<1> SUFFICES ASSUME TypeOK, FileInv, HeldInv, [Next]_vars PROVE HeldInv'
  OBVIOUS
<1>1. CASE Refused
  BY <1>1, HeldKept DEF Refused, Ends
<1>2. CASE Launch \/ Start \/ Crash \/ Stop
  BY <1>1, <1>2, HeldKept DEF Launch, Start, Enters, Crash, Stop, Ends
<1>3. CASE Operate
  BY <1>3, HeldKept DEF Operate
<1>4. CASE Arguments \/ LoadRegistry \/ StartEvidence \/ LoadApprovalDigestKey
  BY <1>1, <1>4, HeldKept DEF Arguments, LoadRegistry, StartEvidence, LoadApprovalDigestKey,
     Check, Enters
<1>5. CASE EnsureAuditHmacKey \/ WriteKey \/ InitAudit \/ RefuseLegacy
  BY <1>1, <1>5, HeldKept DEF EnsureAuditHmacKey, WriteKey, InitAudit, RefuseLegacy, Enters
<1>6. CASE ReadStateFile \/ DiscardBlank
  BY <1>1, <1>6, HeldKept DEF ReadStateFile, DiscardBlank, Enters
<1>7. CASE Load
  <2>1. CASE /\ Loads(stateFile) /\ Enters("clients")
             /\ memory' = Understood(stateFile)
    <3>1. Understood(stateFile) = stateFile.sets
      BY <2>1 DEF Loads, Understood, TypeOK, StateFile
    <3> QED
      BY <1>7, <2>1, <3>1 DEF Load, files, HeldInv
  <2> QED
    BY <1>1, <1>7, <2>1 DEF Load
<1>8. CASE NewServer \/ Listen
  BY <1>1, <1>8, HeldKept DEF NewServer, Listen, Check, Enters, files, process
<1>9. CASE LoadTokens \/ InstallHandler
  BY <1>1, <1>9, HeldKept DEF LoadTokens, InstallHandler, Enters, files, process
<1>10. CASE Save
  BY <1>10, HeldKept DEF Save, Enters
<1>11. CASE SighupReload
  BY <1>11 DEF SighupReload, Enters, files, HeldInv
<1>12. ASSUME NEW k \in Commands, TokenCommand(k) PROVE HeldInv'
  BY <1>12 DEF TokenCommand, files, process, HeldInv
<1>13. ASSUME NEW k \in Commands, Signal(k) PROVE HeldInv'
  BY <1>13 DEF Signal, files, HeldInv
<1>14. CASE UNCHANGED vars
  BY <1>14 DEF vars, files, process, HeldInv
<1> QED
  BY <1>2, <1>3, <1>4, <1>5, <1>6, <1>7, <1>8, <1>9, <1>10, <1>11, <1>12, <1>13, <1>14
     DEF Next, Stage

\* What the abstract store is seen to be.
seen == <<Phase, stateFile.shape # "none", stateFile.sets, Held>>

\* Steps of a start from one stage to another are not seen.
LEMMA StageUnseen ==
    ASSUME UNCHANGED stateFile, pc \in Stages, pc' \in Stages PROVE UNCHANGED seen
  BY DEF seen, Phase, Held, Stages, Checked

\* Nor is a step that leaves the process and its file as they are.
LEMMA SameUnseen ==
    ASSUME UNCHANGED <<stateFile, pc, memory>> PROVE UNCHANGED seen
  BY DEF seen, Phase, Held

\* A process that ends is a server, or a start, that ends.
LEMMA EndsStored ==
    ASSUME pc \in Stages \cup {"serving"}, pc' \in {"down", "stopped"}, UNCHANGED stateFile
    PROVE  Durable!End
  BY DEF Durable!End, Phase, Held, Stages, Checked

LEMMA CheckUnseen ==
    ASSUME NEW stage \in Stages, NEW next \in Stages, Check(stage, next)
    PROVE  Durable!End \/ UNCHANGED seen
<1>1. CASE Refused
  BY <1>1, EndsStored DEF Check, Refused, Ends, files
<1>2. CASE Enters(next)
  BY <1>2, StageUnseen DEF Check, Enters, files
<1> QED
  BY <1>1, <1>2 DEF Check

\* The last stage: the server has what is stored.
LEMMA ServeStored ==
    ASSUME TypeOK, HeldInv, pc \in {"handler", "listener"}, pc' = "serving",
           UNCHANGED <<stateFile, memory>>
    PROVE  Durable!Serve
  BY DEF HeldInv, Durable!Serve, Phase, Held

LEMMA SaveStored == ASSUME TypeOK, FileInv, Save PROVE Durable!Save
<1>1. pc = "serving" /\ pc' = "serving"
  BY DEF Save, Enters
<1>2. PICK s \in Sets \ memory : memory' = memory \cup {s}
  BY DEF Save
<1>3. Phase = "serving" /\ Phase' = "serving" /\ Held = memory /\ Held' = memory'
  BY <1>1 DEF Phase, Held
<1>4. CASE stateFile.shape = "none"
  BY <1>2, <1>3, <1>4 DEF Save, Durable!Save
<1>5. CASE stateFile.shape # "none"
  <2>1. PICK sealed \in {stateFile.sealed, config.key} :
          stateFile' = [shape |-> "store", exposed |-> stateFile.exposed,
                        sets |-> memory', sealed |-> sealed]
    BY <1>5 DEF Save
  <2>2. stateFile'.sets = memory' /\ stateFile'.shape # "none"
    BY <2>1
  <2> QED
    BY <1>2, <1>3, <1>5, <2>2 DEF Durable!Save
<1> QED
  BY <1>4, <1>5

\* What an interrupted first write left behind held nothing.
LEMMA DiscardUnseen ==
    ASSUME TypeOK, FileInv, DiscardBlank PROVE Durable!End \/ UNCHANGED seen
<1>1. pc = "discard"
  BY DEF DiscardBlank
<1>2. CASE Enters("legacy") /\ UNCHANGED stateFile
  BY <1>1, <1>2, StageUnseen DEF Enters, Stages, Checked
<1>3. CASE Refused /\ UNCHANGED stateFile
  BY <1>1, <1>3, EndsStored DEF Refused, Ends, Stages, Checked
<1>4. CASE contents # None /\ HoldsNothing(contents) /\ stateFile' = Absent /\ Enters("legacy")
  <2>1. stateFile.shape \in {"blank", "empty map"}
    BY <1>1, <1>4 DEF FileInv, HoldsNothing
  <2>2. stateFile.sets = {} /\ stateFile'.sets = {} /\ stateFile'.shape = "absent"
    BY <1>4, <2>1 DEF TypeOK, StateFile, Absent
  <2>3. Phase' = Phase /\ Held' = Held
    BY <1>1, <1>4 DEF Enters, Phase, Held
  <2> QED
    BY <2>1, <2>2, <2>3 DEF seen
<1> QED
  BY <1>2, <1>3, <1>4 DEF DiscardBlank

LEMMA OperateStored == ASSUME TypeOK, Operate PROVE Durable!Restore \/ UNCHANGED seen
<1>1. Phase = "down" /\ Phase' = "down" /\ Held' = Held
  BY DEF Operate, Phase, Held
<1>2. PICK w \in Worlds :
        UNCHANGED stateFile \/ stateFile' = w.stateFile
  BY DEF Operate
<1>3. CASE UNCHANGED stateFile
  BY <1>1, <1>3 DEF seen
<1>4. CASE stateFile' = w.stateFile
  <2>1. w.stateFile \in StateFile
    BY StartAssumption
  <2>2. stateFile'.sets \in SUBSET Sets /\ (stateFile'.shape # "none") \in BOOLEAN
    BY <1>4, <2>1 DEF StateFile
  <2> QED
    BY <1>1, <2>2 DEF Durable!Restore
<1> QED
  BY <1>2, <1>3, <1>4

\* Every step of a deployment is a step of the store, or unseen.
LEMMA StoreStep ==
    ASSUME TypeOK, FileInv, HeldInv, [Next]_vars PROVE Durable!Next \/ UNCHANGED seen
<1>1. CASE Launch \/ Start
  <2>1. Phase = "down" /\ Phase' = "starting" /\ Held = {} /\ Held' = {} /\ UNCHANGED stateFile
    BY <1>1 DEF Launch, Start, Enters, Phase, Held, files
  <2> QED
    BY <2>1 DEF Durable!Begin, Durable!Next
<1>2. CASE Crash \/ Stop
  BY <1>2, EndsStored DEF Crash, Stop, Refused, Ends, files, Durable!Next
<1>3. CASE Operate
  BY <1>3, OperateStored DEF Durable!Next
<1>4. CASE \/ Arguments \/ LoadRegistry \/ StartEvidence \/ LoadApprovalDigestKey \/ NewServer
  BY <1>4, CheckUnseen DEF Arguments, LoadRegistry, StartEvidence, LoadApprovalDigestKey,
     NewServer, Stages, Checked, Durable!Next
<1>5. CASE EnsureAuditHmacKey \/ WriteKey \/ InitAudit \/ ReadStateFile \/ RefuseLegacy \/ Load
           \/ LoadTokens
  <2>1. pc \in Stages /\ UNCHANGED stateFile /\ pc' \in Stages \cup {"down"}
    BY <1>5 DEF EnsureAuditHmacKey, WriteKey, InitAudit, ReadStateFile, RefuseLegacy, Load,
       LoadTokens, Enters, Refused, Ends, files, Stages, Checked
  <2> QED
    BY <2>1, StageUnseen, EndsStored DEF Durable!Next
<1>6. CASE DiscardBlank
  BY <1>6, DiscardUnseen DEF Durable!Next
<1>7. CASE InstallHandler
  <2>1. pc = "handler" /\ pc' \in {"listener", "serving"} /\ UNCHANGED <<stateFile, memory>>
    BY <1>7 DEF InstallHandler, Enters, files, process
  <2> QED
    BY <2>1, ServeStored, StageUnseen DEF Stages, Checked, Durable!Next
<1>8. CASE Listen
  <2>1. pc = "listener" /\ UNCHANGED stateFile
        /\ (pc' = "down" \/ (pc' = "serving" /\ UNCHANGED memory))
    BY <1>8 DEF Listen, Check, Enters, Refused, Ends, files, process
  <2> QED
    BY <2>1, ServeStored, EndsStored DEF Stages, Checked, Durable!Next
<1>9. CASE Save
  BY <1>9, SaveStored DEF Durable!Next
<1>10. CASE SighupReload
  BY <1>10, SameUnseen DEF SighupReload, Enters, files
<1>11. ASSUME NEW k \in Commands, TokenCommand(k) PROVE UNCHANGED seen
  BY <1>11, SameUnseen DEF TokenCommand, files, process
<1>12. ASSUME NEW k \in Commands, Signal(k) PROVE Durable!End \/ UNCHANGED seen
  <2>1. UNCHANGED stateFile
    BY <1>12 DEF Signal, files
  <2>2. \/ UNCHANGED <<pc, memory>>
        \/ pc \in Stages /\ pc' = "stopped"
    BY <1>12 DEF Signal
  <2> QED
    BY <2>1, <2>2, SameUnseen, EndsStored
<1>13. CASE UNCHANGED vars
  BY <1>13, SameUnseen DEF vars, files, process
<1> QED
  BY <1>1, <1>2, <1>3, <1>4, <1>5, <1>6, <1>7, <1>8, <1>9, <1>10, <1>11, <1>12, <1>13
     DEF Next, Stage, Durable!Next

\* A deployment implements a store that no start, server, signal or crash takes
\* anything from, and what a server serves is what is stored.
THEOREM StoreImplemented == Spec => ImplementsStore
<1>1. Init => HeldInv /\ Durable!Init
  <2> SUFFICES ASSUME Init PROVE HeldInv /\ Durable!Init
    OBVIOUS
  <2>1. TypeOK
    BY InitTyped
  <2>2. stateFile.sets \in SUBSET Sets
    BY <2>1 DEF TypeOK, StateFile
  <2> QED
    BY <2>2 DEF Init, HeldInv, Durable!Init, Phase, Held
<1>2. TypeOK /\ FileInv /\ HeldInv /\ [Next]_vars => [Durable!Next]_(Durable!vars)
  BY StoreStep DEF Durable!vars, seen
<1> QED
  BY <1>1, <1>2, HeldStep, StartTyped, FileHolds, PTL DEF Spec, ImplementsStore, Durable!Spec

-----------------------------------------------------------------------------
(* A start goes on, or refuses for cause                                    *)

\* What a start knows of its files when it may refuse them: what was read is what
\* is there, a blank file is gone once it could be seen, and only a server that
\* serves HTTP looks at the tokens.
CauseInv ==
    /\ pc = "discard" =>
         \/ contents = stateFile
         \/ contents = None /\ stateFile.shape \in {"none", "absent"}
         \/ contents = None /\ stateFile.exposed
    /\ pc = "legacy" /\ contents # None /\ contents.shape = "legacy" =>
         stateFile.shape = "legacy"
    /\ pc \in {"legacy", "load"} /\ ~stateFile.exposed =>
         stateFile.shape \notin {"blank", "empty map"}
    /\ pc = "tokens" => config.transport = "http"

\* Steps to a stage it says nothing of, and steps that touch nothing it speaks of.
LEMMA CauseKept ==
    ASSUME CauseInv,
           \/ pc' \notin {"discard", "legacy", "load", "tokens"}
           \/ UNCHANGED <<pc, contents, stateFile, config>>
    PROVE  CauseInv'
  BY DEF CauseInv

LEMMA CauseStep == TypeOK /\ CauseInv /\ [Next]_vars => CauseInv'
<1> SUFFICES ASSUME TypeOK, CauseInv, [Next]_vars PROVE CauseInv'
  OBVIOUS
<1>1. CASE Launch \/ Start
  BY <1>1, CauseKept DEF Launch, Start, Enters
<1>2. CASE Crash \/ Stop
  BY <1>2, CauseKept DEF Crash, Stop, Refused, Ends
<1>3. CASE Operate
  BY <1>3 DEF Operate, CauseInv
<1>4. CASE \/ Arguments \/ LoadRegistry \/ StartEvidence \/ LoadApprovalDigestKey
           \/ Listen \/ EnsureAuditHmacKey \/ WriteKey \/ InitAudit \/ LoadTokens
           \/ InstallHandler \/ Load
  BY <1>4, CauseKept DEF Arguments, LoadRegistry, StartEvidence, LoadApprovalDigestKey,
     Listen, EnsureAuditHmacKey, WriteKey, InitAudit, LoadTokens, InstallHandler, Load,
     Check, Refused, Ends, Enters
<1>5. CASE NewServer
  <2>1. CASE pc' = "tokens"
    <3>1. config.transport = "http"
      BY <1>5, <2>1 DEF NewServer, Check, Refused, Ends, Enters
    <3>2. UNCHANGED config
      BY <1>5 DEF NewServer, Check, files
    <3> QED
      BY <2>1, <3>1, <3>2 DEF CauseInv
  <2>2. pc' \in {"tokens", "handler", "down"}
    BY <1>5 DEF NewServer, Check, Refused, Ends, Enters
  <2> QED
    BY <2>1, <2>2, CauseKept
<1>6. CASE ReadStateFile
  <2>1. pc' = "discard" /\ UNCHANGED stateFile
    BY <1>6 DEF ReadStateFile, Enters, files
  <2>2. \/ contents' = stateFile
        \/ contents' = None /\ stateFile.shape \in {"none", "absent"}
        \/ contents' = None /\ stateFile.exposed
    BY <1>6 DEF ReadStateFile
  <2> QED
    BY <2>1, <2>2 DEF CauseInv
<1>7. CASE DiscardBlank
  <2>1. CASE pc' = "down"
    BY <2>1, CauseKept
  <2>2. CASE stateFile' = Absent /\ pc' = "legacy" /\ HoldsNothing(contents)
             /\ UNCHANGED contents
    BY <2>2 DEF CauseInv, Absent, HoldsNothing
  <2>3. CASE /\ UNCHANGED <<stateFile, contents>> /\ pc' = "legacy"
             /\ contents = None \/ ~HoldsNothing(contents)
    <3>1. \/ contents = stateFile /\ (contents = None \/ ~HoldsNothing(stateFile))
          \/ contents = None /\ stateFile.shape \in {"none", "absent"}
          \/ contents = None /\ stateFile.exposed
      BY <1>7, <2>3 DEF DiscardBlank, CauseInv
    <3>2. stateFile # None
      BY StartAssumption DEF TypeOK
    <3> QED
      BY <2>3, <3>1, <3>2 DEF CauseInv, HoldsNothing
  <2> QED
    BY <1>7, <2>1, <2>2, <2>3 DEF DiscardBlank, Enters, Refused, Ends, process
<1>8. CASE RefuseLegacy
  <2>1. CASE pc' = "down"
    BY <2>1, CauseKept
  <2>2. CASE pc' = "load" /\ UNCHANGED stateFile
    BY <1>8, <2>2 DEF RefuseLegacy, CauseInv
  <2> QED
    BY <1>8, <2>1, <2>2 DEF RefuseLegacy, Enters, Refused, Ends, files
<1>9. CASE Save \/ SighupReload
  <2>1. pc' = pc /\ pc \in {"listener", "serving"}
    BY <1>9 DEF Save, SighupReload, Enters, TypeOK
  <2> QED
    BY <2>1, CauseKept
<1>10. ASSUME NEW k \in Commands, TokenCommand(k) PROVE CauseInv'
  BY <1>10, CauseKept DEF TokenCommand, files, process
<1>11. ASSUME NEW k \in Commands, Signal(k) PROVE CauseInv'
  <2>1. CASE pc' = "stopped"
    BY <2>1, CauseKept
  <2>2. CASE UNCHANGED <<pc, contents>>
    BY <1>11, <2>2, CauseKept DEF Signal, files
  <2> QED
    BY <1>11, <2>1, <2>2 DEF Signal
<1>12. CASE UNCHANGED vars
  BY <1>12, CauseKept DEF vars, files, process
<1> QED
  BY <1>1, <1>2, <1>3, <1>4, <1>5, <1>6, <1>7, <1>8, <1>9, <1>10, <1>11, <1>12
     DEF Next, Stage

\* Where each stage comes in the order.
LEMMA InOrder ==
    /\ Later("arguments", "audit key") /\ Later("audit key", "write key")
    /\ Later("audit key", "audit") /\ Later("write key", "audit")
    /\ Later("audit", "inventory") /\ Later("inventory", "evidence")
    /\ Later("evidence", "digest key") /\ Later("digest key", "read state")
    /\ Later("read state", "discard") /\ Later("discard", "legacy")
    /\ Later("legacy", "load") /\ Later("load", "clients")
    /\ Later("clients", "tokens") /\ Later("clients", "handler")
    /\ Later("tokens", "handler") /\ Later("handler", "listener")
    /\ Later("handler", "serving") /\ Later("listener", "serving")
<1>1. /\ StageOrder[1] = "arguments" /\ StageOrder[2] = "audit key"
      /\ StageOrder[3] = "write key" /\ StageOrder[4] = "audit"
      /\ StageOrder[5] = "inventory" /\ StageOrder[6] = "evidence"
      /\ StageOrder[7] = "digest key" /\ StageOrder[8] = "read state"
      /\ StageOrder[9] = "discard" /\ StageOrder[10] = "legacy"
      /\ StageOrder[11] = "load" /\ StageOrder[12] = "clients"
      /\ StageOrder[13] = "tokens" /\ StageOrder[14] = "handler"
      /\ StageOrder[15] = "listener" /\ StageOrder[16] = "serving"
  BY DEF StageOrder
<1>2. /\ Later(StageOrder[1], StageOrder[2]) /\ Later(StageOrder[2], StageOrder[3])
      /\ Later(StageOrder[2], StageOrder[4]) /\ Later(StageOrder[3], StageOrder[4])
      /\ Later(StageOrder[4], StageOrder[5]) /\ Later(StageOrder[5], StageOrder[6])
      /\ Later(StageOrder[6], StageOrder[7]) /\ Later(StageOrder[7], StageOrder[8])
      /\ Later(StageOrder[8], StageOrder[9]) /\ Later(StageOrder[9], StageOrder[10])
      /\ Later(StageOrder[10], StageOrder[11]) /\ Later(StageOrder[11], StageOrder[12])
      /\ Later(StageOrder[12], StageOrder[13]) /\ Later(StageOrder[12], StageOrder[14])
      /\ Later(StageOrder[13], StageOrder[14]) /\ Later(StageOrder[14], StageOrder[15])
      /\ Later(StageOrder[14], StageOrder[16]) /\ Later(StageOrder[15], StageOrder[16])
  BY DEF Later
<1> QED
  BY <1>1, <1>2, Zenon

\* A stage that only checks goes on, or is at fault.
LEMMA CheckAdvances ==
    ASSUME NEW stage, NEW next, Check(stage, next), Later(stage, next)
    PROVE  Later(pc, pc') \/ (pc' = "down" /\ Unsound)
  BY DEF Check, Enters, Refused, Ends, Unsound

\* What load_with_key refuses, once a blank file is gone, is not in order.
LEMMA LoadRefusal ==
    ASSUME TypeOK, CauseInv, pc = "load", ~Loads(stateFile)
    PROVE  Unsound
<1>1. stateFile.shape \in {"none", "absent", "blank", "padding", "empty map", "legacy",
                          "foreign", "store"}
  BY DEF TypeOK, StateFile
<1>2. stateFile.shape \notin {"none", "absent"}
  BY DEF Loads
<1>3. CASE stateFile.exposed
  BY <1>2, <1>3 DEF Unsound
<1>4. CASE ~stateFile.exposed
  BY <1>1, <1>2, <1>4 DEF Unsound, CauseInv, Loads
<1> QED
  BY <1>3, <1>4

\* Every stage takes a start forward, or ends it over what an operator must put
\* right.
THEOREM StartsAdvance == Spec => StartAdvances
<1>1. Init => CauseInv
  BY DEF Init, CauseInv
<1>2. TypeOK /\ CauseInv => [Stage => Later(pc, pc') \/ (pc' = "down" /\ Unsound)]_vars
  <2> SUFFICES ASSUME TypeOK, CauseInv, Stage
               PROVE  Later(pc, pc') \/ (pc' = "down" /\ Unsound)
    OBVIOUS
  <2>1. CASE \/ Arguments \/ LoadRegistry \/ StartEvidence \/ LoadApprovalDigestKey
             \/ NewServer \/ Listen
    BY <2>1, CheckAdvances, InOrder DEF Arguments, LoadRegistry, StartEvidence,
       LoadApprovalDigestKey, NewServer, Listen
  <2>2. CASE EnsureAuditHmacKey \/ InitAudit
    BY <2>2, InOrder DEF EnsureAuditHmacKey, InitAudit, Enters, Refused, Ends, Unsound
  <2>3. CASE WriteKey \/ ReadStateFile \/ InstallHandler
    BY <2>3, InOrder DEF WriteKey, ReadStateFile, InstallHandler, Enters
  <2>4. CASE DiscardBlank
    BY <2>4, InOrder DEF DiscardBlank, Enters, Refused, Ends, Unsound
  <2>5. CASE RefuseLegacy
    BY <2>5, InOrder DEF RefuseLegacy, Enters, Refused, Ends, Unsound, CauseInv
  <2>6. CASE Load
    BY <2>6, InOrder, LoadRefusal DEF Load, Enters, Refused, Ends
  <2>7. CASE LoadTokens
    BY <2>7, InOrder DEF LoadTokens, Enters, Refused, Ends, Unsound, CauseInv
  <2> QED
    BY <2>1, <2>2, <2>3, <2>4, <2>5, <2>6, <2>7 DEF Stage
<1> QED
  BY <1>1, <1>2, CauseStep, StartTyped, PTL DEF Spec, StartAdvances

-----------------------------------------------------------------------------
(* The audit key                                                            *)

\* Nothing is signed before there is a key, and a key that is there stays.
KeyInv ==
    /\ OneAuditKey
    /\ pc = "write key" => keyFile = 0
    /\ pc = "audit" => keyFile # 0

LEMMA KeyKept ==
    ASSUME KeyInv, UNCHANGED <<keyFile, signed>>,
           pc' \notin {"write key", "audit"} \/ UNCHANGED pc
    PROVE  KeyInv'
  BY DEF KeyInv, OneAuditKey

LEMMA KeyStep == TypeOK /\ KeyInv /\ [Next]_vars => KeyInv'
<1> SUFFICES ASSUME TypeOK, KeyInv, [Next]_vars PROVE KeyInv'
  OBVIOUS
<1>1. CASE Refused /\ UNCHANGED <<keyFile, signed>>
  BY <1>1, KeyKept DEF Refused, Ends
<1>2. CASE Launch \/ Start \/ Crash \/ Operate \/ Stop
  BY <1>1, <1>2, KeyKept DEF Launch, Start, Crash, Operate, Stop, Enters, Ends, files
<1>3. CASE Arguments \/ LoadRegistry \/ StartEvidence \/ LoadApprovalDigestKey \/ NewServer
           \/ Listen
  BY <1>1, <1>3, KeyKept DEF Arguments, LoadRegistry, StartEvidence, LoadApprovalDigestKey,
     NewServer, Listen, Check, Enters, files
<1>4. CASE EnsureAuditHmacKey
  BY <1>1, <1>4 DEF EnsureAuditHmacKey, KeyPresent, Enters, files, KeyInv, OneAuditKey
<1>5. CASE WriteKey
  <2>1. keyFile = 0 /\ signed \subseteq {} /\ keyFile' = keyFile + 1
    BY <1>5 DEF WriteKey, KeyInv, OneAuditKey
  <2>2. keyFile' # 0
    BY <2>1
  <2>3. signed' \subseteq {}
    BY <1>5, <2>1 DEF WriteKey
  <2> QED
    BY <1>5, <2>2, <2>3 DEF WriteKey, Enters, KeyInv, OneAuditKey
<1>6. CASE InitAudit
  BY <1>1, <1>6 DEF InitAudit, Enters, KeyInv, OneAuditKey
<1>7. CASE ReadStateFile \/ DiscardBlank \/ RefuseLegacy \/ Load \/ LoadTokens \/ InstallHandler
  BY <1>1, <1>7, KeyKept DEF ReadStateFile, DiscardBlank, RefuseLegacy, Load, LoadTokens,
     InstallHandler, Enters, files
<1>8. CASE Save \/ SighupReload
  BY <1>8, KeyKept DEF Save, SighupReload, Enters, files
<1>9. ASSUME NEW k \in Commands, TokenCommand(k) \/ Signal(k) PROVE KeyInv'
  BY <1>9, KeyKept DEF TokenCommand, Signal, files
<1>10. CASE UNCHANGED vars
  BY <1>10, KeyKept DEF vars, files
<1> QED
  BY <1>2, <1>3, <1>4, <1>5, <1>6, <1>7, <1>8, <1>9, <1>10 DEF Next, Stage

\* All records are signed with one key, and it is there to verify them.
THEOREM OneKeyHolds == Spec => []OneAuditKey
<1>1. Init => KeyInv
  BY DEF Init, KeyInv, OneAuditKey
<1>2. KeyInv => OneAuditKey
  BY DEF KeyInv
<1> QED
  BY <1>1, <1>2, KeyStep, StartTyped, PTL DEF Spec

-----------------------------------------------------------------------------
(* The token store a server holds                                           *)

Current(c) ==
    /\ c.wrote <= store.version
    /\ c.pid = "told" =>
         /\ pc \in {"listener", "serving"} /\ c.pc \in {"ran", "done", "died"}
         /\ ~hup /\ config.transport = "http" /\ store.sound => loaded >= c.wrote

ToldInv == \A k \in Commands : command[k] # None => Current(command[k])

\* A command that was told keeps what it wrote; the store only grows newer.
LEMMA CurrentKept ==
    ASSUME TypeOK, ToldInv, UNCHANGED <<pc, hup, loaded, config>>,
           store'.version >= store.version, store'.sound = store.sound,
           NEW k \in Commands, command[k] # None,
           \/ command'[k].pid # "told"
           \/ command[k].pid = "told" /\ command'[k].pc \in {"ran", "done", "died"},
           \/ command'[k].wrote = command[k].wrote
           \/ command'[k].wrote = store'.version /\ command[k].pid # "told"
                /\ command'[k].pid = command[k].pid,
           store'.version \in Nat
    PROVE  Current(command[k])'
<1>1. command[k].wrote \in Nat /\ store.version \in Nat
  BY DEF TypeOK, TokensTyped, Command, TokenStore
<1> QED
  BY <1>1 DEF ToldInv, Current

\* The end of a process leaves nobody told.
LEMMA EndsCurrent ==
    ASSUME TypeOK, ToldInv, NEW next \in {"down", "stopped"}, Ends(next)
    PROVE  ToldInv'
<1> SUFFICES ASSUME NEW k \in Commands, command'[k] # None PROVE Current(command[k])'
  BY DEF ToldInv, Current
<1>1. command'[k] = Orphaned[k] /\ store' = store /\ command[k] # None
  BY DEF Ends, Orphaned
<1>2. command[k] \in Command
  BY <1>1 DEF TypeOK, TokensTyped
<1>3. Orphaned[k].wrote = command[k].wrote /\ Orphaned[k].pid # "told"
  BY <1>1, <1>2, TokenAssumption DEF Orphaned, Command
<1>4. command[k].wrote <= store.version
  BY <1>1 DEF ToldInv, Current
<1> QED
  BY <1>1, <1>3, <1>4 DEF Current

\* A process that nobody told anything may move from stage to stage.
LEMMA StageCurrent ==
    ASSUME ToldInv, UNCHANGED <<store, command>>,
           pc \notin {"listener", "serving"} \/ UNCHANGED <<loaded, config, hup>>,
           pc \in {"listener", "serving"} => pc' \in {"listener", "serving"}
    PROVE  ToldInv'
  BY DEF ToldInv, Current

\* The three outcomes of a run: it fails, it finds nothing to do, it edits.
LEMMA RunCases ==
    ASSUME TokensTyped, NEW k \in Commands, Run(k)
    PROVE  LET c == command[k]
               Bare(failed) == [c EXCEPT !.failed = failed, !.pc = "ran"]
           IN /\ c # None /\ c.pc = "described"
              /\ \/ /\ store' = store
                    /\ \/ command' = [command EXCEPT ![k] = Bare(TRUE)]
                       \/ /\ command' = [command EXCEPT ![k] = [c EXCEPT !.pc = "ran"]]
                          /\ store.sound /\ ~Edits(c.req) /\ c.req.op # "add"
                 \/ /\ store.sound /\ Edits(c.req)
                    /\ store' = [store EXCEPT !.names = Edited(c.req), !.version = @ + 1]
                    /\ command'[k] =
                         [c EXCEPT !.pc = IF c.pid = None THEN "ran" ELSE "written",
                                   !.changed = TRUE, !.wrote = store'.version]
                    /\ \A j \in Commands \ {k} :
                         command'[j] = IF command[j] = None THEN None
                            ELSE [command[j] EXCEPT !.undisturbed =
                                    @ /\ (command[j].pc = "described" =>
                                            command[j].req.name # c.req.name)]
  BY DEF Run, TokensTyped

\* A run leaves the other commands as they are, up to their being disturbed.
LEMMA RunKeeps ==
    ASSUME TokensTyped, NEW k \in Commands, Run(k),
           NEW j \in Commands, command[j] # None
    PROVE  /\ command'[j].pid = command[j].pid
           /\ j # k => /\ command'[j].pc = command[j].pc
                       /\ command'[j].wrote = command[j].wrote
           /\ command'[k].wrote \in {command[k].wrote, store'.version}
<1>1. command[j] \in Command /\ command[k] \in Command
  BY RunCases DEF TokensTyped
<1>2. CASE command' = [command EXCEPT ![k] = [command[k] EXCEPT !.failed = TRUE, !.pc = "ran"]]
  BY <1>1, <1>2 DEF TokensTyped, Command
<1>3. CASE command' = [command EXCEPT ![k] = [command[k] EXCEPT !.pc = "ran"]]
  BY <1>1, <1>3 DEF TokensTyped, Command
<1>4. CASE command'[k] =
             [command[k] EXCEPT !.pc = IF command[k].pid = None THEN "ran" ELSE "written",
                                !.changed = TRUE, !.wrote = store'.version]
           /\ \A i \in Commands \ {k} :
                command'[i] = IF command[i] = None THEN None
                   ELSE [command[i] EXCEPT !.undisturbed =
                           @ /\ (command[i].pc = "described" =>
                                   command[i].req.name # command[k].req.name)]
  <2>1. CASE j = k
    BY <1>1, <1>4, <2>1 DEF Command
  <2>2. CASE j # k
    <3>1. command'[j] = [command[j] EXCEPT !.undisturbed =
                           @ /\ (command[j].pc = "described" =>
                                   command[j].req.name # command[k].req.name)]
      BY <1>4, <2>2
    <3>2. command'[j].pid = command[j].pid /\ command'[j].pc = command[j].pc
            /\ command'[j].wrote = command[j].wrote
      BY <1>1, <3>1 DEF Command
    <3>3. command'[k].wrote = store'.version
      BY <1>1, <1>4 DEF Command
    <3> QED
      BY <3>2, <3>3
  <2> QED
    BY <2>1, <2>2
<1> QED
  BY <1>2, <1>3, <1>4, RunCases

LEMMA TokenCurrent ==
    ASSUME TypeOK, TypeOK', ToldInv, NEW k \in Commands, TokenCommand(k)
    PROVE  ToldInv'
<1> SUFFICES ASSUME NEW j \in Commands, command'[j] # None PROVE Current(command[j])'
  BY DEF ToldInv, Current
<1>1. UNCHANGED <<pc, hup, loaded, config>> /\ store'.version \in Nat /\ store.version \in Nat
  BY DEF TokenCommand, process, files, TypeOK, TokensTyped, TokenStore
<1>2. CASE \E req \in requests, pid \in {None, "live"} : Describe(k, req, pid)
  <2>1. PICK req \in requests, pid \in {None, "live"} : Describe(k, req, pid)
    BY <1>2
  <2>2. CASE j = k
    <3>1. command'[j].wrote = 0 /\ command'[j].pc = "described" /\ command'[j].pid = pid
      BY <2>1, <2>2 DEF Describe, TypeOK, TokensTyped
    <3>2. pid # "told"
      BY TokenAssumption
    <3>3. 0 <= store'.version
      BY <1>1
    <3> QED
      BY <3>1, <3>2, <3>3 DEF Current
  <2>3. CASE j # k
    BY <1>1, <2>1, <2>3 DEF Describe, TypeOK, TokensTyped, ToldInv, Current
  <2> QED
    BY <2>2, <2>3
<1>3. CASE Unheard(k) \/ Emit(k) \/ Interrupt(k)
  <2>1. store' = store /\ command[j] # None /\ command[k] # None
    BY <1>3 DEF Unheard, Emit, Interrupt, TypeOK, TokensTyped
  <2>2. command[j] \in Command /\ command[k] \in Command
    BY <2>1 DEF TypeOK, TokensTyped
  <2>3. j # k => command'[j] = command[j]
    BY <1>3 DEF Unheard, Emit, Interrupt, TypeOK, TokensTyped
  <2>4. /\ command'[k].pid = command[k].pid /\ command'[k].wrote = command[k].wrote
        /\ command'[k].pc \in {"ran", "done", "died"}
    <3>1. CASE Unheard(k)
      BY <2>2, <3>1 DEF Unheard, TypeOK, TokensTyped, Command
    <3>2. CASE Emit(k)
      BY <2>2, <3>2 DEF Emit, TypeOK, TokensTyped, Command
    <3>3. CASE Interrupt(k)
      BY <2>2, <3>3 DEF Interrupt, TypeOK, TokensTyped, Command
    <3> QED
      BY <1>3, <3>1, <3>2, <3>3
  <2> QED
    BY <1>1, <2>1, <2>3, <2>4 DEF ToldInv, Current
<1>4. CASE Run(k)
  <2>1. command[j] # None /\ command[k] # None /\ command[k].pc = "described"
    BY <1>4 DEF Run, TypeOK, TokensTyped
  <2>2. command[j] \in Command /\ command[k] \in Command
    BY <2>1 DEF TypeOK, TokensTyped
  <2>3. command[k].pid # "told"
    BY <2>1 DEF ToldInv, Current
  <2>4. store'.version >= store.version /\ store'.sound = store.sound
    <3>1. CASE store' = store
      BY <1>1, <3>1
    <3>2. CASE store' = [store EXCEPT !.names = Edited(command[k].req), !.version = @ + 1]
      <4>1. store'.version = store.version + 1 /\ store'.sound = store.sound
        BY <3>2 DEF TypeOK, TokensTyped, TokenStore
      <4> QED
        BY <1>1, <4>1
    <3> QED
      BY <1>4, <3>1, <3>2 DEF Run
  <2>5. /\ command'[j].pid = command[j].pid
        /\ j # k => command'[j].pc = command[j].pc /\ command'[j].wrote = command[j].wrote
        /\ command'[k].wrote \in {command[k].wrote, store'.version}
    BY <1>4, <2>1, RunKeeps DEF TypeOK
  <2>8. CASE j = k
    <3>1. command'[j].pid # "told"
      BY <2>3, <2>5, <2>8
    <3> QED
      BY <1>1, <2>1, <2>3, <2>4, <2>5, <2>8, <3>1, CurrentKept
  <2>9. CASE j # k
    <3>1. command[j].pid = "told" => command'[j].pc \in {"ran", "done", "died"}
      BY <2>1, <2>5, <2>9 DEF ToldInv, Current
    <3> QED
      BY <1>1, <2>1, <2>4, <2>5, <2>9, <3>1, CurrentKept
  <2> QED
    BY <2>8, <2>9
<1> QED
  BY <1>2, <1>3, <1>4 DEF TokenCommand, Issue

LEMMA SignalCurrent ==
    ASSUME TypeOK, ToldInv, NEW k \in Commands, Signal(k)
    PROVE  ToldInv'
<1> SUFFICES ASSUME NEW j \in Commands, command'[j] # None PROVE Current(command[j])'
  BY DEF ToldInv, Current
<1>1. command[k] \in Command /\ command[k] # None /\ store' = store
  BY DEF Signal, TypeOK, TokensTyped
<1>2. CASE pc \in {"listener", "serving"} /\ hup' = TRUE
  <2>1. /\ command' = [command EXCEPT ![k].pid = "told", ![k].pc = "ran"]
        /\ UNCHANGED <<pc, loaded, config>>
    BY <1>2 DEF Signal, files
  <2>2. command[j] # None /\ (j # k => command'[j] = command[j])
    BY <1>1, <2>1 DEF TypeOK, TokensTyped
  <2>3. command'[k].pc = "ran" /\ command'[k].wrote = command[k].wrote
    BY <1>1, <2>1 DEF TypeOK, TokensTyped, Command
  <2> QED
    BY <1>1, <1>2, <2>1, <2>2, <2>3 DEF ToldInv, Current
<1>3. CASE command' = [Orphaned EXCEPT ![k].pc = "ran"]
  <2>1. command[j] # None
    BY <1>1, <1>3 DEF Orphaned
  <2>2. command[j] \in Command
    BY <2>1 DEF TypeOK, TokensTyped
  <2>3. Orphaned[j].wrote = command[j].wrote /\ Orphaned[j].pid # "told"
    BY <2>1, <2>2, TokenAssumption DEF Orphaned, Command
  <2>4. Orphaned[j] \in Command
    BY <2>1, <2>2 DEF Orphaned, Command
  <2>5. command'[j].wrote = command[j].wrote /\ command'[j].pid # "told"
    BY <1>3, <2>3, <2>4 DEF Orphaned, Command
  <2> QED
    BY <1>1, <2>1, <2>5 DEF ToldInv, Current
<1> QED
  BY <1>2, <1>3 DEF Signal

LEMMA ToldStep == TypeOK /\ TypeOK' /\ ToldInv /\ [Next]_vars => ToldInv'
<1> SUFFICES ASSUME TypeOK, TypeOK', ToldInv, [Next]_vars PROVE ToldInv'
  OBVIOUS
<1>1. CASE Refused
  BY <1>1, EndsCurrent DEF Refused
<1>2. CASE Launch \/ Start
  BY <1>2, StageCurrent DEF Launch, Start, Enters
<1>3. CASE Crash
  BY <1>1, <1>3 DEF Crash
<1>4. CASE Operate
  BY <1>4, StageCurrent DEF Operate
<1>5. CASE \/ Arguments \/ LoadRegistry \/ StartEvidence \/ LoadApprovalDigestKey
           \/ NewServer \/ Listen
  BY <1>1, <1>5, StageCurrent DEF Arguments, LoadRegistry, StartEvidence,
     LoadApprovalDigestKey, NewServer, Listen, Check, Enters, files, process
<1>6. CASE EnsureAuditHmacKey \/ WriteKey \/ InitAudit \/ ReadStateFile \/ DiscardBlank
  BY <1>1, <1>6, StageCurrent DEF EnsureAuditHmacKey, WriteKey, InitAudit, ReadStateFile,
     DiscardBlank, Enters, files, process
<1>7. CASE RefuseLegacy \/ Load \/ LoadTokens \/ InstallHandler
  BY <1>1, <1>7, StageCurrent DEF RefuseLegacy, Load, LoadTokens, InstallHandler, Enters,
     files, process
<1>8. CASE Save
  BY <1>8, StageCurrent DEF Save, Enters
<1>9. CASE SighupReload
  <2>1. /\ UNCHANGED <<store, command, pc, config>> /\ hup' = FALSE
        /\ config.transport = "http" /\ store.sound => loaded' = store.version
    BY <1>9 DEF SighupReload, Enters, files
  <2>2. ASSUME NEW k \in Commands, command[k] # None
        PROVE  command[k].wrote \in Nat /\ store.version \in Nat
    BY <2>2 DEF TypeOK, TokensTyped, Command, TokenStore
  <2> QED
    BY <2>1, <2>2 DEF ToldInv, Current
<1>10. CASE Stop
  BY <1>10, EndsCurrent DEF Stop
<1>11. ASSUME NEW k \in Commands, TokenCommand(k) PROVE ToldInv'
  BY <1>11, TokenCurrent
<1>12. ASSUME NEW k \in Commands, Signal(k) PROVE ToldInv'
  BY <1>12, SignalCurrent
<1>13. CASE UNCHANGED vars
  BY <1>13 DEF vars, files, process, ToldInv, Current
<1> QED
  BY <1>2, <1>3, <1>4, <1>5, <1>6, <1>7, <1>8, <1>9, <1>10, <1>11, <1>12, <1>13
     DEF Next, Stage

\* A server that was told of an edit serves it, or a later one.
THEOREM ToldHolds == Spec => []ToldIsServed
<1>1. Init => ToldInv
  BY DEF Init, ToldInv
<1>2. ToldInv => ToldIsServed
  BY DEF ToldInv, Current, ToldIsServed
<1> QED
  BY <1>1, <1>2, ToldStep, StartTyped, PTL DEF Spec

-----------------------------------------------------------------------------
(* The records of the commands                                              *)

\* What a command saw of the store still holds of it until it runs, and decides what
\* its run does to the store.
Honest(c) ==
    /\ c.pc # "done" => c.record = None
    /\ c.pc = "described" =>
         ~c.failed /\ ~c.changed /\ (c.undisturbed => c.existed = Existed(c.req))
    /\ c.pc \in {"written", "ran"} /\ c.undisturbed =>
         /\ c.failed => ~c.changed
         /\ ~c.failed /\ c.req.op # "list" => (c.existed = FALSE <=> ~c.changed)
    /\ c.pc = "done" /\ c.undisturbed /\ c.record # None =>
         (c.record = "succeeded" <=> c.changed)

TrailInv == \A k \in Commands : command[k] # None => Honest(command[k])

\* Two records that agree on what Honest reads.
LEMMA HonestAlike ==
    ASSUME store' = store, NEW k \in Commands, Honest(command[k]),
           command[k] \in Command, command'[k] \in Command,
           command'[k].pc = command[k].pc
             \/ (command[k].pc = "written" /\ command'[k].pc = "ran"),
           command'[k].req = command[k].req, command'[k].existed = command[k].existed,
           command'[k].failed = command[k].failed, command'[k].record = command[k].record,
           command'[k].changed = command[k].changed,
           command'[k].undisturbed = command[k].undisturbed
    PROVE  Honest(command[k])'
  BY DEF Honest, Existed

LEMMA HonestSame ==
    ASSUME store' = store, NEW k \in Commands, Honest(command[k]), command'[k] = command[k]
    PROVE  Honest(command[k])'
  BY DEF Honest, Existed

LEMMA HonestOrphan ==
    ASSUME store' = store, NEW k \in Commands, Honest(command[k]), command[k] \in Command,
           command'[k] = [command[k] EXCEPT !.pid = "gone"]
    PROVE  Honest(command[k])'
<1>1. command'[k] \in Command
  BY DEF Command
<1>2. /\ command'[k].pc = command[k].pc /\ command'[k].req = command[k].req
      /\ command'[k].existed = command[k].existed
      /\ command'[k].failed = command[k].failed
      /\ command'[k].record = command[k].record
      /\ command'[k].changed = command[k].changed
      /\ command'[k].undisturbed = command[k].undisturbed
  BY DEF Command
<1> QED
  BY <1>2 DEF Honest, Existed

\* Naming a process that is gone changes nothing of this.
LEMMA OrphanHonest ==
    ASSUME TypeOK, TypeOK', TrailInv, UNCHANGED store, command' \in {command, Orphaned}
    PROVE  TrailInv'
<1> SUFFICES ASSUME NEW k \in Commands, command'[k] # None PROVE Honest(command[k])'
  BY DEF TrailInv
<1>1. command[k] # None
  BY DEF Orphaned
<1>2. command[k] \in Command /\ command'[k] \in Command
  BY <1>1 DEF TypeOK, TokensTyped
<1>3. CASE command'[k] = command[k]
  BY <1>1, <1>3, HonestSame DEF TrailInv
<1>4. CASE command'[k] = [command[k] EXCEPT !.pid = "gone"]
  BY <1>1, <1>2, <1>4, HonestOrphan DEF TrailInv
<1> QED
  BY <1>1, <1>3, <1>4 DEF Orphaned

\* The steps of the server leave the store, and of the commands only whom they name.
LEMMA ServerQuiet ==
    ASSUME Next, ~ \E k \in Commands : TokenCommand(k) \/ Signal(k)
    PROVE  UNCHANGED store /\ command' \in {command, Orphaned}
<1>1. CASE Launch \/ Start \/ Crash \/ Operate \/ Save \/ SighupReload \/ Stop
  BY <1>1 DEF Launch, Start, Crash, Operate, Save, SighupReload, Stop, Refused, Ends, Enters
<1>2. CASE Stage
  <2>1. CASE Arguments \/ LoadRegistry \/ StartEvidence \/ LoadApprovalDigestKey \/ NewServer
             \/ Listen
    BY <2>1 DEF Arguments, LoadRegistry, StartEvidence, LoadApprovalDigestKey, NewServer,
       Listen, Check, Refused, Ends, Enters
  <2>2. CASE EnsureAuditHmacKey \/ WriteKey \/ InitAudit \/ ReadStateFile \/ DiscardBlank
    BY <2>2 DEF EnsureAuditHmacKey, WriteKey, InitAudit, ReadStateFile, DiscardBlank,
       Refused, Ends, Enters
  <2>3. CASE RefuseLegacy \/ Load \/ LoadTokens \/ InstallHandler
    BY <2>3 DEF RefuseLegacy, Load, LoadTokens, InstallHandler, Refused, Ends, Enters
  <2> QED
    BY <1>2, <2>1, <2>2, <2>3 DEF Stage
<1> QED
  BY <1>1, <1>2 DEF Next

LEMMA SignalHonest ==
    ASSUME TypeOK, TypeOK', TrailInv, NEW k \in Commands, Signal(k)
    PROVE  TrailInv'
<1> SUFFICES ASSUME NEW j \in Commands, command'[j] # None PROVE Honest(command[j])'
  BY DEF TrailInv
<1>1. store' = store /\ command[k] # None /\ command[k].pc = "written"
  BY DEF Signal
<1>2. command[j] # None
  BY <1>1 DEF Signal, Orphaned, TypeOK, TokensTyped
<1>3. command[j] \in Command /\ command'[j] \in Command /\ command[k] \in Command
  BY <1>1, <1>2 DEF TypeOK, TokensTyped
<1>4. CASE command' = [command EXCEPT ![k].pid = "told", ![k].pc = "ran"]
  <2>1. CASE j = k
    BY <1>1, <1>2, <1>3, <1>4, <2>1, HonestAlike DEF TrailInv, TypeOK, TokensTyped, Command
  <2>2. CASE j # k
    BY <1>1, <1>2, <1>4, <2>2, HonestSame DEF TrailInv, TypeOK, TokensTyped
  <2> QED
    BY <2>1, <2>2
<1>5. CASE command' = [Orphaned EXCEPT ![k].pc = "ran"]
  <2>1. Orphaned[j] = command[j] \/ Orphaned[j] = [command[j] EXCEPT !.pid = "gone"]
    BY DEF Orphaned
  <2>2. Orphaned[j] \in Command
    BY <1>3, <2>1 DEF Command
  <2>3. CASE j = k
    <3>1. command'[j] = [Orphaned[j] EXCEPT !.pc = "ran"]
      BY <1>5, <2>3 DEF Orphaned
    <3>2. /\ command'[j].pc = "ran" /\ command'[j].req = command[j].req
          /\ command'[j].existed = command[j].existed
          /\ command'[j].failed = command[j].failed
          /\ command'[j].record = command[j].record
          /\ command'[j].changed = command[j].changed
          /\ command'[j].undisturbed = command[j].undisturbed
      BY <1>3, <2>1, <2>2, <3>1 DEF Command
    <3> QED
      BY <1>1, <1>2, <1>3, <2>3, <3>2, HonestAlike DEF TrailInv
  <2>4. CASE j # k
    <3>1. command'[j] = Orphaned[j]
      BY <1>5, <2>4 DEF Orphaned
    <3> QED
      BY <1>1, <1>2, <1>3, <2>1, <3>1, HonestSame, HonestOrphan DEF TrailInv
  <2> QED
    BY <2>3, <2>4
<1> QED
  BY <1>4, <1>5 DEF Signal

\* An edit of one token is nothing to the commands that wait to run on another.
LEMMA RunHonest ==
    ASSUME TypeOK, TypeOK', TrailInv, NEW k \in Commands, Run(k)
    PROVE  TrailInv'
<1> SUFFICES ASSUME NEW j \in Commands, command'[j] # None PROVE Honest(command[j])'
  BY DEF TrailInv
<1> DEFINE c == command[k]
<1>1. TokensTyped /\ command[k] # None /\ command[k].pc = "described"
  BY RunCases DEF TypeOK
<1>2. /\ command[k] \in Command /\ command'[j] \in Command /\ c.record = None
      /\ ~c.failed /\ ~c.changed /\ (c.undisturbed => c.existed = Existed(c.req))
  BY <1>1 DEF TypeOK, TokensTyped, TrailInv, Honest
<1>3. CASE /\ store' = store
           /\ command' = [command EXCEPT ![k] = [c EXCEPT !.failed = TRUE, !.pc = "ran"]]
  <2>1. CASE j = k
    <3>1. /\ command'[j].pc = "ran" /\ command'[j].record = None
          /\ command'[j].failed /\ ~command'[j].changed
      BY <1>1, <1>2, <1>3, <2>1 DEF TokensTyped, Command
    <3> QED
      BY <3>1 DEF Honest
  <2>2. CASE j # k
    <3>1. command'[j] = command[j]
      BY <1>1, <1>3, <2>2 DEF TokensTyped
    <3> QED
      BY <1>3, <3>1, HonestSame DEF TrailInv
  <2> QED
    BY <2>1, <2>2
<1>4. CASE /\ store' = store /\ command' = [command EXCEPT ![k] = [c EXCEPT !.pc = "ran"]]
           /\ store.sound /\ ~Edits(c.req) /\ c.req.op # "add"
  <2>1. CASE j = k
    <3>1. /\ command'[j].pc = "ran" /\ command'[j].record = None /\ command'[j].req = c.req
          /\ ~command'[j].failed /\ ~command'[j].changed
          /\ command'[j].existed = c.existed /\ command'[j].undisturbed = c.undisturbed
      BY <1>1, <1>2, <1>4, <2>1 DEF TokensTyped, Command
    <3>2. ASSUME c.undisturbed, c.req.op # "list" PROVE c.existed = FALSE
      <4>1. (c.req.op = "add") = FALSE
        BY <1>4
      <4>2. ~(FALSE = (c.req.name \notin store.names))
        BY <1>4, <3>2, <4>1 DEF Edits
      <4>3. (c.req.name \in store.names) = FALSE
        BY <4>2
      <4>4. Existed(c.req) = (c.req.name \in store.names)
        BY <1>4 DEF Existed
      <4> QED
        BY <1>2, <3>2, <4>3, <4>4
    <3> QED
      BY <3>1, <3>2 DEF Honest
  <2>2. CASE j # k
    <3>1. command'[j] = command[j]
      BY <1>1, <1>4, <2>2 DEF TokensTyped
    <3> QED
      BY <1>4, <3>1, HonestSame DEF TrailInv
  <2> QED
    BY <2>1, <2>2
<1>5. CASE /\ store.sound /\ Edits(c.req)
           /\ store' = [store EXCEPT !.names = Edited(c.req), !.version = @ + 1]
           /\ command'[k] = [c EXCEPT !.pc = IF c.pid = None THEN "ran" ELSE "written",
                                      !.changed = TRUE, !.wrote = store'.version]
           /\ \A i \in Commands \ {k} :
                command'[i] = IF command[i] = None THEN None
                   ELSE [command[i] EXCEPT !.undisturbed =
                           @ /\ (command[i].pc = "described" => command[i].req.name # c.req.name)]
  <2>1. CASE j = k
    <3>1. /\ command'[j].pc \in {"ran", "written"} /\ command'[j].record = None
          /\ command'[j].req = c.req
          /\ ~command'[j].failed /\ command'[j].changed
          /\ command'[j].existed = c.existed /\ command'[j].undisturbed = c.undisturbed
      <4>1. PICK at \in {"ran", "written"} :
              command'[j] = [c EXCEPT !.pc = at, !.changed = TRUE, !.wrote = store'.version]
        BY <1>5, <2>1
      <4>2. c \in Command /\ c.record = None /\ ~c.failed
        BY <1>2
      <4> QED
        BY <4>1, <4>2 DEF Command
    <3>2. c.undisturbed => c.existed # FALSE
      <4>1. CASE c.req.op = "add"
        BY <1>2, <4>1, TokenAssumption DEF Existed
      <4>2. CASE c.req.op # "add"
        BY <1>2, <1>5, <4>2 DEF Existed, Edits
      <4> QED
        BY <4>1, <4>2
    <3> QED
      BY <3>1, <3>2 DEF Honest
  <2>2. CASE j # k
    <3> DEFINE d == command[j]
    <3>1. d # None /\ d \in Command /\ Honest(d)
      BY <1>1, <1>5, <2>2 DEF TokensTyped, TrailInv
    <3>2. command'[j] = [d EXCEPT !.undisturbed =
                           @ /\ (d.pc = "described" => d.req.name # c.req.name)]
      BY <1>5, <2>2, <3>1
    <3>3. /\ command'[j].pc = d.pc /\ command'[j].req = d.req
          /\ command'[j].existed = d.existed /\ command'[j].failed = d.failed
          /\ command'[j].record = d.record /\ command'[j].changed = d.changed
      BY <3>1, <3>2 DEF Command
    <3>4. command'[j].undisturbed =>
            d.undisturbed /\ (d.pc = "described" => d.req.name # c.req.name)
      BY <3>1, <3>2 DEF Command
    <3>5. d.pc = "described" /\ d.req.name # c.req.name => Existed(d.req)' = Existed(d.req)
      <4>1. store'.names = Edited(c.req) /\ store'.sound = store.sound
        BY <1>1, <1>5 DEF TokensTyped, TokenStore
      <4>2. d.req.name # c.req.name => (d.req.name \in Edited(c.req) <=> d.req.name \in store.names)
        BY DEF Edited
      <4> QED
        BY <3>3, <4>1, <4>2 DEF Existed
    <3> QED
      BY <3>1, <3>3, <3>4, <3>5 DEF Honest, Existed
  <2> QED
    BY <2>1, <2>2
<1> QED
  BY <1>1, <1>3, <1>4, <1>5, RunCases

LEMMA TokenHonest ==
    ASSUME TypeOK, TypeOK', TrailInv, NEW k \in Commands, TokenCommand(k)
    PROVE  TrailInv'
<1>1. CASE Run(k)
  BY <1>1, RunHonest
<1>2. CASE \E req \in requests, pid \in {None, "live"} : Describe(k, req, pid)
  <2>1. PICK req \in requests, pid \in {None, "live"} : Describe(k, req, pid)
    BY <1>2
  <2> SUFFICES ASSUME NEW j \in Commands, command'[j] # None PROVE Honest(command[j])'
    BY DEF TrailInv
  <2>2. CASE j = k
    <3>1. /\ command'[j].pc = "described" /\ command'[j].record = None
          /\ command'[j].req = req /\ command'[j].existed = Existed(req)
          /\ ~command'[j].failed /\ ~command'[j].changed
      BY <2>1, <2>2 DEF Describe, TypeOK, TokensTyped
    <3>2. store' = store
      BY <2>1 DEF Describe
    <3> QED
      BY <3>1, <3>2 DEF Honest, Existed
  <2>3. CASE j # k
    <3>1. command'[j] = command[j] /\ store' = store
      BY <2>1, <2>3 DEF Describe, TypeOK, TokensTyped
    <3> QED
      BY <3>1, HonestSame DEF TrailInv
  <2> QED
    BY <2>2, <2>3
<1>3. CASE Unheard(k) \/ Emit(k) \/ Interrupt(k)
  <2> SUFFICES ASSUME NEW j \in Commands, command'[j] # None PROVE Honest(command[j])'
    BY DEF TrailInv
  <2>1. store' = store /\ command[j] # None /\ command[k] # None
    BY <1>3 DEF Unheard, Emit, Interrupt, TypeOK, TokensTyped
  <2>2. command[k] \in Command /\ Honest(command[k])
    BY <2>1 DEF TypeOK, TokensTyped, TrailInv
  <2>3. CASE j # k
    <3>1. command'[j] = command[j]
      BY <1>3, <2>3 DEF Unheard, Emit, Interrupt, TypeOK, TokensTyped
    <3> QED
      BY <2>1, <3>1, HonestSame DEF TrailInv
  <2>4. CASE j = k /\ Unheard(k)
    <3>1. command'[k].pc = "ran" /\ ~command'[k].undisturbed
            /\ command'[k].record = command[k].record /\ command[k].pc = "written"
      BY <2>2, <2>4 DEF Unheard, TypeOK, TokensTyped, Command
    <3> QED
      BY <2>2, <2>4, <3>1 DEF Honest
  <2>5. CASE j = k /\ Interrupt(k)
    <3>1. command'[k].pc = "died" /\ command'[k].record = command[k].record
            /\ command[k].pc # "done"
      BY <2>2, <2>5 DEF Interrupt, TypeOK, TokensTyped, Command
    <3> QED
      BY <2>2, <2>5, <3>1 DEF Honest
  <2>6. CASE j = k /\ Emit(k)
    <3> DEFINE c == command[k]
               record == IF c.req.op = "list" THEN None
                         ELSE IF c.failed THEN "failed" ELSE SuccessOutcomeWord(c)
    <3>1. /\ c.pc = "ran" /\ command'[k].pc = "done" /\ command'[k].record = record
          /\ command'[k].changed = c.changed /\ command'[k].undisturbed = c.undisturbed
      BY <2>2, <2>6 DEF Emit, TypeOK, TokensTyped, Command
    <3>2. c.undisturbed /\ record # None => (record = "succeeded" <=> c.changed)
      BY <2>2, <3>1, TokenAssumption DEF Honest, SuccessOutcomeWord, Command
    <3> QED
      BY <2>6, <3>1, <3>2 DEF Honest
  <2> QED
    BY <1>3, <2>3, <2>4, <2>5, <2>6
<1> QED
  BY <1>1, <1>2, <1>3 DEF TokenCommand, Issue

LEMMA TrailStep == TypeOK /\ TypeOK' /\ TrailInv /\ [Next]_vars => TrailInv'
<1> SUFFICES ASSUME TypeOK, TypeOK', TrailInv, [Next]_vars PROVE TrailInv'
  OBVIOUS
<1>1. ASSUME NEW k \in Commands, TokenCommand(k) PROVE TrailInv'
  BY <1>1, TokenHonest
<1>2. ASSUME NEW k \in Commands, Signal(k) PROVE TrailInv'
  BY <1>2, SignalHonest
<1>3. CASE Next /\ ~ \E k \in Commands : TokenCommand(k) \/ Signal(k)
  BY <1>3, ServerQuiet, OrphanHonest
<1>4. CASE UNCHANGED vars
  BY <1>4, OrphanHonest DEF vars
<1> QED
  BY <1>1, <1>2, <1>3, <1>4

\* The audit trail of the token store is true of every command that was left alone.
THEOREM TrailHolds == Spec => []TrailTrue
<1>1. Init => TrailInv
  BY DEF Init, TrailInv
<1>2. TypeOK /\ TrailInv => TrailTrue
  <2> SUFFICES ASSUME TypeOK, TrailInv, NEW k \in Commands, command[k] # None,
                      command[k].record # None, command[k].undisturbed
               PROVE  (command[k].record = "succeeded") = command[k].changed
    BY DEF TrailTrue
  <2>1. command[k].changed \in BOOLEAN
    BY DEF TypeOK, TokensTyped, Command
  <2>2. command[k].record = "succeeded" <=> command[k].changed
    BY DEF TrailInv, Honest
  <2> QED
    BY <2>1, <2>2
<1> QED
  BY <1>1, <1>2, TrailStep, StartTyped, PTL DEF Spec
=============================================================================
