---------------------------- MODULE DirectActions ----------------------------
(* The operational write tools (unifi_device_action, unifi_client_action,     *)
(* unifi_backup_action), which command a device in one call, together with    *)
(* the SIGHUP reload that replaces inventory, clients and tokens under them.  *)
(*                                                                            *)
(* A call authenticates against the token store, clones one client, checks    *)
(* tool, controller, site and the direct-commit gate, reads the device when   *)
(* its command depends on it, and posts the command.  It gives way between    *)
(* those steps, so a reload, another call or another administrator may act    *)
(* in between, and a command may be carried out after its caller gave up.     *)
EXTENDS Naturals, FiniteSets

CONSTANTS
    Calls,        \* calls in flight at once
    Tokens, Names, Endpoints, Sites,
    Grants,       \* scopes a token can carry
    Configs,      \* entries controllers.json can hold
    Inventories,  \* contents of controllers.json, each [Names -> Configs \cup {None}]
    TokenFiles,   \* contents of the token store, each [Tokens -> Grants \cup {None}]
    Malformed,    \* a file that does not load
    Requests,     \* arguments callers send
    Units,        \* devices and stations
    Home,         \* where each is: [Units -> Endpoints \X Sites]
    Models, Builds,
    Fleets,       \* initial states of the units
    MaxChanges,   \* file edits, and changes to a device that no call of ours made
    None

Gated == {"restart", "adopt", "upgrade", "port_action",
          "block", "unblock", "reconnect"}
Looks == {"adopt", "upgrade", "port_action"}
Ops == Gated \cup {"locate", "trigger", "list"}

\* The tool that carries each operation.
Tool(op) ==
    IF op \in {"block", "unblock", "reconnect"} THEN "unifi_client_action"
    ELSE IF op \in {"trigger", "list"} THEN "unifi_backup_action"
    ELSE "unifi_device_action"

Tools == {Tool(op) : op \in Ops}
Grant == [tools : SUBSET Tools, controllers : SUBSET Names, sites : SUBSET Sites]
Config == [endpoint : Endpoints, site : Sites, private : BOOLEAN, sound : BOOLEAN]

\* `expects` is the model (and serial) adopt names and the build upgrade names.
Request == [op : Ops, name : Names, site : Sites \cup {None}, unit : Units,
            expects : Models \cup Builds \cup {None}]

Unit == [adopted : BOOLEAN, pending : BOOLEAN, model : Models, running : Builds,
         queued : Builds \cup {None}, poe : BOOLEAN, blocked : BOOLEAN]

ASSUME DirectAssumption ==
    /\ Grants \subseteq Grant /\ Configs \subseteq Config
    /\ Inventories \subseteq [Names -> Configs \cup {None}]
    /\ TokenFiles \subseteq [Tokens -> Grants \cup {None}]
    /\ Requests \subseteq Request /\ Home \in [Units -> Endpoints \X Sites]
    /\ Fleets \subseteq [Units -> Unit]
    /\ MaxChanges \in Nat
    /\ None \notin Configs \cup Grants \cup Sites \cup Tokens \cup Builds \cup Models
    /\ Malformed \notin Inventories \cup TokenFiles

VARIABLES
    file, tokenFile,  \* on disk
    allowDirect,      \* --allow-direct-commit, for the life of the process
    registry,         \* ControllerRegistry
    clients,          \* UnifiServer.clients
    store,            \* TokenStoreFile
    signalled,        \* a SIGHUP not yet taken
    hup,              \* where perform_sighup_reload is
    unit,             \* devices, as the controllers know them
    call,
    loaded,           \* every inventory the registry ever held
    changes

settings == <<file, tokenFile, allowDirect>>
snapshots == <<registry, clients, store, signalled, hup, loaded>>
vars == <<file, tokenFile, allowDirect, registry, clients, store, signalled, hup, unit,
          call, loaded, changes>>

\* A caller on stdio has no token and is not restricted.
Unrestricted == [tools |-> Tools, controllers |-> Names, sites |-> Sites]

\* `sent` is the command's way to the controller, `where` its address, `got`
\* the build an upgrade installed.
Call == [pc : {"authenticated", "looking", "posting", "returned"},
         token : Tokens \cup {None}, req : Requests,
         caller : Grants \cup {Unrestricted},
         client : Configs \cup {None},
         audit : {"none", "refused", "open", "ok", "failed"},
         sent : {"no", "flying", "landed", "lost"},
         where : (Endpoints \X Sites) \cup {None},
         got : Builds \cup {None}]

ASSUME NoneAssumption == None \notin Call

TypeOK ==
    /\ file \in Inventories \cup {Malformed}
    /\ tokenFile \in TokenFiles \cup {Malformed} /\ allowDirect \in BOOLEAN
    /\ registry \in Inventories /\ clients \in Inventories /\ store \in TokenFiles
    /\ signalled \in BOOLEAN /\ hup \in {"idle", "clients", "tokens"}
    /\ unit \in [Units -> Unit]
    /\ call \in [Calls -> Call \cup {None}]
    /\ loaded \subseteq Inventories
    /\ changes \in 0 .. MaxChanges

Sound(inventory) == \A n \in Names : inventory[n] # None => inventory[n].sound

Init ==
    /\ file \in Inventories /\ tokenFile \in TokenFiles /\ allowDirect \in BOOLEAN
    /\ Sound(file) /\ registry = file /\ clients = file /\ store = tokenFile
    /\ signalled = FALSE /\ hup = "idle"
    /\ unit \in Fleets
    /\ call = [k \in Calls |-> None]
    /\ loaded = {file} /\ changes = 0

-----------------------------------------------------------------------------
(* SIGHUP: perform_sighup_reload                                            *)

EditInventory ==
    /\ changes < MaxChanges /\ changes' = changes + 1
    /\ file' \in Inventories \cup {Malformed}
    /\ UNCHANGED <<tokenFile, allowDirect, snapshots, unit, call>>

EditTokens ==
    /\ changes < MaxChanges /\ changes' = changes + 1
    /\ tokenFile' \in TokenFiles \cup {Malformed}
    /\ UNCHANGED <<file, allowDirect, snapshots, unit, call>>

Signal ==
    /\ signalled' = TRUE
    /\ UNCHANGED <<settings, registry, clients, store, hup, loaded, unit, call,
                   changes>>

\* Mutant: a failed inventory reload ends the pass.
ReloadRegistryGivesUp ==
    /\ hup = "idle" /\ signalled
    /\ signalled' = FALSE
    /\ \/ /\ file # Malformed
          /\ registry' = file /\ loaded' = loaded \cup {file}
          /\ hup' = "clients"
       \/ /\ file = Malformed
          /\ UNCHANGED <<hup, registry, loaded>>
    /\ UNCHANGED <<settings, clients, store, unit, call, changes>>

\* The inventory; when it does not load the clients are not rebuilt.
ReloadRegistry ==
    /\ hup = "idle" /\ signalled
    /\ signalled' = FALSE
    /\ \/ /\ file # Malformed
          /\ registry' = file /\ loaded' = loaded \cup {file}
          /\ hup' = "clients"
       \/ /\ file = Malformed
          /\ hup' = "tokens"
          /\ UNCHANGED <<registry, loaded>>
    /\ UNCHANGED <<settings, clients, store, unit, call, changes>>

\* Mutant: entries that cannot be built keep their old client.
RebuiltPiecemeal ==
    [n \in Names |-> IF registry[n] = None \/ registry[n].sound THEN registry[n]
                     ELSE clients[n]]

\* rebuild_clients: every entry of the registry, or the previous map.
Rebuilt == IF Sound(registry) THEN registry ELSE clients

RebuildClients ==
    /\ hup = "clients" /\ hup' = "tokens"
    /\ clients' = Rebuilt
    /\ UNCHANGED <<settings, registry, store, signalled, loaded, unit, call, changes>>

ReloadTokens ==
    /\ hup = "tokens" /\ hup' = "idle"
    /\ store' = IF tokenFile = Malformed THEN store ELSE tokenFile
    /\ UNCHANGED <<settings, registry, clients, signalled, loaded, unit, call, changes>>

-----------------------------------------------------------------------------
(* A call                                                                   *)

At(k, pc) == call[k] # None /\ call[k].pc = pc

Become(k, record) ==
    /\ call' = [call EXCEPT ![k] = record]
    /\ UNCHANGED <<settings, snapshots, unit, changes>>

\* The bearer boundary: the caller carries the grant its token had at this time.
Arrive(k, t, req) ==
    /\ \/ call[k] = None
       \/ At(k, "returned") /\ call[k].sent # "flying"
    /\ t # None => store[t] # None
    /\ Become(k, [pc |-> "authenticated", token |-> t, req |-> req,
                  caller |-> IF t = None THEN Unrestricted ELSE store[t],
                  client |-> None, audit |-> "none", sent |-> "no",
                  where |-> None, got |-> None])

\* The site of a request: its own or the controller's default.
SiteOf(req, client) == IF req.site = None THEN client.site ELSE req.site

\* authorize_call, client_for and authorize_write_site.
Permitted(caller, req, client) ==
    /\ Tool(req.op) \in caller.tools /\ req.name \in caller.controllers
    /\ client # None
    /\ SiteOf(req, client) \in caller.sites

\* DeviceActionArgs::validate: adopt and upgrade name what they expect.
Valid(req) == req.op \in {"adopt", "upgrade"} => req.expects # None

\* Mutant: the audit record is finalised by the gate.
GateEarly(req) ==
    IF req.op \notin Gated THEN "none"
    ELSE IF allowDirect THEN "ok" ELSE "refused"

\* gate_direct_commit: an ungated operation has no scope, a gated one a live
\* scope or a recorded refusal.
Gate(req) ==
    IF req.op \notin Gated THEN "none"
    ELSE IF allowDirect THEN "open" ELSE "refused"

\* The common part of the handlers: refused, refused by the gate, or on its way
\* with a clone of the client.
Enter(k, admitted, audit) ==
    /\ At(k, "authenticated")
    /\ LET c == call[k]
       IN \/ /\ ~admitted
             /\ Become(k, [c EXCEPT !.pc = "returned"])
          \/ /\ admitted /\ audit = "refused"
             /\ Become(k, [c EXCEPT !.pc = "returned", !.audit = "refused"])
          \/ /\ admitted /\ audit # "refused"
             /\ Become(k, [c EXCEPT
                  !.pc = IF c.req.op \in Looks THEN "looking" ELSE "posting",
                  !.client = clients[c.req.name], !.audit = audit])

Admits(c) == Permitted(c.caller, c.req, clients[c.req.name])

\* The handlers up to their first request.
DeviceAction(k) ==
    /\ At(k, "authenticated") /\ Tool(call[k].req.op) = "unifi_device_action"
    /\ Enter(k, Admits(call[k]) /\ Valid(call[k].req), Gate(call[k].req))

ClientAction(k) ==
    /\ At(k, "authenticated") /\ Tool(call[k].req.op) = "unifi_client_action"
    /\ Enter(k, Admits(call[k]), Gate(call[k].req))

\* Neither validated nor gated.
BackupAction(k) ==
    /\ At(k, "authenticated") /\ Tool(call[k].req.op) = "unifi_backup_action"
    /\ Enter(k, Admits(call[k]), "none")

Handle(k) == DeviceAction(k) \/ ClientAction(k) \/ BackupAction(k)

Closed(audit, result) == IF audit = "open" THEN result ELSE audit

\* The call returns an error.
Failed(c) == [c EXCEPT !.pc = "returned", !.audit = Closed(c.audit, "failed")]

Address(c) == <<c.client.endpoint, SiteOf(c.req, c.client)>>

\* What the controller reports of a device decides whether the command is sent:
\* adopt_command, upgrade_command and port_action_command.  A queued build is
\* what makes a device upgradable.
Allows(u, req) ==
    \/ req.op = "adopt" /\ ~u.adopted /\ u.pending /\ u.model = req.expects
    \/ req.op = "upgrade" /\ u.adopted /\ u.running # req.expects
                          /\ u.queued = req.expects
    \/ req.op = "port_action" /\ u.adopted /\ u.poe

\* find_private_device, and the decision on what it found.
Look(k) ==
    /\ At(k, "looking")
    /\ LET c == call[k]
       IN \/ /\ c.client.private
             /\ Home[c.req.unit] = Address(c) /\ Allows(unit[c.req.unit], c.req)
             /\ Become(k, [c EXCEPT !.pc = "posting"])
          \/ Become(k, Failed(c))

\* Mutant: the client is looked up again when the command is sent.
TargetAnew(c) ==
    IF clients[c.req.name] = None THEN None
    ELSE Address([c EXCEPT !.client = clients[c.req.name]])

\* The controller and site a command is sent to: those of the cloned client.
Target(c) == Address(c)

\* The command is sent, unless the private surface is not opted into or the
\* request cannot be sent.
Post(k) ==
    /\ At(k, "posting") /\ call[k].sent = "no"
    /\ LET c == call[k]
       IN \/ /\ c.client.private
             /\ Become(k, [c EXCEPT !.sent = "flying", !.where = Target(c)])
          \/ Become(k, Failed(c))

\* Mutant: a request without an answer is sent again.
AnswerRetries(k) ==
    /\ At(k, "posting") /\ call[k].sent # "no"
    /\ LET c == call[k]
       IN \/ /\ c.sent = "landed"
             /\ Become(k, [c EXCEPT !.pc = "returned", !.audit = Closed(c.audit, "ok")])
          \/ Become(k, [c EXCEPT !.sent = "no"])

\* The answer, or the client's timeout, which says nothing of the command.
Answer(k) ==
    /\ At(k, "posting") /\ call[k].sent # "no"
    /\ LET c == call[k]
       IN \/ /\ c.sent = "landed"
             /\ Become(k, [c EXCEPT !.pc = "returned", !.audit = Closed(c.audit, "ok")])
          \/ Become(k, Failed(c))

-----------------------------------------------------------------------------
(* The controllers                                                          *)

\* What a command does.  An upgrade carries no build: it installs the queued one.
Commanded(u, op) ==
    CASE op = "adopt" /\ u.pending -> [u EXCEPT !.adopted = TRUE, !.pending = FALSE]
      [] op = "upgrade" /\ u.queued # None ->
           [u EXCEPT !.running = u.queued, !.queued = None]
      [] op \in {"block", "unblock"} -> [u EXCEPT !.blocked = (op = "block")]
      [] OTHER -> u

\* A command in flight is carried out, at once or after its caller gave up, or
\* is lost or refused.
Arrives(k) ==
    /\ call[k] # None /\ call[k].sent = "flying"
    /\ LET c == call[k]
           u == unit[c.req.unit]
       IN \/ /\ Home[c.req.unit] = c.where
             /\ unit' = [unit EXCEPT ![c.req.unit] = Commanded(u, c.req.op)]
             /\ call' = [call EXCEPT ![k] = [c EXCEPT !.sent = "landed",
                           !.got = IF c.req.op = "upgrade" THEN u.queued ELSE None]]
          \/ /\ call' = [call EXCEPT ![k].sent = "lost"]
             /\ UNCHANGED unit
    /\ UNCHANGED <<settings, snapshots, changes>>

\* Another administrator, or the controller itself: a build is queued, a device
\* is adopted or forgotten, another host informs under the same address.
Drift ==
    /\ changes < MaxChanges /\ changes' = changes + 1
    /\ \E u \in Units, b \in Builds \cup {None}, m \in Models, p \in BOOLEAN :
         \/ unit' = [unit EXCEPT ![u].queued = b]
         \/ unit' = [unit EXCEPT ![u].adopted = ~p, ![u].pending = p, ![u].model = m]
         \/ unit' = [unit EXCEPT ![u].poe = p]
    /\ UNCHANGED <<settings, snapshots, call>>

-----------------------------------------------------------------------------
Reload == ReloadRegistry \/ RebuildClients \/ ReloadTokens
Proceed(k) == Handle(k) \/ Look(k) \/ Post(k) \/ Answer(k)

Next ==
    \/ EditInventory \/ EditTokens \/ Signal \/ Reload \/ Drift
    \/ \E k \in Calls :
         \/ \E t \in Tokens \cup {None}, req \in Requests : Arrive(k, t, req)
         \/ Proceed(k) \/ Arrives(k)

Spec == Init /\ [][Next]_vars

\* The signal task and the tasks of the calls run; the network promises nothing.
FairSpec ==
    /\ Spec /\ WF_vars(Reload)
    /\ \A k \in Calls : WF_vars(Proceed(k))

-----------------------------------------------------------------------------
(* What the tools promise                                                   *)

\* A command only ever goes to the controller its client was built for, on a
\* site and with a tool the token had when the call authenticated, on a surface
\* the controller opted into, and through the gate: also when SIGHUP replaced
\* clients and tokens between authorize_write_site and the POST.
Confined ==
    \A k \in Calls : call[k] # None /\ call[k].sent # "no" =>
        LET c == call[k]
        IN /\ c.where = <<c.client.endpoint, SiteOf(c.req, c.client)>>
           /\ c.where[2] \in c.caller.sites
           /\ c.req.name \in c.caller.controllers /\ Tool(c.req.op) \in c.caller.tools
           /\ c.client.private
           /\ c.req.op \in Gated => allowDirect

\* The direct-commit record is true: `ok` is written after a command the
\* controller carried out, a refused call sent none, a sent command has a live
\* record while it runs and a closed one afterwards.
AuditTrue ==
    \A k \in Calls : call[k] # None =>
        LET c == call[k]
        IN /\ c.audit = "ok" => c.sent = "landed"
           /\ c.audit = "refused" => c.sent = "no"
           /\ c.sent # "no" /\ c.req.op \in Gated => c.audit \in {"open", "ok", "failed"}
           /\ c.pc = "returned" => c.audit # "open"

\* Clients are built from one inventory as a whole, one the registry loaded and
\* whose entries all built: a half-applied reload never serves calls.
WholeInventory == clients \in loaded /\ Sound(clients)

\* Why they hold, call by call.  A call past its handler was admitted then, a
\* command sent is addressed by the client it was admitted with.
Admitted(c) ==
    c.pc \in {"looking", "posting"} \/ c.sent # "no" =>
      /\ Permitted(c.caller, c.req, c.client)
      /\ c.req.op \in Gated => allowDirect
      /\ c.sent # "no" => c.where = Address(c) /\ c.client.private

\* The audit scope follows the call.
Recorded(c) ==
    /\ c.pc \in {"authenticated", "looking"} => c.sent = "no"
    /\ c.pc = "authenticated" => c.audit = "none"
    /\ c.pc \in {"looking", "posting"} =>
         c.audit = IF c.req.op \in Gated THEN "open" ELSE "none"
    /\ c.pc = "returned" => c.audit # "open"
    /\ c.audit = "ok" => c.sent = "landed"
    /\ c.audit = "refused" => c.sent = "no"
    /\ c.sent # "no" /\ c.req.op \in Gated => c.audit \in {"open", "ok", "failed"}

DirectInv == \A k \in Calls : call[k] # None => Admitted(call[k]) /\ Recorded(call[k])

\* What a signal asks for and the server does not have yet.
TokensDue(g) == tokenFile = g /\ (signalled \/ hup # "idle")
ClientsDue(i) == file = i /\ (signalled \/ (hup = "clients" /\ registry = i))

\* Steps to the end of the reloads asked for.
ReloadLeft ==
    (IF signalled THEN 3 ELSE 0)
      + (CASE hup = "clients" -> 2 [] hup = "tokens" -> 1 [] hup = "idle" -> 0)

\* No signal is lost, also one that comes while a reload is under way and one whose
\* reload finds the inventory malformed or a client that cannot be built: what is
\* asked for stays due until the server has it or the file changes again, and every
\* step of the reload comes nearer to it.
ReloadOwed ==
    [][/\ \A g \in TokenFiles :
            TokensDue(g) => TokensDue(g)' \/ store' = g \/ tokenFile' # g
       /\ \A i \in {j \in Inventories : Sound(j)} :
            ClientsDue(i) => ClientsDue(i)' \/ clients' = i \/ file' # i
       /\ ReloadLeft \in Nat /\ (Reload => ReloadLeft' < ReloadLeft)]_vars

\* Steps of its own a call still takes: a command is sent once.
StepsLeft(c) ==
    CASE c.pc = "authenticated" -> 4 [] c.pc = "looking" -> 3
      [] c.pc = "posting" /\ c.sent = "no" -> 2 [] c.pc = "posting" /\ c.sent # "no" -> 1
      [] c.pc = "returned" -> 0

Begins(k) == ~At(k, "authenticated") /\ At(k, "authenticated")'

\* A call that began goes on to its end under the token it came with, whatever a
\* reload did to that token; only a token the server has at the time begins one.
CallsAdvance ==
    [][\A k \in Calls :
         /\ Begins(k) => LET t == call'[k].token IN t # None => store[t] # None
         /\ call[k] # None /\ ~Begins(k) =>
              /\ call'[k] # None /\ call'[k].token = call[k].token
              /\ StepsLeft(call'[k]) \in 0 .. StepsLeft(call[k])
              /\ Proceed(k) => StepsLeft(call'[k]) < StepsLeft(call[k])]_vars

\* A SIGHUP takes effect: a well-formed token file is in use after it even when
\* the inventory beside it does not load, and a sound inventory reaches the
\* clients, unless the file changed again.
ReloadTakesEffect ==
    /\ \A g \in TokenFiles :
         (signalled /\ tokenFile = g) ~> (store = g \/ tokenFile # g)
    /\ \A i \in {j \in Inventories : Sound(j)} :
         (signalled /\ file = i) ~> (clients = i \/ file # i)

\* A revoked token is done: calls that authenticated before the reload return,
\* and no other call of that token starts.
RevocationCompletes ==
    \A t \in Tokens :
        <>[](store[t] = None) =>
        <>[](\A k \in Calls : call[k] # None /\ call[k].token = t =>
                                 call[k].pc = "returned")

\* The module comment of ops.rs: the call never installs a build the caller did
\* not name.
InstallsNamedBuild ==
    \A k \in Calls : call[k] # None /\ call[k].got # None =>
        call[k].got = call[k].req.expects
=============================================================================
