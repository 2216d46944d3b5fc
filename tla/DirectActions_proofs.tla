------------------------ MODULE DirectActions_proofs ------------------------
(***************************************************************************)
(* Proofs about the operational tools, for every set of controllers, sites,*)
(* tokens, requests and concurrent calls, and any number of reloads.       *)
(***************************************************************************)
EXTENDS DirectActions, TLAPS

\* A call that exists is a record.
LEMMA CallTyped ==
    ASSUME TypeOK, NEW k \in Calls, call[k] # None
    PROVE  /\ call[k] \in Call
           /\ call[k].req \in Requests /\ call[k].req \in Request
           /\ call[k].caller \in Grants \cup {Unrestricted}
           /\ call[k].client \in Configs \cup {None}
  BY DirectAssumption DEF TypeOK, Call

\* Replacing the record of one call by another keeps the table well-typed.
LEMMA BecomeTyped ==
    ASSUME TypeOK, NEW k \in Calls, NEW r \in Call, Become(k, r)
    PROVE  TypeOK'
  BY DEF TypeOK, Become, settings, snapshots

\* Replacing fields by values of their type leaves a call.
LEMMA AdmittedTyped ==
    ASSUME NEW c \in Call,
           NEW pc \in {"authenticated", "looking", "posting", "returned"},
           NEW client \in Configs \cup {None},
           NEW audit \in {"none", "refused", "open", "ok", "failed"}
    PROVE  [c EXCEPT !.pc = pc, !.client = client, !.audit = audit] \in Call
<1>1. [c EXCEPT !.pc = pc] \in Call
  BY DEF Call
<1>2. ASSUME NEW d \in Call PROVE [d EXCEPT !.client = client] \in Call
  BY DEF Call
<1>3. ASSUME NEW d \in Call PROVE [d EXCEPT !.audit = audit] \in Call
  BY DEF Call
<1>4. [c EXCEPT !.pc = pc, !.client = client, !.audit = audit]
        = [[[c EXCEPT !.pc = pc] EXCEPT !.client = client] EXCEPT !.audit = audit]
  BY DEF Call
<1> QED
  BY <1>1, <1>2, <1>3, <1>4

\* So does the answer of the controller.
LEMMA LandedTyped ==
    ASSUME NEW c \in Call, NEW got \in Builds \cup {None}
    PROVE  [c EXCEPT !.sent = "landed", !.got = got] \in Call
<1>1. [c EXCEPT !.sent = "landed"] \in Call
  BY DEF Call
<1>2. ASSUME NEW d \in Call PROVE [d EXCEPT !.got = got] \in Call
  BY DEF Call
<1>3. [c EXCEPT !.sent = "landed", !.got = got]
        = [[c EXCEPT !.sent = "landed"] EXCEPT !.got = got]
  BY DEF Call
<1> QED
  BY <1>1, <1>2, <1>3

\* The three handlers enter alike: a backup operation is valid and ungated.
LEMMA HandleEnters ==
    ASSUME NEW k \in Calls, Handle(k)
    PROVE  /\ At(k, "authenticated")
           /\ Enter(k, Admits(call[k]) /\ Valid(call[k].req), Gate(call[k].req))
<1>1. CASE DeviceAction(k)
  BY <1>1 DEF DeviceAction
<1>2. CASE ClientAction(k)
  <2>1. Valid(call[k].req)
    BY <1>2 DEF ClientAction, Valid, Tool
  <2> QED
    BY <1>2, <2>1 DEF ClientAction, Enter
<1>3. CASE BackupAction(k)
  <2>1. Valid(call[k].req) /\ Gate(call[k].req) = "none"
    BY <1>3 DEF BackupAction, Valid, Tool, Gate, Gated
  <2> QED
    BY <1>3, <2>1 DEF BackupAction, Enter
<1> QED
  BY <1>1, <1>2, <1>3 DEF Handle

\* A failed call is a call.
LEMMA FailedTyped == ASSUME NEW c \in Call PROVE Failed(c) \in Call
<1>1. Closed(c.audit, "failed") \in {"none", "refused", "open", "ok", "failed"}
  BY DEF Closed, Call
<1> QED
  BY <1>1 DEF Failed, Call

\* The address of a call with a client is a controller and a site.
LEMMA AddressTyped ==
    ASSUME NEW c \in Call, c.client # None
    PROVE  Address(c) \in Endpoints \X Sites
<1>1. c.client \in Config /\ c.req \in Request
  BY DirectAssumption DEF Call
<1>2. c.client.endpoint \in Endpoints /\ SiteOf(c.req, c.client) \in Sites
  BY <1>1 DEF Config, Request, SiteOf
<1> QED
  BY <1>2 DEF Address

\* What a command leaves behind is a unit.
LEMMA CommandedTyped ==
    ASSUME NEW u \in Unit, NEW op \in Ops
    PROVE  Commanded(u, op) \in Unit
<1>1. CASE op = "adopt" /\ u.pending
  BY <1>1 DEF Commanded, Unit
<1>2. CASE ~(op = "adopt" /\ u.pending) /\ op = "upgrade" /\ u.queued # None
  BY <1>2 DEF Commanded, Unit
<1>3. CASE op \in {"block", "unblock"}
  BY <1>3 DEF Commanded, Unit
<1>4. CASE /\ ~(op = "adopt" /\ u.pending) /\ ~(op = "upgrade" /\ u.queued # None)
           /\ op \notin {"block", "unblock"}
  BY <1>4 DEF Commanded, Unit
<1> QED
  BY <1>1, <1>2, <1>3, <1>4

\* The type invariant holds initially.
LEMMA InitTyped == Init => TypeOK
<1> SUFFICES ASSUME Init PROVE TypeOK
  OBVIOUS
<1>1. unit \in [Units -> Unit]
  BY DirectAssumption DEF Init
<1>2. call \in [Calls -> Call \cup {None}]
  BY DEF Init
<1>3. changes \in 0 .. MaxChanges
  BY DirectAssumption DEF Init
<1> QED
  BY <1>1, <1>2, <1>3 DEF Init, TypeOK

\* A step keeps it; an address is well-typed because a call that posts was admitted.
LEMMA NextTyped == TypeOK /\ DirectInv /\ [Next]_vars => TypeOK'
<1> SUFFICES ASSUME TypeOK, DirectInv, [Next]_vars PROVE TypeOK'
  OBVIOUS
<1>1. CASE EditInventory \/ EditTokens
  BY <1>1, DirectAssumption DEF EditInventory, EditTokens, TypeOK, snapshots
<1>2. CASE Signal
  BY <1>2 DEF Signal, TypeOK, settings
<1>3. CASE Reload
  BY <1>3 DEF Reload, ReloadRegistry, RebuildClients, ReloadTokens, Rebuilt,
     TypeOK, settings
<1>4. CASE Drift
  <2>1. PICK u \in Units, b \in Builds \cup {None}, m \in Models, p \in BOOLEAN :
          \/ unit' = [unit EXCEPT ![u].queued = b]
          \/ unit' = [unit EXCEPT ![u].adopted = ~p, ![u].pending = p, ![u].model = m]
          \/ unit' = [unit EXCEPT ![u].poe = p]
    BY <1>4 DEF Drift
  <2>2. unit' \in [Units -> Unit]
    <3>1. unit \in [Units -> Unit] /\ unit[u] \in Unit
      BY DEF TypeOK
    <3>2. CASE unit' = [unit EXCEPT ![u].queued = b]
      <4>1. [unit[u] EXCEPT !.queued = b] \in Unit
        BY <3>1 DEF Unit
      <4> QED BY <3>1, <3>2, <4>1
    <3>3. CASE unit' = [unit EXCEPT ![u].adopted = ~p, ![u].pending = p, ![u].model = m]
      <4>1. [unit[u] EXCEPT !.adopted = ~p, !.pending = p, !.model = m] \in Unit
        BY <3>1 DEF Unit
      <4>2. unit' = [unit EXCEPT ![u] = [unit[u] EXCEPT !.adopted = ~p, !.pending = p,
                                                        !.model = m]]
        BY <3>1, <3>3
      <4> QED BY <3>1, <4>1, <4>2
    <3>4. CASE unit' = [unit EXCEPT ![u].poe = p]
      <4>1. [unit[u] EXCEPT !.poe = p] \in Unit
        BY <3>1 DEF Unit
      <4> QED BY <3>1, <3>4, <4>1
    <3> QED
      BY <2>1, <3>2, <3>3, <3>4
  <2> QED
    BY <1>4, <2>2, DirectAssumption DEF Drift, TypeOK, settings, snapshots
<1>5. ASSUME NEW k \in Calls, NEW t \in Tokens \cup {None}, NEW req \in Requests,
             Arrive(k, t, req)
      PROVE  TypeOK'
  <2> DEFINE r == [pc |-> "authenticated", token |-> t, req |-> req,
                   caller |-> IF t = None THEN Unrestricted ELSE store[t],
                   client |-> None, audit |-> "none", sent |-> "no",
                   where |-> None, got |-> None]
  <2>1. t # None => store[t] \in Grants
    BY <1>5, DirectAssumption DEF Arrive, TypeOK
  <2>2. r \in Call
    BY <2>1 DEF Call
  <2>3. Become(k, r)
    BY <1>5 DEF Arrive
  <2> QED
    BY <2>2, <2>3, BecomeTyped
<1>6. ASSUME NEW k \in Calls, Handle(k) PROVE TypeOK'
  <2> DEFINE c == call[k]
  <2>1. c \in Call /\ c.req \in Request
    BY <1>6, HandleEnters, CallTyped DEF At
  <2>2. clients[c.req.name] \in Configs \cup {None}
    BY <2>1, DirectAssumption DEF TypeOK, Request
  <2>3. /\ [c EXCEPT !.pc = "returned"] \in Call
        /\ [c EXCEPT !.pc = "returned", !.audit = "refused"] \in Call
        /\ [c EXCEPT !.pc = IF c.req.op \in Looks THEN "looking" ELSE "posting",
                     !.client = clients[c.req.name], !.audit = Gate(c.req)] \in Call
    <3>1. /\ Gate(c.req) \in {"none", "refused", "open", "ok", "failed"}
          /\ (IF c.req.op \in Looks THEN "looking" ELSE "posting")
               \in {"authenticated", "looking", "posting", "returned"}
      BY DEF Gate
    <3>2. /\ [c EXCEPT !.pc = "returned"] \in Call
          /\ [c EXCEPT !.pc = "returned", !.audit = "refused"] \in Call
      BY <2>1 DEF Call
    <3>3. [c EXCEPT !.pc = IF c.req.op \in Looks THEN "looking" ELSE "posting",
                    !.client = clients[c.req.name], !.audit = Gate(c.req)] \in Call
      <4> DEFINE next == IF c.req.op \in Looks THEN "looking" ELSE "posting"
                 client == clients[c.req.name]
                 audit == Gate(c.req)
      <4>1. /\ next \in {"authenticated", "looking", "posting", "returned"}
            /\ client \in Configs \cup {None}
            /\ audit \in {"none", "refused", "open", "ok", "failed"}
        BY <2>2, <3>1
      <4> HIDE DEF c, next, client, audit
      <4>2. [c EXCEPT !.pc = next, !.client = client, !.audit = audit] \in Call
        BY <2>1, <4>1, AdmittedTyped
      <4> QED
        BY <4>2 DEF c, next, client, audit
    <3> QED
      BY <3>2, <3>3
  <2> QED
    BY <1>6, HandleEnters, <2>3, BecomeTyped DEF Enter
<1>7. ASSUME NEW k \in Calls, Look(k) PROVE TypeOK'
  <2>1. call[k] \in Call
    BY <1>7, CallTyped DEF Look, At
  <2>2. [call[k] EXCEPT !.pc = "posting"] \in Call
    BY <2>1 DEF Call
  <2> QED
    BY <1>7, <2>1, <2>2, BecomeTyped, FailedTyped DEF Look
<1>8. ASSUME NEW k \in Calls, Post(k) PROVE TypeOK'
  <2>1. call[k] \in Call /\ call[k].client # None
    BY <1>8, CallTyped DEF Post, At, DirectInv, Admitted, Permitted
  <2>2. [call[k] EXCEPT !.sent = "flying", !.where = Target(call[k])] \in Call
    BY <2>1, AddressTyped DEF Call, Target
  <2> QED
    BY <1>8, <2>1, <2>2, BecomeTyped, FailedTyped DEF Post
<1>9. ASSUME NEW k \in Calls, Answer(k) PROVE TypeOK'
  <2>1. call[k] \in Call
    BY <1>9, CallTyped DEF Answer, At
  <2>2. [call[k] EXCEPT !.pc = "returned", !.audit = Closed(call[k].audit, "ok")] \in Call
    <3>1. Closed(call[k].audit, "ok") \in {"none", "refused", "open", "ok", "failed"}
      BY <2>1 DEF Call, Closed
    <3> QED
      BY <2>1, <3>1 DEF Call
  <2> QED
    BY <1>9, <2>1, <2>2, BecomeTyped, FailedTyped DEF Answer
<1>10. ASSUME NEW k \in Calls, Arrives(k) PROVE TypeOK'
  <2> DEFINE c == call[k]
             u == unit[c.req.unit]
             landed == [c EXCEPT !.sent = "landed",
                          !.got = IF c.req.op = "upgrade" THEN u.queued ELSE None]
  <2>1. c \in Call /\ c.req \in Request
    BY <1>10, CallTyped DEF Arrives
  <2>2. c.req.unit \in Units /\ u \in Unit
    BY <2>1 DEF TypeOK, Request
  <2>3. landed \in Call
    <3>1. (IF c.req.op = "upgrade" THEN u.queued ELSE None) \in Builds \cup {None}
      BY <2>2 DEF Unit
    <3> QED
      BY <2>1, <3>1, LandedTyped
  <2>4. [c EXCEPT !.sent = "lost"] \in Call
    BY <2>1 DEF Call
  <2>5. Commanded(u, c.req.op) \in Unit
    BY <2>1, <2>2, CommandedTyped DEF Request
  <2>6. /\ unit' = [unit EXCEPT ![c.req.unit] = Commanded(u, c.req.op)] \/ unit' = unit
        /\ call' = [call EXCEPT ![k] = landed]
             \/ call' = [call EXCEPT ![k] = [c EXCEPT !.sent = "lost"]]
        /\ UNCHANGED <<settings, snapshots, changes>>
    BY <1>10, <2>1 DEF Arrives, TypeOK
  <2>7. unit' \in [Units -> Unit]
    BY <2>6, <2>5, <2>2 DEF TypeOK
  <2>8. call' \in [Calls -> Call \cup {None}]
    <3> HIDE DEF landed, c
    <3> QED BY <2>6, <2>3, <2>4 DEF TypeOK
  <2> QED
    BY <2>6, <2>7, <2>8 DEF TypeOK, settings, snapshots
<1>11. CASE UNCHANGED vars
  BY <1>11 DEF vars, TypeOK
<1> QED
  BY <1>1, <1>2, <1>3, <1>4, <1>5, <1>6, <1>7, <1>8, <1>9, <1>10, <1>11
  DEF Next, Proceed

-----------------------------------------------------------------------------
(* Admission and audit                                                      *)

\* Nothing is in flight initially.
LEMMA InitInv == Init => DirectInv
  BY DEF Init, DirectInv

\* What holds of a call holds of it until it takes a step of its own.
LEMMA OthersKeep ==
    ASSUME DirectInv, NEW k \in Calls, NEW r, call' = [call EXCEPT ![k] = r],
           call \in [Calls -> Call \cup {None}], allowDirect' = allowDirect,
           Admitted(r), Recorded(r)
    PROVE  DirectInv'
<1> SUFFICES ASSUME NEW j \in Calls, call'[j] # None
             PROVE  Admitted(call'[j]) /\ Recorded(call'[j])
  BY DEF DirectInv, Admitted, Recorded, Permitted, SiteOf, Address
<1>1. CASE j = k
  BY <1>1
<1>2. CASE j # k
  BY <1>2 DEF DirectInv
<1> QED
  BY <1>1, <1>2

\* A call that fails keeps its admission, and its record is closed.
LEMMA FailedKeeps ==
    ASSUME NEW c \in Call, c.pc \in {"looking", "posting"}, Admitted(c), Recorded(c)
    PROVE  Admitted(Failed(c)) /\ Recorded(Failed(c))
<1>1. /\ Failed(c).pc = "returned" /\ Failed(c).req = c.req
      /\ Failed(c).caller = c.caller /\ Failed(c).client = c.client
      /\ Failed(c).sent = c.sent /\ Failed(c).where = c.where
      /\ Failed(c).audit = Closed(c.audit, "failed")
  BY DEF Failed, Call
<1>2. Admitted(Failed(c))
  BY <1>1 DEF Admitted, Address
<1>3. Recorded(Failed(c))
  BY <1>1 DEF Recorded, Closed
<1> QED
  BY <1>2, <1>3

\* The flag is that of the process.
LEMMA FlagFixed == [Next]_vars => allowDirect' = allowDirect
  BY DEF Next, Reload, Proceed, EditInventory, EditTokens, Signal, ReloadRegistry,
     RebuildClients, ReloadTokens, Drift, Arrive, Handle, DeviceAction, ClientAction,
     BackupAction, Enter, Look, Post, Answer, Arrives, Become, settings, vars

\* A step keeps admission and audit of every call.
LEMMA NextInv == TypeOK /\ DirectInv /\ [Next]_vars => DirectInv'
<1> SUFFICES ASSUME TypeOK, DirectInv, [Next]_vars PROVE DirectInv'
  OBVIOUS
<1>0. call \in [Calls -> Call \cup {None}]
  BY DEF TypeOK
<1>9. allowDirect' = allowDirect
  BY FlagFixed
<1>1. ASSUME call' = call PROVE DirectInv'
  BY <1>1, <1>9 DEF DirectInv, Admitted, Recorded, Permitted, SiteOf, Address
<1>2. CASE EditInventory \/ EditTokens \/ Signal \/ Reload \/ Drift \/ UNCHANGED vars
  BY <1>1, <1>2 DEF EditInventory, EditTokens, Signal, Reload, ReloadRegistry,
     RebuildClients, ReloadTokens, Drift, vars
<1>3. ASSUME NEW k \in Calls, NEW t \in Tokens \cup {None}, NEW req \in Requests,
             Arrive(k, t, req)
      PROVE  DirectInv'
  <2> DEFINE r == [pc |-> "authenticated", token |-> t, req |-> req,
                   caller |-> IF t = None THEN Unrestricted ELSE store[t],
                   client |-> None, audit |-> "none", sent |-> "no",
                   where |-> None, got |-> None]
  <2>1. Admitted(r) /\ Recorded(r)
    BY DEF Admitted, Recorded
  <2>2. call' = [call EXCEPT ![k] = r]
    BY <1>3 DEF Arrive, Become
  <2> HIDE DEF r
  <2> QED
    BY <2>1, <2>2, <1>0, <1>9, OthersKeep
<1>4. ASSUME NEW k \in Calls, Handle(k) PROVE DirectInv'
  <2> DEFINE c == call[k]
             client == clients[c.req.name]
             refused == [c EXCEPT !.pc = "returned"]
             denied == [c EXCEPT !.pc = "returned", !.audit = "refused"]
             passed == [c EXCEPT !.pc = IF c.req.op \in Looks THEN "looking" ELSE "posting",
                                 !.client = client, !.audit = Gate(c.req)]
  <2>1. c \in Call /\ c.sent = "no" /\ c.audit = "none" /\ c # None
    BY <1>4, HandleEnters, CallTyped DEF At, DirectInv, Recorded
  <2>2. /\ refused.pc = "returned" /\ refused.sent = "no" /\ refused.audit = "none"
        /\ denied.pc = "returned" /\ denied.sent = "no" /\ denied.audit = "refused"
    BY <2>1 DEF Call
  <2>3. Admitted(refused) /\ Recorded(refused) /\ Admitted(denied) /\ Recorded(denied)
    <3> HIDE DEF refused, denied
    <3> QED BY <2>2 DEF Admitted, Recorded
  <2>4. /\ passed.pc \in {"looking", "posting"} /\ passed.sent = "no"
        /\ passed.audit = Gate(c.req) /\ passed.req = c.req
        /\ passed.caller = c.caller /\ passed.client = client
    BY <2>1 DEF Call
  <2>5. ASSUME Permitted(c.caller, c.req, client), Gate(c.req) # "refused"
        PROVE  Admitted(passed) /\ Recorded(passed)
    <3> HIDE DEF passed, client
    <3> QED BY <2>4, <2>5 DEF Admitted, Recorded, Gate
  <2>6. \/ call' = [call EXCEPT ![k] = refused]
        \/ call' = [call EXCEPT ![k] = denied]
        \/ /\ call' = [call EXCEPT ![k] = passed]
           /\ Permitted(c.caller, c.req, client) /\ Gate(c.req) # "refused"
    BY <1>4, HandleEnters DEF Enter, Admits, Become
  <2> HIDE DEF refused, denied, passed, client
  <2> QED
    BY <2>3, <2>5, <2>6, <1>0, <1>9, OthersKeep
<1>5. ASSUME NEW k \in Calls, Look(k) PROVE DirectInv'
  <2> DEFINE c == call[k]
             cleared == [c EXCEPT !.pc = "posting"]
  <2>1. c \in Call /\ c.pc = "looking" /\ Admitted(c) /\ Recorded(c)
    BY <1>5, CallTyped DEF Look, At, DirectInv
  <2>2. /\ cleared.pc = "posting" /\ cleared.req = c.req /\ cleared.caller = c.caller
        /\ cleared.client = c.client /\ cleared.sent = c.sent
        /\ cleared.audit = c.audit
    BY <2>1 DEF Call
  <2>3. Admitted(cleared) /\ Recorded(cleared)
    <3> HIDE DEF cleared
    <3> QED BY <2>1, <2>2 DEF Admitted, Recorded
  <2>4. call' = [call EXCEPT ![k] = cleared] \/ call' = [call EXCEPT ![k] = Failed(c)]
    BY <1>5 DEF Look, Become
  <2>5. Admitted(Failed(c)) /\ Recorded(Failed(c))
    BY <2>1, FailedKeeps
  <2> HIDE DEF cleared
  <2> QED
    BY <2>3, <2>4, <2>5, <1>0, <1>9, OthersKeep
<1>6. ASSUME NEW k \in Calls, Post(k) PROVE DirectInv'
  <2> DEFINE c == call[k]
             posted == [c EXCEPT !.sent = "flying", !.where = Target(c)]
  <2>1. /\ c \in Call /\ c.pc = "posting" /\ c.sent = "no"
        /\ Admitted(c) /\ Recorded(c)
    BY <1>6, CallTyped DEF Post, At, DirectInv
  <2>2. /\ posted.pc = "posting" /\ posted.req = c.req /\ posted.caller = c.caller
        /\ posted.client = c.client /\ posted.sent = "flying"
        /\ posted.audit = c.audit /\ posted.where = Address(c)
    BY <2>1 DEF Call, Target
  <2>3. ASSUME c.client.private PROVE Admitted(posted) /\ Recorded(posted)
    <3> HIDE DEF posted
    <3> QED BY <2>1, <2>2, <2>3 DEF Admitted, Recorded, Address
  <2>4. \/ call' = [call EXCEPT ![k] = posted] /\ c.client.private
        \/ call' = [call EXCEPT ![k] = Failed(c)]
    BY <1>6 DEF Post, Become
  <2>5. Admitted(Failed(c)) /\ Recorded(Failed(c))
    BY <2>1, FailedKeeps
  <2> HIDE DEF posted
  <2> QED
    BY <2>3, <2>4, <2>5, <1>0, <1>9, OthersKeep
<1>7. ASSUME NEW k \in Calls, Answer(k) PROVE DirectInv'
  <2> DEFINE c == call[k]
             done == [c EXCEPT !.pc = "returned", !.audit = Closed(c.audit, "ok")]
  <2>1. c \in Call /\ c.pc = "posting" /\ Admitted(c) /\ Recorded(c)
    BY <1>7, CallTyped DEF Answer, At, DirectInv
  <2>2. /\ done.pc = "returned" /\ done.req = c.req /\ done.caller = c.caller
        /\ done.client = c.client /\ done.sent = c.sent /\ done.where = c.where
        /\ done.audit = Closed(c.audit, "ok")
    BY <2>1 DEF Call
  <2>3. ASSUME c.sent = "landed" PROVE Admitted(done) /\ Recorded(done)
    <3> HIDE DEF done
    <3> QED BY <2>1, <2>2, <2>3 DEF Admitted, Recorded, Address, Closed
  <2>4. \/ call' = [call EXCEPT ![k] = done] /\ c.sent = "landed"
        \/ call' = [call EXCEPT ![k] = Failed(c)]
    BY <1>7 DEF Answer, Become
  <2>5. Admitted(Failed(c)) /\ Recorded(Failed(c))
    BY <2>1, FailedKeeps
  <2> HIDE DEF done
  <2> QED
    BY <2>3, <2>4, <2>5, <1>0, <1>9, OthersKeep
<1>8. ASSUME NEW k \in Calls, Arrives(k) PROVE DirectInv'
  <2> DEFINE c == call[k]
  <2>1. c \in Call /\ c.sent = "flying" /\ Admitted(c) /\ Recorded(c)
    BY <1>8, CallTyped DEF Arrives, DirectInv
  <2>2. PICK r \in Call :
          /\ call' = [call EXCEPT ![k] = r]
          /\ r.pc = c.pc /\ r.req = c.req /\ r.caller = c.caller
          /\ r.client = c.client /\ r.where = c.where /\ r.audit = c.audit
          /\ r.sent \in {"landed", "lost"}
    <3> DEFINE l == [c EXCEPT !.sent = "landed",
                     !.got = IF c.req.op = "upgrade" THEN unit[c.req.unit].queued ELSE None]
               f == [c EXCEPT !.sent = "lost"]
    <3>1. unit[c.req.unit] \in Unit
      BY <1>8, CallTyped DEF Arrives, TypeOK, Request
    <3>2. l \in Call /\ f \in Call
      <4>1. (IF c.req.op = "upgrade" THEN unit[c.req.unit].queued ELSE None)
              \in Builds \cup {None}
        BY <3>1 DEF Unit
      <4>2. f \in Call
        BY <2>1 DEF Call
      <4> QED
        BY <2>1, <4>1, <4>2, LandedTyped
    <3>3. call' = [call EXCEPT ![k] = l] \/ call' = [call EXCEPT ![k] = f]
      BY <1>8, <1>0 DEF Arrives
    <3>4. /\ l.pc = c.pc /\ l.req = c.req /\ l.caller = c.caller /\ l.client = c.client
          /\ l.where = c.where /\ l.audit = c.audit /\ l.sent = "landed"
          /\ f.pc = c.pc /\ f.req = c.req /\ f.caller = c.caller /\ f.client = c.client
          /\ f.where = c.where /\ f.audit = c.audit /\ f.sent = "lost"
      BY <2>1 DEF Call
    <3> HIDE DEF l, f
    <3> QED BY <3>2, <3>3, <3>4
  <2>3. Admitted(r) /\ Recorded(r)
    BY <2>1, <2>2 DEF Admitted, Recorded, Address
  <2> QED
    BY <2>2, <2>3, <1>0, <1>9, OthersKeep
<1> QED
  BY <1>2, <1>3, <1>4, <1>5, <1>6, <1>7, <1>8 DEF Next, Proceed

\* What holds call by call says that commands are confined.
LEMMA InvConfines == TypeOK /\ DirectInv => Confined
<1> SUFFICES ASSUME TypeOK, DirectInv, NEW k \in Calls, call[k] # None,
                    call[k].sent # "no"
             PROVE  LET c == call[k]
                    IN /\ c.where = <<c.client.endpoint, SiteOf(c.req, c.client)>>
                       /\ c.where[2] \in c.caller.sites
                       /\ c.req.name \in c.caller.controllers
                       /\ Tool(c.req.op) \in c.caller.tools
                       /\ c.client.private
                       /\ c.req.op \in Gated => allowDirect
  BY DEF Confined
<1> QED
  BY DEF DirectInv, Admitted, Permitted, Address

\* And that the audit records are true.
LEMMA InvRecords == DirectInv => AuditTrue
  BY DEF DirectInv, Recorded, AuditTrue

-----------------------------------------------------------------------------
(* Theorems                                                                 *)

\* Every variable keeps its type, whatever is edited, reloaded and commanded.
THEOREM DirectTyped == Spec => []TypeOK
<1>1. Init => TypeOK /\ DirectInv
  BY InitTyped, InitInv
<1>2. TypeOK /\ DirectInv /\ [Next]_vars => (TypeOK /\ DirectInv)'
  BY NextTyped, NextInv
<1> QED
  BY <1>1, <1>2, PTL DEF Spec

\* Every call past its handler was admitted, and its record follows it.
THEOREM DirectSafe == Spec => []DirectInv
<1>1. Init => TypeOK /\ DirectInv
  BY InitTyped, InitInv
<1>2. TypeOK /\ DirectInv /\ [Next]_vars => (TypeOK /\ DirectInv)'
  BY NextTyped, NextInv
<1> QED
  BY <1>1, <1>2, PTL DEF Spec

\* Commands go where their token and the inventory allowed, under any reload.
THEOREM ConfinedHolds == Spec => []Confined
  BY DirectTyped, DirectSafe, InvConfines, PTL

\* The direct-commit records are true.
THEOREM AuditHolds == Spec => []AuditTrue
  BY DirectSafe, InvRecords, PTL

\* What the registry loaded is remembered, so a rebuild is of a loaded inventory.
WholeInv == WholeInventory /\ registry \in loaded

\* Clients are always those of one loaded inventory whose entries all built.
THEOREM WholeHolds == Spec => []WholeInventory
<1>1. Init => WholeInv
  BY DEF Init, WholeInv, WholeInventory
<1>2. WholeInv /\ [Next]_vars => WholeInv'
  <2> SUFFICES ASSUME WholeInv, [Next]_vars PROVE WholeInv'
    OBVIOUS
  <2>1. CASE UNCHANGED <<registry, clients, loaded>>
    BY <2>1 DEF WholeInv, WholeInventory, Sound
  <2>2. CASE ReloadRegistry
    BY <2>2 DEF ReloadRegistry, WholeInv, WholeInventory, Sound
  <2>3. CASE RebuildClients
    BY <2>3 DEF RebuildClients, Rebuilt, WholeInv, WholeInventory, Sound
  <2>4. CASE EditInventory \/ EditTokens \/ Signal \/ ReloadTokens \/ Drift
    BY <2>1, <2>4 DEF EditInventory, EditTokens, Signal, ReloadTokens, Drift, snapshots
  <2>5. ASSUME NEW k \in Calls, NEW t \in Tokens \cup {None}, NEW req \in Requests,
               Arrive(k, t, req)
        PROVE  WholeInv'
    BY <2>1, <2>5 DEF Arrive, Become, snapshots
  <2>6. ASSUME NEW k \in Calls, Proceed(k) \/ Arrives(k) PROVE WholeInv'
    BY <2>1, <2>6, HandleEnters DEF Proceed, Enter, Look, Post, Answer, Arrives, Become, snapshots
  <2> QED
    BY <2>1, <2>2, <2>3, <2>4, <2>5, <2>6 DEF Next, Reload, vars
<1>3. WholeInv => WholeInventory
  BY DEF WholeInv
<1> QED
  BY <1>1, <1>2, <1>3, PTL DEF Spec

-----------------------------------------------------------------------------
(* What a signal asks for is done                                           *)

\* Nothing but the reload, a signal and an edit touches what is due.
LEMMA DueKept ==
    [Next]_vars =>
        \/ UNCHANGED <<file, tokenFile, registry, clients, store, signalled, hup>>
        \/ EditInventory \/ EditTokens \/ Signal \/ Reload
  BY DEF Next, Proceed, Drift, Arrive, Handle, DeviceAction, ClientAction, BackupAction,
     Enter, Look, Post, Answer, Arrives, Become, settings, snapshots, vars

\* For any files, edits and signals, in any order: no signal is lost.
THEOREM ReloadsOwed == Spec => ReloadOwed
<1> DEFINE Owed ==
      /\ \A g \in TokenFiles :
            TokensDue(g) => TokensDue(g)' \/ store' = g \/ tokenFile' # g
      /\ \A i \in {j \in Inventories : Sound(j)} :
            ClientsDue(i) => ClientsDue(i)' \/ clients' = i \/ file' # i
      /\ ReloadLeft \in Nat /\ (Reload => ReloadLeft' < ReloadLeft)
<1>1. ASSUME TypeOK, [Next]_vars PROVE Owed
  <2>1. signalled \in BOOLEAN /\ hup \in {"idle", "clients", "tokens"}
    BY <1>1 DEF TypeOK
  <2>2. ASSUME NEW g \in TokenFiles, TokensDue(g)
        PROVE  TokensDue(g)' \/ store' = g \/ tokenFile' # g
    <3>1. g # Malformed
      BY DirectAssumption
    <3>2. CASE ~ReloadTokens
      BY <1>1, <2>1, <2>2, <3>2, DueKept DEF TokensDue, EditInventory, EditTokens, Signal,
         Reload, ReloadRegistry, RebuildClients, settings, snapshots
    <3>3. CASE ReloadTokens
      BY <2>2, <3>1, <3>3 DEF TokensDue, ReloadTokens
    <3> QED
      BY <3>2, <3>3
  <2>3. ASSUME NEW i \in Inventories, Sound(i), ClientsDue(i)
        PROVE  ClientsDue(i)' \/ clients' = i \/ file' # i
    <3>1. i # Malformed
      BY DirectAssumption
    <3>2. CASE ReloadRegistry
      BY <2>3, <3>1, <3>2 DEF ClientsDue, ReloadRegistry, settings
    <3>3. CASE RebuildClients
      BY <2>3, <3>3 DEF ClientsDue, RebuildClients, Rebuilt, settings
    <3>4. CASE ~ReloadRegistry /\ ~RebuildClients
      BY <1>1, <2>3, <3>4, DueKept DEF ClientsDue, EditInventory, EditTokens, Signal,
         Reload, ReloadTokens, settings, snapshots
    <3> QED
      BY <3>2, <3>3, <3>4
  <2>4. ReloadLeft \in Nat
    BY <2>1 DEF ReloadLeft
  <2>5. ASSUME Reload PROVE ReloadLeft' < ReloadLeft
    <3>1. CASE ReloadRegistry
      BY <3>1 DEF ReloadRegistry, ReloadLeft
    <3>2. CASE RebuildClients
      BY <3>2 DEF RebuildClients, ReloadLeft
    <3>3. CASE ReloadTokens
      BY <3>3 DEF ReloadTokens, ReloadLeft
    <3> QED
      BY <2>5, <3>1, <3>2, <3>3 DEF Reload
  <2> QED
    BY <2>2, <2>3, <2>4, <2>5
<1>2. TypeOK /\ [Next]_vars => [Owed]_vars
  BY <1>1
<1> QED
  BY <1>2, DirectTyped, PTL DEF Spec, ReloadOwed

-----------------------------------------------------------------------------
(* What began comes to an end                                               *)

LEMMA StepsBound ==
    ASSUME NEW c \in Call
    PROVE  /\ StepsLeft(c) \in 0 .. 4
           /\ c.pc = "returned" => StepsLeft(c) = 0
           /\ c.pc = "posting" => StepsLeft(c) \in {1, 2}
           /\ c.pc = "posting" /\ c.sent # "no" => StepsLeft(c) = 1
           /\ c.pc = "posting" /\ c.sent = "no" => StepsLeft(c) = 2
           /\ c.pc = "looking" => StepsLeft(c) = 3
           /\ c.pc = "authenticated" => StepsLeft(c) = 4
<1>1. c.pc \in {"authenticated", "looking", "posting", "returned"}
  BY DEF Call
<1> QED
  BY <1>1 DEF StepsLeft

\* A step after which call k is the same call with fewer steps left.
Nearer(k) ==
    /\ call[k] \in Call
    /\ \E r \in Call : /\ call' = [call EXCEPT ![k] = r]
                       /\ r.token = call[k].token /\ r.pc # "authenticated"
                       /\ StepsLeft(r) < StepsLeft(call[k])

LEMMA FailedNearer ==
    ASSUME TypeOK, NEW k \in Calls, call[k] # None,
           call[k].pc \in {"looking", "posting"}, Become(k, Failed(call[k]))
    PROVE  Nearer(k)
<1>1. call[k] \in Call /\ Failed(call[k]) \in Call
  BY CallTyped, FailedTyped
<1>2. Failed(call[k]).pc = "returned" /\ Failed(call[k]).token = call[k].token
  BY <1>1 DEF Failed, Call
<1>3. StepsLeft(Failed(call[k])) = 0 /\ StepsLeft(call[k]) \in {1, 2, 3}
  BY <1>1, <1>2, StepsBound
<1>4. StepsLeft(Failed(call[k])) < StepsLeft(call[k])
  BY <1>3
<1> QED
  BY <1>1, <1>2, <1>4 DEF Nearer, Become

LEMMA ProceedNearer ==
    ASSUME TypeOK, DirectInv, NEW k \in Calls, Proceed(k) PROVE Nearer(k)
<1> DEFINE c == call[k]
<1>1. c # None
  <2>1. CASE Handle(k)
    BY <2>1, HandleEnters DEF At
  <2> QED
    BY <2>1 DEF Proceed, Look, Post, Answer, At
<1>2. c \in Call
  BY <1>1, CallTyped
<1>3. CASE Handle(k)
  <2>1. c.pc = "authenticated" /\ StepsLeft(c) = 4
    BY <1>2, <1>3, HandleEnters, StepsBound DEF At
  <2>2. ASSUME NEW pc \in {"looking", "posting", "returned"},
               NEW client \in Configs \cup {None},
               NEW audit \in {"none", "refused", "open", "ok", "failed"},
               Become(k, [c EXCEPT !.pc = pc, !.client = client, !.audit = audit])
        PROVE  Nearer(k)
    <3>1. PICK r : r = [c EXCEPT !.pc = pc, !.client = client, !.audit = audit]
      OBVIOUS
    <3>2. r \in Call
      BY <1>2, <3>1, AdmittedTyped
    <3>3. r.pc = pc /\ r.token = c.token
      BY <1>2, <3>1 DEF Call
    <3>4. r.pc # "authenticated" /\ StepsLeft(r) \in {0, 1, 2, 3}
      BY <3>2, <3>3, StepsBound
    <3>5. StepsLeft(r) < StepsLeft(c)
      BY <2>1, <3>4
    <3> QED
      BY <1>2, <2>2, <3>1, <3>2, <3>3, <3>4, <3>5 DEF Nearer, Become
  <2>3. clients[c.req.name] \in Configs \cup {None}
    BY <1>1, CallTyped, DirectAssumption DEF TypeOK, Request
  <2>4. Gate(c.req) \in {"none", "refused", "open"}
    BY DEF Gate
  <2>5. /\ c = [c EXCEPT !.client = c.client, !.audit = c.audit]
        /\ c.client \in Configs \cup {None}
        /\ c.audit \in {"none", "refused", "open", "ok", "failed"}
    BY <1>2 DEF Call
  <2>6. CASE Become(k, [c EXCEPT !.pc = "returned"])
    <3>1. PICK client, audit : client = c.client /\ audit = c.audit
      OBVIOUS
    <3>2. [c EXCEPT !.pc = "returned"] =
            [c EXCEPT !.pc = "returned", !.client = client, !.audit = audit]
      BY <1>2, <3>1 DEF Call
    <3> QED
      BY <2>2, <2>5, <2>6, <3>1, <3>2
  <2>7. CASE Become(k, [c EXCEPT !.pc = "returned", !.audit = "refused"])
    <3>1. PICK client : client = c.client
      OBVIOUS
    <3>2. [c EXCEPT !.pc = "returned", !.audit = "refused"] =
            [c EXCEPT !.pc = "returned", !.client = client, !.audit = "refused"]
      BY <1>2, <3>1 DEF Call
    <3> QED
      BY <2>2, <2>5, <2>7, <3>1, <3>2
  <2>8. CASE Become(k, [c EXCEPT !.pc = IF c.req.op \in Looks THEN "looking" ELSE "posting",
                                 !.client = clients[c.req.name], !.audit = Gate(c.req)])
    <3>1. PICK pc, client, audit :
            /\ pc = (IF c.req.op \in Looks THEN "looking" ELSE "posting")
            /\ client = clients[c.req.name] /\ audit = Gate(c.req)
      OBVIOUS
    <3>2. Become(k, [c EXCEPT !.pc = pc, !.client = client, !.audit = audit])
      BY <2>8, <3>1
    <3>3. pc \in {"looking", "posting", "returned"}
      BY <3>1
    <3> QED
      BY <2>2, <2>3, <2>4, <3>1, <3>2, <3>3
  <2> QED
    BY <1>3, <2>6, <2>7, <2>8, HandleEnters DEF Enter
<1>4. CASE Look(k)
  <2>1. c.pc = "looking" /\ StepsLeft(c) = 3
    BY <1>2, <1>4, StepsBound DEF Look, At
  <2>2. CASE Become(k, [c EXCEPT !.pc = "posting"])
    <3>1. PICK r : r = [c EXCEPT !.pc = "posting"]
      OBVIOUS
    <3>2. r \in Call /\ r.pc = "posting" /\ r.token = c.token
      BY <1>2, <3>1 DEF Call
    <3>3. StepsLeft(r) = 1 \/ StepsLeft(r) = 2
      BY <3>2, StepsBound
    <3>4. StepsLeft(r) < StepsLeft(c)
      BY <2>1, <3>3
    <3> QED
      BY <1>2, <2>2, <3>1, <3>2, <3>4 DEF Nearer, Become
  <2> QED
    BY <1>1, <1>4, <2>1, <2>2, FailedNearer DEF Look
<1>5. CASE Post(k)
  <2>1. c.pc = "posting" /\ c.sent = "no" /\ StepsLeft(c) = 2
    BY <1>2, <1>5, StepsBound DEF Post, At
  <2>2. CASE Become(k, [c EXCEPT !.sent = "flying", !.where = Target(c)])
    <3>1. PICK r : r = [c EXCEPT !.sent = "flying", !.where = Target(c)]
      OBVIOUS
    <3>2. Target(c) \in (Endpoints \X Sites) \cup {None}
      <4>1. c.client # None
        BY <1>1, <2>1 DEF DirectInv, Admitted, Permitted
      <4> QED
        BY <1>2, <4>1, AddressTyped DEF Target
    <3>3. r \in Call /\ r.pc = "posting" /\ r.sent = "flying" /\ r.token = c.token
      BY <1>2, <2>1, <3>1, <3>2 DEF Call
    <3>4. StepsLeft(r) = 1
      BY <3>3, StepsBound
    <3>5. StepsLeft(r) < StepsLeft(c)
      BY <2>1, <3>4
    <3> QED
      BY <1>2, <2>2, <3>1, <3>3, <3>5 DEF Nearer, Become
  <2> QED
    BY <1>1, <1>5, <2>1, <2>2, FailedNearer DEF Post
<1>6. CASE Answer(k)
  <2>1. c.pc = "posting" /\ StepsLeft(c) \in {1, 2}
    BY <1>2, <1>6, StepsBound DEF Answer, At
  <2>2. CASE Become(k, [c EXCEPT !.pc = "returned", !.audit = Closed(c.audit, "ok")])
    <3>1. PICK r : r = [c EXCEPT !.pc = "returned", !.audit = Closed(c.audit, "ok")]
      OBVIOUS
    <3>2. Closed(c.audit, "ok") \in {"none", "refused", "open", "ok", "failed"}
      BY <1>2 DEF Closed, Call
    <3>3. r \in Call /\ r.pc = "returned" /\ r.token = c.token
      BY <1>2, <3>1, <3>2 DEF Call
    <3>4. StepsLeft(r) = 0
      BY <3>3, StepsBound
    <3>5. StepsLeft(r) < StepsLeft(c)
      BY <2>1, <3>4
    <3> QED
      BY <1>2, <2>2, <3>1, <3>3, <3>5 DEF Nearer, Become
  <2> QED
    BY <1>1, <1>6, <2>1, <2>2, FailedNearer DEF Answer
<1> QED
  BY <1>3, <1>4, <1>5, <1>6 DEF Proceed

\* A step that is none of the call's leaves it as it was, but for what the controller
\* did with its command.
LEMMA OthersKeepSteps ==
    ASSUME TypeOK, DirectInv, [Next]_vars, NEW k \in Calls, call[k] # None,
           ~Proceed(k), ~Begins(k)
    PROVE  /\ call'[k] \in Call /\ call'[k].token = call[k].token
           /\ StepsLeft(call'[k]) = StepsLeft(call[k])
<1> DEFINE c == call[k]
<1>1. c \in Call
  BY CallTyped
<1>2. CASE call'[k] = c
  BY <1>1, <1>2
<1>3. CASE EditInventory \/ EditTokens \/ Signal \/ Reload \/ Drift \/ UNCHANGED vars
  BY <1>2, <1>3 DEF EditInventory, EditTokens, Signal, Reload, ReloadRegistry,
     RebuildClients, ReloadTokens, Drift, vars
<1>4. ASSUME NEW j \in Calls, NEW t \in Tokens \cup {None}, NEW req \in Requests,
             Arrive(j, t, req)
      PROVE  call'[k] = c
  <2> DEFINE r == [pc |-> "authenticated", token |-> t, req |-> req,
                   caller |-> IF t = None THEN Unrestricted ELSE store[t],
                   client |-> None, audit |-> "none", sent |-> "no",
                   where |-> None, got |-> None]
  <2>1. t # None => store[t] \in Grants
    BY <1>4, DirectAssumption DEF Arrive, TypeOK
  <2>2. r \in Call /\ r.pc = "authenticated"
    BY <2>1 DEF Call
  <2>3. call' = [call EXCEPT ![j] = r] /\ (call[j] = None \/ At(j, "returned"))
    BY <1>4 DEF Arrive, Become
  <2> HIDE DEF r
  <2>4. j # k
    BY <2>2, <2>3, NoneAssumption DEF TypeOK, Begins, At
  <2> QED
    BY <2>3, <2>4
<1>5. ASSUME NEW j \in Calls, Proceed(j) PROVE call'[k] = c
  <2>1. j # k /\ Nearer(j)
    BY <1>5, ProceedNearer
  <2> QED
    BY <2>1 DEF Nearer
<1>6. ASSUME NEW j \in Calls, Arrives(j)
      PROVE  /\ call'[k] \in Call /\ call'[k].token = c.token
             /\ StepsLeft(call'[k]) = StepsLeft(c)
  <2>1. CASE j # k
    <3>1. call'[k] = c
      BY <1>6, <2>1 DEF Arrives, TypeOK
    <3> QED
      BY <1>1, <3>1
  <2>2. CASE j = k
    <3>1. c.sent = "flying" /\ unit[c.req.unit] \in Unit
      BY <1>6, <2>2, CallTyped DEF Arrives, TypeOK, Request
    <3>2. PICK got : got = IF c.req.op = "upgrade" THEN unit[c.req.unit].queued ELSE None
      OBVIOUS
    <3>3. got \in Builds \cup {None}
      BY <3>1, <3>2 DEF Unit
    <3>4. PICK landed, lost : /\ landed = [c EXCEPT !.sent = "landed", !.got = got]
                              /\ lost = [c EXCEPT !.sent = "lost"]
      OBVIOUS
    <3>5. landed \in Call /\ lost \in Call
      <4>1. landed \in Call
        BY <1>1, <3>3, <3>4, LandedTyped
      <4>2. lost \in Call
        BY <1>1, <3>4 DEF Call
      <4> QED
        BY <4>1, <4>2
    <3>6. /\ landed.pc = c.pc /\ landed.token = c.token /\ landed.sent = "landed"
          /\ lost.pc = c.pc /\ lost.token = c.token /\ lost.sent = "lost"
      BY <1>1, <3>4 DEF Call
    <3>7. StepsLeft(landed) = StepsLeft(c) /\ StepsLeft(lost) = StepsLeft(c)
      <4>1. ASSUME NEW d, d.pc = c.pc, d.sent # "no" PROVE StepsLeft(d) = StepsLeft(c)
        BY <3>1, <4>1 DEF StepsLeft
      <4> QED
        BY <3>6, <4>1
    <3>8. call'[k] = landed \/ call'[k] = lost
      BY <1>6, <2>2, <3>2, <3>4 DEF Arrives, TypeOK
    <3> QED
      BY <3>5, <3>6, <3>7, <3>8
  <2> QED
    BY <2>1, <2>2
<1> QED
  BY <1>2, <1>3, <1>4, <1>5, <1>6 DEF Next

\* Only a token the server has begins a call.
LEMMA BeginsLegally ==
    ASSUME TypeOK, DirectInv, [Next]_vars, NEW k \in Calls, Begins(k),
           call'[k].token # None
    PROVE  store[call'[k].token] # None
<1>1. call'[k] # call[k]
  BY DEF Begins, At
<1>2. ~(EditInventory \/ EditTokens \/ Signal \/ Reload \/ Drift \/ UNCHANGED vars)
  BY <1>1 DEF EditInventory, EditTokens, Signal, Reload, ReloadRegistry,
     RebuildClients, ReloadTokens, Drift, vars
<1>3. ASSUME NEW j \in Calls, Proceed(j) PROVE FALSE
  <2>1. PICK r \in Call : call' = [call EXCEPT ![j] = r] /\ r.pc # "authenticated"
    BY <1>3, ProceedNearer DEF Nearer
  <2>2. j = k /\ call'[k] = r
    BY <1>1, <2>1 DEF TypeOK
  <2> QED
    BY <2>1, <2>2 DEF Begins, At
<1>4. ASSUME NEW j \in Calls, Arrives(j) PROVE FALSE
  <2>1. j = k
    BY <1>1, <1>4 DEF Arrives, TypeOK
  <2>2. call[k] # None /\ call[k] \in Call
    BY <1>4, <2>1, CallTyped DEF Arrives
  <2>3. PICK c, got : c = call[k] /\ got = IF c.req.op = "upgrade"
                                         THEN unit[c.req.unit].queued ELSE None
    OBVIOUS
  <2>4. \/ call'[k] = [c EXCEPT !.sent = "landed", !.got = got]
        \/ call'[k] = [c EXCEPT !.sent = "lost"]
    BY <1>4, <2>1, <2>3 DEF Arrives, TypeOK
  <2>5. call'[k].pc = c.pc
    BY <2>2, <2>3, <2>4 DEF Call
  <2> QED
    BY <2>2, <2>3, <2>5 DEF Begins, At
<1>5. PICK j \in Calls, t \in Tokens \cup {None}, req \in Requests : Arrive(j, t, req)
  BY <1>2, <1>3, <1>4 DEF Next
<1>6. j = k /\ call'[k].token = t
  BY <1>1, <1>5 DEF Arrive, Become, TypeOK
<1> QED
  BY <1>5, <1>6 DEF Arrive

\* For any number of calls, reloads and edits: no call starts again, is sent twice, or
\* begins with a token the server does not have.
THEOREM CallsComeCloser == Spec => CallsAdvance
<1> DEFINE Advance ==
      \A k \in Calls :
         /\ Begins(k) => LET t == call'[k].token IN t # None => store[t] # None
         /\ call[k] # None /\ ~Begins(k) =>
              /\ call'[k] # None /\ call'[k].token = call[k].token
              /\ StepsLeft(call'[k]) \in 0 .. StepsLeft(call[k])
              /\ Proceed(k) => StepsLeft(call'[k]) < StepsLeft(call[k])
<1>1. ASSUME TypeOK, DirectInv, [Next]_vars PROVE Advance
  <2>1. ASSUME NEW k \in Calls, Begins(k)
        PROVE  LET t == call'[k].token IN t # None => store[t] # None
    BY <1>1, <2>1, BeginsLegally
  <2>2. ASSUME NEW k \in Calls, call[k] # None, ~Begins(k)
        PROVE  /\ call'[k] # None /\ call'[k].token = call[k].token
               /\ StepsLeft(call'[k]) \in 0 .. StepsLeft(call[k])
               /\ Proceed(k) => StepsLeft(call'[k]) < StepsLeft(call[k])
    <3>1. StepsLeft(call[k]) \in 0 .. 4
      BY <1>1, <2>2, CallTyped, StepsBound
    <3>2. CASE Proceed(k)
      <4>1. Nearer(k)
        BY <1>1, <3>2, ProceedNearer
      <4>2. PICK r \in Call : /\ call' = [call EXCEPT ![k] = r]
                              /\ r.token = call[k].token
                              /\ StepsLeft(r) < StepsLeft(call[k])
        BY <4>1 DEF Nearer
      <4>3. call'[k] = r /\ r # None
        BY <1>1, <4>2, NoneAssumption DEF TypeOK
      <4>4. StepsLeft(r) \in 0 .. 4
        BY StepsBound
      <4> QED
        BY <3>1, <4>2, <4>3, <4>4
    <3>3. CASE ~Proceed(k)
      <4>1. /\ call'[k] \in Call /\ call'[k].token = call[k].token
            /\ StepsLeft(call'[k]) = StepsLeft(call[k])
        BY <1>1, <2>2, <3>3, OthersKeepSteps
      <4> QED
        BY <3>1, <3>3, <4>1, NoneAssumption
    <3> QED
      BY <3>2, <3>3
  <2> QED
    BY <2>1, <2>2
<1>2. TypeOK /\ DirectInv /\ [Next]_vars => [Advance]_vars
  BY <1>1
<1> QED
  BY <1>2, DirectTyped, DirectSafe, PTL DEF Spec, CallsAdvance
=============================================================================
