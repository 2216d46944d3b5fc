-------------------------- MODULE ReadTools_proofs --------------------------
(***************************************************************************)
(* Proofs about the read tools, for any number of calls, changes of the    *)
(* controller and reloads, collections of any length, and any page size    *)
(* and scan cap.                                                           *)
(***************************************************************************)
EXTENDS ReadTools, SequenceTheorems, TLAPS

\* The places a call goes through, by tool.
Route(op) ==
    {"answered", "failed"} \cup
    IF op = "sites" THEN {"fetch"}
    ELSE {"version", "asking", "remember"} \cup
         IF op = "status" THEN {}
         ELSE {"site", "resolving", "fill"} \cup
              IF op = "search" THEN {"scan", "self"}
              ELSE IF op = "troubleshoot" THEN {"stations", "uplinks", "policies", "zones"}
              ELSE {"fetch"}

\* Clients are not older than the controller, and what they cached not older than they.
Built ==
    \A g \in DOMAIN clients :
        /\ clients[g].bornUuid <= site.uuid /\ clients[g].bornVersion <= site.version
        /\ clients[g].uuid # None => clients[g].uuid >= clients[g].bornUuid
        /\ clients[g].version # None => clients[g].version >= clients[g].bornVersion

Fresh(c) ==
    /\ c.client \in DOMAIN clients
    /\ c.uuid # None => c.uuid >= clients[c.client].bornUuid
    /\ c.version # None => c.version >= clients[c.client].bornVersion

\* As long as nothing was lost, the collections extend those of the beginning.
Grown(c) == ~c.shrunk => \A leg \in Collections : GrewInto(c.began[leg], held[leg])

\* What a scan has read of a leg is what was there, as far as it got.
Agrees(all, items) == \A i \in DOMAIN items : i <= Len(all) => all[i] = items[i]

\* The legs a search is through with.
Done(c) ==
    IF c.pc \in {"self", "version", "asking", "remember", "answered"} THEN Supported
    ELSE IF c.pc = "scan" /\ c.leg = "devices" THEN {"clients"} ELSE {}

Scanned(c) ==
    c.req.op = "search" =>
        /\ c.pc \in {"site", "resolving", "fill"} => c.leg = "clients"
        /\ ~c.shrunk => Agrees(c.all, c.began[c.leg])
        /\ ~c.shrunk => \A leg \in Done(c) \ c.omitted :
             FilterByQuery(c.began[leg], c.req.size) \subseteq c.shown[leg]

Windowed(c) ==
    c.req.op = "list" /\ c.pc = "answered" =>
        /\ c.shown[c.req.of] \subseteq Window(c.req)
        /\ ~c.shrunk =>
             Window(c.req) \cap DOMAIN c.began[c.req.of] \subseteq c.shown[c.req.of]

\* What a report has gathered is still there, and it lists what applies.
Gathered(c) ==
    c.req.op = "troubleshoot" =>
        /\ c.pc \in {"site", "resolving", "fill", "stations"} => ~c.seen.known
        /\ c.seen.known => Opted(c)
        /\ c.pc \in {"uplinks", "policies", "zones"} /\ c.seen.known /\ ~c.moved =>
             c.seen.network = firewall.network
        /\ c.pc = "zones" /\ c.seen.known /\ ~c.moved =>
             c.seen.policies = firewall.policies
        /\ c.pc = "answered" /\ ~c.moved => c.applied = Applies

Kept(c) ==
    /\ c.pc \in Route(c.req.op)
    /\ Fresh(c) /\ Grown(c) /\ Scanned(c) /\ Windowed(c) /\ Gathered(c)

ReadInv == Built /\ \A k \in Calls : call[k] # None => Kept(call[k])

-----------------------------------------------------------------------------
(* Types                                                                    *)

LEMMA BecomeTyped ==
    ASSUME TypeOK, NEW k \in Calls, NEW record \in Call, Len(record.all) < Cap,
           Become(k, record)
    PROVE  TypeOK'
<1>1. call' \in [Calls -> Call \cup {None}]
  BY DEF TypeOK, Become
<1>2. UNCHANGED <<site, held, firewall, clients, changes>>
  BY DEF Become, controller
<1>3. \A j \in Calls : call'[j] # None => Len(call'[j].all) < Cap
  BY DEF TypeOK, Become
<1> QED
  BY <1>1, <1>2, <1>3 DEF TypeOK

LEMMA NoFirewallTyped == NoFirewall \in Firewall
  BY DEF NoFirewall, Firewall

LEMMA WitnessTyped ==
    ASSUME TypeOK, NEW shrunk \in BOOLEAN, NEW moved \in BOOLEAN, Witnessed(shrunk, moved)
    PROVE  /\ call' \in [Calls -> Call \cup {None}]
           /\ \A k \in Calls : call'[k] # None => Len(call'[k].all) < Cap
<1> SUFFICES ASSUME NEW k \in Calls, call[k] # None
             PROVE  /\ call'[k] \in Call /\ Len(call'[k].all) < Cap
  BY DEF Witnessed, TypeOK
<1>1. call[k] \in Call /\ Len(call[k].all) < Cap
  BY DEF TypeOK
<1>2. call'[k] = [call[k] EXCEPT !.shrunk = @ \/ shrunk, !.moved = @ \/ moved]
  BY DEF Witnessed
<1> QED
  BY <1>1, <1>2 DEF Call

LEMMA ChangeTyped == ASSUME TypeOK, Change PROVE TypeOK'
<1>1. changes' \in 0 .. MaxChanges /\ clients' = clients
  <2>1. changes < MaxChanges /\ changes' = changes + 1 /\ clients' = clients
    BY DEF Change
  <2>2. MaxChanges \in Nat /\ changes \in 0 .. MaxChanges
    BY ReadAssumption DEF TypeOK
  <2> QED
    BY <2>1, <2>2
<1>2. CASE /\ site' = [site EXCEPT !.uuid = @ + 1]
           /\ Witnessed(TRUE, TRUE) /\ UNCHANGED <<held, firewall>>
  <2>1. site' \in [uuid : Nat, version : Nat, routes : BOOLEAN]
    BY <1>2 DEF TypeOK
  <2>2. /\ call' \in [Calls -> Call \cup {None}]
        /\ \A k \in Calls : call'[k] # None => Len(call'[k].all) < Cap
    BY <1>2, WitnessTyped
  <2> QED
    BY <1>1, <1>2, <2>1, <2>2 DEF TypeOK
<1>3. CASE /\ \E routes \in BOOLEAN :
                site' = [site EXCEPT !.version = @ + 1, !.routes = routes]
           /\ UNCHANGED <<held, firewall, call>>
  <2>1. site' \in [uuid : Nat, version : Nat, routes : BOOLEAN]
    <3>1. site \in [uuid : Nat, version : Nat, routes : BOOLEAN]
      BY DEF TypeOK
    <3>2. PICK routes \in BOOLEAN :
            site' = [site EXCEPT !.version = @ + 1, !.routes = routes]
      BY <1>3
    <3>3. site' = [uuid |-> site.uuid, version |-> site.version + 1, routes |-> routes]
      BY <3>1, <3>2
    <3>4. site.uuid \in Nat /\ site.version + 1 \in Nat
      BY <3>1
    <3> QED
      BY <3>3, <3>4
  <2> QED
    BY <1>1, <1>3, <2>1 DEF TypeOK
<1>4. CASE /\ \E c \in Collections, h \in Holdings :
                /\ held' = [held EXCEPT ![c] = h]
                /\ Witnessed(~GrewInto(held[c], h), FALSE)
           /\ UNCHANGED <<site, firewall>>
  <2>1. PICK c \in Collections, h \in Holdings :
          held' = [held EXCEPT ![c] = h] /\ Witnessed(~GrewInto(held[c], h), FALSE)
    BY <1>4
  <2> DEFINE lost == ~GrewInto(held[c], h)
  <2>2. lost \in BOOLEAN
    BY DEF GrewInto
  <2>3. Witnessed(lost, FALSE)
    BY <2>1
  <2> HIDE DEF lost
  <2>4. /\ call' \in [Calls -> Call \cup {None}]
        /\ \A k \in Calls : call'[k] # None => Len(call'[k].all) < Cap
    BY <2>2, <2>3, WitnessTyped
  <2>5. held' \in [Collections -> Holdings]
    BY <2>1 DEF TypeOK
  <2> QED
    BY <1>1, <1>4, <2>4, <2>5 DEF TypeOK
<1>5. CASE /\ firewall' \in Firewalls \ {firewall}
           /\ Witnessed(FALSE, TRUE) /\ UNCHANGED <<site, held>>
  <2>1. /\ call' \in [Calls -> Call \cup {None}]
        /\ \A k \in Calls : call'[k] # None => Len(call'[k].all) < Cap
    BY <1>5, WitnessTyped
  <2> QED
    BY <1>1, <1>5, <2>1 DEF TypeOK
<1> QED
  BY <1>2, <1>3, <1>4, <1>5 DEF Change

LEMMA NewClientTyped ==
    ASSUME TypeOK, NEW private \in BOOLEAN PROVE NewClient(private) \in Client
  BY DEF NewClient, Client, TypeOK

LEMMA RebuildTyped == ASSUME TypeOK, Rebuild PROVE TypeOK'
<1>1. PICK private \in BOOLEAN : clients' = Append(clients, NewClient(private))
  BY DEF Rebuild
<1>2. clients' \in Seq(Client) /\ clients' # <<>>
  BY <1>1, NewClientTyped DEF TypeOK
<1> QED
  BY <1>2 DEF Rebuild, controller, TypeOK

-----------------------------------------------------------------------------
(* The invariant: what a step leaves as it was                              *)

LEMMA GrewIntoReflexive == ASSUME NEW items \in Seq(BOOLEAN) PROVE GrewInto(items, items)
  BY DEF GrewInto

LEMMA GrewIntoTransitive ==
    ASSUME NEW a \in Seq(BOOLEAN), NEW b \in Seq(BOOLEAN), NEW c \in Seq(BOOLEAN),
           GrewInto(a, b), GrewInto(b, c)
    PROVE  GrewInto(a, c)
<1>1. Len(a) \in Nat /\ Len(b) \in Nat /\ Len(c) \in Nat
  OBVIOUS
<1>2. Len(a) <= Len(c)
  BY <1>1 DEF GrewInto
<1>3. \A i \in DOMAIN a : i \in DOMAIN b /\ b[i] = a[i] /\ c[i] = b[i]
  BY <1>1 DEF GrewInto
<1> QED
  BY <1>2, <1>3 DEF GrewInto

\* Clients that are there remain, with what they were built with.
Lasting ==
    \A g \in DOMAIN clients :
        /\ g \in DOMAIN clients'
        /\ clients'[g].bornUuid = clients[g].bornUuid
        /\ clients'[g].bornVersion = clients[g].bornVersion
        /\ clients'[g].private = clients[g].private

\* What holds of a call goes on to hold while the controller stays as it is.
LEMMA KeptLasts ==
    ASSUME NEW c \in Call, Kept(c), Lasting, held' = held, firewall' = firewall
    PROVE  Kept(c)'
<1>1. Fresh(c)'
  BY DEF Kept, Fresh, Lasting
<1>2. Grown(c)'
  BY DEF Kept, Grown, GrewInto
<1>3. Scanned(c)' /\ Windowed(c)'
  BY DEF Kept, Scanned, Windowed, Agrees, Done, FilterByQuery, Window
<1>4. Gathered(c)'
  <2>1. c.client \in DOMAIN clients
    BY DEF Kept, Fresh
  <2>2. (Opted(c)') = Opted(c)
    BY <2>1 DEF Opted, Lasting
  <2>3. (Applies') = Applies
    BY DEF Applies
  <2> QED
    BY <2>2, <2>3 DEF Kept, Gathered
<1> QED
  BY <1>1, <1>2, <1>3, <1>4 DEF Kept, Route

\* So a call that becomes a good one leaves the others good.
LEMMA OneKept ==
    ASSUME TypeOK, ReadInv, NEW k \in Calls, NEW record \in Call, Kept(record),
           call' = [call EXCEPT ![k] = record], Lasting, held' = held,
           firewall' = firewall
    PROVE  (\A j \in Calls : call[j] # None => Kept(call[j]))'
<1> SUFFICES ASSUME NEW j \in Calls, call'[j] # None PROVE Kept(call[j])'
  OBVIOUS
<1>1. PICK c : c = IF j = k THEN record ELSE call[j]
  OBVIOUS
<1>2. call'[j] = c
  BY <1>1 DEF TypeOK
<1>3. c \in Call /\ Kept(c)
  BY <1>1, <1>2 DEF ReadInv, TypeOK
<1>4. Kept(c)'
  BY <1>3, KeptLasts
<1> QED
  BY <1>2, <1>4 DEF Kept, Route, Fresh, Grown, Scanned, Windowed, Gathered, Opted, Done

LEMMA BecomeKept ==
    ASSUME TypeOK, ReadInv, NEW k \in Calls, NEW record \in Call, Len(record.all) < Cap,
           Kept(record), Become(k, record)
    PROVE  TypeOK' /\ ReadInv'
<1>1. Lasting
  BY DEF Become, Lasting
<1>2. (\A j \in Calls : call[j] # None => Kept(call[j]))'
  BY <1>1, OneKept DEF Become, controller
<1>3. Built'
  BY DEF ReadInv, Built, Become, controller
<1> QED
  BY <1>2, <1>3, BecomeTyped DEF ReadInv

-----------------------------------------------------------------------------
(* The invariant: steps that only move a call on                            *)

Resolving == {"site", "resolving", "fill"}
Naming == {"version", "asking", "remember"}

\* How a call moves on without having learnt anything of the collections or the
\* firewall.
Passage(c, at) ==
    \/ at = "failed"
    \/ at = "answered" /\ c.req.op = "status"
    \/ at = "answered" /\ c.pc = "self"
    \/ at \in {"resolving", "fill", "scan", "stations", "fetch"} /\ c.pc \in Resolving
    \/ at \in Naming /\ c.pc \notin Resolving \cup {"scan", "failed", "answered"}
    \/ at = "uplinks" /\ c.pc = "stations"
    \/ at = "policies" /\ c.pc = "uplinks"
    \/ at = "zones" /\ c.pc = "policies" /\ ~Opted(c)

\* A good call that moves on is a good call.
LEMMA MoveGood ==
    ASSUME TypeOK, ReadInv, NEW k \in Calls, call[k] # None,
           NEW at \in Route(call[k].req.op), Passage(call[k], at),
           NEW uuid \in Nat \cup {None}, NEW version \in Nat \cup {None},
           uuid # None => uuid >= clients[call[k].client].bornUuid,
           version # None => version >= clients[call[k].client].bornVersion,
           NEW record,
           record = [call[k] EXCEPT !.pc = at, !.uuid = uuid, !.version = version]
    PROVE  record \in Call /\ Kept(record) /\ Len(record.all) < Cap
<1> DEFINE c == call[k]
<1>1. c \in Call /\ Len(c.all) < Cap /\ Kept(c)
  BY DEF TypeOK, ReadInv
<1>2. at \in {"site", "resolving", "fill", "scan", "self", "fetch", "version", "asking",
              "remember", "stations", "uplinks", "policies", "zones", "answered", "failed"}
  BY <1>1 DEF Route
<1>3. record \in Call
  BY <1>1, <1>2 DEF Call
<1>4. /\ record.req = c.req /\ record.pc = at /\ record.client = c.client
      /\ record.uuid = uuid /\ record.version = version /\ record.leg = c.leg
      /\ record.all = c.all /\ record.shown = c.shown /\ record.omitted = c.omitted
      /\ record.seen = c.seen /\ record.applied = c.applied /\ record.began = c.began
      /\ record.shrunk = c.shrunk /\ record.moved = c.moved
  BY <1>1 DEF Call
<1>5. Passage(c, at) /\ at \in Route(c.req.op)
  OBVIOUS
<1>6. /\ uuid # None => uuid >= clients[c.client].bornUuid
      /\ version # None => version >= clients[c.client].bornVersion
  OBVIOUS
<1> HIDE DEF c
<1>7. Fresh(record) /\ Grown(record)
  BY <1>1, <1>4, <1>6 DEF Kept, Fresh, Grown
<1>8. Scanned(record)
  <2> SUFFICES ASSUME c.req.op = "search" PROVE Scanned(record)
    BY <1>4 DEF Scanned
  <2>1. c.pc \in Route("search") /\ at \in Route("search")
    BY <1>1, <1>5 DEF Kept
  <2>2. at \in Resolving => c.leg = "clients"
    BY <1>1, <1>5 DEF Kept, Scanned, Passage, Resolving, Naming
  <2>3. ~c.shrunk => Agrees(c.all, c.began[c.leg])
    BY <1>1 DEF Kept, Scanned
  <2>4. Done(record) \subseteq Done(c)
    <3>1. CASE c.pc \in Resolving
      <4>1. c.leg = "clients"
        BY <1>1, <3>1 DEF Kept, Scanned, Resolving
      <4>2. at \in {"failed", "resolving", "fill", "scan"}
        BY <1>5, <2>1, <3>1 DEF Passage, Resolving, Route
      <4>3. Done(record) = {}
        BY <1>4, <4>1, <4>2 DEF Done
      <4> QED
        BY <4>3
    <3>2. CASE c.pc \notin Resolving
      <4>1. at = "failed" \/ c.pc \in {"self", "version", "asking", "remember", "answered"}
        BY <1>5, <2>1, <3>2 DEF Passage, Resolving, Naming, Route
      <4>2. CASE at = "failed"
        <5>1. Done(record) = {}
          BY <1>4, <4>2 DEF Done
        <5> QED
          BY <5>1
      <4>3. CASE c.pc \in {"self", "version", "asking", "remember", "answered"}
        <5>1. Done(c) = Supported
          BY <4>3 DEF Done
        <5>2. Done(record) \subseteq Supported
          BY DEF Done, Supported
        <5> QED
          BY <5>1, <5>2
      <4> QED
        BY <4>1, <4>2, <4>3
    <3> QED
      BY <3>1, <3>2
  <2>5. ~c.shrunk => \A leg \in Done(c) \ c.omitted :
          FilterByQuery(c.began[leg], c.req.size) \subseteq c.shown[leg]
    BY <1>1 DEF Kept, Scanned
  <2> QED
    BY <1>4, <2>2, <2>3, <2>4, <2>5 DEF Scanned, Resolving
<1>9. Windowed(record)
  <2>1. c.req.op = "list" => at # "answered"
    BY <1>1, <1>5 DEF Kept, Passage, Resolving, Naming, Route
  <2> QED
    BY <1>4, <2>1 DEF Windowed
<1>10. Gathered(record)
  <2> SUFFICES ASSUME c.req.op = "troubleshoot" PROVE Gathered(record)
    BY <1>4 DEF Gathered
  <2>1. c.pc \in Route("troubleshoot")
    BY <1>1 DEF Kept
  <2>2. Gathered(c) /\ Opted(record) = Opted(c)
    BY <1>1, <1>4 DEF Kept, Opted
  <2>3. at # "answered"
    <3>1. c.pc # "self"
      BY <2>1 DEF Route
    <3> QED
      BY <1>5, <3>1 DEF Passage, Naming
  <2>4. at \in {"site", "resolving", "fill", "stations"} => ~c.seen.known
    <3>1. at \in {"site", "resolving", "fill", "stations"} => c.pc \in Resolving
      BY <1>5 DEF Passage, Resolving, Naming
    <3> QED
      BY <2>2, <3>1 DEF Gathered, Resolving
  <2>5. at \in {"uplinks", "policies", "zones"} =>
          c.pc = "stations" \/ c.pc = "uplinks" \/ (c.pc = "policies" /\ ~Opted(c))
    BY <1>5 DEF Passage, Resolving, Naming
  <2>6. at = "zones" => c.pc = "policies" /\ ~Opted(c)
    BY <1>5 DEF Passage, Resolving, Naming
  <2>7. at \in {"uplinks", "policies", "zones"} /\ c.seen.known /\ ~c.moved =>
          c.seen.network = firewall.network
    BY <2>2, <2>5 DEF Gathered
  <2>8. at = "zones" => ~c.seen.known
    BY <2>2, <2>6 DEF Gathered
  <2>9. c.seen.known => Opted(record)
    BY <2>2 DEF Gathered
  <2> QED
    BY <1>4, <2>3, <2>4, <2>7, <2>8, <2>9 DEF Gathered
<1>11. record.pc \in Route(record.req.op)
  BY <1>4, <1>5
<1>12. Kept(record) /\ Len(record.all) < Cap
  BY <1>1, <1>4, <1>7, <1>8, <1>9, <1>10, <1>11 DEF Kept
<1> QED
  BY <1>3, <1>12

LEMMA MoveKept ==
    ASSUME TypeOK, ReadInv, NEW k \in Calls, call[k] # None,
           NEW at \in Route(call[k].req.op), Passage(call[k], at),
           NEW uuid \in Nat \cup {None}, NEW version \in Nat \cup {None},
           uuid # None => uuid >= clients[call[k].client].bornUuid,
           version # None => version >= clients[call[k].client].bornVersion,
           Become(k, [call[k] EXCEPT !.pc = at, !.uuid = uuid, !.version = version])
    PROVE  TypeOK' /\ ReadInv'
<1>1. PICK record :
        record = [call[k] EXCEPT !.pc = at, !.uuid = uuid, !.version = version]
  OBVIOUS
<1>2. record \in Call /\ Kept(record) /\ Len(record.all) < Cap
  BY <1>1, MoveGood
<1>3. Become(k, record)
  BY <1>1
<1> QED
  BY <1>2, <1>3, BecomeKept

LEMMA GoOn ==
    ASSUME TypeOK, ReadInv, NEW k \in Calls, call[k] # None,
           NEW at \in Route(call[k].req.op), Passage(call[k], at),
           Become(k, [call[k] EXCEPT !.pc = at])
    PROVE  TypeOK' /\ ReadInv'
<1>1. call[k] \in Call /\ Fresh(call[k])
  BY DEF TypeOK, ReadInv, Kept
<1>2. [call[k] EXCEPT !.pc = at] =
        [call[k] EXCEPT !.pc = at, !.uuid = call[k].uuid, !.version = call[k].version]
  BY <1>1 DEF Call
<1>3. call[k].version \in Nat \cup {None}
  BY <1>1 DEF Call
<1>4. call[k].version # None => call[k].version >= clients[call[k].client].bornVersion
  BY <1>1 DEF Fresh
<1>5. call[k].uuid \in Nat \cup {None}
  BY <1>1 DEF Call
<1>6. call[k].uuid # None => call[k].uuid >= clients[call[k].client].bornUuid
  BY <1>1 DEF Fresh
<1>7. Become(k, [call[k] EXCEPT !.pc = at, !.uuid = call[k].uuid,
                                !.version = call[k].version])
  BY <1>2
<1> DEFINE uuid == call[k].uuid
           version == call[k].version
<1> HIDE DEF uuid, version
<1>8. /\ uuid \in Nat \cup {None} /\ version \in Nat \cup {None}
      /\ uuid # None => uuid >= clients[call[k].client].bornUuid
      /\ version # None => version >= clients[call[k].client].bornVersion
      /\ Become(k, [call[k] EXCEPT !.pc = at, !.uuid = uuid, !.version = version])
  BY <1>3, <1>4, <1>5, <1>6, <1>7 DEF uuid, version
<1> QED
  BY <1>8, MoveKept

LEMMA LearnSite ==
    ASSUME TypeOK, ReadInv, NEW k \in Calls, call[k] # None,
           NEW at \in Route(call[k].req.op), Passage(call[k], at),
           NEW uuid \in Nat, uuid >= clients[call[k].client].bornUuid,
           Become(k, [call[k] EXCEPT !.uuid = uuid, !.pc = at])
    PROVE  TypeOK' /\ ReadInv'
<1>1. call[k] \in Call /\ Fresh(call[k])
  BY DEF TypeOK, ReadInv, Kept
<1>2. [call[k] EXCEPT !.uuid = uuid, !.pc = at] =
        [call[k] EXCEPT !.pc = at, !.uuid = uuid, !.version = call[k].version]
  BY <1>1 DEF Call
<1>3. call[k].version \in Nat \cup {None}
  BY <1>1 DEF Call
<1> QED
  BY <1>1, <1>2, <1>3, MoveKept DEF Fresh

LEMMA LearnVersion ==
    ASSUME TypeOK, ReadInv, NEW k \in Calls, call[k] # None,
           NEW at \in Route(call[k].req.op), Passage(call[k], at),
           NEW version \in Nat \cup {None},
           version # None => version >= clients[call[k].client].bornVersion,
           Become(k, [call[k] EXCEPT !.version = version, !.pc = at])
    PROVE  TypeOK' /\ ReadInv'
<1>1. call[k] \in Call /\ Fresh(call[k])
  BY DEF TypeOK, ReadInv, Kept
<1>2. [call[k] EXCEPT !.version = version, !.pc = at] =
        [call[k] EXCEPT !.pc = at, !.uuid = call[k].uuid, !.version = version]
  BY <1>1 DEF Call
<1>3. call[k].uuid \in Nat \cup {None}
  BY <1>1 DEF Call
<1>4. call[k].uuid # None => call[k].uuid >= clients[call[k].client].bornUuid
  BY <1>1 DEF Fresh
<1>5. Become(k, [call[k] EXCEPT !.pc = at, !.uuid = call[k].uuid, !.version = version])
  BY <1>2
<1> QED
  BY <1>3, <1>4, <1>5, MoveKept

\* A call is at one of the places of its tool.
LEMMA Placed ==
    ASSUME TypeOK, ReadInv, NEW k \in Calls, call[k] # None
    PROVE  /\ call[k] \in Call /\ call[k].pc \in Route(call[k].req.op) /\ Kept(call[k])
           /\ call[k].client \in DOMAIN clients /\ clients[call[k].client] \in Client
           /\ call[k].req.op \in {"search", "list", "get", "status", "sites", "troubleshoot"}
<1>1. call[k] \in Call /\ Kept(call[k])
  BY DEF TypeOK, ReadInv
<1>2. call[k].client \in DOMAIN clients
  BY <1>1 DEF Kept, Fresh
<1>3. clients[call[k].client] \in Client
  BY <1>2 DEF TypeOK
<1>4. call[k].req \in Request
  BY <1>1 DEF Call
<1> QED
  BY <1>1, <1>2, <1>3, <1>4 DEF Kept, Request

LEMMA FailsKept ==
    ASSUME TypeOK, ReadInv, NEW k \in Calls, call[k] # None, Fails(k)
    PROVE  TypeOK' /\ ReadInv'
<1>1. "failed" \in Route(call[k].req.op) /\ Passage(call[k], "failed")
  BY DEF Route, Passage
<1> QED
  BY <1>1, GoOn DEF Fails

\* Where a call goes from a site that is known.
LEMMA AfterSiteGood ==
    ASSUME TypeOK, ReadInv, NEW k \in Calls, call[k] # None, call[k].pc \in Resolving
    PROVE  /\ AfterSite(call[k]) \in Route(call[k].req.op)
           /\ AfterSite(call[k]) \in {"scan", "stations", "fetch"}
           /\ Passage(call[k], AfterSite(call[k]))
           /\ "resolving" \in Route(call[k].req.op) /\ "fill" \in Route(call[k].req.op)
           /\ Passage(call[k], "resolving") /\ Passage(call[k], "fill")
<1>1. call[k].pc \in Route(call[k].req.op)
  BY Placed
<1>2. call[k].req.op # "sites" /\ call[k].req.op # "status"
  BY <1>1 DEF Resolving, Route
<1>3. /\ call[k].req.op = "search" => AfterSite(call[k]) = "scan"
      /\ call[k].req.op = "troubleshoot" => AfterSite(call[k]) = "stations"
      /\ call[k].req.op \notin {"search", "troubleshoot"} => AfterSite(call[k]) = "fetch"
  <2>1. CASE call[k].req.op = "search"
    BY <2>1 DEF AfterSite
  <2>2. CASE call[k].req.op = "troubleshoot"
    BY <2>2 DEF AfterSite
  <2>3. CASE call[k].req.op \notin {"search", "troubleshoot"}
    <3>1. call[k].req.op # "search" /\ call[k].req.op # "troubleshoot"
      BY <2>3
    <3> QED
      BY <3>1 DEF AfterSite
  <2> QED
    BY <2>1, <2>2, <2>3
<1>4. AfterSite(call[k]) \in {"scan", "stations", "fetch"}
  BY <1>3
<1>5. /\ AfterSite(call[k]) \in Route(call[k].req.op)
      /\ "resolving" \in Route(call[k].req.op) /\ "fill" \in Route(call[k].req.op)
  BY <1>2, <1>3 DEF Route
<1> QED
  BY <1>4, <1>5 DEF Passage

LEMMA LookUpSiteKept ==
    ASSUME TypeOK, ReadInv, NEW k \in Calls, LookUpSite(k) PROVE TypeOK' /\ ReadInv'
<1> DEFINE cached == clients[call[k].client].uuid
<1>1. call[k] # None /\ call[k].pc \in Resolving
  BY DEF LookUpSite, At, Resolving
<1>2. cached \in Nat \cup {None}
  BY <1>1, Placed DEF Client
<1>3. cached # None => cached >= clients[call[k].client].bornUuid
  BY <1>1, Placed DEF ReadInv, Built
<1>4. CASE cached # None /\ Become(k, [call[k] EXCEPT !.uuid = cached, !.pc = AfterSite(call[k])])
  <2> HIDE DEF cached
  <2> QED
    BY <1>1, <1>2, <1>3, <1>4, AfterSiteGood, LearnSite
<1>5. CASE Become(k, [call[k] EXCEPT !.pc = "resolving"])
  BY <1>1, <1>5, AfterSiteGood, GoOn
<1> QED
  BY <1>4, <1>5 DEF LookUpSite

LEMMA ResolveSiteKept ==
    ASSUME TypeOK, ReadInv, NEW k \in Calls, ResolveSite(k) PROVE TypeOK' /\ ReadInv'
<1>1. call[k] # None /\ call[k].pc \in Resolving
  BY DEF ResolveSite, At, Resolving
<1>2. site.uuid \in Nat
  BY DEF TypeOK
<1>3. site.uuid >= clients[call[k].client].bornUuid
  BY <1>1, <1>2, Placed DEF ReadInv, Built, Client
<1> QED
  BY <1>1, <1>2, <1>3, AfterSiteGood, LearnSite DEF ResolveSite

LEMMA LookUpVersionKept ==
    ASSUME TypeOK, ReadInv, NEW k \in Calls, LookUpVersion(k) PROVE TypeOK' /\ ReadInv'
<1> DEFINE cached == clients[call[k].client].version
           at == IF call[k].req.op = "status" THEN "answered" ELSE "failed"
<1>1. call[k] # None /\ call[k].pc = "version"
  BY DEF LookUpVersion, At
<1>2. cached \in Nat \cup {None}
  BY <1>1, Placed DEF Client
<1>3. cached # None => cached >= clients[call[k].client].bornVersion
  BY <1>1, Placed DEF ReadInv, Built
<1>4. at \in Route(call[k].req.op) /\ Passage(call[k], at)
  BY DEF Route, Passage
<1>5. CASE Become(k, Named(call[k], cached))
  <2>1. Become(k, [call[k] EXCEPT !.version = cached, !.pc = at])
    BY <1>5 DEF Named
  <2> HIDE DEF cached, at
  <2> QED
    BY <1>1, <1>2, <1>3, <1>4, <2>1, LearnVersion
<1>6. CASE Become(k, [call[k] EXCEPT !.pc = "asking"])
  <2>1. "asking" \in Route(call[k].req.op)
    BY <1>1, Placed DEF Route
  <2>2. Passage(call[k], "asking")
    BY <1>1 DEF Passage, Resolving, Naming
  <2> QED
    BY <1>1, <1>6, <2>1, <2>2, GoOn
<1> QED
  BY <1>5, <1>6 DEF LookUpVersion

LEMMA AskVersionKept ==
    ASSUME TypeOK, ReadInv, NEW k \in Calls, AskVersion(k) PROVE TypeOK' /\ ReadInv'
<1>1. call[k] # None /\ call[k].pc = "asking"
  BY DEF AskVersion, At
<1>2. CASE Become(k, [call[k] EXCEPT !.version = site.version, !.pc = "remember"])
  <2>1. "remember" \in Route(call[k].req.op)
    BY <1>1, Placed DEF Route
  <2>2. Passage(call[k], "remember")
    BY <1>1 DEF Passage, Resolving, Naming
  <2>3. site.version \in Nat
    BY DEF TypeOK
  <2>4. site.version >= clients[call[k].client].bornVersion
    BY <1>1, <2>3, Placed DEF ReadInv, Built, Client
  <2> QED
    BY <1>1, <1>2, <2>1, <2>2, <2>3, <2>4, LearnVersion
<1>3. CASE Fails(k)
  BY <1>1, <1>3, FailsKept
<1>4. CASE /\ call[k].req.op # "status"
           /\ Become(k, Named(call[k], clients[call[k].client].version))
  <2> DEFINE cached == clients[call[k].client].version
  <2>1. cached \in Nat \cup {None}
    BY <1>1, Placed DEF Client
  <2>2. cached # None => cached >= clients[call[k].client].bornVersion
    BY <1>1, Placed DEF ReadInv, Built
  <2>3. Become(k, [call[k] EXCEPT !.version = cached, !.pc = "failed"])
    BY <1>4 DEF Named
  <2>4. "failed" \in Route(call[k].req.op) /\ Passage(call[k], "failed")
    BY DEF Route, Passage
  <2> HIDE DEF cached
  <2> QED
    BY <1>1, <2>1, <2>2, <2>3, <2>4, LearnVersion
<1> QED
  BY <1>2, <1>3, <1>4 DEF AskVersion

LEMMA BreakKept ==
    ASSUME TypeOK, ReadInv, NEW k \in Calls, Break(k) PROVE TypeOK' /\ ReadInv'
  BY FailsKept DEF Break

LEMMA UplinksKept ==
    ASSUME TypeOK, ReadInv, NEW k \in Calls, Uplinks(k) PROVE TypeOK' /\ ReadInv'
<1>1. call[k] # None /\ call[k].pc = "uplinks"
  BY DEF Uplinks, At
<1>2. CASE Become(k, [call[k] EXCEPT !.pc = "policies"])
  <2>1. "policies" \in Route(call[k].req.op)
    BY <1>1, Placed DEF Route
  <2>2. Passage(call[k], "policies")
    BY <1>1 DEF Passage
  <2> QED
    BY <1>1, <1>2, <2>1, <2>2, GoOn
<1>3. CASE Fails(k)
  BY <1>1, <1>3, FailsKept
<1> QED
  BY <1>2, <1>3 DEF Uplinks

-----------------------------------------------------------------------------
(* The invariant: what a client remembers                                   *)

LEMMA FillSiteKept ==
    ASSUME TypeOK, ReadInv, NEW k \in Calls, FillSite(k) PROVE TypeOK' /\ ReadInv'
<1> DEFINE c == call[k]
           g == call[k].client
<1>1. c # None /\ c.pc \in Resolving
  BY DEF FillSite, At, Resolving
<1>2. /\ c \in Call /\ Fresh(c) /\ g \in DOMAIN clients /\ clients[g] \in Client
      /\ Len(c.all) < Cap
  BY <1>1, Placed DEF TypeOK, Kept
<1>3. /\ c.uuid \in Nat \cup {None} /\ c.version \in Nat \cup {None}
      /\ c.uuid # None => c.uuid >= clients[g].bornUuid
      /\ c.version # None => c.version >= clients[g].bornVersion
  BY <1>2 DEF Call, Fresh
<1>4. PICK record : record = [c EXCEPT !.pc = AfterSite(c)]
  OBVIOUS
<1>5. record = [c EXCEPT !.pc = AfterSite(c), !.uuid = c.uuid, !.version = c.version]
  BY <1>2, <1>4 DEF Call
<1>6. record \in Call /\ Kept(record) /\ Len(record.all) < Cap
  <2> DEFINE uuid == c.uuid
             version == c.version
             at == AfterSite(c)
  <2>1. /\ uuid \in Nat \cup {None} /\ version \in Nat \cup {None}
        /\ uuid # None => uuid >= clients[call[k].client].bornUuid
        /\ version # None => version >= clients[call[k].client].bornVersion
        /\ record = [call[k] EXCEPT !.pc = at, !.uuid = uuid, !.version = version]
        /\ at \in Route(call[k].req.op) /\ Passage(call[k], at) /\ call[k] # None
    BY <1>1, <1>3, <1>5, AfterSiteGood
  <2> HIDE DEF uuid, version, at, c, g
  <2> QED
    BY <2>1, MoveGood
<1>7. /\ call' = [call EXCEPT ![k] = record]
      /\ clients' = [clients EXCEPT ![g] = [clients[g] EXCEPT !.uuid = c.uuid]]
      /\ UNCHANGED controller
  BY <1>2, <1>4 DEF FillSite, TypeOK
<1> HIDE DEF c, g
<1>8. \A h \in DOMAIN clients :
        /\ h \in DOMAIN clients'
        /\ clients'[h] = IF h = g THEN [clients[g] EXCEPT !.uuid = c.uuid] ELSE clients[h]
  BY <1>7 DEF TypeOK
<1>9. Lasting
  BY <1>2, <1>8 DEF Lasting, Client
<1>10. clients' \in Seq(Client) /\ clients' # <<>> /\ DOMAIN clients' = DOMAIN clients
  <2>1. [clients[g] EXCEPT !.uuid = c.uuid] \in Client
    BY <1>2, <1>3 DEF Client
  <2> QED
    BY <1>2, <1>7, <2>1 DEF TypeOK
<1>11. Built'
  <2> SUFFICES ASSUME NEW h \in DOMAIN clients
               PROVE  /\ clients'[h].bornUuid <= site.uuid
                      /\ clients'[h].bornVersion <= site.version
                      /\ clients'[h].uuid # None => clients'[h].uuid >= clients'[h].bornUuid
                      /\ clients'[h].version # None =>
                           clients'[h].version >= clients'[h].bornVersion
    BY <1>7, <1>10 DEF Built, controller
  <2>1. /\ clients[h].bornUuid <= site.uuid /\ clients[h].bornVersion <= site.version
        /\ clients[h].uuid # None => clients[h].uuid >= clients[h].bornUuid
        /\ clients[h].version # None => clients[h].version >= clients[h].bornVersion
    BY DEF ReadInv, Built
  <2>2. CASE h # g
    BY <1>8, <2>1, <2>2
  <2>3. CASE h = g
    <3>1. clients'[h] = [clients[g] EXCEPT !.uuid = c.uuid]
      BY <1>8, <2>3
    <3>2. /\ clients'[h].bornUuid = clients[h].bornUuid
          /\ clients'[h].bornVersion = clients[h].bornVersion
          /\ clients'[h].version = clients[h].version /\ clients'[h].uuid = c.uuid
      BY <1>2, <2>3, <3>1 DEF Client
    <3> QED
      BY <1>3, <2>1, <2>3, <3>2
  <2> QED
    BY <2>2, <2>3
<1>12. (\A j \in Calls : call[j] # None => Kept(call[j]))'
  BY <1>6, <1>7, <1>9, OneKept DEF controller
<1>13. /\ call' \in [Calls -> Call \cup {None}]
       /\ \A j \in Calls : call'[j] # None => Len(call'[j].all) < Cap
  BY <1>6, <1>7 DEF TypeOK
<1> QED
  BY <1>7, <1>10, <1>11, <1>12, <1>13 DEF TypeOK, ReadInv, controller

LEMMA RememberVersionKept ==
    ASSUME TypeOK, ReadInv, NEW k \in Calls, RememberVersion(k) PROVE TypeOK' /\ ReadInv'
<1> DEFINE c == call[k]
           g == call[k].client
           at == IF call[k].req.op = "status" THEN "answered" ELSE "failed"
<1>1. c # None /\ c.pc = "remember"
  BY DEF RememberVersion, At
<1>2. /\ c \in Call /\ Fresh(c) /\ g \in DOMAIN clients /\ clients[g] \in Client
      /\ Len(c.all) < Cap
  BY <1>1, Placed DEF TypeOK, Kept
<1>3. /\ c.uuid \in Nat \cup {None} /\ c.version \in Nat \cup {None}
      /\ c.uuid # None => c.uuid >= clients[g].bornUuid
      /\ c.version # None => c.version >= clients[g].bornVersion
  BY <1>2 DEF Call, Fresh
<1>4. PICK record : record = Named(c, c.version)
  OBVIOUS
<1>5. record = [c EXCEPT !.pc = at, !.uuid = c.uuid, !.version = c.version]
  BY <1>2, <1>4 DEF Call, Named
<1>6. record \in Call /\ Kept(record) /\ Len(record.all) < Cap
  <2> DEFINE uuid == c.uuid
             version == c.version
  <2>1. at \in Route(call[k].req.op) /\ Passage(call[k], at)
    BY DEF Route, Passage
  <2>2. /\ uuid \in Nat \cup {None} /\ version \in Nat \cup {None}
        /\ uuid # None => uuid >= clients[call[k].client].bornUuid
        /\ version # None => version >= clients[call[k].client].bornVersion
        /\ record = [call[k] EXCEPT !.pc = at, !.uuid = uuid, !.version = version]
        /\ call[k] # None
    BY <1>1, <1>3, <1>5
  <2> HIDE DEF uuid, version, at, c, g
  <2> QED
    BY <2>1, <2>2, MoveGood
<1>7. /\ call' = [call EXCEPT ![k] = record]
      /\ clients' = [clients EXCEPT ![g] = [clients[g] EXCEPT !.version = c.version]]
      /\ UNCHANGED controller
  BY <1>2, <1>4 DEF RememberVersion, TypeOK
<1> HIDE DEF c, g, at
<1>8. \A h \in DOMAIN clients :
        /\ h \in DOMAIN clients'
        /\ clients'[h] = IF h = g THEN [clients[g] EXCEPT !.version = c.version]
                         ELSE clients[h]
  BY <1>7 DEF TypeOK
<1>9. Lasting
  BY <1>2, <1>8 DEF Lasting, Client
<1>10. clients' \in Seq(Client) /\ clients' # <<>> /\ DOMAIN clients' = DOMAIN clients
  <2>1. [clients[g] EXCEPT !.version = c.version] \in Client
    BY <1>2, <1>3 DEF Client
  <2> QED
    BY <1>2, <1>7, <2>1 DEF TypeOK
<1>11. Built'
  <2> SUFFICES ASSUME NEW h \in DOMAIN clients
               PROVE  /\ clients'[h].bornUuid <= site.uuid
                      /\ clients'[h].bornVersion <= site.version
                      /\ clients'[h].uuid # None => clients'[h].uuid >= clients'[h].bornUuid
                      /\ clients'[h].version # None =>
                           clients'[h].version >= clients'[h].bornVersion
    BY <1>7, <1>10 DEF Built, controller
  <2>1. /\ clients[h].bornUuid <= site.uuid /\ clients[h].bornVersion <= site.version
        /\ clients[h].uuid # None => clients[h].uuid >= clients[h].bornUuid
        /\ clients[h].version # None => clients[h].version >= clients[h].bornVersion
    BY DEF ReadInv, Built
  <2>2. CASE h # g
    BY <1>8, <2>1, <2>2
  <2>3. CASE h = g
    <3>1. clients'[h] = [clients[g] EXCEPT !.version = c.version]
      BY <1>8, <2>3
    <3>2. /\ clients'[h].bornUuid = clients[h].bornUuid
          /\ clients'[h].bornVersion = clients[h].bornVersion
          /\ clients'[h].uuid = clients[h].uuid /\ clients'[h].version = c.version
      BY <1>2, <2>3, <3>1 DEF Client
    <3> QED
      BY <1>3, <2>1, <2>3, <3>2
  <2> QED
    BY <2>2, <2>3
<1>12. (\A j \in Calls : call[j] # None => Kept(call[j]))'
  BY <1>6, <1>7, <1>9, OneKept DEF controller
<1>13. /\ call' \in [Calls -> Call \cup {None}]
       /\ \A j \in Calls : call'[j] # None => Len(call'[j].all) < Cap
  BY <1>6, <1>7 DEF TypeOK
<1> QED
  BY <1>7, <1>10, <1>11, <1>12, <1>13 DEF TypeOK, ReadInv, controller

-----------------------------------------------------------------------------
(* The invariant: calls that begin, the controller and the reload           *)

LEMMA HeldTyped ==
    ASSUME TypeOK, NEW leg \in Collections PROVE held[leg] \in Seq(BOOLEAN)
  BY ReadAssumption DEF TypeOK

LEMMA BeginKept ==
    ASSUME TypeOK, ReadInv, NEW k \in Calls, NEW req \in Requests[k],
           NEW at \in Route(req.op) \cap {"site", "fetch", "version"},
           at # "site" => req.op \notin {"search", "troubleshoot"},
           NEW uuid \in {None, site.uuid}, Begin(k, req, at, uuid)
    PROVE  TypeOK' /\ ReadInv'
<1> DEFINE fresh ==
      [req |-> req, pc |-> at, client |-> Len(clients), uuid |-> uuid,
       version |-> None, leg |-> "clients", all |-> <<>>,
       shown |-> [c \in Collections |-> {}], omitted |-> {},
       seen |-> NoFirewall, applied |-> {},
       began |-> held, shrunk |-> FALSE, moved |-> FALSE]
<1>1. req \in Request /\ Len(clients) \in Nat /\ site.uuid \in Nat
  BY ReadAssumption DEF TypeOK
<1>2. fresh \in Call
  BY <1>1, NoFirewallTyped DEF TypeOK, Call, Supported
<1>3. Len(fresh.all) < Cap
  BY ReadAssumption
<1>4. Become(k, fresh)
  BY DEF Begin
<1>5. PICK record : record = fresh
  OBVIOUS
<1>6. /\ record.req = req /\ record.pc = at /\ record.client = Len(clients)
      /\ record.uuid = uuid /\ record.version = None /\ record.leg = "clients"
      /\ record.all = <<>> /\ ~record.seen.known /\ record.began = held
  BY <1>5 DEF NoFirewall
<1> HIDE DEF fresh
<1>7. Fresh(record)
  <2>1. Len(clients) \in DOMAIN clients
    BY DEF TypeOK
  <2>2. clients[Len(clients)].bornUuid <= site.uuid
    BY <2>1 DEF ReadInv, Built
  <2>3. clients[Len(clients)] \in Client
    BY <2>1 DEF TypeOK
  <2>4. uuid # None => uuid >= clients[Len(clients)].bornUuid
    BY <1>1, <2>2, <2>3 DEF Client
  <2> QED
    BY <1>6, <2>1, <2>4 DEF Fresh
<1>8. Grown(record)
  BY <1>6, HeldTyped, GrewIntoReflexive DEF Grown
<1>9. Scanned(record)
  <2>1. req.op = "search" => Done(record) = {}
    BY <1>6 DEF Done
  <2>2. Agrees(record.all, record.began[record.leg])
    BY <1>6, HeldTyped DEF Agrees, Collections, Supported
  <2> QED
    BY <1>6, <2>1, <2>2 DEF Scanned
<1>10. Windowed(record) /\ Gathered(record)
  BY <1>6 DEF Windowed, Gathered
<1>11. Kept(record)
  BY <1>6, <1>7, <1>8, <1>9, <1>10 DEF Kept
<1> QED
  BY <1>2, <1>3, <1>4, <1>5, <1>11, BecomeKept

LEMMA HandleKept ==
    ASSUME TypeOK, ReadInv, NEW k \in Calls, NEW req \in Requests[k], Handle(k, req)
    PROVE  TypeOK' /\ ReadInv'
<1>1. CASE Search(k, req) \/ Troubleshoot(k, req)
  <2>1. "site" \in Route(req.op) /\ Begin(k, req, "site", None)
    BY <1>1 DEF Search, Troubleshoot, Route
  <2> QED
    BY <2>1, BeginKept
<1>2. CASE ListResources(k, req) \/ GetResource(k, req)
  <2>1. req.op = "list" \/ req.op = "get"
    BY <1>2 DEF ListResources, GetResource
  <2>2. PICK at \in {"site", "fetch"}, uuid \in {None, site.uuid} : Begin(k, req, at, uuid)
    BY <1>2 DEF ListResources, GetResource, Addressed
  <2>3. at \in Route(req.op)
    BY <2>1 DEF Route
  <2> QED
    BY <2>1, <2>2, <2>3, BeginKept
<1>3. CASE ListSites(k, req)
  <2>1. "fetch" \in Route(req.op) /\ Begin(k, req, "fetch", None) /\ req.op = "sites"
    BY <1>3 DEF ListSites, Route
  <2> QED
    BY <2>1, BeginKept
<1>4. CASE Status(k, req)
  <2>1. "version" \in Route(req.op) /\ Begin(k, req, "version", None) /\ req.op = "status"
    BY <1>4 DEF Status, Route
  <2> QED
    BY <2>1, BeginKept
<1> QED
  BY <1>1, <1>2, <1>3, <1>4 DEF Handle

LEMMA RebuildKept == ASSUME TypeOK, ReadInv, Rebuild PROVE TypeOK' /\ ReadInv'
<1>1. PICK private \in BOOLEAN : clients' = Append(clients, NewClient(private))
  BY DEF Rebuild
<1>2. UNCHANGED <<site, held, firewall, changes, call>>
  BY DEF Rebuild, controller
<1>3. clients \in Seq(Client) /\ site.uuid \in Nat /\ site.version \in Nat
  BY DEF TypeOK
<1>4. \A g \in DOMAIN clients : g \in DOMAIN clients' /\ clients'[g] = clients[g]
  BY <1>1, <1>3, NewClientTyped
<1>5. Lasting
  BY <1>4 DEF Lasting
<1>6. Built'
  <2>1. \A g \in DOMAIN clients' : g \in DOMAIN clients \/ clients'[g] = NewClient(private)
    BY <1>1, <1>3, NewClientTyped
  <2>2. \A g \in DOMAIN clients :
          /\ clients'[g].bornUuid <= site.uuid /\ clients'[g].bornVersion <= site.version
          /\ clients'[g].uuid # None => clients'[g].uuid >= clients'[g].bornUuid
          /\ clients'[g].version # None => clients'[g].version >= clients'[g].bornVersion
    BY <1>4 DEF ReadInv, Built
  <2>3. /\ NewClient(private).bornUuid = site.uuid
        /\ NewClient(private).bornVersion = site.version
        /\ NewClient(private).uuid = None /\ NewClient(private).version = None
    BY DEF NewClient
  <2> QED
    BY <1>2, <1>3, <2>1, <2>2, <2>3 DEF Built
<1>7. ASSUME NEW j \in Calls, call'[j] # None PROVE Kept(call[j])'
  <2>1. PICK c : c = call[j]
    OBVIOUS
  <2>2. call'[j] = c /\ c \in Call /\ Kept(c)
    BY <1>2, <1>7, <2>1 DEF ReadInv, TypeOK
  <2>3. Kept(c)'
    BY <1>2, <1>5, <2>2, KeptLasts
  <2> QED
    BY <2>2, <2>3
       DEF Kept, Route, Fresh, Grown, Scanned, Windowed, Gathered, Opted, Done
<1> QED
  BY <1>6, <1>7, RebuildTyped DEF ReadInv

\* A call that has witnessed a change goes on to hold what it promises.
LEMMA WitnessKept ==
    ASSUME TypeOK, ReadInv, NEW shrunk \in BOOLEAN, NEW moved \in BOOLEAN,
           Witnessed(shrunk, moved), clients' = clients, held' \in [Collections -> Holdings],
           ~shrunk => \A leg \in Collections : GrewInto(held[leg], held'[leg]),
           ~moved => firewall' = firewall
    PROVE  (\A k \in Calls : call[k] # None => Kept(call[k]))'
<1> SUFFICES ASSUME NEW k \in Calls, call'[k] # None PROVE Kept(call[k])'
  OBVIOUS
<1>1. PICK c : c = call[k]
  OBVIOUS
<1>2. PICK d : d = [c EXCEPT !.shrunk = @ \/ shrunk, !.moved = @ \/ moved]
  OBVIOUS
<1>3. c # None /\ call'[k] = d
  BY <1>1, <1>2 DEF Witnessed
<1>4. c \in Call /\ Kept(c)
  BY <1>1, <1>3 DEF ReadInv, TypeOK
<1>5. /\ d.req = c.req /\ d.pc = c.pc /\ d.client = c.client /\ d.uuid = c.uuid
      /\ d.version = c.version /\ d.leg = c.leg /\ d.all = c.all /\ d.shown = c.shown
      /\ d.omitted = c.omitted /\ d.seen = c.seen /\ d.applied = c.applied
      /\ d.began = c.began
      /\ d.shrunk = (c.shrunk \/ shrunk) /\ d.moved = (c.moved \/ moved)
  BY <1>2, <1>4 DEF Call
<1>6. Fresh(d)'
  BY <1>4, <1>5 DEF Kept, Fresh
<1>7. Grown(d)'
  <2> SUFFICES ASSUME ~d.shrunk, NEW leg \in Collections
               PROVE  GrewInto(d.began[leg], held'[leg])
    BY DEF Grown, GrewInto
  <2>1. ~c.shrunk /\ ~shrunk
    BY <1>5
  <2>2. GrewInto(c.began[leg], held[leg]) /\ GrewInto(held[leg], held'[leg])
    BY <1>4, <2>1 DEF Kept, Grown
  <2>3. /\ c.began[leg] \in Seq(BOOLEAN) /\ held[leg] \in Seq(BOOLEAN)
        /\ held'[leg] \in Seq(BOOLEAN)
    BY <1>4, ReadAssumption DEF Call, TypeOK
  <2> QED
    BY <1>5, <2>2, <2>3, GrewIntoTransitive
<1>8. Scanned(d)' /\ Windowed(d)'
  <2>1. Done(d) = Done(c)
    BY <1>5 DEF Done
  <2>2. Scanned(d) /\ Windowed(d)
    BY <1>4, <1>5, <2>1 DEF Kept, Scanned, Windowed
  <2> QED
    BY <2>2 DEF Scanned, Windowed, Agrees, Done, FilterByQuery, Window
<1>9. Gathered(d)'
  <2>1. (Opted(d)') = Opted(c)
    BY <1>5 DEF Opted
  <2>2. ~d.moved => ~c.moved /\ firewall' = firewall
    BY <1>5
  <2>3. ~d.moved => (Applies') = Applies
    BY <2>2 DEF Applies
  <2> QED
    BY <1>4, <1>5, <2>1, <2>2, <2>3 DEF Kept, Gathered
<1>10. Kept(d)'
  BY <1>4, <1>5, <1>6, <1>7, <1>8, <1>9 DEF Kept
<1> QED
  BY <1>3, <1>10 DEF Kept, Route, Fresh, Grown, Scanned, Windowed, Gathered, Opted, Done

LEMMA ChangeKept == ASSUME TypeOK, ReadInv, Change PROVE TypeOK' /\ ReadInv'
<1>1. clients' = clients /\ TypeOK'
  BY ChangeTyped DEF Change
<1>2. held' \in [Collections -> Holdings]
  BY <1>1 DEF TypeOK
<1>3. \A g \in DOMAIN clients :
        clients[g].bornUuid \in Nat /\ clients[g].bornVersion \in Nat
  <2>1. clients \in Seq(Client)
    BY DEF TypeOK
  <2>2. \A g \in DOMAIN clients : clients[g] \in Client
    BY <2>1
  <2> QED
    BY <2>2 DEF Client
<1>4. \A leg \in Collections : GrewInto(held[leg], held[leg])
  BY HeldTyped, GrewIntoReflexive
<1>5. CASE /\ site' = [site EXCEPT !.uuid = @ + 1]
           /\ Witnessed(TRUE, TRUE) /\ UNCHANGED <<held, firewall>>
  <2>1. site'.uuid = site.uuid + 1 /\ site'.version = site.version /\ site.uuid \in Nat
    BY <1>5 DEF TypeOK
  <2>2. Built'
    BY <1>1, <1>3, <2>1 DEF ReadInv, Built
  <2>3. (\A k \in Calls : call[k] # None => Kept(call[k]))'
    BY <1>1, <1>2, <1>5, WitnessKept
  <2> QED
    BY <1>1, <2>2, <2>3 DEF ReadInv
<1>6. CASE /\ \E routes \in BOOLEAN :
                site' = [site EXCEPT !.version = @ + 1, !.routes = routes]
           /\ UNCHANGED <<held, firewall, call>>
  <2>1. site \in [uuid : Nat, version : Nat, routes : BOOLEAN]
    BY DEF TypeOK
  <2>2. PICK routes \in BOOLEAN :
          site' = [site EXCEPT !.version = @ + 1, !.routes = routes]
    BY <1>6
  <2>3. site'.uuid = site.uuid /\ site'.version = site.version + 1 /\ site.version \in Nat
    BY <2>1, <2>2
  <2>4. Built'
    BY <1>1, <1>3, <2>3 DEF ReadInv, Built
  <2>5. Lasting
    BY <1>1 DEF Lasting
  <2>6. ASSUME NEW j \in Calls, call'[j] # None PROVE Kept(call[j])'
    <3>1. PICK c : c = call[j]
      OBVIOUS
    <3>2. call'[j] = c /\ c \in Call /\ Kept(c)
      BY <1>6, <2>6, <3>1 DEF ReadInv, TypeOK
    <3>3. Kept(c)'
      BY <1>6, <2>5, <3>2, KeptLasts
    <3> QED
      BY <3>2, <3>3
         DEF Kept, Route, Fresh, Grown, Scanned, Windowed, Gathered, Opted, Done
  <2> QED
    BY <1>1, <2>4, <2>6 DEF ReadInv
<1>7. CASE /\ \E c \in Collections, h \in Holdings :
                /\ held' = [held EXCEPT ![c] = h]
                /\ Witnessed(~GrewInto(held[c], h), FALSE)
           /\ UNCHANGED <<site, firewall>>
  <2>1. PICK c \in Collections, h \in Holdings :
          held' = [held EXCEPT ![c] = h] /\ Witnessed(~GrewInto(held[c], h), FALSE)
    BY <1>7
  <2> DEFINE lost == ~GrewInto(held[c], h)
  <2>2. lost \in BOOLEAN /\ Witnessed(lost, FALSE)
    BY <2>1 DEF GrewInto
  <2>3. ~lost => \A leg \in Collections : GrewInto(held[leg], held'[leg])
    BY <1>4, <2>1 DEF TypeOK
  <2> HIDE DEF lost
  <2>4. (\A k \in Calls : call[k] # None => Kept(call[k]))'
    BY <1>1, <1>2, <1>7, <2>2, <2>3, WitnessKept
  <2>5. Built'
    BY <1>1, <1>7 DEF ReadInv, Built
  <2> QED
    BY <1>1, <2>4, <2>5 DEF ReadInv
<1>8. CASE /\ firewall' \in Firewalls \ {firewall}
           /\ Witnessed(FALSE, TRUE) /\ UNCHANGED <<site, held>>
  <2>1. (\A k \in Calls : call[k] # None => Kept(call[k]))'
    BY <1>1, <1>2, <1>4, <1>8, WitnessKept
  <2>2. Built'
    BY <1>1, <1>8 DEF ReadInv, Built
  <2> QED
    BY <1>1, <2>1, <2>2 DEF ReadInv
<1> QED
  BY <1>5, <1>6, <1>7, <1>8 DEF Change

-----------------------------------------------------------------------------
(* The invariant: searches                                                  *)

\* A page is what the collection holds next.
LEMMA SliceIs ==
    ASSUME NEW items \in Seq(BOOLEAN), NEW from \in Nat, NEW size \in Nat
    PROVE  /\ Slice(items, from, size) \in Seq(BOOLEAN)
           /\ \A i \in 1 .. Len(Slice(items, from, size)) :
                /\ from + i <= Len(items) /\ Slice(items, from, size)[i] = items[from + i]
           /\ Len(Slice(items, from, size)) <= size
           /\ Len(Slice(items, from, size)) < size =>
                from + Len(Slice(items, from, size)) >= Len(items)
<1> DEFINE to == IF from + size < Len(items) THEN from + size ELSE Len(items)
           page == SubSeq(items, from + 1, to)
<1>1. Len(items) \in Nat /\ to \in Nat /\ to <= Len(items) /\ to <= from + size
  OBVIOUS
<1>2. from + 1 \in Int /\ to \in Int /\ \A i \in from + 1 .. to : items[i] \in BOOLEAN
  BY <1>1
<1>3. to < from + size => to = Len(items)
  BY <1>1
<1> HIDE DEF to
<1>4. /\ page \in Seq(BOOLEAN)
      /\ Len(page) = IF from + 1 <= to THEN to - (from + 1) + 1 ELSE 0
      /\ \A i \in 1 .. to - (from + 1) + 1 : page[i] = items[from + 1 + i - 1]
  BY <1>2, SubSeqProperties
<1>5. Slice(items, from, size) = page
  BY DEF Slice, to
<1> HIDE DEF page
<1>6. \A i \in 1 .. Len(page) :
        from + i <= Len(items) /\ i \in 1 .. to - (from + 1) + 1 /\ from + 1 + i - 1 = from + i
  BY <1>1, <1>4
<1>7. Len(page) <= size
  BY <1>1, <1>4
<1>8. Len(page) < size => from + Len(page) >= Len(items)
  BY <1>1, <1>3, <1>4
<1> QED
  BY <1>4, <1>5, <1>6, <1>7, <1>8

\* What matches in a collection still matches once the collection has grown.
LEMMA MatchesLast ==
    ASSUME NEW before \in Seq(BOOLEAN), NEW after \in Seq(BOOLEAN), NEW limit \in Nat,
           Len(after) >= Len(before), \A i \in DOMAIN before : after[i] = before[i]
    PROVE  FilterByQuery(before, limit) \subseteq FilterByQuery(after, limit)
<1> SUFFICES ASSUME NEW i \in FilterByQuery(before, limit)
             PROVE  i \in FilterByQuery(after, limit)
  OBVIOUS
<1>1. i \in DOMAIN before /\ before[i]
      /\ Cardinality({j \in 1 .. i : before[j]}) <= limit
  BY DEF FilterByQuery
<1>2. i \in DOMAIN after /\ after[i]
  BY <1>1
<1>3. \A j \in 1 .. i : before[j] = after[j]
  BY <1>1
<1>4. {j \in 1 .. i : before[j]} = {j \in 1 .. i : after[j]}
  BY <1>3
<1> QED
  BY <1>1, <1>2, <1>4 DEF FilterByQuery

LEMMA ScanKept ==
    ASSUME TypeOK, ReadInv, NEW k \in Calls, Scan(k) PROVE TypeOK' /\ ReadInv'
<1> DEFINE c == call[k]
           page == Slice(held[c.leg], Len(c.all), Page)
           all == c.all \o page
           read == [c EXCEPT !.shown[c.leg] = FilterByQuery(all, c.req.size),
                             !.omitted = @ \cup (IF Capped(page, all) THEN {c.leg} ELSE {}),
                             !.all = <<>>]
<1>1. c # None /\ c.pc = "scan"
  BY DEF Scan, At
<1>2. c \in Call /\ Kept(c) /\ c.req.op = "search"
  <2>1. c \in Call /\ Kept(c) /\ c.pc \in Route(c.req.op)
    BY <1>1, Placed
  <2> QED
    BY <1>1, <2>1 DEF Route
<1>3. /\ c.leg \in Supported /\ c.leg \in Collections /\ c.all \in Seq(BOOLEAN)
      /\ Len(c.all) \in Nat /\ c.req \in Request /\ c.req.size \in Nat
      /\ c.omitted \in SUBSET (Collections \cup {"self"})
      /\ c.shown \in [Collections -> SUBSET Nat] /\ c.began \in [Collections -> Holdings]
      /\ c.began[c.leg] \in Seq(BOOLEAN) /\ held[c.leg] \in Seq(BOOLEAN)
  <2>1. c.leg \in Supported /\ c.leg \in Collections
    BY <1>2 DEF Call, Collections
  <2>2. held[c.leg] \in Seq(BOOLEAN)
    BY <2>1, HeldTyped
  <2>3. c.began[c.leg] \in Seq(BOOLEAN)
    BY <1>2, <2>1, ReadAssumption DEF Call
  <2> QED
    BY <1>2, <2>1, <2>2, <2>3 DEF Call, Request
<1>4. Page \in Nat /\ Cap \in Nat /\ Len(c.all) < Cap
  BY <1>1, ReadAssumption DEF TypeOK
<1>5. /\ page \in Seq(BOOLEAN) /\ Len(page) \in Nat
      /\ \A i \in 1 .. Len(page) :
           Len(c.all) + i <= Len(held[c.leg]) /\ page[i] = held[c.leg][Len(c.all) + i]
      /\ Len(page) < Page => Len(c.all) + Len(page) >= Len(held[c.leg])
  <2> DEFINE items == held[c.leg]
             from == Len(c.all)
  <2>1. items \in Seq(BOOLEAN) /\ from \in Nat /\ Page \in Nat
    BY <1>3, <1>4
  <2> HIDE DEF items, from
  <2>2. /\ Slice(items, from, Page) \in Seq(BOOLEAN)
        /\ \A i \in 1 .. Len(Slice(items, from, Page)) :
             /\ from + i <= Len(items) /\ Slice(items, from, Page)[i] = items[from + i]
        /\ Len(Slice(items, from, Page)) < Page =>
             from + Len(Slice(items, from, Page)) >= Len(items)
    BY <2>1, SliceIs
  <2>3. page = Slice(items, from, Page)
    BY DEF items, from
  <2> HIDE DEF page
  <2>4. Len(page) \in Nat
    BY <2>2, <2>3
  <2> QED
    BY <2>2, <2>3, <2>4 DEF items, from
<1>6. CASE Fails(k)
  BY <1>1, <1>6, FailsKept
<1> HIDE DEF page
<1>7. /\ all \in Seq(BOOLEAN) /\ Len(all) = Len(c.all) + Len(page)
      /\ \A i \in 1 .. Len(all) :
           all[i] = IF i <= Len(c.all) THEN c.all[i] ELSE page[i - Len(c.all)]
  BY <1>3, <1>5, ConcatProperties
<1> HIDE DEF all
<1>8. ~c.shrunk => Agrees(all, c.began[c.leg])
  <2> SUFFICES ASSUME ~c.shrunk, NEW i \in DOMAIN c.began[c.leg], i <= Len(all)
               PROVE  all[i] = c.began[c.leg][i]
    BY DEF Agrees
  <2>1. Agrees(c.all, c.began[c.leg]) /\ GrewInto(c.began[c.leg], held[c.leg])
    BY <1>2, <1>3 DEF Kept, Scanned, Grown
  <2>2. i \in Nat \ {0} /\ i \in 1 .. Len(all) /\ held[c.leg][i] = c.began[c.leg][i]
    BY <1>3, <1>7, <2>1 DEF GrewInto
  <2>3. CASE i <= Len(c.all)
    BY <1>7, <2>1, <2>2, <2>3 DEF Agrees
  <2>4. CASE i > Len(c.all)
    <3>1. i - Len(c.all) \in 1 .. Len(page) /\ Len(c.all) + (i - Len(c.all)) = i
      BY <1>3, <1>5, <1>7, <2>2, <2>4
    <3>2. page[i - Len(c.all)] = held[c.leg][i]
      BY <1>5, <3>1
    <3>3. all[i] = page[i - Len(c.all)]
      <4>1. ~(i <= Len(c.all))
        BY <1>3, <2>2, <2>4
      <4> QED
        BY <1>7, <2>2, <4>1
    <3> QED
      BY <2>2, <3>2, <3>3
  <2> QED
    BY <1>3, <2>2, <2>3, <2>4
<1>9. CASE ~ScanEnds(page, all) /\ Become(k, [c EXCEPT !.all = all])
  <2>1. PICK record : record = [c EXCEPT !.all = all]
    OBVIOUS
  <2>2. record \in Call
    BY <1>2, <1>7, <2>1 DEF Call
  <2>3. /\ record.req = c.req /\ record.pc = c.pc /\ record.client = c.client
        /\ record.uuid = c.uuid /\ record.version = c.version /\ record.leg = c.leg
        /\ record.all = all /\ record.shown = c.shown /\ record.omitted = c.omitted
        /\ record.seen = c.seen /\ record.applied = c.applied /\ record.began = c.began
        /\ record.shrunk = c.shrunk /\ record.moved = c.moved
    BY <1>2, <2>1 DEF Call
  <2>4. Fresh(record) /\ Grown(record) /\ Windowed(record)
    BY <1>1, <1>2, <2>3 DEF Kept, Fresh, Grown, Windowed
  <2>5. Gathered(record)
    BY <1>2, <2>3 DEF Gathered
  <2>6. Done(record) = Done(c)
    BY <2>3 DEF Done
  <2>7. Scanned(record)
    BY <1>2, <1>8, <2>3, <2>6 DEF Kept, Scanned
  <2>8. Kept(record)
    BY <1>2, <2>3, <2>4, <2>5, <2>7 DEF Kept
  <2>9. Len(record.all) < Cap
    BY <1>3, <1>4, <1>5, <1>7, <1>9, <2>3 DEF ScanEnds
  <2> HIDE DEF c
  <2> QED
    BY <1>9, <2>1, <2>2, <2>8, <2>9, BecomeKept
<1>10. ScanEnds(page, all) /\ ~c.shrunk /\ ~Capped(page, all) =>
        FilterByQuery(c.began[c.leg], c.req.size) \subseteq FilterByQuery(all, c.req.size)
  <2> SUFFICES ASSUME ScanEnds(page, all), ~c.shrunk, ~Capped(page, all)
               PROVE  FilterByQuery(c.began[c.leg], c.req.size)
                        \subseteq FilterByQuery(all, c.req.size)
    OBVIOUS
  <2>1. Len(page) < Page
    BY <1>4, <1>5, <1>7, <1>3 DEF ScanEnds, Capped
  <2>2. Len(all) >= Len(held[c.leg])
    BY <1>5, <1>7, <2>1
  <2>3. Len(c.began[c.leg]) <= Len(held[c.leg])
    BY <1>2, <1>3 DEF Kept, Grown, GrewInto
  <2>4. Len(all) >= Len(c.began[c.leg])
    BY <1>3, <1>7, <2>2, <2>3
  <2>5. \A i \in DOMAIN c.began[c.leg] : all[i] = c.began[c.leg][i]
    BY <1>3, <1>7, <1>8, <2>4 DEF Agrees
  <2> QED
    BY <1>3, <1>7, <2>4, <2>5, MatchesLast
<1> DEFINE shown == [c.shown EXCEPT ![c.leg] = FilterByQuery(all, c.req.size)]
           omitted == c.omitted \cup (IF Capped(page, all) THEN {c.leg} ELSE {})
<1>11. /\ shown \in [Collections -> SUBSET Nat]
       /\ omitted \in SUBSET (Collections \cup {"self"})
       /\ read = [c EXCEPT !.shown = shown, !.omitted = omitted, !.all = <<>>]
  <2>1. FilterByQuery(all, c.req.size) \subseteq Nat
    BY <1>7 DEF FilterByQuery
  <2> QED
    BY <1>2, <1>3, <2>1 DEF Call
<1>12. ScanEnds(page, all) /\ ~c.shrunk =>
         \A leg \in (Done(c) \cup {c.leg}) \ omitted :
           FilterByQuery(c.began[leg], c.req.size) \subseteq shown[leg]
  <2> SUFFICES ASSUME ScanEnds(page, all), ~c.shrunk,
                      NEW leg \in (Done(c) \cup {c.leg}) \ omitted
               PROVE  FilterByQuery(c.began[leg], c.req.size) \subseteq shown[leg]
    OBVIOUS
  <2>1. CASE leg = c.leg
    <3>1. ~Capped(page, all) /\ shown[leg] = FilterByQuery(all, c.req.size)
      BY <1>3, <2>1
    <3> QED
      BY <1>10, <2>1, <3>1
  <2>2. CASE leg # c.leg
    <3>1. leg \in Done(c) \ c.omitted /\ shown[leg] = c.shown[leg]
      BY <1>3, <2>2
    <3> QED
      BY <1>2, <3>1 DEF Kept, Scanned
  <2> QED
    BY <2>1, <2>2
<1> HIDE DEF shown, omitted
<1>13. CASE ScanEnds(page, all) /\ c.leg = "clients" /\ Become(k, [read EXCEPT !.leg = "devices"])
  <2>1. PICK record : record = [read EXCEPT !.leg = "devices"]
    OBVIOUS
  <2>2. /\ record = [c EXCEPT !.shown = shown, !.omitted = omitted, !.all = <<>>,
                              !.leg = "devices"]
        /\ Become(k, record)
    BY <1>2, <1>11, <1>13, <2>1 DEF Call
  <2>3. /\ record \in Call /\ record.all = <<>> /\ record.shown = shown
        /\ record.omitted = omitted /\ record.pc = "scan" /\ record.leg = "devices"
        /\ record.req = c.req /\ record.client = c.client /\ record.uuid = c.uuid
        /\ record.version = c.version /\ record.began = c.began
        /\ record.shrunk = c.shrunk
    <3>1. c \in Call /\ c.pc = "scan"
      BY <1>1, <1>2, <1>13
    <3>2. record = [c EXCEPT !.shown = shown, !.omitted = omitted, !.all = <<>>,
                             !.leg = "devices"]
      BY <2>2
    <3> HIDE DEF c
    <3>3. /\ record.all = <<>> /\ record.shown = shown
          /\ record.omitted = omitted /\ record.pc = "scan" /\ record.leg = "devices"
          /\ record.req = c.req /\ record.client = c.client /\ record.uuid = c.uuid
          /\ record.version = c.version /\ record.began = c.began
          /\ record.shrunk = c.shrunk
      BY <3>1, <3>2 DEF Call
    <3>4. record \in Call
      <4>1. /\ shown \in [Collections -> SUBSET Nat]
            /\ omitted \in SUBSET (Collections \cup {"self"})
        BY <1>11
      <4>2. <<>> \in Seq(BOOLEAN) /\ "devices" \in Supported
        BY DEF Supported
      <4> QED
        BY <3>1, <3>2, <4>1, <4>2 DEF Call
    <3> QED
      BY <3>3, <3>4
  <2>4. Fresh(record) /\ Grown(record) /\ Windowed(record) /\ Gathered(record)
    BY <1>2, <2>3 DEF Kept, Fresh, Grown, Windowed, Gathered
  <2>5. Done(record) \subseteq Done(c) \cup {c.leg}
    BY <1>1, <1>13, <2>3 DEF Done, Supported
  <2>6. ~record.shrunk => Agrees(record.all, record.began[record.leg])
    <3>1. c.began["devices"] \in Seq(BOOLEAN)
      <4>1. "devices" \in Collections
        BY DEF Collections, Supported
      <4>2. c.began["devices"] \in Holdings
        BY <1>3, <4>1
      <4> QED
        BY <4>2, ReadAssumption
    <3>2. \A i \in DOMAIN c.began["devices"] : ~(i <= Len(<<>>))
      BY <3>1
    <3> QED
      BY <2>3, <3>2 DEF Agrees
  <2>7. Scanned(record)
    <3>1. ~record.shrunk => \A leg \in Done(record) \ record.omitted :
            FilterByQuery(record.began[leg], record.req.size) \subseteq record.shown[leg]
      BY <1>12, <1>13, <2>3, <2>5
    <3>2. record.pc \notin {"site", "resolving", "fill"}
      BY <2>3
    <3> QED
      BY <2>6, <3>1, <3>2 DEF Scanned
  <2>8. Kept(record)
    BY <1>2, <2>3, <2>4, <2>7 DEF Kept, Route
  <2>9. Len(record.all) < Cap
    BY <1>4, <2>3, ReadAssumption
  <2> QED
    BY <2>2, <2>3, <2>8, <2>9, BecomeKept
<1>14. CASE ScanEnds(page, all) /\ c.leg = "devices" /\ Become(k, [read EXCEPT !.pc = "self"])
  <2>1. PICK record : record = [read EXCEPT !.pc = "self"]
    OBVIOUS
  <2>2. /\ record = [c EXCEPT !.shown = shown, !.omitted = omitted, !.all = <<>>,
                              !.pc = "self"]
        /\ Become(k, record)
    BY <1>2, <1>11, <1>14, <2>1 DEF Call
  <2>3. /\ record \in Call /\ record.all = <<>> /\ record.shown = shown
        /\ record.omitted = omitted /\ record.pc = "self" /\ record.leg = "devices"
        /\ record.req = c.req /\ record.client = c.client /\ record.uuid = c.uuid
        /\ record.version = c.version /\ record.began = c.began
        /\ record.shrunk = c.shrunk
    <3>1. c \in Call /\ c.pc = "scan" /\ c.leg = "devices"
      BY <1>1, <1>2, <1>14
    <3>2. record = [c EXCEPT !.shown = shown, !.omitted = omitted, !.all = <<>>,
                             !.pc = "self"]
      BY <2>2
    <3> HIDE DEF c
    <3>3. /\ record.all = <<>> /\ record.shown = shown
          /\ record.omitted = omitted /\ record.pc = "self" /\ record.leg = "devices"
          /\ record.req = c.req /\ record.client = c.client /\ record.uuid = c.uuid
          /\ record.version = c.version /\ record.began = c.began
          /\ record.shrunk = c.shrunk
      BY <3>1, <3>2 DEF Call
    <3>4. record \in Call
      <4>1. /\ shown \in [Collections -> SUBSET Nat]
            /\ omitted \in SUBSET (Collections \cup {"self"})
        BY <1>11
      <4>2. <<>> \in Seq(BOOLEAN) /\ "devices" \in Supported
        BY DEF Supported
      <4> QED
        BY <3>1, <3>2, <4>1, <4>2 DEF Call
    <3> QED
      BY <3>3, <3>4
  <2>4. Fresh(record) /\ Grown(record) /\ Windowed(record) /\ Gathered(record)
    BY <1>2, <2>3 DEF Kept, Fresh, Grown, Windowed, Gathered
  <2>5. Done(record) \subseteq Done(c) \cup {c.leg}
    BY <1>1, <1>14, <2>3 DEF Done, Supported
  <2>6. ~record.shrunk => Agrees(record.all, record.began[record.leg])
    <3>1. c.began["devices"] \in Seq(BOOLEAN)
      <4>1. "devices" \in Collections
        BY DEF Collections, Supported
      <4>2. c.began["devices"] \in Holdings
        BY <1>3, <4>1
      <4> QED
        BY <4>2, ReadAssumption
    <3>2. \A i \in DOMAIN c.began["devices"] : ~(i <= Len(<<>>))
      BY <3>1
    <3> QED
      BY <2>3, <3>2 DEF Agrees
  <2>7. Scanned(record)
    <3>1. ~record.shrunk => \A leg \in Done(record) \ record.omitted :
            FilterByQuery(record.began[leg], record.req.size) \subseteq record.shown[leg]
      BY <1>12, <1>14, <2>3, <2>5
    <3>2. record.pc \notin {"site", "resolving", "fill"}
      BY <2>3
    <3> QED
      BY <2>6, <3>1, <3>2 DEF Scanned
  <2>8. Kept(record)
    BY <1>2, <2>3, <2>4, <2>7 DEF Kept, Route
  <2>9. Len(record.all) < Cap
    BY <1>4, <2>3, ReadAssumption
  <2> QED
    BY <2>2, <2>3, <2>8, <2>9, BecomeKept
<1> QED
  BY <1>6, <1>9, <1>13, <1>14 DEF Scan, page, all

LEMMA SearchSitesKept ==
    ASSUME TypeOK, ReadInv, NEW k \in Calls, SearchSites(k) PROVE TypeOK' /\ ReadInv'
<1> DEFINE c == call[k]
<1>1. c # None /\ c.pc = "self"
  BY DEF SearchSites, At
<1>2. c \in Call /\ Kept(c) /\ c.req.op = "search" /\ Len(c.all) < Cap
  <2>1. c \in Call /\ Kept(c) /\ c.pc \in Route(c.req.op)
    BY <1>1, Placed
  <2>2. Len(c.all) < Cap
    BY <1>1 DEF TypeOK
  <2> QED
    BY <1>1, <2>1, <2>2 DEF Route
<1>3. /\ "answered" \in Route(c.req.op) /\ "version" \in Route(c.req.op)
      /\ Passage(c, "answered") /\ Passage(c, "version")
  BY <1>1, <1>2 DEF Route, Passage, Naming, Resolving
<1>4. CASE Become(k, [c EXCEPT !.omitted = @ \cup {"self"}, !.pc = "answered"])
  <2>1. PICK record : record = [c EXCEPT !.omitted = @ \cup {"self"}, !.pc = "answered"]
    OBVIOUS
  <2>2. record \in Call
    BY <1>2, <2>1 DEF Call
  <2>3. /\ record.req = c.req /\ record.pc = "answered" /\ record.client = c.client
        /\ record.uuid = c.uuid /\ record.version = c.version /\ record.leg = c.leg
        /\ record.all = c.all /\ record.shown = c.shown /\ record.began = c.began
        /\ record.omitted = c.omitted \cup {"self"} /\ record.shrunk = c.shrunk
    BY <1>2, <2>1 DEF Call
  <2>4. Fresh(record) /\ Grown(record) /\ Windowed(record) /\ Gathered(record)
    BY <1>2, <2>3 DEF Kept, Fresh, Grown, Windowed, Gathered
  <2>5. Done(record) = Done(c)
    BY <1>1, <2>3 DEF Done
  <2>6. Scanned(record)
    BY <1>2, <2>3, <2>5 DEF Kept, Scanned
  <2>7. Kept(record) /\ Len(record.all) < Cap
    BY <1>2, <1>3, <2>3, <2>4, <2>6 DEF Kept
  <2> HIDE DEF c
  <2> QED
    BY <1>4, <2>1, <2>2, <2>7, BecomeKept
<1>5. CASE Become(k, [c EXCEPT !.pc = "answered"])
  BY <1>1, <1>3, <1>5, GoOn
<1>6. CASE Become(k, [c EXCEPT !.pc = "version"])
  BY <1>1, <1>3, <1>6, GoOn
<1> QED
  BY <1>4, <1>5, <1>6 DEF SearchSites

-----------------------------------------------------------------------------
(* The invariant: lists                                                     *)

LEMMA FetchKept ==
    ASSUME TypeOK, ReadInv, NEW k \in Calls, Fetch(k) PROVE TypeOK' /\ ReadInv'
<1> DEFINE c == call[k]
           of == c.req.of
           places == CASE c.req.op = "list" -> ApplyPage(c.req, held[of])
                       [] c.req.op = "get" -> {c.req.from} [] OTHER -> {}
<1>1. c # None /\ c.pc = "fetch"
  BY DEF Fetch, At
<1>2. /\ c \in Call /\ Kept(c) /\ Len(c.all) < Cap /\ c.req \in Request
      /\ c.pc \in Route(c.req.op)
  BY <1>1, Placed DEF TypeOK, Call
<1>3. c.req.op \in {"list", "get", "sites"}
  BY <1>1, <1>2 DEF Route, Request
<1>4. of \in Collections /\ c.req.from \in Nat /\ held[of] \in Seq(BOOLEAN)
  BY <1>2, HeldTyped DEF Request
<1>5. CASE Fails(k)
  BY <1>1, <1>5, FailsKept
<1>6. CASE Private(c.req) /\ Become(k, [c EXCEPT !.pc = "version"])
  <2>1. c.req.op # "sites"
    BY <1>6 DEF Private
  <2>2. "version" \in Route(c.req.op) /\ Passage(c, "version")
    BY <1>1, <2>1 DEF Route, Passage, Naming, Resolving
  <2> QED
    BY <1>1, <1>6, <2>2, GoOn
<1>7. places \in SUBSET Nat /\ (c.req.op = "list" => places = Window(c.req) \cap DOMAIN held[of])
  <2>1. CASE c.req.op = "list"
    <3>1. places = Window(c.req) \cap DOMAIN held[of]
      BY <2>1 DEF ApplyPage
    <3> HIDE DEF places
    <3> QED
      BY <1>4, <3>1
  <2>2. CASE c.req.op = "get"
    <3>1. places = {c.req.from}
      BY <2>2
    <3> HIDE DEF places
    <3> QED
      BY <1>4, <2>2, <3>1
  <2>3. CASE c.req.op = "sites"
    <3>1. places = {}
      BY <2>3
    <3> HIDE DEF places
    <3> QED
      BY <2>3, <3>1
  <2> QED
    BY <1>3, <2>1, <2>2, <2>3
<1> HIDE DEF places
<1>8. CASE Become(k, [c EXCEPT !.pc = "answered", !.shown[of] = places])
  <2>1. PICK record :
          record = [c EXCEPT !.pc = "answered", !.shown = [c.shown EXCEPT ![of] = places]]
    OBVIOUS
  <2>2. Become(k, record)
    BY <1>8, <2>1
  <2>3. [c.shown EXCEPT ![of] = places] \in [Collections -> SUBSET Nat]
    BY <1>2, <1>7 DEF Call
  <2>4. /\ record.req = c.req /\ record.pc = "answered" /\ record.client = c.client
        /\ record.uuid = c.uuid /\ record.version = c.version /\ record.all = c.all
        /\ record.shown = [c.shown EXCEPT ![of] = places] /\ record.began = c.began
        /\ record.shrunk = c.shrunk
    BY <1>2, <2>1 DEF Call
  <2>5. record \in Call
    BY <1>2, <2>1, <2>3 DEF Call
  <2>6. Fresh(record) /\ Grown(record)
    BY <1>2, <2>4 DEF Kept, Fresh, Grown
  <2>7. Scanned(record) /\ Gathered(record)
    BY <1>3, <2>4 DEF Scanned, Gathered
  <2>8. Windowed(record)
    <3> SUFFICES ASSUME c.req.op = "list" PROVE Windowed(record)
      BY <2>4 DEF Windowed
    <3>1. record.shown[of] = Window(c.req) \cap DOMAIN held[of]
      BY <1>2, <1>4, <1>7, <2>4 DEF Call
    <3>2. ~c.shrunk => DOMAIN c.began[of] \subseteq DOMAIN held[of]
      <4>1. ~c.shrunk => Len(c.began[of]) <= Len(held[of])
        BY <1>2, <1>4 DEF Kept, Grown, GrewInto
      <4>2. c.began[of] \in Seq(BOOLEAN)
        BY <1>2, <1>4, ReadAssumption DEF Call
      <4> QED
        BY <1>4, <4>1, <4>2
    <3> QED
      BY <2>4, <3>1, <3>2 DEF Windowed
  <2>9. Kept(record) /\ Len(record.all) < Cap
    BY <1>2, <2>4, <2>6, <2>7, <2>8 DEF Kept, Route
  <2> QED
    BY <2>2, <2>5, <2>9, BecomeKept
<1> QED
  BY <1>5, <1>6, <1>8 DEF Fetch, places

-----------------------------------------------------------------------------
(* The invariant: reports                                                   *)

\* A call of a report, and the firewall it reads.
LEMMA Reporting ==
    ASSUME TypeOK, ReadInv, NEW k \in Calls, call[k] # None,
           call[k].pc \in {"stations", "uplinks", "policies", "zones"}
    PROVE  /\ call[k] \in Call /\ Kept(call[k]) /\ call[k].req.op = "troubleshoot"
           /\ Len(call[k].all) < Cap /\ call[k].seen \in Firewall /\ firewall \in Firewall
           /\ "version" \in Route(call[k].req.op) /\ Passage(call[k], "version")
<1>1. call[k] \in Call /\ Kept(call[k]) /\ call[k].pc \in Route(call[k].req.op)
  BY Placed
<1>2. call[k].req.op = "troubleshoot"
  BY <1>1 DEF Route
<1>3. "version" \in Route(call[k].req.op) /\ Passage(call[k], "version")
  BY <1>2 DEF Route, Passage, Naming, Resolving
<1>4. firewall \in Firewall
  BY ReadAssumption DEF TypeOK
<1> QED
  BY <1>1, <1>2, <1>3, <1>4 DEF TypeOK, Call

\* A report with more gathered is a good call if what it gathered is good.
LEMMA GatherKept ==
    ASSUME TypeOK, ReadInv, NEW k \in Calls, call[k] # None,
           call[k].pc \in {"stations", "policies", "zones"},
           NEW at \in {"uplinks", "zones", "answered", "failed"},
           NEW seen \in Firewall, NEW applied \in SUBSET Policy,
           NEW omitted \in {call[k].omitted, {}},
           seen.known => Opted(call[k]),
           at \in {"uplinks", "zones"} /\ seen.known /\ ~call[k].moved =>
             seen.network = firewall.network,
           at = "zones" /\ seen.known /\ ~call[k].moved => seen.policies = firewall.policies,
           at = "answered" /\ ~call[k].moved => applied = Applies,
           Become(k, [call[k] EXCEPT !.pc = at, !.seen = seen, !.applied = applied,
                                     !.omitted = omitted])
    PROVE  TypeOK' /\ ReadInv'
<1> DEFINE c == call[k]
<1>1. c \in Call /\ Kept(c) /\ c.req.op = "troubleshoot" /\ Len(c.all) < Cap
  BY Reporting
<1>2. PICK record :
        record = [c EXCEPT !.pc = at, !.seen = seen, !.applied = applied,
                           !.omitted = omitted]
  OBVIOUS
<1>3. Become(k, record)
  BY <1>2
<1>4. /\ record.req = c.req /\ record.pc = at /\ record.client = c.client
      /\ record.uuid = c.uuid /\ record.version = c.version /\ record.all = c.all
      /\ record.seen = seen /\ record.applied = applied /\ record.began = c.began
      /\ record.shrunk = c.shrunk /\ record.moved = c.moved
  BY <1>1, <1>2 DEF Call
<1>5. omitted \in SUBSET (Collections \cup {"self"})
  BY <1>1 DEF Call
<1>6. record \in Call
  BY <1>1, <1>2, <1>5 DEF Call
<1>7. Fresh(record) /\ Grown(record) /\ Scanned(record) /\ Windowed(record)
  BY <1>1, <1>4 DEF Kept, Fresh, Grown, Scanned, Windowed
<1>8. Opted(record) = Opted(c)
  BY <1>4 DEF Opted
<1>9. Gathered(record)
  BY <1>4, <1>8 DEF Gathered
<1>10. at \in Route("troubleshoot")
  BY DEF Route
<1>11. Kept(record) /\ Len(record.all) < Cap
  BY <1>1, <1>4, <1>7, <1>9, <1>10 DEF Kept
<1> QED
  BY <1>3, <1>6, <1>11, BecomeKept

LEMMA StationsKept ==
    ASSUME TypeOK, ReadInv, NEW k \in Calls, Stations(k) PROVE TypeOK' /\ ReadInv'
<1> DEFINE c == call[k]
           next == [c EXCEPT !.pc = "uplinks"]
<1>1. c # None /\ c.pc = "stations"
  BY DEF Stations, Leg, At
<1>2. CASE Become(k, next)
  <2>1. "uplinks" \in Route(c.req.op) /\ Passage(c, "uplinks")
    BY <1>1, Placed DEF Route, Passage
  <2> QED
    BY <1>1, <1>2, <2>1, GoOn
<1>3. CASE Become(k, [c EXCEPT !.pc = "version"])
  BY <1>1, <1>3, Reporting, GoOn
<1>4. CASE /\ Opted(c)
           /\ Become(k, [next EXCEPT !.seen.known = firewall.known,
                                     !.seen.network = firewall.network])
  <2>1. PICK seen : seen = [c.seen EXCEPT !.known = firewall.known,
                                          !.network = firewall.network]
    OBVIOUS
  <2>2. /\ c \in Call /\ c.seen \in Firewall /\ firewall \in Firewall
        /\ c.applied \in SUBSET Policy
    BY <1>1, Reporting DEF Call
  <2>3. seen \in Firewall /\ seen.network = firewall.network
    BY <2>1, <2>2 DEF Firewall
  <2>4. [next EXCEPT !.seen.known = firewall.known, !.seen.network = firewall.network] =
          [c EXCEPT !.pc = "uplinks", !.seen = seen, !.applied = c.applied,
                    !.omitted = c.omitted]
    BY <2>1, <2>2 DEF Call, Firewall
  <2>5. PICK applied, omitted : applied = c.applied /\ omitted = c.omitted
    OBVIOUS
  <2>6. Become(k, [c EXCEPT !.pc = "uplinks", !.seen = seen, !.applied = applied,
                            !.omitted = omitted])
    BY <1>4, <2>4, <2>5
  <2> QED
    BY <1>1, <1>4, <2>2, <2>3, <2>5, <2>6, GatherKept
<1> QED
  BY <1>2, <1>3, <1>4 DEF Stations, Leg

LEMMA PoliciesKept ==
    ASSUME TypeOK, ReadInv, NEW k \in Calls, Policies(k) PROVE TypeOK' /\ ReadInv'
<1> DEFINE c == call[k]
           next == [c EXCEPT !.pc = "zones"]
<1>1. c # None /\ c.pc = "policies"
  BY DEF Policies, Leg, At
<1>2. CASE ~Opted(c) /\ Become(k, next)
  <2>1. "zones" \in Route(c.req.op) /\ Passage(c, "zones")
    BY <1>1, <1>2, Placed DEF Route, Passage
  <2> QED
    BY <1>1, <1>2, <2>1, GoOn
<1>3. CASE Become(k, [c EXCEPT !.pc = "version"])
  BY <1>1, <1>3, Reporting, GoOn
<1>4. CASE Opted(c) /\ Become(k, [next EXCEPT !.seen.policies = firewall.policies])
  <2>1. PICK seen : seen = [c.seen EXCEPT !.policies = firewall.policies]
    OBVIOUS
  <2>2. /\ c \in Call /\ c.seen \in Firewall /\ firewall \in Firewall
        /\ c.applied \in SUBSET Policy /\ Gathered(c) /\ c.req.op = "troubleshoot"
    BY <1>1, Reporting DEF Call, Kept
  <2>3. /\ seen \in Firewall /\ seen.policies = firewall.policies
        /\ seen.network = c.seen.network /\ seen.known = c.seen.known
    BY <2>1, <2>2 DEF Firewall
  <2>4. seen.known /\ ~c.moved => seen.network = firewall.network
    BY <1>1, <2>2, <2>3 DEF Gathered
  <2>5. [next EXCEPT !.seen.policies = firewall.policies] =
          [c EXCEPT !.pc = "zones", !.seen = seen, !.applied = c.applied,
                    !.omitted = c.omitted]
    BY <2>1, <2>2 DEF Call, Firewall
  <2>6. PICK applied, omitted : applied = c.applied /\ omitted = c.omitted
    OBVIOUS
  <2>7. Become(k, [c EXCEPT !.pc = "zones", !.seen = seen, !.applied = applied,
                            !.omitted = omitted])
    BY <1>4, <2>5, <2>6
  <2> QED
    BY <1>1, <1>4, <2>2, <2>3, <2>4, <2>6, <2>7, GatherKept
<1> QED
  BY <1>2, <1>3, <1>4 DEF Policies, Leg

\* The join of a report is what applies.
LEMMA CorrelatedIsApplies ==
    ASSUME NEW seen, seen.network = firewall.network, seen.policies = firewall.policies,
           seen.zones = firewall.zones, firewall \in Firewall
    PROVE  Correlated(seen) = Applies
<1> SUFFICES ASSUME NEW p \in firewall.policies
             PROVE  (\E z \in {p.source, p.destination} : firewall.network \in firewall.zones[z])
                    <=> (\E z \in Zones : firewall.network \in firewall.zones[z]
                                          /\ z \in {p.source, p.destination})
  BY DEF Correlated, Applies
<1>1. p.source \in Zones /\ p.destination \in Zones
  BY DEF Firewall, Policy
<1> QED
  BY <1>1

\* What a report becomes of what it has gathered.
LEMMA ReportKept ==
    ASSUME TypeOK, ReadInv, NEW k \in Calls, call[k] # None, call[k].pc = "zones",
           NEW seen \in Firewall, seen.known => Opted(call[k]),
           seen.known /\ ~call[k].moved => Correlated(seen) = Applies,
           Become(k, Report([call[k] EXCEPT !.seen = seen]))
    PROVE  TypeOK' /\ ReadInv'
<1> DEFINE c == call[k]
<1>1. c \in Call /\ c.applied \in SUBSET Policy
  BY Reporting DEF Call
<1>2. PICK d : d = [c EXCEPT !.seen = seen]
  OBVIOUS
<1>3. /\ d.seen = seen /\ Become(k, Report(d))
  BY <1>1, <1>2 DEF Call
<1>4. CASE ~seen.known
  <2>1. Report(d) = [d EXCEPT !.pc = "failed"]
    BY <1>3, <1>4 DEF Report
  <2>2. [d EXCEPT !.pc = "failed"] =
          [c EXCEPT !.pc = "failed", !.seen = seen, !.applied = c.applied,
                    !.omitted = c.omitted]
    BY <1>1, <1>2 DEF Call
  <2>3. PICK applied, omitted : applied = c.applied /\ omitted = c.omitted
    OBVIOUS
  <2>4. Become(k, [c EXCEPT !.pc = "failed", !.seen = seen, !.applied = applied,
                            !.omitted = omitted])
    BY <1>3, <2>1, <2>2, <2>3
  <2> QED
    BY <1>1, <2>3, <2>4, GatherKept
<1>5. CASE seen.known
  <2>1. Report(d) = [d EXCEPT !.pc = "answered", !.applied = Correlated(seen),
                              !.omitted = {}]
    BY <1>3, <1>5 DEF Report
  <2>2. PICK applied, omitted : applied = Correlated(seen) /\ omitted = {}
    OBVIOUS
  <2>3. [d EXCEPT !.pc = "answered", !.applied = applied, !.omitted = omitted] =
          [c EXCEPT !.pc = "answered", !.seen = seen, !.applied = applied,
                    !.omitted = omitted]
    BY <1>1, <1>2 DEF Call
  <2>4. Become(k, [c EXCEPT !.pc = "answered", !.seen = seen, !.applied = applied,
                            !.omitted = omitted])
    BY <1>3, <2>1, <2>2, <2>3
  <2>5. applied \in SUBSET Policy
    BY <2>2 DEF Correlated, Firewall
  <2>6. ~c.moved => applied = Applies
    BY <1>5, <2>2
  <2> QED
    BY <2>2, <2>4, <2>5, <2>6, GatherKept
<1> QED
  BY <1>4, <1>5

LEMMA ZonesAndReportKept ==
    ASSUME TypeOK, ReadInv, NEW k \in Calls, ZonesAndReport(k) PROVE TypeOK' /\ ReadInv'
<1> DEFINE c == call[k]
<1>1. c # None /\ c.pc = "zones"
  BY DEF ZonesAndReport, Leg, At
<1>2. /\ c \in Call /\ c.seen \in Firewall /\ firewall \in Firewall
      /\ Gathered(c) /\ c.req.op = "troubleshoot"
  BY <1>1, Reporting DEF Kept
<1>3. CASE ~Opted(c) /\ Become(k, Report(c))
  <2>1. PICK seen : seen = c.seen
    OBVIOUS
  <2>2. ~seen.known
    BY <1>2, <1>3, <2>1 DEF Gathered
  <2>3. c = [c EXCEPT !.seen = seen]
    BY <1>2, <2>1 DEF Call
  <2>4. Become(k, Report([c EXCEPT !.seen = seen]))
    BY <1>3, <2>3
  <2> QED
    BY <1>1, <1>2, <2>1, <2>2, <2>4, ReportKept
<1>4. CASE Become(k, [c EXCEPT !.pc = "version"])
  BY <1>1, <1>4, Reporting, GoOn
<1>5. CASE Opted(c) /\ Become(k, Report([c EXCEPT !.seen.zones = firewall.zones]))
  <2>1. PICK seen : seen = [c.seen EXCEPT !.zones = firewall.zones]
    OBVIOUS
  <2>2. /\ seen \in Firewall /\ seen.zones = firewall.zones
        /\ seen.network = c.seen.network /\ seen.policies = c.seen.policies
        /\ seen.known = c.seen.known
    BY <1>2, <2>1 DEF Firewall
  <2>3. seen.known /\ ~c.moved => Correlated(seen) = Applies
    <3> SUFFICES ASSUME seen.known, ~c.moved PROVE Correlated(seen) = Applies
      OBVIOUS
    <3>1. seen.network = firewall.network /\ seen.policies = firewall.policies
      BY <1>1, <1>2, <2>2 DEF Gathered
    <3> QED
      BY <1>2, <2>2, <3>1, CorrelatedIsApplies
  <2>4. Become(k, Report([c EXCEPT !.seen = seen]))
    BY <1>5, <2>1
  <2> QED
    BY <1>1, <1>5, <2>2, <2>3, <2>4, ReportKept
<1> QED
  BY <1>3, <1>4, <1>5 DEF ZonesAndReport, Leg

-----------------------------------------------------------------------------
(* The theorems                                                             *)

LEMMA InitKept == Init => TypeOK /\ ReadInv
<1> SUFFICES ASSUME Init PROVE TypeOK /\ ReadInv
  OBVIOUS
<1>1. site \in [uuid : Nat, version : Nat, routes : BOOLEAN] /\ site.uuid = 0 /\ site.version = 0
  BY DEF Init
<1>2. PICK w \in Worlds : held = w.held /\ firewall = w.firewall
  BY DEF Init
<1>3. held \in [Collections -> Holdings] /\ firewall \in Firewalls
  BY <1>2, ReadAssumption
<1>4. PICK private \in BOOLEAN :
        clients = << [uuid |-> None, version |-> None, private |-> private,
                      bornUuid |-> 0, bornVersion |-> 0] >>
  BY DEF Init
<1>5. [uuid |-> None, version |-> None, private |-> private,
       bornUuid |-> 0, bornVersion |-> 0] \in Client
  BY DEF Client
<1>6. clients \in Seq(Client) /\ clients # <<>>
  BY <1>4, <1>5
<1>7. Built
  BY <1>1, <1>4 DEF Built
<1>8. call \in [Calls -> Call \cup {None}] /\ \A k \in Calls : call[k] = None
  BY DEF Init
<1>9. changes \in 0 .. MaxChanges
  BY ReadAssumption DEF Init
<1> QED
  BY <1>1, <1>3, <1>6, <1>7, <1>8, <1>9 DEF TypeOK, ReadInv

LEMMA NextKept == TypeOK /\ ReadInv /\ [Next]_vars => TypeOK' /\ ReadInv'
<1> SUFFICES ASSUME TypeOK, ReadInv, [Next]_vars PROVE TypeOK' /\ ReadInv'
  OBVIOUS
<1>1. CASE Change
  BY <1>1, ChangeKept
<1>2. CASE Rebuild
  BY <1>2, RebuildKept
<1>3. ASSUME NEW k \in Calls, Proceed(k) PROVE TypeOK' /\ ReadInv'
  BY <1>3, LookUpSiteKept, ResolveSiteKept, FillSiteKept, LookUpVersionKept,
     AskVersionKept, RememberVersionKept, ScanKept, SearchSitesKept, FetchKept,
     StationsKept, UplinksKept, PoliciesKept, ZonesAndReportKept DEF Proceed
<1>4. ASSUME NEW k \in Calls, Break(k) PROVE TypeOK' /\ ReadInv'
  BY <1>4, BreakKept
<1>5. ASSUME NEW k \in Calls, NEW req \in Requests[k], Handle(k, req)
      PROVE  TypeOK' /\ ReadInv'
  BY <1>5, HandleKept
<1>6. CASE UNCHANGED vars
  BY <1>6 DEF vars, TypeOK, ReadInv, Built, Kept, Route, Fresh, Grown, Scanned, Windowed,
              Gathered, Opted, Done, Agrees, Applies
<1> QED
  BY <1>1, <1>2, <1>3, <1>4, <1>5, <1>6 DEF Next

\* Clients, calls and the controller keep their types, and no scan has gathered as
\* many members as the cap allows without ending.
THEOREM ReadTyped == Spec => []TypeOK
<1>1. Init => TypeOK /\ ReadInv
  BY InitKept
<1>2. TypeOK /\ ReadInv /\ [Next]_vars => (TypeOK /\ ReadInv)'
  BY NextKept
<1> QED
  BY <1>1, <1>2, PTL DEF Spec

LEMMA ReadInvHolds == Spec => [](TypeOK /\ ReadInv)
<1>1. Init => TypeOK /\ ReadInv
  BY InitKept
<1>2. TypeOK /\ ReadInv /\ [Next]_vars => (TypeOK /\ ReadInv)'
  BY NextKept
<1> QED
  BY <1>1, <1>2, PTL DEF Spec

\* However calls, changes and reloads interleave, what a call uses or names of a
\* controller was true of it at some time since its client was built.
THEOREM FreshHolds == Spec => []NothingOlderThanReload
<1>1. TypeOK /\ ReadInv => NothingOlderThanReload
  BY DEF ReadInv, Built, Kept, Fresh, NothingOlderThanReload
<1> QED
  BY <1>1, ReadInvHolds, PTL

\* A search that marks no leg as cut has seen every match of collections of any
\* length, for any page size and any cap.
THEOREM SearchHolds == Spec => []SearchSeesAll
<1>1. TypeOK /\ ReadInv => SearchSeesAll
  <2> SUFFICES ASSUME TypeOK, ReadInv, NEW k \in Calls, At(k, "answered"),
                      call[k].req.op = "search", NEW leg \in Supported \ call[k].omitted,
                      ~call[k].shrunk
               PROVE  FilterByQuery(call[k].began[leg], call[k].req.size)
                        \subseteq call[k].shown[leg]
    BY DEF SearchSeesAll
  <2>1. Kept(call[k]) /\ Done(call[k]) = Supported
    BY DEF ReadInv, At, Done
  <2> QED
    BY <2>1 DEF Kept, Scanned
<1> QED
  BY <1>1, ReadInvHolds, PTL

\* A list answers the window its caller named, of a collection of any length.
THEOREM WindowHolds == Spec => []PageIsWindow
<1>1. TypeOK /\ ReadInv => PageIsWindow
  BY DEF ReadInv, Kept, Windowed, PageIsWindow, At
<1> QED
  BY <1>1, ReadInvHolds, PTL

\* A report whose requests saw one state lists exactly the policies that apply,
\* for any networks, zones and policies.
THEOREM CorrelationHolds == Spec => []CorrelationExact
<1>1. TypeOK /\ ReadInv => CorrelationExact
  BY DEF ReadInv, Kept, Gathered, CorrelationExact, At
<1> QED
  BY <1>1, ReadInvHolds, PTL

-----------------------------------------------------------------------------
(* Progress: every step of a call brings it nearer to its end               *)

LEMMA StepsAt ==
    ASSUME NEW c
    PROVE  /\ c.pc \in {"answered", "failed"} => StepsLeft(c) = 0
           /\ c.pc = "remember" => StepsLeft(c) = 1
           /\ c.pc = "asking" => StepsLeft(c) = 2
           /\ c.pc = "version" => StepsLeft(c) = 3
           /\ c.pc \in {"self", "fetch", "zones"} => StepsLeft(c) = 4
           /\ c.pc = "policies" => StepsLeft(c) = 5
           /\ c.pc = "uplinks" => StepsLeft(c) = 6
           /\ c.pc = "stations" => StepsLeft(c) = 7
           /\ c.pc = "scan" /\ c.leg = "clients" => StepsLeft(c) = (4 + 2 * Cap) - Len(c.all)
           /\ c.pc = "scan" /\ c.leg # "clients" => StepsLeft(c) = (4 + Cap) - Len(c.all)
           /\ c.pc = "fill" => StepsLeft(c) = 8 + 2 * Cap
           /\ c.pc = "resolving" => StepsLeft(c) = 9 + 2 * Cap
           /\ c.pc = "site" => StepsLeft(c) = 10 + 2 * Cap
<1>1. /\ c.pc \in {"answered", "failed"} => StepsLeft(c) = 0
      /\ c.pc = "remember" => StepsLeft(c) = 1
      /\ c.pc = "asking" => StepsLeft(c) = 2
      /\ c.pc = "version" => StepsLeft(c) = 3
      /\ c.pc \in {"self", "fetch", "zones"} => StepsLeft(c) = 4
  BY DEF StepsLeft
<1>2. /\ c.pc = "policies" => StepsLeft(c) = 5
      /\ c.pc = "uplinks" => StepsLeft(c) = 6
      /\ c.pc = "stations" => StepsLeft(c) = 7
  BY DEF StepsLeft
<1>3. c.pc = "scan" =>
        StepsLeft(c) = (IF c.leg = "clients" THEN 4 + 2 * Cap ELSE 4 + Cap) - Len(c.all)
  BY DEF StepsLeft
<1>4. /\ c.pc = "fill" => StepsLeft(c) = 8 + 2 * Cap
      /\ c.pc = "resolving" => StepsLeft(c) = 9 + 2 * Cap
      /\ c.pc = "site" => StepsLeft(c) = 10 + 2 * Cap
  BY DEF StepsLeft
<1>5. ASSUME c.pc = "scan", c.leg = "clients"
      PROVE  StepsLeft(c) = (4 + 2 * Cap) - Len(c.all)
  BY <1>3, <1>5
<1>6. ASSUME c.pc = "scan", c.leg # "clients"
      PROVE  StepsLeft(c) = (4 + Cap) - Len(c.all)
  BY <1>3, <1>6
<1> QED
  BY <1>1, <1>2, <1>4, <1>5, <1>6

\* A call that has not ended has a step left, one in a scan more than four.
LEMMA StepsBound ==
    ASSUME NEW c \in Call, Len(c.all) < Cap
    PROVE  /\ StepsLeft(c) \in Nat
           /\ c.pc \notin {"answered", "failed"} => StepsLeft(c) > 0
           /\ c.pc = "scan" => StepsLeft(c) > 4 /\ StepsLeft(c) <= 4 + 2 * Cap
<1>1. Cap \in Nat /\ Len(c.all) \in Nat /\ Len(c.all) < Cap
  BY ReadAssumption DEF Call
<1>2. c.pc \in {"site", "resolving", "fill", "scan", "self", "fetch", "version",
                "asking", "remember", "stations", "uplinks", "policies", "zones",
                "answered", "failed"}
  BY DEF Call
<1>3. CASE c.pc = "scan"
  <2>1. \/ StepsLeft(c) = (4 + 2 * Cap) - Len(c.all)
        \/ StepsLeft(c) = (4 + Cap) - Len(c.all)
    BY <1>3, StepsAt
  <2> DEFINE left == StepsLeft(c)
             read == Len(c.all)
  <2>2. /\ left = (4 + 2 * Cap) - read \/ left = (4 + Cap) - read
        /\ Cap \in Nat /\ read \in Nat /\ read < Cap
    BY <1>1, <2>1
  <2> HIDE DEF left, read
  <2>3. left \in Nat /\ left > 4 /\ left <= 4 + 2 * Cap
    <3>1. CASE left = (4 + 2 * Cap) - read
      BY <2>2, <3>1
    <3>2. CASE left = (4 + Cap) - read
      BY <2>2, <3>2
    <3> QED
      BY <2>2, <3>1, <3>2
  <2> QED
    BY <1>3, <2>3 DEF left
<1>4. CASE c.pc \in {"site", "resolving", "fill"}
  <2>1. \/ StepsLeft(c) = 8 + 2 * Cap
        \/ StepsLeft(c) = 9 + 2 * Cap
        \/ StepsLeft(c) = 10 + 2 * Cap
    <3>1. CASE c.pc = "site"
      BY <3>1, StepsAt
    <3>2. CASE c.pc = "resolving"
      BY <3>2, StepsAt
    <3>3. CASE c.pc = "fill"
      BY <3>3, StepsAt
    <3> QED
      BY <1>4, <3>1, <3>2, <3>3
  <2>2. StepsLeft(c) \in Nat /\ StepsLeft(c) > 0
    BY <1>1, <2>1
  <2> QED
    BY <1>4, <2>2
<1>5. CASE c.pc \notin {"site", "resolving", "fill", "scan"}
  <2>1. /\ StepsLeft(c) \in {0, 1, 2, 3, 4, 5, 6, 7}
        /\ c.pc \notin {"answered", "failed"} => StepsLeft(c) # 0
    <3>1. CASE c.pc \in {"answered", "failed"}
      BY <3>1, StepsAt
    <3>2. CASE c.pc \in {"remember", "asking", "version"}
      BY <3>2, StepsAt
    <3>3. CASE c.pc \in {"self", "fetch", "zones"}
      BY <3>3, StepsAt
    <3>4. CASE c.pc \in {"policies", "uplinks", "stations"}
      BY <3>4, StepsAt
    <3> QED
      BY <1>2, <1>5, <3>1, <3>2, <3>3, <3>4
  <2> QED
    BY <1>5, <2>1
<1> QED
  BY <1>2, <1>3, <1>4, <1>5

\* A step that leaves every other call alone, and this one fewer steps.
Nearer(k) ==
    /\ call[k] # None
    /\ \E record \in Call : /\ call' = [call EXCEPT ![k] = record]
                            /\ StepsLeft(record) < StepsLeft(call[k])

LEMMA BecomeNearer ==
    ASSUME NEW k \in Calls, call[k] # None, NEW record \in Call, Become(k, record),
           StepsLeft(record) < StepsLeft(call[k])
    PROVE  Nearer(k)
  BY DEF Become, Nearer

LEMMA FailsNearer ==
    ASSUME TypeOK, NEW k \in Calls, call[k] # None, Fails(k),
           call[k].pc \notin {"answered", "failed"}
    PROVE  Nearer(k)
<1>1. call[k] \in Call /\ Len(call[k].all) < Cap
  BY DEF TypeOK
<1>2. PICK record : record = [call[k] EXCEPT !.pc = "failed"]
  OBVIOUS
<1>3. record \in Call /\ record.pc = "failed"
  BY <1>1, <1>2 DEF Call
<1>4. StepsLeft(record) = 0 /\ StepsLeft(call[k]) \in Nat /\ StepsLeft(call[k]) > 0
  BY <1>1, <1>3, StepsAt, StepsBound
<1> QED
  BY <1>2, <1>3, <1>4, BecomeNearer DEF Fails

LEMMA SiteNearer ==
    ASSUME TypeOK, ReadInv, NEW k \in Calls, LookUpSite(k) \/ ResolveSite(k) \/ FillSite(k)
    PROVE  Nearer(k)
<1> DEFINE c == call[k]
<1>1. c # None /\ c.pc \in {"site", "resolving", "fill"}
  BY DEF LookUpSite, ResolveSite, FillSite, At
<1>2. c \in Call /\ Len(c.all) < Cap /\ Cap \in Nat
  BY <1>1, ReadAssumption DEF TypeOK
<1>3. AfterSite(c) \in {"scan", "stations", "fetch"}
  <2>1. CASE c.req.op = "search"
    BY <2>1 DEF AfterSite
  <2>2. CASE c.req.op = "troubleshoot"
    BY <2>2 DEF AfterSite
  <2>3. CASE c.req.op # "search" /\ c.req.op # "troubleshoot"
    BY <2>3 DEF AfterSite
  <2> QED
    BY <2>1, <2>2, <2>3
\* Wherever a site that is known leads, it is nearer than the fill.
<1>4. ASSUME NEW record \in Call, record.pc = AfterSite(c), record.all = c.all
      PROVE  StepsLeft(record) < StepsLeft(c)
  <2>1. StepsLeft(record) <= 7 + 2 * Cap
    <3>1. CASE record.pc = "scan"
      <4>1. StepsLeft(record) <= 4 + 2 * Cap /\ StepsLeft(record) \in Nat
        BY <1>2, <1>4, <3>1, StepsBound
      <4> QED
        BY <1>2, <4>1
    <3>2. CASE record.pc # "scan"
      <4>1. StepsLeft(record) = 7 \/ StepsLeft(record) = 4
        BY <1>3, <1>4, <3>2, StepsAt
      <4> QED
        BY <1>2, <4>1
    <3> QED
      BY <3>1, <3>2
  <2>2. StepsLeft(record) \in Nat
    BY <1>2, <1>4, StepsBound
  <2>3. \/ StepsLeft(c) = 8 + 2 * Cap
        \/ StepsLeft(c) = 9 + 2 * Cap
        \/ StepsLeft(c) = 10 + 2 * Cap
    BY <1>1, StepsAt
  <2> QED
    BY <1>2, <2>1, <2>2, <2>3
<1>5. CASE LookUpSite(k)
  <2> DEFINE cached == clients[c.client].uuid
  <2>1. c.pc = "site" /\ StepsLeft(c) = 10 + 2 * Cap
    BY <1>5, StepsAt DEF LookUpSite, At
  <2>2. CASE Become(k, [c EXCEPT !.pc = "resolving"])
    <3>1. PICK record : record = [c EXCEPT !.pc = "resolving"]
      OBVIOUS
    <3>2. record \in Call /\ record.pc = "resolving"
      BY <1>2, <3>1 DEF Call
    <3>3. StepsLeft(record) = 9 + 2 * Cap
      BY <3>2, StepsAt
    <3>4. StepsLeft(record) < StepsLeft(c)
      BY <1>2, <2>1, <3>3
    <3> QED
      BY <1>1, <2>2, <3>1, <3>2, <3>4, BecomeNearer
  <2>3. CASE cached # None /\ Become(k, [c EXCEPT !.uuid = cached, !.pc = AfterSite(c)])
    <3>1. PICK record : record = [c EXCEPT !.uuid = cached, !.pc = AfterSite(c)]
      OBVIOUS
    <3>2. cached \in Nat \cup {None}
      BY <1>1, Placed DEF Client
    <3> HIDE DEF cached
    <3>3. record \in Call /\ record.pc = AfterSite(c) /\ record.all = c.all
      BY <1>2, <1>3, <3>1, <3>2 DEF Call
    <3> QED
      BY <1>1, <1>4, <2>3, <3>1, <3>3, BecomeNearer
  <2> QED
    BY <1>5, <2>2, <2>3 DEF LookUpSite
<1>6. CASE ResolveSite(k)
  <2>1. Become(k, [c EXCEPT !.uuid = site.uuid, !.pc = "fill"])
        /\ StepsLeft(c) = 9 + 2 * Cap
    BY <1>6, StepsAt DEF ResolveSite, At
  <2>2. PICK record : record = [c EXCEPT !.uuid = site.uuid, !.pc = "fill"]
    OBVIOUS
  <2>3. site.uuid \in Nat
    BY DEF TypeOK
  <2>4. record \in Call /\ record.pc = "fill"
    BY <1>2, <2>2, <2>3 DEF Call
  <2>5. StepsLeft(record) = 8 + 2 * Cap
    BY <2>4, StepsAt
  <2>6. StepsLeft(record) < StepsLeft(c)
    BY <1>2, <2>1, <2>5
  <2> QED
    BY <1>1, <2>1, <2>2, <2>4, <2>6, BecomeNearer
<1>7. CASE FillSite(k)
  <2>1. call' = [call EXCEPT ![k].pc = AfterSite(c)]
    BY <1>7 DEF FillSite
  <2>2. PICK record : record = [c EXCEPT !.pc = AfterSite(c)]
    OBVIOUS
  <2>3. record \in Call /\ record.pc = AfterSite(c) /\ record.all = c.all
    BY <1>2, <1>3, <2>2 DEF Call
  <2>4. call' = [call EXCEPT ![k] = record]
    BY <2>1, <2>2
  <2>5. StepsLeft(record) < StepsLeft(c)
    BY <1>4, <2>3
  <2> QED
    BY <1>1, <2>3, <2>4, <2>5 DEF Nearer
<1> QED
  BY <1>5, <1>6, <1>7

LEMMA VersionNearer ==
    ASSUME TypeOK, ReadInv, NEW k \in Calls,
           LookUpVersion(k) \/ AskVersion(k) \/ RememberVersion(k)
    PROVE  Nearer(k)
<1> DEFINE c == call[k]
<1>1. c # None /\ c.pc \in Naming
  BY DEF LookUpVersion, AskVersion, RememberVersion, At, Naming
<1>2. c \in Call /\ Len(c.all) < Cap
  BY <1>1 DEF TypeOK
<1>3. StepsLeft(c) \in Nat /\ StepsLeft(c) > 0
  BY <1>1, <1>2, StepsBound DEF Naming
\* Whatever version a call names, it has come to its end.
<1>4. ASSUME NEW version \in Nat \cup {None}
      PROVE  Named(c, version) \in Call /\ StepsLeft(Named(c, version)) < StepsLeft(c)
  <2>1. PICK record : record = Named(c, version)
    OBVIOUS
  <2>2. record \in Call /\ record.pc \in {"answered", "failed"}
    BY <1>2, <2>1 DEF Named, Call
  <2>3. StepsLeft(record) = 0
    BY <2>2, StepsAt
  <2> QED
    BY <1>3, <2>1, <2>2, <2>3
<1>5. ASSUME NEW version \in Nat \cup {None}, Become(k, Named(c, version))
      PROVE  Nearer(k)
  BY <1>1, <1>4, <1>5, BecomeNearer
<1>6. clients[c.client].version \in Nat \cup {None}
  BY <1>1, Placed DEF Client
<1>7. CASE LookUpVersion(k)
  <2>1. c.pc = "version" /\ StepsLeft(c) = 3
    BY <1>7, StepsAt DEF LookUpVersion, At
  <2>2. CASE Become(k, [c EXCEPT !.pc = "asking"])
    <3>1. PICK record : record = [c EXCEPT !.pc = "asking"]
      OBVIOUS
    <3>2. record \in Call /\ record.pc = "asking"
      BY <1>2, <3>1 DEF Call
    <3>3. StepsLeft(record) < StepsLeft(c)
      BY <2>1, <3>2, StepsAt
    <3> QED
      BY <1>1, <2>2, <3>1, <3>2, <3>3, BecomeNearer
  <2> QED
    BY <1>5, <1>6, <1>7, <2>2 DEF LookUpVersion
<1>8. CASE AskVersion(k)
  <2>1. c.pc = "asking" /\ StepsLeft(c) = 2
    BY <1>8, StepsAt DEF AskVersion, At
  <2>2. CASE Become(k, [c EXCEPT !.version = site.version, !.pc = "remember"])
    <3>1. PICK record : record = [c EXCEPT !.version = site.version, !.pc = "remember"]
      OBVIOUS
    <3>2. site.version \in Nat
      BY DEF TypeOK
    <3>3. record \in Call /\ record.pc = "remember"
      BY <1>2, <3>1, <3>2 DEF Call
    <3>4. StepsLeft(record) < StepsLeft(c)
      BY <2>1, <3>3, StepsAt
    <3> QED
      BY <1>1, <2>2, <3>1, <3>3, <3>4, BecomeNearer
  <2>3. CASE Fails(k)
    BY <1>1, <2>1, <2>3, FailsNearer
  <2> QED
    BY <1>5, <1>6, <1>8, <2>2, <2>3 DEF AskVersion
<1>9. CASE RememberVersion(k)
  <2>1. c.version \in Nat \cup {None}
    BY <1>2 DEF Call
  <2>2. call' = [call EXCEPT ![k] = Named(c, c.version)]
    BY <1>9 DEF RememberVersion
  <2> QED
    BY <1>1, <1>4, <2>1, <2>2 DEF Nearer
<1> QED
  BY <1>7, <1>8, <1>9

\* A page that does not end the scan is a full one and leaves the scan below its cap.
LEMMA ScanNearer ==
    ASSUME TypeOK, ReadInv, NEW k \in Calls, Scan(k) PROVE Nearer(k)
<1> DEFINE c == call[k]
           page == Slice(held[c.leg], Len(c.all), Page)
           all == c.all \o page
           read == [c EXCEPT !.shown[c.leg] = FilterByQuery(all, c.req.size),
                             !.omitted = @ \cup (IF Capped(page, all) THEN {c.leg} ELSE {}),
                             !.all = <<>>]
<1>1. c # None /\ c.pc = "scan"
  BY DEF Scan, At
<1>2. /\ c \in Call /\ Len(c.all) < Cap /\ c.leg \in Supported /\ c.leg \in Collections
      /\ c.all \in Seq(BOOLEAN) /\ Len(c.all) \in Nat /\ c.req.size \in Nat
      /\ held[c.leg] \in Seq(BOOLEAN)
  <2>1. c \in Call /\ Len(c.all) < Cap
    BY <1>1 DEF TypeOK
  <2>2. c.leg \in Supported /\ c.leg \in Collections /\ c.req \in Request
    BY <2>1 DEF Call, Collections
  <2>3. held[c.leg] \in Seq(BOOLEAN)
    BY <2>2, HeldTyped
  <2> QED
    BY <2>1, <2>2, <2>3 DEF Call, Request
<1>3. Page \in Nat /\ Page >= 1 /\ Cap \in Nat /\ Cap >= 1
  BY ReadAssumption
<1>4. page \in Seq(BOOLEAN) /\ Len(page) \in Nat
  <2>1. page \in Seq(BOOLEAN)
    BY <1>2, <1>3, SliceIs
  <2> HIDE DEF page
  <2> QED
    BY <2>1
<1>5. CASE Fails(k)
  BY <1>1, <1>5, FailsNearer
<1> HIDE DEF page
<1>6. all \in Seq(BOOLEAN) /\ Len(all) = Len(c.all) + Len(page)
  BY <1>2, <1>4, ConcatProperties
<1> HIDE DEF all
<1>7. CASE ~ScanEnds(page, all) /\ Become(k, [c EXCEPT !.all = all])
  <2>1. PICK record : record = [c EXCEPT !.all = all]
    OBVIOUS
  <2>2. record \in Call /\ record.pc = "scan" /\ record.leg = c.leg /\ record.all = all
    BY <1>1, <1>2, <1>6, <2>1 DEF Call
  <2>3. Len(page) >= 1
    BY <1>3, <1>4, <1>7 DEF ScanEnds
  <2>4. Len(all) \in Nat /\ Len(all) > Len(c.all)
    BY <1>2, <1>4, <1>6, <2>3
  <2>5. CASE c.leg = "clients"
    <3>1. /\ StepsLeft(c) = (4 + 2 * Cap) - Len(c.all)
          /\ StepsLeft(record) = (4 + 2 * Cap) - Len(all)
      BY <1>1, <2>2, <2>5, StepsAt
    <3> QED
      BY <1>1, <1>2, <1>3, <1>7, <2>1, <2>2, <2>4, <3>1, BecomeNearer
  <2>6. CASE c.leg # "clients"
    <3>1. /\ StepsLeft(c) = (4 + Cap) - Len(c.all)
          /\ StepsLeft(record) = (4 + Cap) - Len(all)
      BY <1>1, <2>2, <2>6, StepsAt
    <3> QED
      BY <1>1, <1>2, <1>3, <1>7, <2>1, <2>2, <2>4, <3>1, BecomeNearer
  <2> QED
    BY <2>5, <2>6
<1> DEFINE shown == [c.shown EXCEPT ![c.leg] = FilterByQuery(all, c.req.size)]
           omitted == c.omitted \cup (IF Capped(page, all) THEN {c.leg} ELSE {})
<1>8. /\ shown \in [Collections -> SUBSET Nat]
      /\ omitted \in SUBSET (Collections \cup {"self"})
      /\ read = [c EXCEPT !.shown = shown, !.omitted = omitted, !.all = <<>>]
  <2>1. FilterByQuery(all, c.req.size) \subseteq Nat
    BY <1>6 DEF FilterByQuery
  <2> QED
    BY <1>2, <2>1 DEF Call
<1> HIDE DEF shown, omitted
<1>9. c \in Call /\ c.pc = "scan" /\ read \in Call /\ read.pc = "scan" /\ read.all = <<>>
  <2>1. c \in Call /\ c.pc = "scan"
    BY <1>1, <1>2
  <2>2. <<>> \in Seq(BOOLEAN)
    OBVIOUS
  <2> HIDE DEF c, read
  <2>3. read.pc = "scan" /\ read.all = <<>>
    BY <1>8, <2>1 DEF Call
  <2>4. read \in Call
    BY <1>8, <2>1, <2>2 DEF Call
  <2> QED
    BY <2>1, <2>3, <2>4
<1>10. StepsLeft(c) > 4 /\ StepsLeft(c) \in Nat
  BY <1>1, <1>2, StepsBound
<1> HIDE DEF read
<1>11. CASE c.leg = "clients" /\ Become(k, [read EXCEPT !.leg = "devices"])
  <2>1. PICK record : record = [read EXCEPT !.leg = "devices"]
    OBVIOUS
  <2>2. /\ record \in Call /\ record.pc = "scan" /\ record.leg = "devices"
        /\ record.all = <<>>
    BY <1>9, <2>1 DEF Call, Supported
  <2>3. StepsLeft(record) = (4 + Cap) - Len(record.all) /\ Len(record.all) = 0
    <3>1. StepsLeft(record) = (4 + Cap) - Len(record.all)
      BY <2>2, StepsAt
    <3> QED
      BY <2>2, <3>1
  <2>4. StepsLeft(c) = (4 + 2 * Cap) - Len(c.all)
    BY <1>1, <1>11, StepsAt
  <2> DEFINE before == StepsLeft(c)
             after == StepsLeft(record)
             gathered == Len(c.all)
  <2>5. /\ after = (4 + Cap) - 0 /\ before = (4 + 2 * Cap) - gathered
        /\ Cap \in Nat /\ gathered \in Nat /\ gathered < Cap
    BY <1>2, <1>3, <2>3, <2>4
  <2> HIDE DEF before, after, gathered
  <2>6. after < before
    BY <2>5
  <2> QED
    BY <1>1, <1>11, <2>1, <2>2, <2>6, BecomeNearer DEF before, after
<1>12. CASE Become(k, [read EXCEPT !.pc = "self"])
  <2>1. PICK record : record = [read EXCEPT !.pc = "self"]
    OBVIOUS
  <2>2. record \in Call /\ record.pc = "self"
    BY <1>9, <2>1 DEF Call
  <2>3. StepsLeft(record) < StepsLeft(c)
    BY <1>10, <2>2, StepsAt
  <2> QED
    BY <1>1, <1>12, <2>1, <2>2, <2>3, BecomeNearer
<1> QED
  BY <1>5, <1>7, <1>11, <1>12 DEF Scan, page, all, read

\* A call that only goes on to a place with fewer steps left.
LEMMA GoNearer ==
    ASSUME TypeOK, NEW k \in Calls, call[k] # None,
           NEW at \in {"answered", "version", "zones", "policies", "uplinks"},
           Become(k, [call[k] EXCEPT !.pc = at]),
           \/ at = "answered" /\ call[k].pc = "self"
           \/ at = "version" /\ call[k].pc \in {"self", "fetch", "stations", "policies", "zones"}
           \/ at = "zones" /\ call[k].pc = "policies"
           \/ at = "policies" /\ call[k].pc = "uplinks"
           \/ at = "uplinks" /\ call[k].pc = "stations"
    PROVE  Nearer(k)
<1>1. PICK record : record = [call[k] EXCEPT !.pc = at]
  OBVIOUS
<1>2. call[k] \in Call
  BY DEF TypeOK
<1>3. record \in Call /\ record.pc = at
  BY <1>1, <1>2 DEF Call
<1>4. StepsLeft(record) < StepsLeft(call[k])
  <2>1. CASE at = "answered" /\ call[k].pc = "self"
    <3>1. StepsLeft(record) = 0 /\ StepsLeft(call[k]) = 4
      BY <1>3, <2>1, StepsAt
    <3> QED
      BY <3>1
  <2>2. CASE at = "version" /\ call[k].pc \in {"self", "fetch", "stations", "policies", "zones"}
    <3>1. StepsLeft(record) = 3
      BY <1>3, <2>2, StepsAt
    <3>2. StepsLeft(call[k]) \in {4, 5, 7}
      BY <2>2, StepsAt
    <3> QED
      BY <3>1, <3>2
  <2>3. CASE at = "zones" /\ call[k].pc = "policies"
    <3>1. StepsLeft(record) = 4 /\ StepsLeft(call[k]) = 5
      BY <1>3, <2>3, StepsAt
    <3> QED
      BY <3>1
  <2>4. CASE at = "policies" /\ call[k].pc = "uplinks"
    <3>1. StepsLeft(record) = 5 /\ StepsLeft(call[k]) = 6
      BY <1>3, <2>4, StepsAt
    <3> QED
      BY <3>1
  <2>5. CASE at = "uplinks" /\ call[k].pc = "stations"
    <3>1. StepsLeft(record) = 6 /\ StepsLeft(call[k]) = 7
      BY <1>3, <2>5, StepsAt
    <3> QED
      BY <3>1
  <2> QED
    BY <2>1, <2>2, <2>3, <2>4, <2>5
<1> QED
  BY <1>1, <1>3, <1>4, BecomeNearer

LEMMA AnswerNearer ==
    ASSUME TypeOK, ReadInv, NEW k \in Calls, SearchSites(k) \/ Fetch(k) PROVE Nearer(k)
<1> DEFINE c == call[k]
<1>1. c # None /\ c.pc \in {"self", "fetch"}
  BY DEF SearchSites, Fetch, At
<1>2. c \in Call
  BY <1>1 DEF TypeOK
<1>3. StepsLeft(c) = 4
  BY <1>1, StepsAt
<1>4. CASE Become(k, [c EXCEPT !.omitted = @ \cup {"self"}, !.pc = "answered"])
  <2>1. PICK record : record = [c EXCEPT !.omitted = @ \cup {"self"}, !.pc = "answered"]
    OBVIOUS
  <2>2. record \in Call /\ record.pc = "answered"
    BY <1>2, <2>1 DEF Call
  <2>3. StepsLeft(record) < StepsLeft(c)
    BY <1>3, <2>2, StepsAt
  <2> QED
    BY <1>1, <1>4, <2>1, <2>2, <2>3, BecomeNearer
<1>5. CASE SearchSites(k)
  <2>1. c.pc = "self"
    BY <1>5 DEF SearchSites, At
  <2> QED
    BY <1>1, <1>4, <1>5, <2>1, GoNearer DEF SearchSites
<1>6. CASE Fetch(k)
  <2> DEFINE of == c.req.of
             places == CASE c.req.op = "list" -> ApplyPage(c.req, held[of])
                         [] c.req.op = "get" -> {c.req.from} [] OTHER -> {}
  <2>1. c.pc = "fetch"
    BY <1>6 DEF Fetch, At
  <2>2. CASE Become(k, [c EXCEPT !.pc = "answered", !.shown[of] = places])
    <3>1. c.req \in Request /\ of \in Collections /\ c.shown \in [Collections -> SUBSET Nat]
      BY <1>2 DEF Call, Request
    <3>2. places \in SUBSET Nat
      <4>1. held[of] \in Seq(BOOLEAN)
        BY <3>1, HeldTyped
      <4> QED
        BY <3>1, <4>1 DEF ApplyPage, Request
    <3> HIDE DEF places
    <3>3. PICK shown : shown = [c.shown EXCEPT ![of] = places]
      OBVIOUS
    <3>4. shown \in [Collections -> SUBSET Nat]
      BY <3>1, <3>2, <3>3
    <3>5. PICK record : record = [c EXCEPT !.pc = "answered", !.shown = shown]
      OBVIOUS
    <3>6. record = [c EXCEPT !.pc = "answered", !.shown[of] = places]
      BY <1>2, <3>3, <3>5 DEF Call
    <3>7. record \in Call /\ record.pc = "answered"
      BY <1>2, <3>4, <3>5 DEF Call
    <3>8. StepsLeft(record) < StepsLeft(c)
      BY <1>3, <3>7, StepsAt
    <3> QED
      BY <1>1, <2>2, <3>6, <3>7, <3>8, BecomeNearer
  <2>3. CASE Fails(k)
    BY <1>1, <2>1, <2>3, FailsNearer
  <2>4. CASE Become(k, [c EXCEPT !.pc = "version"])
    BY <1>1, <2>1, <2>4, GoNearer
  <2> QED
    BY <1>6, <2>2, <2>3, <2>4 DEF Fetch
<1> QED
  BY <1>5, <1>6

\* A report that has gathered one more leg, or is made.
LEMMA GatherNearer ==
    ASSUME TypeOK, NEW k \in Calls, call[k] # None,
           call[k].pc \in {"stations", "policies", "zones"},
           NEW at \in {"uplinks", "zones", "answered", "failed"},
           at = "uplinks" => call[k].pc = "stations",
           at = "zones" => call[k].pc = "policies",
           NEW seen \in Firewall, NEW applied \in SUBSET Policy,
           NEW omitted \in {call[k].omitted, {}},
           Become(k, [call[k] EXCEPT !.pc = at, !.seen = seen, !.applied = applied,
                                     !.omitted = omitted])
    PROVE  Nearer(k)
<1>1. call[k] \in Call
  BY DEF TypeOK
<1>2. PICK record :
        record = [call[k] EXCEPT !.pc = at, !.seen = seen, !.applied = applied,
                                 !.omitted = omitted]
  OBVIOUS
<1>3. omitted \in SUBSET (Collections \cup {"self"})
  BY <1>1 DEF Call
<1>4. record \in Call /\ record.pc = at
  BY <1>1, <1>2, <1>3 DEF Call
<1>5. StepsLeft(record) < StepsLeft(call[k])
  <2>1. CASE at = "uplinks"
    <3>1. StepsLeft(record) = 6 /\ StepsLeft(call[k]) = 7
      BY <1>4, <2>1, StepsAt
    <3> QED
      BY <3>1
  <2>2. CASE at = "zones"
    <3>1. StepsLeft(record) = 4 /\ StepsLeft(call[k]) = 5
      BY <1>4, <2>2, StepsAt
    <3> QED
      BY <3>1
  <2>3. CASE at \in {"answered", "failed"}
    <3>1. StepsLeft(record) = 0
      BY <1>4, <2>3, StepsAt
    <3>2. StepsLeft(call[k]) \in {4, 5, 7}
      BY StepsAt
    <3> QED
      BY <3>1, <3>2
  <2> QED
    BY <2>1, <2>2, <2>3
<1> QED
  BY <1>2, <1>4, <1>5, BecomeNearer

\* The same for the record the join makes of what was gathered.
LEMMA ReportNearer ==
    ASSUME TypeOK, NEW k \in Calls, call[k] # None, call[k].pc = "zones",
           NEW seen \in Firewall, Become(k, Report([call[k] EXCEPT !.seen = seen]))
    PROVE  Nearer(k)
<1> DEFINE c == call[k]
<1>1. c \in Call /\ c.applied \in SUBSET Policy
  BY DEF TypeOK, Call
<1>2. PICK d : d = [c EXCEPT !.seen = seen]
  OBVIOUS
<1>3. d.seen = seen /\ Become(k, Report(d))
  BY <1>1, <1>2 DEF Call
<1>4. CASE ~seen.known
  <2>1. PICK applied, omitted : applied = c.applied /\ omitted = c.omitted
    OBVIOUS
  <2>2. [d EXCEPT !.pc = "failed"] =
          [c EXCEPT !.pc = "failed", !.seen = seen, !.applied = applied,
                    !.omitted = omitted]
    BY <1>1, <1>2, <2>1 DEF Call
  <2>3. Become(k, [c EXCEPT !.pc = "failed", !.seen = seen, !.applied = applied,
                            !.omitted = omitted])
    BY <1>3, <1>4, <2>2 DEF Report
  <2> QED
    BY <1>1, <2>1, <2>3, GatherNearer
<1>5. CASE seen.known
  <2>1. PICK applied, omitted : applied = Correlated(seen) /\ omitted = {}
    OBVIOUS
  <2>2. [d EXCEPT !.pc = "answered", !.applied = applied, !.omitted = omitted] =
          [c EXCEPT !.pc = "answered", !.seen = seen, !.applied = applied,
                    !.omitted = omitted]
    BY <1>1, <1>2 DEF Call
  <2>3. Become(k, [c EXCEPT !.pc = "answered", !.seen = seen, !.applied = applied,
                            !.omitted = omitted])
    BY <1>3, <1>5, <2>1, <2>2 DEF Report
  <2>4. applied \in SUBSET Policy
    BY <2>1 DEF Correlated, Firewall
  <2> QED
    BY <2>1, <2>3, <2>4, GatherNearer
<1> QED
  BY <1>4, <1>5

LEMMA LegsNearer ==
    ASSUME TypeOK, NEW k \in Calls,
           Stations(k) \/ Uplinks(k) \/ Policies(k) \/ ZonesAndReport(k)
    PROVE  Nearer(k)
<1> DEFINE c == call[k]
<1>1. c # None /\ c.pc \in {"stations", "uplinks", "policies", "zones"}
  BY DEF Stations, Uplinks, Policies, ZonesAndReport, Leg, At
<1>2. /\ c \in Call /\ c.seen \in Firewall /\ firewall \in Firewall
      /\ c.applied \in SUBSET Policy
  BY <1>1, ReadAssumption DEF TypeOK, Call
<1>3. CASE Stations(k)
  <2> DEFINE next == [c EXCEPT !.pc = "uplinks"]
  <2>1. c.pc = "stations"
    BY <1>3 DEF Stations, Leg, At
  <2>2. CASE Become(k, next)
    BY <1>1, <2>1, <2>2, GoNearer
  <2>3. CASE Become(k, [c EXCEPT !.pc = "version"])
    BY <1>1, <2>1, <2>3, GoNearer
  <2>4. CASE Become(k, [next EXCEPT !.seen.known = firewall.known,
                                    !.seen.network = firewall.network])
    <3>1. PICK seen, applied, omitted :
            /\ seen = [c.seen EXCEPT !.known = firewall.known,
                                     !.network = firewall.network]
            /\ applied = c.applied /\ omitted = c.omitted
      OBVIOUS
    <3>2. seen \in Firewall
      BY <1>2, <3>1 DEF Firewall
    <3>3. [next EXCEPT !.seen.known = firewall.known, !.seen.network = firewall.network] =
            [c EXCEPT !.pc = "uplinks", !.seen = seen, !.applied = applied,
                      !.omitted = omitted]
      BY <1>2, <3>1 DEF Call, Firewall
    <3>4. Become(k, [c EXCEPT !.pc = "uplinks", !.seen = seen, !.applied = applied,
                              !.omitted = omitted])
      BY <2>4, <3>3
    <3> QED
      BY <1>1, <1>2, <2>1, <3>1, <3>2, <3>4, GatherNearer
  <2> QED
    BY <1>3, <2>2, <2>3, <2>4 DEF Stations, Leg
<1>4. CASE Uplinks(k)
  <2>1. c.pc = "uplinks"
    BY <1>4 DEF Uplinks, At
  <2>2. CASE Become(k, [c EXCEPT !.pc = "policies"])
    BY <1>1, <2>1, <2>2, GoNearer
  <2>3. CASE Fails(k)
    BY <1>1, <2>1, <2>3, FailsNearer
  <2> QED
    BY <1>4, <2>2, <2>3 DEF Uplinks
<1>5. CASE Policies(k)
  <2> DEFINE next == [c EXCEPT !.pc = "zones"]
  <2>1. c.pc = "policies"
    BY <1>5 DEF Policies, Leg, At
  <2>2. CASE Become(k, next)
    BY <1>1, <2>1, <2>2, GoNearer
  <2>3. CASE Become(k, [c EXCEPT !.pc = "version"])
    BY <1>1, <2>1, <2>3, GoNearer
  <2>4. CASE Become(k, [next EXCEPT !.seen.policies = firewall.policies])
    <3>1. PICK seen, applied, omitted :
            /\ seen = [c.seen EXCEPT !.policies = firewall.policies]
            /\ applied = c.applied /\ omitted = c.omitted
      OBVIOUS
    <3>2. seen \in Firewall
      BY <1>2, <3>1 DEF Firewall
    <3>3. [next EXCEPT !.seen.policies = firewall.policies] =
            [c EXCEPT !.pc = "zones", !.seen = seen, !.applied = applied,
                      !.omitted = omitted]
      BY <1>2, <3>1 DEF Call, Firewall
    <3>4. Become(k, [c EXCEPT !.pc = "zones", !.seen = seen, !.applied = applied,
                              !.omitted = omitted])
      BY <2>4, <3>3
    <3> QED
      BY <1>1, <1>2, <2>1, <3>1, <3>2, <3>4, GatherNearer
  <2> QED
    BY <1>5, <2>2, <2>3, <2>4 DEF Policies, Leg
<1>6. CASE ZonesAndReport(k)
  <2>1. c.pc = "zones"
    BY <1>6 DEF ZonesAndReport, Leg, At
  <2>2. CASE Become(k, Report(c))
    <3>1. PICK seen : seen = c.seen
      OBVIOUS
    <3>2. c = [c EXCEPT !.seen = seen]
      BY <1>2, <3>1 DEF Call
    <3>3. Become(k, Report([c EXCEPT !.seen = seen]))
      BY <2>2, <3>2
    <3> QED
      BY <1>1, <1>2, <2>1, <3>1, <3>3, ReportNearer
  <2>3. CASE Become(k, [c EXCEPT !.pc = "version"])
    BY <1>1, <2>1, <2>3, GoNearer
  <2>4. CASE Become(k, Report([c EXCEPT !.seen.zones = firewall.zones]))
    <3>1. PICK seen : seen = [c.seen EXCEPT !.zones = firewall.zones]
      OBVIOUS
    <3>2. seen \in Firewall
      BY <1>2, <3>1 DEF Firewall
    <3>3. Become(k, Report([c EXCEPT !.seen = seen]))
      BY <2>4, <3>1
    <3> QED
      BY <1>1, <2>1, <3>2, <3>3, ReportNearer
  <2> QED
    BY <1>6, <2>2, <2>3, <2>4 DEF ZonesAndReport, Leg
<1> QED
  BY <1>3, <1>4, <1>5, <1>6

LEMMA ProceedNearer ==
    ASSUME TypeOK, ReadInv, NEW k \in Calls, Proceed(k) \/ Break(k) PROVE Nearer(k)
<1>1. CASE Proceed(k)
  BY <1>1, SiteNearer, VersionNearer, ScanNearer, AnswerNearer, LegsNearer DEF Proceed
<1>2. CASE Break(k)
  BY <1>2, FailsNearer DEF Break
<1> QED
  BY <1>1, <1>2

\* What the witnesses of a call record are not its steps.
LEMMA WitnessKeepsSteps ==
    ASSUME TypeOK, NEW k \in Calls, call[k] # None, NEW shrunk \in BOOLEAN,
           NEW moved \in BOOLEAN, Witnessed(shrunk, moved)
    PROVE  call'[k] # None /\ StepsLeft(call'[k]) = StepsLeft(call[k])
<1>1. call[k] \in Call
  BY DEF TypeOK
<1>2. PICK lost, gone :
        lost = (call[k].shrunk \/ shrunk) /\ gone = (call[k].moved \/ moved)
  OBVIOUS
<1>3. PICK before, after : before = call[k] /\ after = call'[k]
  OBVIOUS
<1>4. after = [before EXCEPT !.shrunk = lost, !.moved = gone]
  BY <1>2, <1>3 DEF Witnessed
<1>5. lost \in BOOLEAN /\ gone \in BOOLEAN
  BY <1>2
<1>6. after \in Call
  BY <1>1, <1>3, <1>4, <1>5 DEF Call
<1>7. after.pc = before.pc /\ after.leg = before.leg /\ after.all = before.all
  BY <1>1, <1>3, <1>4 DEF Call
<1>8. StepsLeft(after) = StepsLeft(before)
  BY <1>7 DEF StepsLeft
<1> QED
  BY <1>3, <1>6, <1>8, NoneAssumption

\* What is not a step of the call leaves it the steps it had.
LEMMA OthersKeepSteps ==
    ASSUME TypeOK, ReadInv, [Next]_vars, NEW k \in Calls, call[k] # None,
           ~(Proceed(k) \/ Break(k))
    PROVE  call'[k] # None /\ StepsLeft(call'[k]) = StepsLeft(call[k])
<1>1. CASE UNCHANGED call
  BY <1>1
<1>2. CASE Change
  <2>1. ASSUME NEW c \in Collections, NEW h \in Holdings,
               Witnessed(~GrewInto(held[c], h), FALSE)
        PROVE  call'[k] # None /\ StepsLeft(call'[k]) = StepsLeft(call[k])
    <3>1. PICK lost : lost = ~GrewInto(held[c], h)
      OBVIOUS
    <3>2. lost \in BOOLEAN /\ Witnessed(lost, FALSE)
      BY <2>1, <3>1 DEF GrewInto
    <3> QED
      BY <3>2, WitnessKeepsSteps
  <2> QED
    BY <1>1, <1>2, <2>1, WitnessKeepsSteps DEF Change
<1>3. CASE Rebuild \/ UNCHANGED vars
  BY <1>1, <1>3 DEF Rebuild, vars
<1>4. ASSUME NEW j \in Calls, Proceed(j) \/ Break(j) PROVE call'[k] = call[k]
  <2>1. j # k /\ Nearer(j)
    BY <1>4, ProceedNearer
  <2> QED
    BY <2>1 DEF Nearer
<1>5. ASSUME NEW j \in Calls, NEW req \in Requests[j], Handle(j, req)
      PROVE  call'[k] = call[k]
  <2>1. call[j] = None /\ \E record : Become(j, record)
    BY <1>5 DEF Handle, Search, Troubleshoot, ListResources, GetResource, ListSites, Status,
                Addressed, Begin
  <2> QED
    BY <2>1 DEF Become
<1> QED
  BY <1>1, <1>2, <1>3, <1>4, <1>5 DEF Next

\* No interleaving of calls, changes and reloads sends a call back: for any page
\* size and cap a call ends after at most 10 + 2 * Cap steps of its own.
THEOREM CallsComeCloser == Spec => CallsAdvance
<1> DEFINE Advance ==
      \A k \in Calls : call[k] # None =>
         /\ call'[k] # None /\ StepsLeft(call'[k]) \in 0 .. StepsLeft(call[k])
         /\ Proceed(k) \/ Break(k) => StepsLeft(call'[k]) < StepsLeft(call[k])
<1>1. ASSUME TypeOK, ReadInv, [Next]_vars PROVE Advance
  <2> SUFFICES ASSUME NEW k \in Calls, call[k] # None
               PROVE  /\ call'[k] # None /\ StepsLeft(call'[k]) \in 0 .. StepsLeft(call[k])
                      /\ Proceed(k) \/ Break(k) =>
                           StepsLeft(call'[k]) < StepsLeft(call[k])
    OBVIOUS
  <2>1. StepsLeft(call[k]) \in Nat
    <3>1. call[k] \in Call /\ Len(call[k].all) < Cap
      BY <1>1 DEF TypeOK
    <3> QED
      BY <3>1, StepsBound
  <2>2. CASE Proceed(k) \/ Break(k)
    <3>1. Nearer(k)
      BY <1>1, <2>2, ProceedNearer
    <3>2. PICK record \in Call : /\ call' = [call EXCEPT ![k] = record]
                                 /\ StepsLeft(record) < StepsLeft(call[k])
      BY <3>1 DEF Nearer
    <3>3. call'[k] = record /\ record # None
      BY <1>1, <3>2, NoneAssumption DEF TypeOK
    <3>4. record \in Call /\ Len(record.all) < Cap
      <4>1. TypeOK'
        BY <1>1, NextKept
      <4> QED
        BY <3>3, <4>1 DEF TypeOK
    <3>5. StepsLeft(record) \in Nat
      BY <3>4, StepsBound
    <3> QED
      BY <2>1, <3>2, <3>3, <3>5
  <2>3. CASE ~(Proceed(k) \/ Break(k))
    <3>1. call'[k] # None /\ StepsLeft(call'[k]) = StepsLeft(call[k])
      BY <1>1, <2>3, OthersKeepSteps
    <3> QED
      BY <2>1, <2>3, <3>1
  <2> QED
    BY <2>2, <2>3
<1>2. TypeOK /\ ReadInv /\ [Next]_vars => [Advance]_vars
  BY <1>1
<1> QED
  BY <1>2, ReadInvHolds, PTL DEF Spec, CallsAdvance
=============================================================================
