------------------------------ MODULE ReadTools ------------------------------
(* The tools that only read, over one controller that changes under them:     *)
(* unifi_search, unifi_list_resources, unifi_get_resource, unifi_list_sites,  *)
(* unifimcp_status and unifi_client_troubleshoot, and the client they share.  *)
(*                                                                            *)
(* A client remembers the site's UUID and the controller's version from its   *)
(* first request on; only a reload, which builds new clients, forgets them.   *)
(* A call clones the client it found and keeps it.  It makes its requests one *)
(* after the other, and each answers what the controller holds at that moment.*)
(* A member of a collection is TRUE when the query of the searches matches it.*)
EXTENDS Naturals, Sequences, FiniteSets

CONSTANTS
    Calls,       \* calls made, at once or one after the other
    Requests,    \* what each call may ask, [Calls -> SUBSET Request]
    Holdings,    \* contents of a collection
    Firewalls,   \* what a controller knows of the client to troubleshoot
    Worlds,      \* initial collections and firewall
    Networks, Zones,
    Page, Cap,   \* SEARCH_PAGE_SIZE, SEARCH_SCAN_CAP
    MaxChanges,  \* bound: changes of the controller
    MaxRebuilds, \* bound: reloads
    None

\* clients and devices are on the Integration API, groups on a private one.
Supported == {"clients", "devices"}
Collections == Supported \cup {"groups"}

\* The network of the client and what applies to it.  A station that is not
\* known has no record; one without a network_id has the network None.
Policy == [source : Zones, destination : Zones, enabled : BOOLEAN]
Firewall == [known : BOOLEAN, network : Networks \cup {None},
             zones : [Zones -> SUBSET Networks], policies : SUBSET Policy]

\* `named`: the caller names the site, by the identifier it has there; `from` and
\* `size` are the window of a list and, of a get, its place; `size` the limit of a
\* search.
Request == [op : {"search", "list", "get", "status", "sites", "troubleshoot"},
            of : Collections, named : BOOLEAN, from : Nat, size : Nat]

ASSUME ReadAssumption ==
    /\ Requests \in [Calls -> SUBSET Request]
    /\ Holdings \subseteq Seq(BOOLEAN) /\ Firewalls \subseteq Firewall
    /\ Worlds \subseteq [held : [Collections -> Holdings], firewall : Firewalls]
    /\ Page \in Nat \ {0} /\ Cap \in Nat \ {0}
    /\ MaxChanges \in Nat /\ MaxRebuilds \in Nat
    /\ None \notin Nat \cup Networks

VARIABLES
    site,      \* of the controller: UUID of the default site, version, private routes
    held,      \* its collections
    firewall,  \* what it knows of the client
    clients,   \* UnifiServer.clients of this controller, one after the other
    call,
    changes

vars == <<site, held, firewall, clients, call, changes>>
controller == <<site, held, firewall, changes>>

\* A client: what it cached, its allow_private_api and, as history, UUID and
\* version of the controller when it was built.
Client == [uuid : Nat \cup {None}, version : Nat \cup {None}, private : BOOLEAN,
           bornUuid : Nat, bornVersion : Nat]

\* A call.  `uuid` and `version` are those it uses and names, `leg` the collection
\* it scans and `all` what it has seen of it, `shown` the places answered by leg,
\* `omitted` the legs the answer calls refused or cut short, `seen` what a report
\* gathered and `applied` the policies it lists.
\* History: the collections when it began, whether one lost anything since, and
\* whether what a report reads changed.
Call == [req : Request,
         pc : {"site", "resolving", "fill", "scan", "self", "fetch", "version",
               "asking", "remember", "stations", "uplinks", "policies", "zones",
               "answered", "failed"},
         client : Nat, uuid : Nat \cup {None}, version : Nat \cup {None},
         leg : Supported, all : Seq(BOOLEAN), shown : [Collections -> SUBSET Nat],
         omitted : SUBSET (Collections \cup {"self"}),
         seen : Firewall, applied : SUBSET Policy,
         began : [Collections -> Holdings], shrunk : BOOLEAN, moved : BOOLEAN]

ASSUME NoneAssumption == None \notin Call

TypeOK ==
    /\ site \in [uuid : Nat, version : Nat, routes : BOOLEAN]
    /\ held \in [Collections -> Holdings] /\ firewall \in Firewalls
    /\ clients \in Seq(Client) /\ clients # <<>>
    /\ call \in [Calls -> Call \cup {None}]
    /\ changes \in 0 .. MaxChanges
    /\ \A k \in Calls : call[k] # None => Len(call[k].all) < Cap

\* Mutant: a client is rebuilt around the caches of the one before.
NewClientWarm(private) ==
    [uuid |-> IF clients = <<>> THEN None ELSE clients[Len(clients)].uuid,
     version |-> IF clients = <<>> THEN None ELSE clients[Len(clients)].version,
     private |-> private, bornUuid |-> site.uuid, bornVersion |-> site.version]

\* UnifiClient::new: nothing is cached.
NewClient(private) ==
    [uuid |-> None, version |-> None, private |-> private,
     bornUuid |-> site.uuid, bornVersion |-> site.version]

Init ==
    /\ site \in [uuid : {0}, version : {0}, routes : BOOLEAN]
    /\ \E w \in Worlds : held = w.held /\ firewall = w.firewall
    /\ \E private \in BOOLEAN :
         clients = << [uuid |-> None, version |-> None, private |-> private,
                       bornUuid |-> 0, bornVersion |-> 0] >>
    /\ call = [k \in Calls |-> None] /\ changes = 0

-----------------------------------------------------------------------------
(* The controller and the reload                                            *)

\* A collection that changed into another by what was added at its end.
GrewInto(before, after) ==
    Len(before) <= Len(after) /\ \A i \in DOMAIN before : after[i] = before[i]

\* What a change means to the calls in flight.
Witnessed(shrunk, moved) ==
    call' = [k \in Calls |->
               IF call[k] = None THEN None
               ELSE [call[k] EXCEPT !.shrunk = @ \/ shrunk, !.moved = @ \/ moved]]

\* The site is deleted and made anew under its name, the controller is upgraded,
\* stations and devices come and go, an administrator edits the firewall.
Change ==
    /\ changes < MaxChanges /\ changes' = changes + 1
    /\ \/ /\ site' = [site EXCEPT !.uuid = @ + 1]
          /\ Witnessed(TRUE, TRUE) /\ UNCHANGED <<held, firewall>>
       \/ /\ \E routes \in BOOLEAN :
               site' = [site EXCEPT !.version = @ + 1, !.routes = routes]
          /\ UNCHANGED <<held, firewall, call>>
       \/ /\ \E c \in Collections, h \in Holdings :
               /\ held' = [held EXCEPT ![c] = h]
               /\ Witnessed(~GrewInto(held[c], h), FALSE)
          /\ UNCHANGED <<site, firewall>>
       \/ /\ firewall' \in Firewalls \ {firewall}
          /\ Witnessed(FALSE, TRUE) /\ UNCHANGED <<site, held>>
    /\ UNCHANGED clients

\* rebuild_clients: calls in flight keep the client they cloned.
Rebuild ==
    /\ Len(clients) <= MaxRebuilds
    /\ \E private \in BOOLEAN : clients' = Append(clients, NewClient(private))
    /\ UNCHANGED <<controller, call>>

-----------------------------------------------------------------------------
(* The handlers                                                             *)

At(k, pc) == call[k] # None /\ call[k].pc = pc

Become(k, record) ==
    /\ call' = [call EXCEPT ![k] = record]
    /\ UNCHANGED <<controller, clients>>

NoFirewall == [known |-> FALSE, network |-> None, zones |-> [z \in Zones |-> {}],
               policies |-> {}]

\* authorize_call, client_for and the clone; a caller without the scope, or that
\* names an unknown controller, is refused before and leaves nothing.
Begin(k, req, pc, uuid) ==
    /\ call[k] = None
    /\ Become(k, [req |-> req, pc |-> pc, client |-> Len(clients), uuid |-> uuid,
                  version |-> None, leg |-> "clients", all |-> <<>>,
                  shown |-> [c \in Collections |-> {}], omitted |-> {},
                  seen |-> NoFirewall, applied |-> {},
                  began |-> held, shrunk |-> FALSE, moved |-> FALSE])

\* Both resolve the configured site, whichever site the caller named.
Search(k, req) == req.op = "search" /\ Begin(k, req, "site", None)
Troubleshoot(k, req) == req.op = "troubleshoot" /\ Begin(k, req, "site", None)

\* default_site_for: only the Integration API needs a UUID.
Addressed(k, req) ==
    IF req.named THEN Begin(k, req, "fetch", site.uuid)
    ELSE IF req.of \in Supported THEN Begin(k, req, "site", None)
    ELSE Begin(k, req, "fetch", None)

ListResources(k, req) == req.op = "list" /\ Addressed(k, req)
GetResource(k, req) == req.op = "get" /\ Addressed(k, req)
ListSites(k, req) == req.op = "sites" /\ Begin(k, req, "fetch", None)
Status(k, req) == req.op = "status" /\ Begin(k, req, "version", None)

-----------------------------------------------------------------------------
(* The client                                                               *)

\* ensure_surface_permitted.
Opted(c) == clients[c.client].private

\* A request for a site by the UUID of another is refused upstream.
Reaches(c) == c.uuid = site.uuid

Fails(k) == Become(k, [call[k] EXCEPT !.pc = "failed"])

\* A request that times out, is refused upstream, or is not understood.
Break(k) ==
    /\ call[k] # None
    /\ call[k].pc \in {"resolving", "scan", "self", "fetch", "stations", "uplinks",
                       "policies", "zones"}
    /\ Fails(k)

AfterSite(c) ==
    CASE c.req.op = "search" -> "scan" [] c.req.op = "troubleshoot" -> "stations"
      [] OTHER -> "fetch"

\* default_site_for: the cache, the request, the cache again.
LookUpSite(k) ==
    /\ At(k, "site")
    /\ LET c == call[k]
           cached == clients[c.client].uuid
       IN \/ cached # None /\ Become(k, [c EXCEPT !.uuid = cached, !.pc = AfterSite(c)])
          \/ cached = None /\ Become(k, [c EXCEPT !.pc = "resolving"])

ResolveSite(k) ==
    /\ At(k, "resolving")
    /\ Become(k, [call[k] EXCEPT !.uuid = site.uuid, !.pc = "fill"])

FillSite(k) ==
    /\ At(k, "fill")
    /\ clients' = [clients EXCEPT ![call[k].client].uuid = call[k].uuid]
    /\ call' = [call EXCEPT ![k].pc = AfterSite(call[k])]
    /\ UNCHANGED controller

\* What a call does with a version: a status shows it, any other call was told
\* 404 on a private route and names it in its error.
Named(c, version) ==
    [c EXCEPT !.version = version,
              !.pc = IF c.req.op = "status" THEN "answered" ELSE "failed"]

\* fetch_version_if_absent: the cache, the request, the cache again.
LookUpVersion(k) ==
    /\ At(k, "version")
    /\ LET cached == clients[call[k].client].version
       IN \/ cached # None /\ Become(k, Named(call[k], cached))
          \/ cached = None /\ Become(k, [call[k] EXCEPT !.pc = "asking"])

\* When it cannot be had, a status is "unreachable", and the error of a 404 falls
\* back on what another call may have cached meanwhile, or on "unknown".
AskVersion(k) ==
    /\ At(k, "asking")
    /\ \/ Become(k, [call[k] EXCEPT !.version = site.version, !.pc = "remember"])
       \/ call[k].req.op = "status" /\ Fails(k)
       \/ /\ call[k].req.op # "status"
          /\ Become(k, Named(call[k], clients[call[k].client].version))

RememberVersion(k) ==
    /\ At(k, "remember")
    /\ clients' = [clients EXCEPT ![call[k].client].version = call[k].version]
    /\ call' = [call EXCEPT ![k] = Named(call[k], call[k].version)]
    /\ UNCHANGED controller

-----------------------------------------------------------------------------
(* unifi_search                                                             *)

\* Places of the first `limit` members that match.
FilterByQuery(items, limit) ==
    {i \in DOMAIN items :
       items[i] /\ Cardinality({j \in 1 .. i : items[j]}) <= limit}

\* What the Integration API answers of a collection for offset and limit.
Slice(items, from, size) ==
    SubSeq(items, from + 1, IF from + size < Len(items) THEN from + size ELSE Len(items))

\* Mutants: the first page is the collection; only the cap, or only a short page,
\* ends the scan.
ScanEndsEarly(page, all) == TRUE
ScanEndsAtCap(page, all) == Len(all) >= Cap
ScanEndsShort(page, all) == Len(page) < Page

\* scan_and_filter stops at the cap or at a short page.
ScanEnds(page, all) == Len(all) >= Cap \/ Len(page) < Page

\* The scan was cut: the page before the cap was a full one.
Capped(page, all) == Len(all) >= Cap /\ Len(page) >= Page

\* A page of a leg; stations, then devices, then the sites.
Scan(k) ==
    /\ At(k, "scan")
    /\ LET c == call[k]
           page == Slice(held[c.leg], Len(c.all), Page)
           all == c.all \o page
           read == [c EXCEPT !.shown[c.leg] = FilterByQuery(all, c.req.size),
                             !.omitted = @ \cup (IF Capped(page, all) THEN {c.leg} ELSE {}),
                             !.all = <<>>]
       IN \/ ~Reaches(c) /\ Fails(k)
          \/ Reaches(c) /\ ~ScanEnds(page, all) /\ Become(k, [c EXCEPT !.all = all])
          \/ /\ Reaches(c) /\ ScanEnds(page, all)
             /\ \/ c.leg = "clients" /\ Become(k, [read EXCEPT !.leg = "devices"])
                \/ c.leg = "devices" /\ Become(k, [read EXCEPT !.pc = "self"])

\* The private leg: refused without a request, absent, or answered.
SearchSites(k) ==
    /\ At(k, "self")
    /\ LET c == call[k]
       IN \/ ~Opted(c) /\ Become(k, [c EXCEPT !.omitted = @ \cup {"self"}, !.pc = "answered"])
          \/ Opted(c) /\ site.routes /\ Become(k, [c EXCEPT !.pc = "answered"])
          \/ Opted(c) /\ ~site.routes /\ Become(k, [c EXCEPT !.pc = "version"])

-----------------------------------------------------------------------------
(* unifi_list_resources, unifi_get_resource, unifi_list_sites               *)

\* The places offset and limit name.
Window(req) == req.from + 1 .. req.from + req.size

\* Mutant: what the Integration API cut is cut again.
ApplyPageAlways(req, items) ==
    {i \in Window(req) \cap DOMAIN items : req.of \in Supported => i > 2 * req.from}

\* apply_page_if_upstream_ignored_it: the places shown of the page the Integration
\* API cut, or of the whole collection a private surface answers.
ApplyPage(req, items) == Window(req) \cap DOMAIN items

\* A route of a private surface, and the surface.
Private(req) == req.op # "sites" /\ req.of \notin Supported

\* Whether the controller has what is asked for.  A missing id on a private
\* surface is a 404 like a missing route.
Found(c) ==
    /\ c.req.op = "get" => c.req.from \in DOMAIN held[c.req.of]
    /\ Private(c.req) => site.routes
    /\ ~Private(c.req) /\ c.req.op # "sites" => Reaches(c)

Fetch(k) ==
    /\ At(k, "fetch")
    /\ LET c == call[k]
           of == c.req.of
           places == CASE c.req.op = "list" -> ApplyPage(c.req, held[of])
                       [] c.req.op = "get" -> {c.req.from} [] OTHER -> {}
       IN \/ Private(c.req) /\ ~Opted(c) /\ Fails(k)
          \/ Private(c.req) /\ Opted(c) /\ ~Found(c) /\ Become(k, [c EXCEPT !.pc = "version"])
          \/ ~Private(c.req) /\ ~Found(c) /\ Fails(k)
          \/ /\ Private(c.req) => Opted(c)
             /\ Found(c)
             /\ Become(k, [c EXCEPT !.pc = "answered", !.shown[of] = places])

-----------------------------------------------------------------------------
(* unifi_client_troubleshoot                                                *)

\* Mutant: a policy counts by its source alone.
CorrelatedBySource(seen) ==
    {p \in seen.policies : p.enabled /\ seen.network \in seen.zones[p.source]}

\* The join of build_client_troubleshoot: network, its zones, enabled policies.
Correlated(seen) ==
    {p \in seen.policies :
       p.enabled /\ \E z \in {p.source, p.destination} : seen.network \in seen.zones[z]}

\* build_client_troubleshoot, whose own `omitted` its caller replaces by the legs
\* that were refused: none, since without stations there is no report.
Report(c) ==
    IF ~c.seen.known THEN [c EXCEPT !.pc = "failed"]
    ELSE [c EXCEPT !.pc = "answered", !.applied = Correlated(c.seen), !.omitted = {}]

\* A private leg: refused, absent, or gathered.
Leg(k, pc, skipped, gathered) ==
    /\ At(k, pc)
    /\ \/ ~Opted(call[k]) /\ Become(k, skipped)
       \/ Opted(call[k]) /\ ~site.routes /\ Become(k, [call[k] EXCEPT !.pc = "version"])
       \/ Opted(call[k]) /\ site.routes /\ Become(k, gathered)

Stations(k) ==
    LET next == [call[k] EXCEPT !.pc = "uplinks"]
    IN Leg(k, "stations", next,
           [next EXCEPT !.seen.known = firewall.known, !.seen.network = firewall.network])

\* The devices, on the Integration API.
Uplinks(k) ==
    /\ At(k, "uplinks")
    /\ \/ Reaches(call[k]) /\ Become(k, [call[k] EXCEPT !.pc = "policies"])
       \/ ~Reaches(call[k]) /\ Fails(k)

Policies(k) ==
    LET next == [call[k] EXCEPT !.pc = "zones"]
    IN Leg(k, "policies", next, [next EXCEPT !.seen.policies = firewall.policies])

ZonesAndReport(k) ==
    Leg(k, "zones", Report(call[k]),
        Report([call[k] EXCEPT !.seen.zones = firewall.zones]))

-----------------------------------------------------------------------------
Proceed(k) ==
    \/ LookUpSite(k) \/ ResolveSite(k) \/ FillSite(k)
    \/ LookUpVersion(k) \/ AskVersion(k) \/ RememberVersion(k)
    \/ Scan(k) \/ SearchSites(k) \/ Fetch(k)
    \/ Stations(k) \/ Uplinks(k) \/ Policies(k) \/ ZonesAndReport(k)

Handle(k, req) ==
    \/ Search(k, req) \/ ListResources(k, req) \/ GetResource(k, req)
    \/ ListSites(k, req) \/ Status(k, req) \/ Troubleshoot(k, req)

Next ==
    \/ Change \/ Rebuild
    \/ \E k \in Calls : Proceed(k) \/ Break(k) \/ \E req \in Requests[k] : Handle(k, req)

Spec == Init /\ [][Next]_vars

\* Some call that can run does, which is enough for finitely many calls; that a
\* request fails is not relied on.
FairSpec == Spec /\ WF_vars(\E k \in Calls : Proceed(k))

-----------------------------------------------------------------------------
(* What the tools promise                                                   *)

\* A search that answers for a leg without a mark has seen every match that was
\* there when it began, up to its limit, as long as the collections only grew
\* under the scan and the site stayed the same: the scan stops neither a page
\* early nor silently at its cap.
SearchSeesAll ==
    \A k \in Calls : At(k, "answered") /\ call[k].req.op = "search" =>
        LET c == call[k]
        IN \A leg \in Supported \ c.omitted :
              ~c.shrunk => FilterByQuery(c.began[leg], c.req.size) \subseteq c.shown[leg]

\* A list answers the window its caller named, no more and nothing less of what
\* was there, whether the surface applied offset and limit or ignored them.
PageIsWindow ==
    \A k \in Calls : At(k, "answered") /\ call[k].req.op = "list" =>
        LET c == call[k]
        IN /\ c.shown[c.req.of] \subseteq Window(c.req)
           /\ ~c.shrunk =>
                Window(c.req) \cap DOMAIN c.began[c.req.of] \subseteq c.shown[c.req.of]

\* What a call uses or names of a controller was true of it at some time since its
\* client was built: a reload is enough to get rid of a site UUID or a version
\* that is out of date, also for the calls that race it.
NothingOlderThanReload ==
    /\ \A g \in DOMAIN clients :
         /\ clients[g].uuid # None => clients[g].uuid >= clients[g].bornUuid
         /\ clients[g].version # None => clients[g].version >= clients[g].bornVersion
    /\ \A k \in Calls : call[k] # None =>
         LET c == call[k]
         IN /\ c.uuid # None => c.uuid >= clients[c.client].bornUuid
            /\ c.version # None => c.version >= clients[c.client].bornVersion

\* What applies to the client, now.
Applies ==
    {p \in firewall.policies :
       p.enabled /\ \E z \in Zones : firewall.network \in firewall.zones[z]
                                     /\ z \in {p.source, p.destination}}

\* A report whose four requests saw one and the same state lists the policies that
\* apply to its client, all of them and no others.
CorrelationExact ==
    \A k \in Calls :
        At(k, "answered") /\ call[k].req.op = "troubleshoot" /\ ~call[k].moved =>
            call[k].applied = Applies

\* How many steps a call still takes at most: a leg of a search reads on from a
\* page that was full, so each page brings it nearer to its cap.
StepsLeft(c) ==
    CASE c.pc \in {"answered", "failed"} -> 0
      [] c.pc = "remember" -> 1 [] c.pc = "asking" -> 2 [] c.pc = "version" -> 3
      [] c.pc \in {"self", "fetch", "zones"} -> 4
      [] c.pc = "policies" -> 5 [] c.pc = "uplinks" -> 6 [] c.pc = "stations" -> 7
      [] c.pc = "scan" -> (IF c.leg = "clients" THEN 4 + 2 * Cap ELSE 4 + Cap) - Len(c.all)
      [] c.pc = "fill" -> 8 + 2 * Cap [] c.pc = "resolving" -> 9 + 2 * Cap
      [] c.pc = "site" -> 10 + 2 * Cap

\* A call never goes back: what the controller, a reload or another call does leaves
\* it no more steps than before, and each step of its own fewer.  What CallsReturn
\* rests on besides the scheduler; the cap of scan_and_filter is where it could fail.
CallsAdvance ==
    [][\A k \in Calls : call[k] # None =>
         /\ call'[k] # None /\ StepsLeft(call'[k]) \in 0 .. StepsLeft(call[k])
         /\ Proceed(k) \/ Break(k) => StepsLeft(call'[k]) < StepsLeft(call[k])]_vars

\* Every call returns, whatever the collections hold and however often they grow.
CallsReturn ==
    <>[](\A k \in Calls : call[k] # None => call[k].pc \in {"answered", "failed"})
=============================================================================
