----------------------------- MODULE PagedReport -----------------------------
(* A caller reads a whole collection through one of the paged tools:          *)
(* unifi_query_stats and the three workflow reports that page their joined    *)
(* result.  The server gathers the legs, cuts the window the caller asked     *)
(* for out of one array (paginate), shortens the longest array of an answer   *)
(* that is too large (json_tool_result), and names the cursor to go on from.  *)
(* An item is known by its place in the collection and by its rendered size;  *)
(* the flag `partial`, set with any refused leg and any cut, is left out.     *)
EXTENDS Naturals, Sequences, FiniteSets

CONSTANTS
    Tools,          \* of the tools below, those called
    Holdings,       \* what a controller may hold, by tool
    Limits,         \* page sizes callers ask for
    Budget,         \* RESULT_LIMITS.max_json_bytes - TRUNCATION_MARGIN_BYTES
    MaxBytes,       \* RESULT_LIMITS.max_json_bytes
    Frame, Marker,  \* sizes of an answer without items, of a truncation marker
    UpstreamPage,   \* items the Integration API answers with when no page is asked for
    MaxDrifts       \* bound: changes of the collection

\* The arrays of an answer in the order of its fields, and the one that is paged.
Arrays(tool) ==
    CASE tool = "query_stats" -> <<"data">>
      [] tool = "site_health_report" -> <<"devices", "health", "omitted">>
      [] tool = "topology_report" -> <<"edges", "devices", "networks", "omitted">>
      [] tool = "traffic_flow_report" -> <<"clients", "top_applications", "omitted">>
Paged(tool) == IF tool = "topology_report" THEN 2 ELSE 1

\* The requests a tool makes.
Legs(tool) ==
    CASE tool = "query_stats" -> {"stats"}
      [] tool = "site_health_report" -> {"devices", "health", "device_stats"}
      [] tool = "topology_report" -> {"topology", "devices", "networks"}
      [] tool = "traffic_flow_report" -> {"clients", "station_stats"}

\* Those that allow_private_api = false refuses, all of them at once.
PrivateLegs(tool) == Legs(tool) \ {"devices", "clients"}

\* The leg an array is filled from, and the one joined into the paged items.
LegOf(name) ==
    CASE name = "data" -> "stats" [] name = "edges" -> "topology"
      [] name = "top_applications" -> "station_stats" [] OTHER -> name
Joined == {"device_stats", "station_stats"}

\* The arrays of an answer that are not paged and are filled from a leg.
Others(tool) == {Arrays(tool)[i] : i \in DOMAIN Arrays(tool) \ {Paged(tool)}} \ {"omitted"}

\* A holding: sizes of the items to be paged, alone and joined, and of the others.
Item == [own : Nat \ {0}, stats : Nat]
IsHolding(tool, h) ==
    h.items \in Seq(Item) /\ \A name \in Others(tool) : h.others[name] \in Seq(Nat)

ASSUME PagedAssumption ==
    /\ Tools \subseteq {"query_stats", "site_health_report", "topology_report",
                        "traffic_flow_report"}
    /\ \A tool \in Tools : \A h \in Holdings[tool] : IsHolding(tool, h)
    /\ Limits \subseteq Nat \ {0} /\ UpstreamPage \in Nat \ {0}
    /\ {Budget, MaxBytes, Frame, Marker, MaxDrifts} \subseteq Nat /\ Budget <= MaxBytes

VARIABLES
    tool, limit, refused,  \* the calls of this walk
    held,                  \* the controller's collections
    cursor,                \* the offset of the next call
    report,                \* what the tool gathered: an answer of any size
    answer,                \* what the caller was given
    pc,                    \* what the caller is doing
    seen,                  \* places of the items shown so far
    astray,                \* history: an array that is not paged was cut
    drifts

call == <<tool, limit, refused>>
vars == <<call, held, cursor, report, answer, pc, seen, astray, drifts>>

NoAnswer == [arrays |-> <<>>, offset |-> 0, total |-> 0, cut |-> 0, next |-> 0]

Init ==
    /\ tool \in Tools /\ limit \in Limits /\ refused \in {{}, PrivateLegs(tool)}
    /\ held \in Holdings[tool]
    /\ cursor = 0 /\ report = NoAnswer /\ answer = NoAnswer /\ pc = "asking"
    /\ seen = {} /\ astray = FALSE /\ drifts = 0

-----------------------------------------------------------------------------
(* The answer                                                               *)

\* The leg the paged items come from, and whether the Integration API serves it.
PagedLeg == LegOf(Arrays(tool)[Paged(tool)])
Supported == PagedLeg \notin PrivateLegs(tool)

\* How many items that leg is answered with: none if it is refused, all there are on
\* a private surface, which does not page -- and on the Integration API, which pages
\* by itself and is sent no page to return, its first page.
Fetched ==
    CASE PagedLeg \in refused -> 0
      [] Supported /\ UpstreamPage < Len(held.items) -> UpstreamPage
      [] OTHER -> Len(held.items)

\* Sizes of the joined items.
Collection ==
    [i \in 1 .. Fetched |->
       held.items[i].own +
       (IF Legs(tool) \cap Joined \subseteq refused THEN 0 ELSE held.items[i].stats)]

\* One note per refused leg.
Omitted == [i \in 1 .. Cardinality(refused) |-> 1]

\* The window of a collection at the cursor.
Paginate(items) ==
    SubSeq(items, cursor + 1, IF cursor + limit < Len(items) THEN cursor + limit ELSE Len(items))

\* What the tool answers before its size is looked at.
Gathered ==
    [arrays |-> [i \in DOMAIN Arrays(tool) |->
                   LET name == Arrays(tool)[i]
                   IN IF i = Paged(tool) THEN Paginate(Collection)
                      ELSE IF name = "omitted" THEN Omitted
                      ELSE IF LegOf(name) \in refused THEN <<>>
                      ELSE held.others[name]],
     offset |-> cursor, total |-> Len(Collection), cut |-> 0, next |-> 0]

\* What the first sizes of a sequence add up to, and all of them.
Sums(sizes) ==
    LET Upto[m \in 0 .. Len(sizes)] == IF m = 0 THEN 0 ELSE Upto[m - 1] + sizes[m]
    IN Upto
Sum(sizes) == Sums(sizes)[Len(sizes)]

\* rendered_len
Rendered(r) ==
    Sum([i \in DOMAIN r.arrays |-> Sum(r.arrays[i])])
    + (IF r.cut = 0 THEN Frame ELSE Frame + Marker)

\* The array with most items, the last one of those.
Longest(r) ==
    CHOOSE i \in DOMAIN r.arrays : \A j \in DOMAIN r.arrays :
        \/ Len(r.arrays[j]) < Len(r.arrays[i])
        \/ Len(r.arrays[j]) = Len(r.arrays[i]) /\ j <= i

\* Mutants: total counts what is shown; the cursor leaves the offset out.
BuildTotal(r, i, n) ==
    [r EXCEPT !.arrays[i] = SubSeq(@, 1, n), !.cut = i, !.next = r.offset + n,
              !.total = r.offset + n]
BuildRelative(r, i, n) ==
    [r EXCEPT !.arrays[i] = SubSeq(@, 1, n), !.cut = i, !.next = n]

\* The answer with n items of array i, marked as cut.
Build(r, i, n) ==
    [r EXCEPT !.arrays[i] = SubSeq(@, 1, n), !.cut = i, !.next = r.offset + n]

\* The bounds the binary search goes on with; they are a pair, low and high.
Narrow(fits, bounds) ==
    LET mid == bounds[1] + (bounds[2] - bounds[1] + 1) \div 2
    IN IF mid \in fits THEN <<mid, bounds[2]>> ELSE <<bounds[1], mid - 1>>

\* Mutant: the search ends when two lengths are left.
SearchShort(fits, top) ==
    LET From[bounds \in (0 .. top) \X (0 .. top)] ==
            IF bounds[1] + 1 >= bounds[2] THEN bounds[1] ELSE From[Narrow(fits, bounds)]
    IN From

\* What it finds from all bounds: the greatest of 0 .. top that fits.
Search(fits, top) ==
    LET From[bounds \in (0 .. top) \X (0 .. top)] ==
            IF bounds[1] >= bounds[2] THEN bounds[1] ELSE From[Narrow(fits, bounds)]
    IN From

\* The prefix of array i to show.
Bisect(r, i) ==
    LET top == Len(r.arrays[i])
        fits == {n \in 0 .. top : Rendered(Build(r, i, n)) <= Budget}
    IN Search(fits, top)[<<0, top>>]

\* shrink_largest_array
Shrink(r) ==
    IF Rendered(r) <= Budget THEN r
    ELSE Build(r, Longest(r), Bisect(r, Longest(r)))

-----------------------------------------------------------------------------
(* The walk                                                                 *)

\* Places of the items an answer shows.
Shown(r) == {r.offset + m : m \in DOMAIN r.arrays[Paged(tool)]}

\* The legs and the page; one leg may break, and all refused is an error.
Gather ==
    /\ pc = "asking"
    /\ \/ refused # Legs(tool) /\ report' = Gathered /\ pc' = "gathered"
       \/ UNCHANGED report /\ pc' = "failed"
    /\ UNCHANGED <<call, held, cursor, answer, seen, astray, drifts>>

\* The handlers.
QueryStats == tool = "query_stats" /\ Gather
SiteHealthReport == tool = "site_health_report" /\ Gather
TopologyReport == tool = "topology_report" /\ Gather
TrafficFlowReport == tool = "traffic_flow_report" /\ Gather
Handle == QueryStats \/ SiteHealthReport \/ TopologyReport \/ TrafficFlowReport

\* json_tool_result; tool_result has the last word.
Answer ==
    /\ pc = "gathered"
    /\ answer' = Shrink(report)
    /\ \/ /\ Rendered(answer') <= MaxBytes
          /\ seen' = seen \cup Shown(answer')
          /\ astray' = (astray \/ answer'.cut \notin {0, Paged(tool)})
          /\ pc' = "answered"
       \/ Rendered(answer') > MaxBytes /\ pc' = "failed" /\ UNCHANGED <<seen, astray>>
    /\ UNCHANGED <<call, held, cursor, report, drifts>>

\* The caller goes on from next_offset, or by the page it asked for.
Follow ==
    /\ pc = "answered"
    /\ cursor' = IF answer.cut # 0 THEN answer.next ELSE cursor + limit
    /\ pc' = IF cursor' >= answer.total THEN "done" ELSE "asking"
    /\ UNCHANGED <<call, held, report, answer, seen, astray, drifts>>

\* The site changes between two calls; the paged collection only grows.
Drift ==
    /\ pc = "asking" /\ drifts < MaxDrifts /\ drifts' = drifts + 1
    /\ held' \in {h \in Holdings[tool] :
                    /\ Len(held.items) <= Len(h.items)
                    /\ SubSeq(h.items, 1, Len(held.items)) = held.items}
    /\ UNCHANGED <<call, cursor, report, answer, pc, seen, astray>>

Next == Handle \/ Answer \/ Follow \/ Drift

Spec == Init /\ [][Next]_vars
FairSpec == Spec /\ WF_vars(Handle) /\ WF_vars(Answer) /\ WF_vars(Follow)

-----------------------------------------------------------------------------
\* An answer is shortened by as few items as can be: the search of
\* shrink_largest_array finds the longest prefix that fits, as its comment says,
\* or shows none.
LargestPrefix ==
    pc = "answered" /\ answer.cut # 0 =>
        LET shown == Len(answer.arrays[answer.cut])
        IN /\ Rendered(answer) <= Budget \/ shown = 0
           /\ \A n \in shown + 1 .. Len(report.arrays[answer.cut]) :
                  Rendered(Build(report, answer.cut, n)) > Budget

SeenAll == pc = "done" => 1 .. report.total \subseteq seen

\* A caller that follows next_offset, and limit where there is none, misses
\* nothing of what the server fetched, as long as it is the paged array that had to
\* be cut -- and nothing of what the controller holds, unless a report's items fill
\* more than one page of the Integration API: what is behind that page is never
\* shown, and total does not count it.
WalkSeesAll ==
    pc = "done" /\ ~astray =>
        /\ 1 .. report.total \subseteq seen
        /\ ~(Supported /\ UpstreamPage < Len(held.items))
             => 1 .. Len(held.items) \subseteq seen

\* The same of every answer: "next_offset names the correct cursor for the next
\* call" (server/mod.rs:115).
NextOffsetIsCursor == SeenAll

\* Each item of the page fits with everything that is not paged.
Deliverable ==
    \A m \in DOMAIN report.arrays[Paged(tool)] :
        Rendered([report EXCEPT !.arrays[Paged(tool)] = <<@[m]>>, !.cut = Paged(tool)]) <= Budget

\* Each answer takes the caller on, or ends the walk: a page is never cut to nothing
\* while an item of it would fit.
WalkAdvances ==
    [][Follow /\ ~astray /\ Deliverable => cursor' > cursor \/ pc' = "done"]_vars

\* The walk comes to an end: a cut page moves the cursor on as long as an item
\* fits at all and it is the paged array that is cut.
WalkEnds == <>(pc \in {"done", "failed"} \/ astray \/ (pc = "gathered" /\ ~Deliverable))
=============================================================================
