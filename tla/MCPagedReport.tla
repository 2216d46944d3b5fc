--------------------------- MODULE MCPagedReport ---------------------------
(* Instances of PagedReport for TLC. *)
EXTENDS PagedReport, TLC

\* Devices, clients and statistics: small, large when joined, too large alone.
Small == [own |-> 1, stats |-> 1]
Large == [own |-> 2, stats |-> 3]
Huge == [own |-> 9, stats |-> 9]

Items == UNION {[1 .. m -> {Small, Large}] : m \in 0 .. 5}
           \cup {<<Small, Huge, Small>>, <<Huge>>}
Ones(m) == [i \in 1 .. m |-> 1]

Hold(sets) == [items : Items, others : sets]

Sites ==
    [query_stats |-> Hold({[none |-> <<>>]}),
     site_health_report |-> Hold({[health |-> Ones(m)] : m \in {0, 2}}),
     topology_report |-> Hold({[edges |-> Ones(m), networks |-> Ones(1)] : m \in {0, 3, 7}}),
     traffic_flow_report |-> Hold({[top_applications |-> Ones(m)] : m \in {0, 1, 3}})]
=============================================================================
