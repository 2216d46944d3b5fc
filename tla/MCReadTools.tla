----------------------------- MODULE MCReadTools -----------------------------
(* Instances of ReadTools for TLC. *)
EXTENDS ReadTools, TLC

CONSTANTS k1, k2, n1, z1, z2

\* Collections of up to five members: a page is two, the cap two pages.
Contents ==
    {<<>>, <<FALSE, FALSE, TRUE>>, <<FALSE, FALSE, TRUE, FALSE, TRUE>>}

Rule(source, destination, enabled) ==
    [source |-> source, destination |-> destination, enabled |-> enabled]
Rules == {Rule(z1, z2, TRUE), Rule(z2, z1, TRUE), Rule(z1, z1, FALSE)}

\* The client in one zone, not known.
InZone == [known |-> TRUE, network |-> n1, policies |-> Rules,
           zones |-> (z1 :> {n1}) @@ (z2 :> {})]
Walls == {InZone, [InZone EXCEPT !.known = FALSE, !.network = None]}

Start(stations, devices, groups, wall) ==
    [held |-> [c \in Collections |-> IF c = "clients" THEN stations
                                     ELSE IF c = "devices" THEN devices ELSE groups],
     firewall |-> wall]

Ask(op, of, named, from, size) ==
    [op |-> op, of |-> of, named |-> named, from |-> from, size |-> size]

\* Any tool, beside a call that only fills and reads the caches.
Asked ==
    (k1 :> {Ask("search", "clients", FALSE, 0, 2), Ask("list", "devices", FALSE, 1, 2),
            Ask("get", "groups", FALSE, 3, 1), Ask("sites", "clients", FALSE, 0, 1),
            Ask("troubleshoot", "clients", FALSE, 0, 1)})
    @@ (k2 :> {Ask("status", "clients", FALSE, 0, 1), Ask("get", "devices", FALSE, 3, 1)})

Starts == {Start(<<FALSE, FALSE, TRUE>>, <<FALSE, FALSE, TRUE, FALSE, TRUE>>, <<>>, InZone)}
=============================================================================
