------------------------------ MODULE MCDirect ------------------------------
(* Instances of DirectActions for TLC. *)
EXTENDS DirectActions, TLC

CONSTANTS home, lab, alice, bob, e1, e2, s1, s2, k1, k2, sw, m1, b1, b2

Entry(endpoint, site, private, sound) ==
    [endpoint |-> endpoint, site |-> site, private |-> private, sound |-> sound]

\* The controller as installed, the same moved to another site, moved to another
\* address without the private surface, and a second one that has no credential.
Installed == Entry(e1, s1, TRUE, TRUE)
Moved == Entry(e1, s2, TRUE, TRUE)
Rehosted == Entry(e2, s1, FALSE, TRUE)
Broken == Entry(e2, s2, TRUE, FALSE)

Entries == {Installed, Moved, Rehosted, Broken}
OneController == {home :> Installed, home :> Moved, home :> Rehosted}
TwoControllers ==
    {(home :> Installed) @@ (lab :> None), (home :> Moved) @@ (lab :> Broken),
     (home :> Moved) @@ (lab :> Rehosted)}

Scope(sites) == [tools |-> Tools, controllers |-> Names, sites |-> sites]
Wide == Scope(Sites)
Narrow == Scope({s1})
Scopes == {Wide, Narrow}
OneToken == {alice :> Narrow, alice :> None}

Ask(op, site, u, expects) ==
    [op |-> op, name |-> home, site |-> site, unit |-> u, expects |-> expects]

\* One command of each tool: one that looks first and names its site, one on the
\* default site, one that is neither gated nor on the default site.
Commands ==
    {Ask("upgrade", s1, sw, b2), Ask("block", None, sw, None),
     Ask("trigger", s2, sw, None)}

Upgrades == {Ask("upgrade", None, sw, b2), Ask("adopt", None, sw, m1),
             Ask("port_action", None, sw, None)}

AtHome == sw :> <<e1, s1>>

Managed == [adopted |-> TRUE, pending |-> FALSE, model |-> m1, running |-> b1,
            queued |-> b2, poe |-> TRUE, blocked |-> FALSE]
Waiting == [Managed EXCEPT !.adopted = FALSE, !.pending = TRUE, !.queued = None]
Both == {sw :> Managed, sw :> Waiting}
OnlyManaged == {sw :> Managed}
=============================================================================
