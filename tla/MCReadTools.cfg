\* Searches, lists, reports and status calls while the controller changes once and
\* the clients are rebuilt once.
CONSTANTS
    k1 = k1  k2 = k2  n1 = n1  z1 = z1  z2 = z2
    Calls = {k1, k2}
    Requests <- Asked
    Holdings <- Contents
    Firewalls <- Walls
    Worlds <- Starts
    Networks = {n1}
    Zones = {z1, z2}
    Page = 2
    Cap = 4
    MaxChanges = 1
    MaxRebuilds = 1
    None = None
SPECIFICATION FairSpec
INVARIANTS SearchSeesAll PageIsWindow NothingOlderThanReload CorrelationExact
PROPERTY CallsReturn
CHECK_DEADLOCK FALSE
