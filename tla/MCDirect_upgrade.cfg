\* Another build is queued between the look and the command.
CONSTANTS
    home = home  lab = lab  alice = alice  bob = bob
    e1 = e1  e2 = e2  s1 = s1  s2 = s2  k1 = k1  k2 = k2
    sw = sw  m1 = m1  b1 = b1  b2 = b2
    None = None  Malformed = Malformed
    Calls = {k1}
    Tokens = {alice}
    Names = {home}
    Endpoints = {e1, e2}
    Sites = {s1, s2}
    Grants <- Scopes
    Configs <- Entries
    Inventories <- OneController
    TokenFiles <- OneToken
    Requests <- Upgrades
    Units = {sw}
    Home <- AtHome
    Models = {m1}
    Builds = {b1, b2}
    Fleets <- Both
    MaxChanges = 1
SPECIFICATION Spec
INVARIANT InstallsNamedBuild
CHECK_DEADLOCK FALSE
