\* Lab mode, nothing fails: waivers, an agent and a human as approvers, two rival
\* plans for one draft; every call returns, every claim settles.
CONSTANTS
    alice = alice  bob = bob  eve = eve  home = home
    p1 = p1  p2 = p2  k1 = k1  k2 = k2
    None = None  Forgotten = Forgotten
    Principals = {alice, bob, eve}
    Controllers = {home}
    Plans = {p1, p2}
    Calls = {k1, k2}
    Grants <- LabGrants
    LabMode = TRUE
    StateFile = FALSE
    StoreMayFail = FALSE
    ApprovalTtl = 2
    MaxDrafts = 1
    MaxMinted = 1
    MaxClock = 2
    MaxRestarts = 0
    MaxReloads = 0
SPECIFICATION FairSpec
INVARIANTS TwoPersonControl
PROPERTIES RecordsFrozen CallsReturn ClaimsSettle
CHECK_DEADLOCK FALSE
