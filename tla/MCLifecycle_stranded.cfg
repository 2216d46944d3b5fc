\* A create that raced a stage leaves its owner a draft beside a pending set.
CONSTANTS
    alice = alice  bob = bob  eve = eve  home = home
    p1 = p1  p2 = p2  k1 = k1  k2 = k2
    None = None  Forgotten = Forgotten
    Principals = {alice}
    Controllers = {home}
    Plans = {p1}
    Calls = {k1, k2}
    Grants <- SoloGrants
    LabMode = FALSE
    StateFile = TRUE
    StoreMayFail = FALSE
    ApprovalTtl = 2
    MaxDrafts = 1
    MaxMinted = 2
    MaxClock = 1
    MaxRestarts = 0
    MaxReloads = 0
SPECIFICATION Spec
INVARIANT NoStrandedDraft
CHECK_DEADLOCK FALSE
