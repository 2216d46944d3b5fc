\* Two-person mode with a state file: crashes, store failures, racing calls,
\* scopes that change under them.
CONSTANTS
    alice = alice  bob = bob  eve = eve  home = home
    p1 = p1  p2 = p2  k1 = k1  k2 = k2
    None = None  Forgotten = Forgotten
    Principals = {alice, bob, eve}
    Controllers = {home}
    Plans = {p1}
    Calls = {k1, k2}
    Grants <- TwoPersonGrants
    LabMode = FALSE
    StateFile = TRUE
    StoreMayFail = TRUE
    ApprovalTtl = 1
    MaxDrafts = 1
    MaxMinted = 2
    MaxClock = 1
    MaxRestarts = 1
    MaxReloads = 1
SPECIFICATION Spec
SYMMETRY CallSymmetry
INVARIANTS TwoPersonControl ApprovalSpentOnce AdmittedWithinWindow NoFalseAttestation DraftsBounded
PROPERTIES OrphansExplained ImplementsChangeSet
CHECK_DEADLOCK FALSE
