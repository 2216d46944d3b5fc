\* Every plan of up to three mutations, any failure: alone, next to one edit by
\* others if it has up to two, and a few plans next to a second apply.
CONSTANTS
    a = a  b = b  n1 = n1  n2 = n2  r1 = r1  r2 = r2
    Existing = {a, b}
    Fresh = {1, 2, 3, 4}
    Names = {n1, n2}
    Rests = {r1, r2}
    Unset = Unset
    Absent = Absent
    Plans <- AllPlans
    Pairs <- AllPairs
    Apart <- Alone
    MaxDrifts <- FewEdits
SPECIFICATION SpecBoth
INVARIANTS RollbackRestores AppliedMeansAll StalePlanWritesNothing
PROPERTIES ApplyReturns ApplyAdvances Footprint Isolation
CHECK_DEADLOCK FALSE
