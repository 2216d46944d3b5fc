\* verify_applied against the documentation of ControllerOps.
CONSTANTS
    a = a  b = b  n1 = n1  n2 = n2  r1 = r1  r2 = r2
    Existing = {a, b}
    Fresh = {1, 2, 3, 4}
    Names = {n1, n2}
    Rests = {r1, r2}
    Unset = Unset
    Absent = Absent
    Plans <- AllPlans
    Pairs <- UpdateAlone
    Apart <- UpdateAlone
    MaxDrifts <- OneEdit
SPECIFICATION SpecBoth
PROPERTY VerifiedMatchesBody
CHECK_DEADLOCK FALSE
