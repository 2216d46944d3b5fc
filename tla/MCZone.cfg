\* Every plan of up to three mutations over two policies and two zones.
CONSTANTS
    z1 = z1  z2 = z2  z3 = z3  x1 = x1  x2 = x2  x3 = x3  p1 = p1  p2 = p2
    None = None  Keep = Keep
    Zones = {z1, z2, z3}
    Policies = {p1, p2}
    ExternalIds = {x1, x2, x3}
    ExternalOf <- Externals
    Plans <- SomePlans
    Starts <- Controllers
    PageSize = 2
    MaxDrifts <- EditsPerPlan
SPECIFICATION Spec
INVARIANTS ValidSetRuns RefusedSetFails
CHECK_DEADLOCK FALSE
