\* The topology report cuts its edges and moves the cursor over devices.
CONSTANTS
    Tools = {"topology_report"}
    Holdings <- Sites
    Limits = {1, 2, 4}
    Budget = 12
    MaxBytes = 14
    Frame = 2
    Marker = 1
    UpstreamPage = 4
    MaxDrifts = 0
SPECIFICATION Spec
INVARIANT NextOffsetIsCursor
CHECK_DEADLOCK FALSE
