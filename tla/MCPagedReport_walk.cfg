\* Every tool, private surfaces allowed or not, collections of up to five items that
\* grow past the page of four the Integration API returns.
CONSTANTS
    Tools = {"query_stats", "site_health_report", "topology_report", "traffic_flow_report"}
    Holdings <- Sites
    Limits = {1, 2, 4}
    Budget = 12
    MaxBytes = 14
    Frame = 2
    Marker = 1
    UpstreamPage = 4
    MaxDrifts = 1
SPECIFICATION FairSpec
INVARIANTS LargestPrefix WalkSeesAll
PROPERTY WalkEnds
CHECK_DEADLOCK FALSE
