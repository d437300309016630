CONSTANTS
    Ops = {o1, o2, o3}
    Admins = {a1, a2}
    None = none
    MaxWaiting = 1
    MaxCalls = 1
    MaxShutdowns = 1
    Workflows = {w1}
    Missing = Missing
    MaxUserEdits = 1
    MaxWorkflowCalls = 5
    MaxStartups = 2
    Threads = {"t1", "t2"}
    Clients = {"c1", "c2"}
    Requests = 2
    WindowSeconds = 2
    MaxClients = 1
    LastSecond = 3
    MaxChecks = 4
SPECIFICATION OperationsSpec
INVARIANTS
    ShutsDownSafely
    CommittedIsReported
    PromotedAsDecided
    SpacesApart
    RateHolds
SYMMETRY ThreadSymmetry
\* Every thread has returned, or every bound is used up.
CHECK_DEADLOCK FALSE
