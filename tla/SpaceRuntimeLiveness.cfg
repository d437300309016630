CONSTANTS
    Ops = {o1, o2}
    Admins = {a1, a2}
    None = none
    MaxWaiting = 1
    MaxCalls = 1
    MaxShutdowns = 1
SPECIFICATION FairSpec
PROPERTY ShutdownTerminates
CHECK_DEADLOCK FALSE
