CONSTANTS
    Paths = {p1, p2}
    MaxVersion = 2
    MaxRestarts = 1
SPECIFICATION FairSpec
INVARIANT WritesAccounted
PROPERTIES
    IndexPromise
    Converges
    ComesToRest
\* A stopped process with no restart left has nothing to do.
CHECK_DEADLOCK FALSE
