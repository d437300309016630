CONSTANTS
    Paths = {p1, p2}
    Debounce = 1
    MaxTime = 2
    MaxChanges = 3
SPECIFICATION FairSpec
INVARIANT ChangesAccounted
PROPERTY AcceptedIsDispatched
\* The application may be down, or idle at the end of the clock.
CHECK_DEADLOCK FALSE
