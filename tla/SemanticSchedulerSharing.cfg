CONSTANTS
    Owners = {1, 2}
    Paths = {p1}
    NoOwner = none
    NoPath = none
    GlobalLimit = 1
    SpaceLimit = 1
SPECIFICATION UnwatchedSpec
PROPERTIES
    ServedInTurn
    WorkerProgresses
