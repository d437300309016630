CONSTANTS
    Owners = {1}
    Paths = {p1, p2, p3}
    NoOwner = none
    NoPath = none
    GlobalLimit = 2
    SpaceLimit = 2
SPECIFICATION Spec
INVARIANTS
    Accounted
    NothingForgotten
SYMMETRY PathSymmetry
