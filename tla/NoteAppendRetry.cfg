CONSTANTS
    Calls = {c1, c2}
    Promotions = {}
    DedupeKeys = {k2}
    NoCall = none
    NoFile = nofile
    MaxTries = 2
    MaxEdits = 0
    MaxFailures = 1
SPECIFICATION AppendSpec
INVARIANT AppendedAtMostOnce
SYMMETRY CallSymmetry
\* Every request has been made as often as it is ever made.
CHECK_DEADLOCK FALSE
