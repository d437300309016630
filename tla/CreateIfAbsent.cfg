CONSTANTS
    w1 = w1
    w2 = w2
    b1 = b1
    b2 = b2
    Calls <- MCCalls
    PayloadOf <- Different
    Other = other
    Partial = partial
    NoCall = none
    NoFile = nofile
    Foreign = foreign
    MaxTries = 2
    MaxEdits = 1
    MaxCrashes = 1
SPECIFICATION FairSpec
INVARIANT AnswersHonest
PROPERTIES
    NeverReplaces
    EveryCallReturns
\* Every request has been made as often as it is ever made.
CHECK_DEADLOCK FALSE
