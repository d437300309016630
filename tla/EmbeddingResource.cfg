CONSTANTS
    Threads = {t1, t2, t3}
    NoThread = none
    MaxReleases = 3
SPECIFICATION FairSpec
INVARIANT GenerationsSeparated
PROPERTY DrainTerminates
