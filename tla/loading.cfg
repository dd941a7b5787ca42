\* A thread that failed has ended: no deadlock check.
SPECIFICATION FairSpec
CONSTANTS
    Thread = {main, t1}
    Class = {k1, k2}
    Object = Object
    NoClinit = NoClinit
    MaxNeeds = 2
    MaxBad = 1
CHECK_DEADLOCK FALSE
INVARIANTS
    LoadedOnce
    SupersFirst
    OneInitialiser
    FailuresContained
PROPERTY
    LoadingEnds
