\* A mutator may panic or wait for the lock it holds: no deadlock check.
SPECIFICATION Spec
CONSTANTS
    Main = main
    Thread = {main}
    Threshold = 2
    CounterMod = 8
    MaxBatch = 1
    MaxLive = 3
    ColdStart = TRUE
    SpuriousWakeups = FALSE
    OverflowChecks = FALSE
PROPERTY
    GCAssertion
CHECK_DEADLOCK FALSE
