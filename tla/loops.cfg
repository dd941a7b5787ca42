\* Every mode at once: any start, spurious wakeups, a debug build.
\* A panic of the main thread ends the process, and a mutator may wait for
\* the lock it holds: no deadlock check.
SPECIFICATION LoopSpec
CONSTANTS
    Main = main
    Thread = {main, t1}
    Threshold = 2
    CounterMod = 8
    MaxBatch = 2
    MaxLive = 3
    ColdStart = TRUE
    SpuriousWakeups = TRUE
    OverflowChecks = TRUE
INVARIANT
    IInv
PROPERTIES
    ImplementsBarrier
    ServedUnlessLooping
CHECK_DEADLOCK FALSE
