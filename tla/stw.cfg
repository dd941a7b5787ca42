\* Three mutators, a collector that already waits, a release build.
\* A panic of the main thread ends the process, and a mutator may wait for
\* the lock it holds: no deadlock check.
SPECIFICATION FairSpec
CONSTANTS
    Main = main
    Thread = {main, t1, t2}
    Threshold = 2
    CounterMod = 8
    MaxBatch = 2
    MaxLive = 4
    ColdStart = FALSE
    SpuriousWakeups = FALSE
    OverflowChecks = FALSE
INVARIANTS
    CountsAgree
    WorldStopped
    ArmedSeesStop
    NoMissedSignal
PROPERTIES
    GCAssertion
    NoLostWakeup
CHECK_DEADLOCK FALSE
