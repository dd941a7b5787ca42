\* A file is rejected, or a run ends: no deadlock check.
SPECIFICATION Spec
CONSTANTS
    IndexMod = 13
    OverflowChecks = TRUE
    Base = 16
    Files <- MCFiles
    Codes <- MCCodes
CHECK_DEADLOCK FALSE
INVARIANTS
    ConstantsAtTheirIndices
    WellFormedDecodes
    SlotsAsDeclared
    WellFormedLinks
    NoLookupPanics
    InStep
    ConstantsMeanTheSame
