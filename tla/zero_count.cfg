SPECIFICATION Spec
CONSTANTS
    MaxDimensions = 3
    MaxCount = 2
    Negative = Negative
    Missing = Missing
    BadCounts = {}
    IntMod = 16
    OverflowChecks = FALSE
CHECK_DEADLOCK FALSE
INVARIANT
    NeverRelocked
