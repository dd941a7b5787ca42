\* The allocation returns, fails, or waits for itself: no deadlock check.
SPECIFICATION Spec
CONSTANTS
    MaxDimensions = 4
    MaxCount = 3
    Negative = Negative
    Missing = Missing
    BadCounts = {Negative, Missing}
    IntMod = 8
    OverflowChecks = FALSE
CHECK_DEADLOCK FALSE
INVARIANTS
    ShapeRight
    StrongExact
    ComponentsDistinct
    TwoDimensionsAreSafe
    IndexInBounds
