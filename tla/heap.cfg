SPECIFICATION Spec
CONSTANTS
    Thread = {main, t1}
    Object = {o1, o2}
    Null = Null
    Static = Static
    MaxHeld = 2
    RaceFree = TRUE
SYMMETRY Symmetry
INVARIANTS
    StrongExact
    NoUseAfterFree
    TakeSucceeds
