SPECIFICATION Spec
CONSTANTS
    Method = {init, run, close}
    Ctor = init
    Field = {size, data}
    MaxChain = 2
    MaxMembers = 2
SYMMETRY Symmetry
INVARIANTS
    IdsFindMethods
    SelectsNearest
    ObjectLayout
    RightFieldAtRoot
