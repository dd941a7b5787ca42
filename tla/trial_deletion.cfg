SPECIFICATION Spec
CONSTANTS
    Object = {o1, o2, o3, o4}
    Null = Null
    Width = 2
    MaxRoots = 1
    MaxRefs = 3
SYMMETRY Symmetry
INVARIANTS
    GcRefsExact
    StrongExact
    NoDropUnderLock
PROPERTIES
    Descends
    ImplementsCollection
