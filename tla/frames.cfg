\* The outermost method returns: no deadlock check.
SPECIFICATION Spec
CONSTANTS
    Value = {v1}
    Null = Null
    MaxStack = 4
    MaxLocals = 2
    MaxDepth = 2
CHECK_DEADLOCK FALSE
PROPERTY
    ImplementsFrames
