SPECIFICATION Spec
CONSTANTS
    Method = {init}
    Ctor = init
    Field = {size, data}
    MaxChain = 2
    MaxMembers = 1
INVARIANT
    RightField
