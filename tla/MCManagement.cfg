SPECIFICATION Spec
CONSTANTS
    a1 = a1
    a2 = a2
    GVValue = {g1, g2}
    PRepValue = {p1, p2}
    None = None
    Address = {a1, a2}
    Registered <- MCRegistered
    Unregistered <- MCUnregistered
    Term = 3
    GVBlocks = {0, 2, 3, 5}
    PRepBlocks <- MCPRepBlocks
    MaxHeight = 9
    MaxCrashes = 2
SYMMETRY MCSymmetry
INVARIANTS
    ManagementTypeOK
    GVInForce
    PRepRewardOnce
    MemoryIsDB
    
