SPECIFICATION MCSpec
CONSTANTS
    Objects = {o1, o2, o3, o4}
    Spare = o4
    NoObject = NoObject
    InAsk = {"shadow"}
    InDestruct = {}
    MaxDepth = 2
SYMMETRY Symmetry
INVARIANTS
    ChainsEnd
CHECK_DEADLOCK FALSE
