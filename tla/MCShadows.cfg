SPECIFICATION MCSpec
CONSTANTS
    Objects = {o1, o2, o3, o4}
    Spare = o4
    NoObject = NoObject
    InAsk = {"unlink", "reload", "free"}
    InDestruct = {"shadow", "destruct", "unlink", "reload", "free"}
    MaxDepth = 4
SYMMETRY Symmetry
INVARIANTS
    LinksMirror
    ChainsEnd
    DestructComplete
    NoGhostCalls
CHECK_DEADLOCK FALSE
