CONSTANTS
    None = None
    SlotWidth = 8
    MaxEvalCost = 600
    Worlds <- MCWorlds
    Compile <- CompileAll
    Scanned <- RunSscanf
    Meant <- MCMeant
    SameValue <- MCSameValue
SPECIFICATION Spec
INVARIANT CompiledMeansSource
PROPERTY Terminates
