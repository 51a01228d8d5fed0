SPECIFICATION MCSpec
CONSTANTS
    Files = {"m", "a", "b", "c", "d", "v"}
    Texts <- MCTexts
    MasterFile = "m"
    SimulFile = "d"
    Loadable = {"a", "v"}
    Names = {"root", "wiz"}
    NoName = "none"
    BackboneUid = "wiz"
    MaxObjects = 4
    MaxDepth = 2
    NullProgram <- NoProgram
    NoSource <- Absent
    Compile <- CompileFile
    Inherited <- SearchInheritedProgram
    Slots <- SlotsOf
    Base <- BaseOf
INVARIANTS BlueprintsKept
CHECK_DEADLOCK FALSE
