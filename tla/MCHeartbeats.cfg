SPECIFICATION FairSpec
CONSTANTS
    a = a
    b = b
    Objects = {a, b}
    NoObject = NoObject
    GiverOf <- MCGiverOf
    IntHalf = 4
    Arguments <- InRange
INVARIANTS
    CadenceKept
    GiverBalanced
PROPERTIES
    KeepsBeating
