\* Two objects, the second without a reset() and with a create() that may throw.
SPECIFICATION FairSpec
CONSTANTS
    Objects = {a, b}
    WithReset = {a}
    Failing = {b}
    DelayMin = 1
    DelayMax = 1
    IdleLimit = 2
    Never = Never
    NoTurn = NoTurn
PROPERTIES ResetsEarned CleansOnlyUnused EveryIdleAsked UsedKeepsResetting
