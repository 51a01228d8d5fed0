SPECIFICATION MCFairSpec
CONSTANTS
    a = a
    b = b
    Spare = o3
    Objects = {a, b, o3}
    Conns = {c1, c2}
    NoObject = NoObject
    NoConn = NoConn
    MaxConnections = 2
    MaxLines = 1
    Cascade <- Together
INVARIANTS NoDangling SessionsAnswer SnoopPaired SnoopEnds
PROPERTIES NetDeadOnce LostIsReleased
