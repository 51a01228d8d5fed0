\* Two objects, three call_outs: enough for one body to run, one to wait in the
\* same sweep and one to be added meanwhile.
CONSTANTS
    Objects = {a, b}
    Fns = {tick}
    MaxDelay = 1
    MaxHandle = 3
    MaxTime = 2
SPECIFICATION FairSpec
INVARIANTS OneFate
PROPERTIES NoOvertaking ImplementsContract EveryCallOutEnds
