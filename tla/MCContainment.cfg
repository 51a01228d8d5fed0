SPECIFICATION MCSpec
CONSTANTS
  Objects = {o1, o2, o3}
  Spare = o3
  NoObject = NoObject
  SetEnvironment = TRUE
  Throws = TRUE
  Enables = {o1}
  Verbs = {o1}
  MaxDepth = 3
CHECK_DEADLOCK FALSE
INVARIANT LinksAgree
INVARIANT EveryoneIntroduced
