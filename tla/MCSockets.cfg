SPECIFICATION MCSpec
CONSTANTS
  Objects = {o1, o2}
  NoObject = NoObject
  Modes = {"mud", "datagram"}
  MaxHandle = 2
  MaxUnits = 3
  MaxDepth = 2
SYMMETRY MCSymmetry
CHECK_DEADLOCK FALSE
INVARIANTS NoOrphans ToldOfCloseOnce StreamInOrder RestIsWatched OffersEnd
PROPERTY HandedOver
