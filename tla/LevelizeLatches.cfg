SPECIFICATION FairSpec
CONSTANTS
  p = p
  a = a
  b = b
  c = c
  d = d
  e = e
  Vertices <- Gate
  Loads <- LatchLoads
  Instance <- LatchOf
  Wires <- LatchWires
  Gates <- LatchGates
  LatchEdges <- LatchDtoQ
  Constants = {}
  LevelSpace = 2
  MaxEdits = 1
  NewArcs = FALSE
  SimEdits = TRUE
CHECK_DEADLOCK FALSE
INVARIANTS LatchLevelsDiffer
PROPERTIES LevelizationEnds
