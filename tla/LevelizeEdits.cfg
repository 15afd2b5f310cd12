SPECIFICATION Spec
CONSTANTS
  p = p
  a = a
  b = b
  c = c
  d = d
  e = e
  Vertices <- Gate
  Loads <- GateLoads
  Instance <- GateOf
  Wires <- GateWires
  Gates <- GateGates
  LatchEdges = {}
  Constants = {}
  LevelSpace = 2
  MaxEdits = 2
  NewArcs = FALSE
  SimEdits = FALSE
CHECK_DEADLOCK FALSE
INVARIANTS TypeOK LevelsOrdered OnlyLoopsBroken RootsComplete
