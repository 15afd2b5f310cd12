SPECIFICATION Spec
CONSTANTS
  a = a
  b = b
  c = c
  d = d
  Null = Null
  Vertices <- Four
  Thru <- Diamond
  From <- Four
  To <- Four
  Starts <- Inputs
  Reseeds <- RefPin
  LevelMaps <- DiamondLevels
  MaxLevel = 3
  ThreadCount = 2
  Backward = FALSE
  MaxEntries = 2
INVARIANTS TypeOK FlagMeansQueued NoDanglingEntry SourcesSettled VisitedOnce ChangesPropagate
