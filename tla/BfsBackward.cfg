SPECIFICATION FairSpec
CONSTANTS
  a = a
  b = b
  c = c
  d = d
  Null = Null
  Vertices <- Three
  Thru <- Net
  From <- Three
  To <- Three
  Starts <- Endpoints
  Reseeds = {}
  LevelMaps <- NetLevels
  MaxLevel = 2
  ThreadCount = 2
  Backward = TRUE
  MaxEntries = 2
PROPERTIES Drained CallReturns
