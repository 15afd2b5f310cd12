SPECIFICATION Spec
CONSTANTS
  d = d
  e = e
  o = o
  None = None
  Vertices = {d, e, o}
  Ports = {o}
  Level <- LevelOf
  Arrivals = {0, 2}
  Limits = {0, 1}
  Inf = 9
  MinQueueSize = 1
  MaxQueueSize = 3
  Edits = {"upstream", "limit", "removeDelay", "connect", "disconnect",
           "delete", "relevelize", "constraints", "checks", "requireds"}
  MaxEdits = 2
INVARIANTS TypeOK TnsCurrent WorstIsLeast RequiredsKnown
