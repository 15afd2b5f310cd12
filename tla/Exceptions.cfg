SPECIFICATION Spec
CONSTANTS
  a = a
  b = b
  x = x
  y = y
  c = c
  net = net
  Pins = {a, b, x, y}
  Clocks = {c}
  Nets = {net}
  Internal = {a, x}
  Id <- MCId
  None = None
  Commands <- MCCommands
  MaxCommands = 3
  MaxPaths = 12
CHECK_DEADLOCK FALSE
INVARIANTS MeaningKept FirstPointsIndexed InternalPointsKept
PROPERTIES CommandEnds
