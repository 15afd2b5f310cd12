SPECIFICATION Spec
CONSTANTS
  a = a
  b = b
  c = c
  p = p
  q = q
  WidePeriod = 5
  Names = {a, b, c}
  Pins = {p, q}
  Upstream <- Reach
  ClockArgs <- Clocked
  GeneratedArgs <- Derive
  Cost <- CostOf
  Budget = 4
  MaxAcctings = 1
  NoClock = NoClock
  Freed = Freed
  FreedWaves <- Leftovers
  SlowTargetCycles = 3
  FastTargetCycles = 4
  Unlimited = 1000
CHECK_DEADLOCK FALSE
INVARIANTS TypeOK AcctingsRight WaveformsFollow
PROPERTIES UpdateCompletes
