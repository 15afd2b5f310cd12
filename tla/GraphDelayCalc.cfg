SPECIFICATION Spec
CONSTANTS
  port = port
  bufIn = bufIn
  bufOut = bufOut
  first = first
  second = second
  gateOut = gateOut
  clkPin = clkPin
  dataPin = dataPin
  net1 = net1
  net2 = net2
  net3 = net3
  None = None
  Lost = Lost
  Ports = {port}
  Outputs = {bufOut, gateOut}
  Loads = {bufIn, first, second, clkPin, dataPin}
  Arcs <- GateArcs
  Checks <- SetupChecks
  Nets = {net1, net2, net3}
  NetOf <- StartNet
  Movable = {bufOut, dataPin}
  Annotatable = {second}
  ArcDelay <- Early
  MaxEdits = 2
INVARIANTS TypeOK AnswersRight
PROPERTIES SearchReturns
