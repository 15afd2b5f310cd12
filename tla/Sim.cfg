SPECIFICATION SimSpec
CONSTANTS
  a = a
  o = o
  tq = tq
  ga = ga
  gb = gb
  gy = gy
  hz = hz
  hw = hw
  sd = sd
  sq = sq
  na = na
  nt = nt
  ny = ny
  nw = nw
  vdd = vdd
  top = top
  tie = tie
  gate = gate
  inverter = inverter
  reg = reg
  Pins = {a, o, tq, ga, gb, gy, hz, hw, sd, sq}
  Nets = {na, nt, ny, nw, vdd}
  Instances = {top, tie, gate, inverter, reg}
  Top = top
  Parent <- MCParent
  InstanceOf <- MCInstanceOf
  Leaves = {tie, gate, inverter, reg}
  Outputs = {o, tq, gy, hw, sq}
  NoNet = NoNet
  LinkedNet <- MCLinkedNet
  LinkedTerm <- MCLinkedTerm
  ConstantNets <- MCConstantNets
  SpareInstances = {reg}
  SpareNets = {}
  PortOf <- MCPortOf
  LinkedCell <- MCLinkedCell
  Cells = {"tie1", "and", "or", "inv", "dff"}
  Sequentials = {"dff"}
  Function <- MCFunction
  Edits <- MCEdits
  Commands <- MCCommands
  MaxEdits = 4
CHECK_DEADLOCK FALSE
INVARIANTS TypeOK ConstantsCurrent ArcsDisabled
PROPERTIES PropagationEnds
