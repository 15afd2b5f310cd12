SPECIFICATION Spec
CONSTANTS
  a = a
  o = o
  bi = bi
  x1 = x1
  y1 = y1
  x2 = x2
  y2 = y2
  x3 = x3
  z = z
  w = w
  net1 = net1
  net2 = net2
  net3 = net3
  inner = inner
  tied = tied
  top = top
  block = block
  u1 = u1
  u2 = u2
  u3 = u3
  v = v
  Pins = {a, o, bi, x1, y1, x2, y2, x3, z, w}
  Nets = {net1, net2, net3, inner, tied}
  Instances = {top, block, u1, u2, u3, v}
  Top = top
  Parent <- MCParent
  InstanceOf <- MCInstanceOf
  Leaves = {u1, u2, u3, v}
  Outputs = {o, y1, y2, w}
  NoNet = NoNet
  LinkedNet <- MCLinkedNet
  LinkedTerm <- MCLinkedTerm
  ConstantNets <- MCConstantNets
  SpareInstances = {u3}
  SpareNets = {net3}
  Edits <- FlatEdits
  MaxEdits = 4
CHECK_DEADLOCK FALSE
INVARIANTS ListsAgree DriversCurrent
