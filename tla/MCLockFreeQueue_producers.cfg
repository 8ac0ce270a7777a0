SPECIFICATION Spec
CONSTANTS
  p1 = p1
  p2 = p2
  k1 = k1
  k2 = k2
  k3 = k3
  n1 = n1
  n2 = n2
  n3 = n3
  n4 = n4
  Producers = {p1, p2}
  Consumers = {}
  Tasks = {k1, k2, k3}
  Nodes = {n1, n2, n3, n4}
  SizeRange = 8
  WeakCAS = TRUE
  NoNode = NoNode
  NoTask = NoTask
SYMMETRY Symmetry
PROPERTIES
  QueueSpec
CHECK_DEADLOCK FALSE
