SPECIFICATION Spec
CONSTANTS
  p1 = p1
  w1 = w1
  w2 = w2
  k1 = k1
  k2 = k2
  n1 = n1
  n2 = n2
  n3 = n3
  Producers = {p1}
  Consumers = {w1, w2}
  Tasks = {k1, k2}
  Nodes = {n1, n2, n3}
  SizeRange = 8
  WeakCAS = FALSE
  NoNode = NoNode
  NoTask = NoTask
SYMMETRY Symmetry
INVARIANTS
  NoUseAfterFree
