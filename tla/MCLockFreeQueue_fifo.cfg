SPECIFICATION FairSpec
CONSTANTS
  p1 = p1
  w1 = w1
  k1 = k1
  k2 = k2
  k3 = k3
  n1 = n1
  n2 = n2
  n3 = n3
  n4 = n4
  Producers = {p1}
  Consumers = {w1}
  Tasks = {k1, k2, k3}
  Nodes = {n1, n2, n3, n4}
  SizeRange = 8
  WeakCAS = FALSE
  NoNode = NoNode
  NoTask = NoTask
INVARIANTS
  WellFormed
  NoUseAfterFree
  SizeExact
PROPERTIES
  QueueSpec
  TasksTaken
