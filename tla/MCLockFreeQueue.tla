---------------------------- MODULE MCLockFreeQueue ----------------------------
\* Instances of LockFreeQueue for TLC; the bounds are in the .cfg files.
EXTENDS LockFreeQueue, TLC

\* Tasks, nodes and threads are interchangeable.
Symmetry == Permutations(Tasks) \cup Permutations(Nodes) \cup Permutations(Consumers)
===============================================================================
