------------------------------ MODULE MCCpuQuota ------------------------------
\* Instances of CpuQuota for TLC; the bounds are in the .cfg files.
EXTENDS CpuQuota, TLC

Symmetry == Permutations(Clients)
===============================================================================
