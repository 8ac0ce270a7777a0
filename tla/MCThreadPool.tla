----------------------------- MODULE MCThreadPool -----------------------------
\* Instances of ThreadPool for TLC; the bounds are in the .cfg files.
EXTENDS ThreadPool, TLC

\* Tenants, tasks and thread ids are interchangeable.
Symmetry == Permutations(Tenants) \cup Permutations(Tasks) \cup Permutations(ThreadIds)
===============================================================================
