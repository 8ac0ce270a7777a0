-------------------------- MODULE MCTenantLifecycle --------------------------
\* Instances of TenantLifecycle for TLC; the bounds are in the .cfg files.
EXTENDS TenantLifecycle, TLC

\* Clients and tenants are interchangeable.
Symmetry == Permutations(Clients) \cup Permutations(Tenants)
===============================================================================
