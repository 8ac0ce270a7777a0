---------------------------- MODULE MCQuotaManager ----------------------------
\* Instances of QuotaManager for TLC; the bounds are in the .cfg files.
EXTENDS QuotaManager, TLC

\* Clients are interchangeable, and so are tenants.
Symmetry == Permutations(Clients) \cup Permutations(Tenants)
===============================================================================
