----------------------------- MODULE MCCpuMonitor -----------------------------
\* Instances of CpuMonitor for TLC; the bounds are in the .cfg files.
EXTENDS CpuMonitor
===============================================================================
