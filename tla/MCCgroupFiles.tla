---------------------------- MODULE MCCgroupFiles ----------------------------
\* Instances of CgroupFiles for TLC; the bounds are in the .cfg files.
EXTENDS CgroupFiles
===============================================================================
