----------------------------- MODULE MCInstancePool -----------------------------
EXTENDS InstancePool

CONSTANTS c1, c2, c3
=============================================================================
