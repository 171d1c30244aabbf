---------------------------- MODULE MCMultiEncoder ----------------------------
EXTENDS MultiEncoder
=============================================================================
