------------------------------ MODULE MCLookahead ------------------------------
EXTENDS Lookahead, TLC
===============================================================================
