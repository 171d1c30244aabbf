----------------------------- MODULE MCVdiSession -----------------------------
EXTENDS VdiSession, TLC
CONSTANTS t1, t2, t3, p1, p2
\* Two threads of one process and one of another.
TwoAndOne == t1 :> p1 @@ t2 :> p1 @@ t3 :> p2
\* Two threads of one process.
Pair == {t1, t2}
PairOfOne == t1 :> p1 @@ t2 :> p1
===============================================================================
