------------------------------ MODULE MCCoreWait ------------------------------
EXTENDS CoreWait
CONSTANTS a, b
\* One instance keeps two frames in flight, the other one only the one it waits for.
TwoAndOne == a :> 2 @@ b :> 1
===============================================================================
