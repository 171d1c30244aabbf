----------------------------- MODULE MCDataQueue -----------------------------
(* The ring at three slots and two items: every wrap and every fill level.  *)
EXTENDS DataQueue
=============================================================================
