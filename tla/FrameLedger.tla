----------------------------- MODULE FrameLedger -----------------------------
(***************************************************************************)
(* What an encoder promises about the frames a caller hands it: a frame is *)
(* taken or refused, only a taken frame comes back with its bits, it comes *)
(* back at most once, and while a frame is awaited at most Overtakers      *)
(* frames submitted after it come back.  MultiEncoder implements it.       *)
(***************************************************************************)
EXTENDS Integers, FiniteSets

CONSTANTS Frame, Overtakers

VARIABLE fate

Init == fate = [f \in Frame |-> "new"]

Offer(f, verdict) == /\ fate[f] = "new"
                     /\ verdict \in {"taken", "refused"}
                     /\ fate' = [fate EXCEPT ![f] = verdict]

\* A frame taken for encoding is given up: its submission failed.
GiveUp(f) == /\ fate[f] = "taken"
             /\ fate' = [fate EXCEPT ![f] = "refused"]

OvertakersOf(f) == {g \in Frame : g > f /\ fate[g] = "returned"}

GiveBack(f) == /\ fate[f] = "taken"
               /\ \A g \in Frame : g < f /\ fate[g] = "taken" =>
                      Cardinality(OvertakersOf(g)) < Overtakers
               /\ fate' = [fate EXCEPT ![f] = "returned"]

Next == \E f \in Frame : \/ \E verdict \in {"taken", "refused"} : Offer(f, verdict)
                         \/ GiveUp(f)
                         \/ GiveBack(f)

Spec == Init /\ [][Next]_fate
=============================================================================
