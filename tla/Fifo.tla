--------------------------------- MODULE Fifo ---------------------------------
(***************************************************************************)
(* What a bounded queue promises: items leave in the order they entered,   *)
(* at most Capacity wait, and nothing is lost except by an explicit Clear. *)
(* DataQueue, the ring of the sample framework, implements it.             *)
(***************************************************************************)
EXTENDS Integers, Sequences

CONSTANTS Capacity, Item

VARIABLE items

Init == items = << >>

Put == /\ Len(items) < Capacity
       /\ \E item \in Item : items' = Append(items, item)

Take == /\ items # << >>
        /\ items' = Tail(items)

Clear == items' = << >>

Next == Put \/ Take \/ Clear

Spec == Init /\ [][Next]_items
=============================================================================
