------------------------------- MODULE MCSlots -------------------------------
(* Slots with two workers: the calls of the second pass a cap of their own. *)
EXTENDS Slots, TLC

CONSTANTS w1, w2

MCCapOf == (w1 :> 2) @@ (w2 :> 1)

Symmetry == Permutations(SlotIds)
==============================================================================
