---------------------------- MODULE MCInventory ----------------------------
(***************************************************************************)
(* Constants of the model-checking runs of Inventory that a .cfg file      *)
(* cannot write, and the symmetry of its slots.                            *)
(***************************************************************************)
EXTENDS Inventory, TLC

OneOrTwo == 1 .. 2
OnlyOne == {1}
OnlyTwo == {2}
MinusOnly == {-1}
Nothing == {}

(* Slots and keys are interchangeable in the safety runs. *)
SlotSymmetry == Permutations(Requests) \cup Permutations(Keys)

=============================================================================
