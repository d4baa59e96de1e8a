----------------------------- MODULE MCCheckout -----------------------------
(***************************************************************************)
(* Constants of the model-checking runs of Checkout that a .cfg file       *)
(* cannot write.                                                           *)
(***************************************************************************)
EXTENDS Checkout

OneUnit == {1}

=============================================================================
