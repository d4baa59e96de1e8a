------------------------------- MODULE Claims -------------------------------
(***************************************************************************)
(* What the inventory service promises to its callers                      *)
(* (docs/inventory/reservation.md): a claim on units of a SKU is made at   *)
(* most once under a key, ends at most once, and claims that are active or *)
(* were confirmed never add up to more than the units that were received.  *)
(*                                                                         *)
(* Inventory implements this with separate updates of its collections;     *)
(* Checkout uses it as the inventory service it calls.                     *)
(***************************************************************************)
EXTENDS Tally

CONSTANTS
    Skus,           \* stock keeping units
    Keys,           \* keys under which claims are made
    Quantities,     \* quantities a claim may ask for
    MaxQuantity     \* the largest of them

VARIABLES
    supply,         \* per SKU, units received less units written off
    claims          \* the claims, by key

NoClaim == [status |-> "none"]
Ended == {"released", "expired", "confirmed"}

(* Units of SKU s that were promised to somebody and not given back. *)
Promised(s) ==
    [k \in Keys |->
        IF claims[k].status \in {"active", "confirmed"} /\ claims[k].sku = s
        THEN claims[k].qty ELSE 0]

Units(s) == Tally(Promised(s), MaxQuantity)

Init ==
    /\ supply = [s \in Skus |-> 0]
    /\ claims = [k \in Keys |-> NoClaim]

(* Units are received or written off, but none that is promised. *)
Receive(s, n) ==
    /\ n \in Nat
    /\ Units(s) <= n
    /\ supply' = [supply EXCEPT ![s] = n]
    /\ UNCHANGED claims

Claim(k, s, q) ==
    /\ claims[k] = NoClaim
    /\ Units(s) + q <= supply[s]
    /\ claims' = [claims EXCEPT ![k] = [status |-> "active", sku |-> s, qty |-> q]]
    /\ UNCHANGED supply

End(k, how) ==
    /\ claims[k].status = "active"
    /\ claims' = [claims EXCEPT ![k].status = how]
    /\ UNCHANGED supply

Next ==
    \/ \E s \in Skus : Receive(s, supply'[s])
    \/ \E k \in Keys, s \in Skus, q \in Quantities : Claim(k, s, q)
    \/ \E k \in Keys, how \in Ended : End(k, how)

Spec == Init /\ [][Next]_<<supply, claims>>

(* Nothing is promised that was not received. *)
Covered == \A s \in Skus : Units(s) <= supply[s]

=============================================================================
