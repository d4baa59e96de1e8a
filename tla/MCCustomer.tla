----------------------------- MODULE MCCustomer -----------------------------
(***************************************************************************)
(* What one customer keeps with the shop: the account, the cart and the    *)
(* wishlist.  They share no state (the middleware has let a request pass   *)
(* before it comes to the cart or the wishlist), so that one of them is    *)
(* chosen at first and the others rest: the states of the run are the sum  *)
(* of theirs, not the product.  The clients are interchangeable, and so    *)
(* are the SKUs; the run checks no liveness.                               *)
(***************************************************************************)
EXTENDS Accounts, TLC

CONSTANTS
    Skus, NoSku, MaxQuantity, MaxLines, Quantities, MaxFailures,
    Products, Variants, MaxItems, PageSize

VARIABLES
    part,
    cart, record, order, arrivals, failures, tangled, applied, forgotten,
    overtaken,
    present, items, wish, wishes, slips, cursor, listed, steady

Carts == INSTANCE Cart WITH calls <- arrivals
Wishlists == INSTANCE Wishlist WITH MaxCalls <- MaxCalls + 1

ASSUME CustomerAssumption ==
    Carts!CartAssumption /\ Wishlists!WishlistAssumption

accountVars == <<user, tokens, sessions, made, given, req, calls, mishaps,
                 condemned, rotated, writes, overlapped, crowded>>
cartVars == <<cart, record, order, arrivals, failures, tangled, applied,
              forgotten, overtaken>>
wishlistVars == <<present, items, wish, wishes, slips, cursor, listed, steady>>

(* Bound: the sessions at first.  A second one is a login away.            *)
MaxLive == 1

CustomerInit ==
    /\ part \in {"account", "cart", "wishlist"}
    /\ Init /\ (part # "account" => user.status = "absent")
    /\ made <= MaxLive
    /\ Carts!Init
    /\ Wishlists!Init /\ (part # "wishlist" => ~present)

CustomerNext ==
    \/ /\ part = "account" /\ Next
       /\ UNCHANGED <<part, cartVars, wishlistVars>>
    \/ /\ part = "cart" /\ Carts!Next
       /\ UNCHANGED <<part, accountVars, wishlistVars>>
    \/ /\ part = "wishlist" /\ Wishlists!Next
       /\ UNCHANGED <<part, accountVars, cartVars>>

CustomerSpec ==
    /\ CustomerInit
    /\ [][CustomerNext]_<<part, accountVars, cartVars, wishlistVars>>

Symmetry == Permutations(Clients) \cup Permutations(Skus)

(* The type invariants of the three.                                       *)
CustomerTypeOK == TypeOK /\ Carts!TypeOK /\ Wishlists!TypeOK

(* The cart and the wishlist list nothing twice and stay within their      *)
(* limits, as the two modules state it.                                    *)
NothingTwice == Carts!LinesDistinct /\ Wishlists!ItemsDistinct

(* The other properties of the two: an excessive line is about to be put   *)
(* back, an idempotency key applies once, a walk through the pages of the  *)
(* wishlist misses nothing.                                                *)
ExcessIsExcused == Carts!ExcessIsExcused
KeyAppliesOnce == Carts!KeyAppliesOnce
WalkComplete == Wishlists!WalkComplete

=============================================================================
