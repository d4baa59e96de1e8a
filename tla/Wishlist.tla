------------------------------ MODULE Wishlist ------------------------------
(***************************************************************************)
(* One customer's wishlist as WishlistService and MongoWishlistRepository  *)
(* keep it (src/src/modules/wishlist): one document, and one action is one *)
(* awaited call on it.  The catalog, which lookup() and refresh() read, is *)
(* left out: an add arrives with the product and variant looked up.        *)
(*                                                                         *)
(* A walk is what a client does to see the whole list: page after page,    *)
(* each asked for with the cursor that came with the one before it.        *)
(***************************************************************************)
EXTENDS Integers, FiniteSets

CONSTANTS
    Clients,        \* slots for concurrent requests
    Products,
    Variants,       \* those of each product, by number
    MaxItems,       \* the 200 of 'items.200'
    PageSize,       \* the limit a walk asks for
    MaxCalls,       \* bound: requests other than those of a walk
    MaxMishaps      \* bound: rejected calls and crashes

WishlistAssumption ==
    /\ IsFiniteSet(Clients)
    /\ Products # {} /\ Variants \subseteq Nat \ {0}
    /\ MaxItems \in Nat /\ PageSize \in Nat \ {0}
    /\ MaxCalls \in Nat /\ MaxMishaps \in Nat

VARIABLES
    present,        \* the document exists
    items,          \* in it
    wish,           \* the requests in flight
    wishes, slips,  \* for the bounds
    cursor,         \* of the page to be asked for next, or Start, or Done
    listed,         \* items on the pages of the walk so far
    steady          \* items there all through the walk so far

walk == <<cursor, listed, steady>>
vars == <<present, items, wish, wishes, slips, walk>>

-----------------------------------------------------------------------------
NoVariant == 0      \* a product without an active variant
Start == 0
Done == -1

(* Items are numbered by addedAt, the time an add took before it wrote.    *)
Ids == 1..MaxCalls
Item == [id: Ids, product: Products, variant: Variants \cup {NoVariant}]

Rest == [pc |-> "idle", op |-> "none", product |-> CHOOSE p \in Products : TRUE,
         variant |-> NoVariant, id |-> 0]
Wishes == [pc: {"idle", "read", "insert", "check", "push", "pull"},
           op: {"none", "add", "list", "remove"}, product: Products,
           variant: Variants \cup {NoVariant}, id: 0..MaxCalls]

(* There is no list yet, or one with an item.                              *)
Init ==
    /\ \/ present = FALSE /\ items = {} /\ wishes = 0
       \/ /\ present = TRUE /\ wishes = 1
          /\ \E i \in Item : i.id = 1 /\ items = {i}
    /\ wish = [c \in Clients |-> Rest]
    /\ slips = 0
    /\ cursor = Start /\ listed = {} /\ steady = {}

At(c, pc) == wish[c].pc = pc
Goto(c, pc) == wish' = [wish EXCEPT ![c].pc = pc]
Finish(c) == wish' = [wish EXCEPT ![c] = Rest]

Arrive(c, r) ==
    /\ At(c, "idle") /\ wishes < MaxCalls
    /\ wishes' = wishes + 1
    /\ wish' = [wish EXCEPT ![c] = r]
    /\ UNCHANGED <<present, items, slips, walk>>

-----------------------------------------------------------------------------
(***************************************************************************)
(* list() and its pages.  The Faulty... operators here and below are       *)
(* variants with a fault seeded, against which the properties are tried;   *)
(* nothing else uses them.                                                 *)
(***************************************************************************)

Ask(c) ==
    /\ At(c, "idle") /\ cursor # Done
    /\ wish' = [wish EXCEPT ![c] = [Rest EXCEPT !.op = "list", !.pc = "read"]]
    /\ UNCHANGED <<present, items, wishes, slips, walk>>

(* The ids from the newest to the oldest, of which the first n.            *)
Newest(ids, n) == {i \in ids : Cardinality({j \in ids : j >= i}) <= n}

FaultyFollowing(ids) ==
    IF cursor \in ids THEN {i \in ids : i < cursor}
    ELSE IF cursor = Start THEN ids ELSE {}

(* Those after the item the cursor names, or all if it is gone.            *)
Following(ids) ==
    IF cursor \in ids THEN {i \in ids : i < cursor} ELSE ids

(* list() asks for the page of the list it has read.                       *)
TurnPage(ids) ==
    LET page == Newest(Following(ids), PageSize)
    IN /\ listed' = listed \cup page
       /\ steady' = (IF cursor = Start THEN ids ELSE steady \cap ids)
       /\ cursor' = IF Following(ids) \subseteq page THEN Done
                    ELSE CHOOSE i \in page : \A j \in page : i <= j

(* getOrCreate()                                                           *)
Read(c) ==
    /\ At(c, "read")
    /\ CASE ~present -> Goto(c, "insert") /\ UNCHANGED walk
         [] present /\ wish[c].op = "add" -> Goto(c, "check") /\ UNCHANGED walk
         [] present /\ wish[c].op = "list" ->
                /\ Finish(c)
                /\ IF cursor = Done THEN UNCHANGED walk
                   ELSE TurnPage({i.id : i \in items})
    /\ UNCHANGED <<present, items, wishes, slips>>

(* The unique index on userId refuses the second of two; either way the    *)
(* list is read again.                                                     *)
Insert(c) ==
    /\ At(c, "insert")
    /\ present' = TRUE
    /\ Goto(c, "read")
    /\ UNCHANGED <<items, wishes, slips, walk>>

-----------------------------------------------------------------------------
(***************************************************************************)
(* addItem() and removeItem()                                              *)
(***************************************************************************)

AddItem(c) ==
    \E p \in Products, v \in Variants \cup {NoVariant} :
        Arrive(c, [Rest EXCEPT !.op = "add", !.pc = "read", !.product = p,
                               !.variant = v, !.id = wishes + 1])

Same(i, r) == i.product = r.product /\ i.variant = r.variant

(* The list is read and searched for the item.                             *)
CheckDuplicate(c) ==
    /\ At(c, "check")
    /\ IF \E i \in items : Same(i, wish[c]) THEN Finish(c) ELSE Goto(c, "push")
    /\ UNCHANGED <<present, items, wishes, slips, walk>>

(* The filter asks for an item of the product and for one of the variant,  *)
(* not for one that is both.  A variant has one product; items without a   *)
(* variant are alike.                                                      *)
Conflicts(r) ==
    /\ \E i \in items : i.product = r.product
    /\ \E j \in items : /\ j.variant = r.variant
                        /\ r.variant # NoVariant => j.product = r.product

NewItem(r) == {i \in Item : i.id = r.id /\ Same(i, r)}

FaultyPush(c) ==
    /\ At(c, "push")
    /\ items' = IF Cardinality(items) <= MaxItems
                THEN items \cup NewItem(wish[c]) ELSE items
    /\ Finish(c)
    /\ UNCHANGED <<present, wishes, slips, walk>>

(* items.200, the one after the last allowed, must not exist.  If nothing  *)
(* matches another read tells a duplicate from an error.                   *)
Push(c) ==
    /\ At(c, "push")
    /\ items' = IF ~Conflicts(wish[c]) /\ Cardinality(items) <= MaxItems
                THEN items \cup NewItem(wish[c]) ELSE items
    /\ Finish(c)
    /\ UNCHANGED <<present, wishes, slips, walk>>

RemoveItem(c) ==
    \E i \in items :
        Arrive(c, [Rest EXCEPT !.op = "remove", !.pc = "pull", !.id = i.id])

Pull(c) ==
    /\ At(c, "pull")
    /\ items' = {i \in items : i.id # wish[c].id}
    /\ steady' = steady \ {wish[c].id}
    /\ Finish(c)
    /\ UNCHANGED <<present, wishes, slips, cursor, listed>>

(* A rejected call, or the end of the process.                             *)
Dies(c) ==
    /\ ~At(c, "idle") /\ slips < MaxMishaps
    /\ slips' = slips + 1
    /\ Finish(c)
    /\ UNCHANGED <<present, items, wishes, walk>>

Next ==
    \E c \in Clients :
        \/ Ask(c) \/ AddItem(c) \/ RemoveItem(c) \/ Read(c) \/ Insert(c)
        \/ CheckDuplicate(c) \/ Push(c) \/ Pull(c) \/ Dies(c)

Spec == Init /\ [][Next]_vars

-----------------------------------------------------------------------------
(***************************************************************************)
(* Properties                                                              *)
(***************************************************************************)

TypeOK ==
    /\ present \in BOOLEAN /\ items \subseteq Item
    /\ wish \in [Clients -> Wishes]
    /\ wishes \in 0..MaxCalls /\ slips \in 0..MaxMishaps
    /\ cursor \in {Done} \cup (0..MaxCalls)
    /\ listed \subseteq Ids /\ steady \subseteq Ids

(* Concurrent adds never list a variant twice, nor a product without one,  *)
(* and the list never grows past one over the maximum: the filter of the   *)
(* push allows that one (addItem()).                                       *)
ItemsDistinct ==
    /\ \A i, j \in items : Same(i, j) => i = j
    /\ Cardinality(items) <= MaxItems + 1

(* A walk to the last page has shown every item that was on the list all   *)
(* through it, whatever was added and removed meanwhile, the item of the   *)
(* cursor included (list()).                                               *)
WalkComplete == cursor = Done => steady \subseteq listed

=============================================================================
