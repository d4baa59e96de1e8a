--------------------------- MODULE CustomerProofs ---------------------------
(***************************************************************************)
(* Theorems about the three parts of MCCustomer, for any number of         *)
(* clients, SKUs and products, any limits and any bounds.                  *)
(*                                                                         *)
(* The account: the invariant of AccountsProofs.  The cart: what a request *)
(* is about to write, and the adds with the key that have not taken effect *)
(* yet.  The wishlist: a walk has shown every steady item from the one its *)
(* cursor names on.                                                        *)
(***************************************************************************)
EXTENDS MCCustomer, AccountsProofs, WellFoundedInduction

(* The ids of the wishlist are positive, and the finite sets of this       *)
(* module are those of the others.                                         *)
LEMMA WishlistBounds ==
    /\ IsFiniteSet(Clients) /\ Products # {} /\ Variants \subseteq Nat \ {0}
    /\ MaxCalls \in Nat /\ MaxItems \in Nat /\ PageSize \in Nat \ {0}
    /\ MaxMishaps \in Nat
BY CustomerAssumption, AccountsAssumption DEF Wishlists!WishlistAssumption

LEMMA SameCardinality ==
    ASSUME NEW S
    PROVE  /\ Carts!Cardinality(S) = Cardinality(S)
           /\ Wishlists!Cardinality(S) = Cardinality(S)
BY DEF Carts!Cardinality, Wishlists!Cardinality, Cardinality

-----------------------------------------------------------------------------
(***************************************************************************)
(* The wishlist.                                                           *)
(***************************************************************************)

(* A request that may add an item has one to add.                          *)
Meant(r) ==
    /\ r.op = "add" => r.id # 0
    /\ r.pc \in {"check", "push"} => r.op = "add"
    /\ r.pc \in {"read", "insert"} => r.op \in {"add", "list"}

(* Every item from the one of the cursor on, the newest being the first,   *)
(* has been on a page if it was on the list all through the walk.  Start   *)
(* is before every item and Done after.                                    *)
WalkInv == \A i \in steady : i >= cursor => i \in listed

(* The types but for that of the flag.                                     *)
WishNumbers ==
    /\ items \subseteq Wishlists!Item
    /\ wishes \in 0..(MaxCalls + 1) /\ slips \in 0..MaxMishaps
    /\ cursor \in {Wishlists!Done} \cup (0..(MaxCalls + 1))
    /\ listed \subseteq Wishlists!Ids /\ steady \subseteq Wishlists!Ids

ListInv ==
    /\ WishNumbers /\ IsFiniteSet(items) /\ Wishlists!ItemsDistinct
    /\ WalkInv

WishlistInv ==
    /\ Wishlists!TypeOK
    /\ \A c \in Clients : Meant(wish[c])
    /\ ListInv

(* Sets of ids are finite, and have a least and a greatest element.        *)
LEMMA IdSets ==
    ASSUME NEW ids, ids \subseteq Wishlists!Ids
    PROVE  ids \subseteq Nat \ {0} /\ IsFiniteSet(ids)
<1>1. IsFiniteSet(1..(MaxCalls + 1))
    BY WishlistBounds, FS_Interval
<1>2. ids \in SUBSET (1..(MaxCalls + 1))
    BY DEF Wishlists!Ids
<1>3. IsFiniteSet(ids)
    BY <1>1, <1>2, FS_Subset
<1> QED
    BY <1>2, <1>3, WishlistBounds

LEMMA Least ==
    ASSUME NEW S, S \subseteq Nat, S # {}
    PROVE  \E i \in S : \A j \in S : i <= j
<1>1. PICK i \in S : \A j \in S : ~ (<<j, i>> \in OpToRel(<, Nat))
    BY NatLessThanWellFounded, WFMin
<1>2. ASSUME NEW j \in S, ~ (i <= j) PROVE FALSE
  <2>1. <<j, i>> \in OpToRel(<, Nat)
    BY <1>2 DEF OpToRel
  <2> QED
    BY <1>1, <2>1
<1> QED
    BY <1>2

LEMMA Greatest ==
    ASSUME NEW S, S \subseteq Wishlists!Ids, S # {}
    PROVE  \E i \in S : \A j \in S : j <= i
<1> DEFINE n == MaxCalls + 1
           T == {n - i : i \in S}
<1>1. n \in Nat /\ S \subseteq 1..n
    BY WishlistBounds DEF Wishlists!Ids
<1>2. \A i \in S : i \in Nat /\ n - i \in Nat
  <2> SUFFICES ASSUME NEW i \in S PROVE i \in Nat /\ n - i \in Nat
    OBVIOUS
  <2>1. i \in 1..n
    BY <1>1
  <2> QED
    BY <1>1, <2>1
<1>3. PICK t \in T : \A u \in T : t <= u
  <2>1. T \subseteq Nat /\ T # {}
    BY <1>2
  <2> QED
    BY <2>1, Least
<1>4. PICK i \in S : t = n - i
    BY <1>3
<1>5. \A j \in S : n - i <= n - j
    BY <1>3, <1>4
<1> QED
    BY <1>1, <1>2, <1>5

(* A page starts with the newest, has no gaps and, unless there is nothing *)
(* to show, is not empty.                                                  *)
LEMMA PageShape ==
    ASSUME NEW ids, ids \subseteq Wishlists!Ids
    PROVE  LET page == Wishlists!Newest(ids, PageSize)
           IN  /\ page \subseteq ids
               /\ \A j \in page, i \in ids : i >= j => i \in page
               /\ ids # {} => page # {}
<1> DEFINE From(i) == {j \in ids : j >= i}
           page == Wishlists!Newest(ids, PageSize)
<1>1. page = {i \in ids : Cardinality(From(i)) <= PageSize}
    BY SameCardinality DEF Wishlists!Newest
<1>2. (\A i \in ids : i \in Nat) /\ IsFiniteSet(ids)
    BY IdSets
<1>3. ASSUME NEW j \in page, NEW i \in ids, i >= j
      PROVE  i \in page
  <2>1. From(i) \in SUBSET From(j) /\ From(j) \in SUBSET ids
    <3>1. j \in ids
      BY <1>1, <1>3
    <3>2. \A k \in ids : k >= i => k >= j
      BY <1>2, <1>3, <3>1
    <3> QED
      BY <3>2
  <2>2. IsFiniteSet(From(j)) /\ IsFiniteSet(From(i))
    BY <1>2, <2>1, FS_Subset
  <2>3. /\ Cardinality(From(i)) <= Cardinality(From(j))
        /\ Cardinality(From(i)) \in Nat /\ Cardinality(From(j)) \in Nat
    BY <2>1, <2>2, FS_Subset, FS_CardinalityType
  <2>4. Cardinality(From(j)) <= PageSize
    BY <1>1, <1>3
  <2>5. Cardinality(From(i)) <= PageSize
    BY <2>3, <2>4, WishlistBounds
  <2> QED
    BY <1>1, <2>5
<1>4. ASSUME ids # {} PROVE page # {}
  <2>1. PICK i \in ids : \A j \in ids : j <= i
    BY <1>4, Greatest
  <2>2. From(i) = {i}
    <3>1. \A j \in ids : j >= i <=> j = i
      BY <1>2, <2>1
    <3> QED
      BY <3>1
  <2>3. Cardinality(From(i)) = 1
    BY <2>2, FS_Singleton
  <2> QED
    BY <1>1, <2>3, WishlistBounds
<1> QED
    BY <1>1, <1>3, <1>4

(* The page that is read keeps the walk right.                             *)
LEMMA PageStep ==
    ASSUME NEW ids, ids \subseteq Wishlists!Ids, Wishlists!TypeOK, WalkInv,
           cursor # Wishlists!Done, Wishlists!TurnPage(ids)
    PROVE  /\ cursor' \in {Wishlists!Done} \cup (0..(MaxCalls + 1))
           /\ listed' \subseteq Wishlists!Ids /\ steady' \subseteq Wishlists!Ids
           /\ WalkInv'
<1> DEFINE rest == Wishlists!Following(ids)
           page == Wishlists!Newest(rest, PageSize)
<1>1. /\ listed' = listed \cup page
      /\ steady' = (IF cursor = Wishlists!Start THEN ids ELSE steady \cap ids)
      /\ cursor' = IF rest \subseteq page THEN Wishlists!Done
                   ELSE CHOOSE i \in page : \A j \in page : i <= j
    BY DEF Wishlists!TurnPage
<1>2. ids \subseteq Nat \ {0} /\ cursor \in Nat
    BY IdSets, WishlistBounds DEF Wishlists!TypeOK, Wishlists!Done
<1>3. rest = IF cursor \in ids THEN {i \in ids : i < cursor} ELSE ids
    BY DEF Wishlists!Following
<1>4. rest \subseteq Wishlists!Ids /\ rest \subseteq Nat
    BY <1>2, <1>3
<1>5. /\ page \subseteq rest
      /\ \A j \in page, i \in rest : i >= j => i \in page
      /\ rest # {} => page # {}
    BY <1>4, PageShape
<1> HIDE DEF page, rest
<1>6. \/ cursor' = Wishlists!Done /\ rest \subseteq page
      \/ cursor' \in page /\ cursor' \in Nat
  <2>1. CASE rest \subseteq page
    BY <1>1, <2>1
  <2>2. CASE ~(rest \subseteq page)
    <3>1. page # {} /\ page \subseteq Nat
      BY <1>4, <1>5, <2>2
    <3>2. \E i \in page : \A j \in page : i <= j
      BY <3>1, Least
    <3> QED
      BY <1>1, <2>2, <3>1, <3>2
  <2> QED
    BY <2>1, <2>2
<1>7. listed' \subseteq Wishlists!Ids /\ steady' \subseteq Wishlists!Ids
    BY <1>1, <1>4, <1>5 DEF Wishlists!TypeOK
<1>8. cursor' \in {Wishlists!Done} \cup (0..(MaxCalls + 1))
    BY <1>4, <1>5, <1>6, WishlistBounds DEF Wishlists!Ids
<1>9. WalkInv'
  <2> SUFFICES ASSUME NEW i \in steady', i >= cursor' PROVE i \in listed'
    BY DEF WalkInv
  <2>1. i \in ids /\ i \in Nat
    BY <1>1, <1>2
  <2>2. i \in rest => i \in page
    BY <1>4, <1>5, <1>6, <2>1
  <2>3. CASE i \in rest
    BY <1>1, <2>2, <2>3
  <2>4. CASE i \notin rest
    <3>1. cursor \in ids /\ i >= cursor
      BY <1>2, <1>3, <2>1, <2>4
    <3>2. i \in steady
      BY <1>1, <1>2, <3>1 DEF Wishlists!Start
    <3> QED
      BY <1>1, <3>1, <3>2 DEF WalkInv
  <2> QED
    BY <2>3, <2>4
<1> QED
    BY <1>7, <1>8, <1>9

LEMMA WishTypeParts ==
    Wishlists!TypeOK <=> /\ present \in BOOLEAN /\ WishNumbers
                         /\ wish \in [Clients -> Wishlists!Wishes]
BY Zenon DEF Wishlists!TypeOK, WishNumbers

LEMMA PresentStep ==
    ASSUME present \in BOOLEAN, Wishlists!Next
    PROVE  present' \in BOOLEAN
<1>1. present' = present \/ present' = TRUE
    BY Zenon
    DEF Wishlists!Next, Wishlists!Ask, Wishlists!AddItem, Wishlists!RemoveItem,
        Wishlists!Arrive, Wishlists!Read, Wishlists!Insert,
        Wishlists!CheckDuplicate, Wishlists!Push, Wishlists!Pull,
        Wishlists!Dies
<1> QED
    BY <1>1, Zenon

LEMMA WishShape ==
    /\ Wishlists!Rest \in Wishlists!Wishes /\ Meant(Wishlists!Rest)
    /\ Wishlists!TypeOK => \A c \in Clients : wish[c] \in Wishlists!Wishes
<1>1. (CHOOSE p \in Products : TRUE) \in Products
    BY WishlistBounds
<1>2. Wishlists!Rest \in Wishlists!Wishes /\ Meant(Wishlists!Rest)
    BY <1>1, WishlistBounds
    DEF Wishlists!Rest, Wishlists!Wishes, Wishlists!NoVariant, Meant
<1> QED
    BY <1>2 DEF Wishlists!TypeOK

(* One request goes on.                                                    *)
LEMMA WishBecomes ==
    ASSUME WishlistInv, NEW c \in Clients, NEW r \in Wishlists!Wishes, Meant(r),
           wish' = [wish EXCEPT ![c] = r]
    PROVE  /\ wish' \in [Clients -> Wishlists!Wishes]
           /\ \A d \in Clients : Meant(wish'[d])
<1>1. wish \in [Clients -> Wishlists!Wishes]
    BY DEF WishlistInv, Wishlists!TypeOK
<1>2. wish' \in [Clients -> Wishlists!Wishes]
    BY <1>1
<1>3. ASSUME NEW d \in Clients PROVE Meant(wish'[d])
    BY <1>1 DEF WishlistInv
<1> QED
    BY <1>2, <1>3

LEMMA WishFinishes ==
    ASSUME WishlistInv, NEW c \in Clients, Wishlists!Finish(c)
    PROVE  /\ wish' \in [Clients -> Wishlists!Wishes]
           /\ \A d \in Clients : Meant(wish'[d])
BY WishShape, WishBecomes DEF Wishlists!Finish

LEMMA WishGoes ==
    ASSUME WishlistInv, NEW c \in Clients,
           NEW pc2 \in {"read", "insert", "check", "push"}, Wishlists!Goto(c, pc2),
           wish[c].op \in {"add", "list"},
           pc2 \in {"check", "push"} => wish[c].op = "add"
    PROVE  /\ wish' \in [Clients -> Wishlists!Wishes]
           /\ \A d \in Clients : Meant(wish'[d])
<1> DEFINE r == [wish[c] EXCEPT !.pc = pc2]
<1>1. wish[c] \in Wishlists!Wishes /\ Meant(wish[c])
    BY WishShape DEF WishlistInv
<1>2. r \in Wishlists!Wishes /\ r.op = wish[c].op /\ r.id = wish[c].id
      /\ r.pc = pc2
    BY <1>1 DEF Wishlists!Wishes
<1>3. Meant(r)
    BY <1>1, <1>2 DEF Meant
<1>4. wish' = [wish EXCEPT ![c] = r]
    BY DEF Wishlists!Goto
<1> HIDE DEF r
<1> QED
    BY <1>2, <1>3, <1>4, WishBecomes

LEMMA WishArrives ==
    ASSUME WishlistInv, NEW c \in Clients,
           \/ Wishlists!Ask(c) \/ Wishlists!AddItem(c) \/ Wishlists!RemoveItem(c)
    PROVE  /\ wish' \in [Clients -> Wishlists!Wishes]
           /\ \A d \in Clients : Meant(wish'[d])
           /\ wishes' \in 0..(MaxCalls + 1)
           /\ items' = items /\ slips' = slips
           /\ cursor' = cursor /\ listed' = listed /\ steady' = steady
<1>1. wishes \in 0..(MaxCalls + 1) /\ items \subseteq Wishlists!Item
      /\ Wishlists!Rest \in Wishlists!Wishes
    BY WishShape DEF WishlistInv, Wishlists!TypeOK
<1> USE DEF Wishlists!Wishes, Meant
<1>2. CASE Wishlists!Ask(c)
  <2> DEFINE r == [Wishlists!Rest EXCEPT !.op = "list", !.pc = "read"]
  <2>1. r \in Wishlists!Wishes /\ Meant(r)
    BY <1>1
  <2>2. wish' = [wish EXCEPT ![c] = r]
    BY <1>2 DEF Wishlists!Ask
  <2> HIDE DEF r
  <2>3. /\ wish' \in [Clients -> Wishlists!Wishes]
        /\ \A d \in Clients : Meant(wish'[d])
    BY <2>1, <2>2, WishBecomes
  <2> QED
    BY <1>1, <1>2, <2>3 DEF Wishlists!Ask, Wishlists!walk
<1>3. CASE Wishlists!AddItem(c)
  <2>1. PICK p \in Products, v \in Variants \cup {Wishlists!NoVariant} :
            Wishlists!Arrive(c, [Wishlists!Rest EXCEPT
                !.op = "add", !.pc = "read", !.product = p, !.variant = v,
                !.id = wishes + 1])
    BY <1>3 DEF Wishlists!AddItem
  <2> DEFINE r == [Wishlists!Rest EXCEPT
                      !.op = "add", !.pc = "read", !.product = p, !.variant = v,
                      !.id = wishes + 1]
  <2>2. wishes < MaxCalls + 1 /\ wishes' = wishes + 1
        /\ wish' = [wish EXCEPT ![c] = r]
        /\ items' = items /\ slips' = slips
        /\ cursor' = cursor /\ listed' = listed /\ steady' = steady
    BY <2>1 DEF Wishlists!Arrive, Wishlists!walk
  <2>3. r \in Wishlists!Wishes /\ Meant(r)
    <3>1. wishes + 1 \in 0..(MaxCalls + 1) /\ wishes + 1 # 0
      BY <1>1, <2>2, WishlistBounds
    <3> QED
      BY <1>1, <3>1
  <2> HIDE DEF r
  <2>4. /\ wish' \in [Clients -> Wishlists!Wishes]
        /\ \A d \in Clients : Meant(wish'[d])
    BY <2>2, <2>3, WishBecomes
  <2> QED
    BY <1>1, <2>2, <2>4, WishlistBounds
<1>4. CASE Wishlists!RemoveItem(c)
  <2>1. PICK i \in items :
            Wishlists!Arrive(c, [Wishlists!Rest EXCEPT
                !.op = "remove", !.pc = "pull", !.id = i.id])
    BY <1>4 DEF Wishlists!RemoveItem
  <2> DEFINE r == [Wishlists!Rest EXCEPT
                      !.op = "remove", !.pc = "pull", !.id = i.id]
  <2>2. wishes < MaxCalls + 1 /\ wishes' = wishes + 1
        /\ wish' = [wish EXCEPT ![c] = r]
        /\ items' = items /\ slips' = slips
        /\ cursor' = cursor /\ listed' = listed /\ steady' = steady
    BY <2>1 DEF Wishlists!Arrive, Wishlists!walk
  <2>3. i.id \in 0..(MaxCalls + 1)
    BY <1>1, <2>1, WishlistBounds DEF Wishlists!Item, Wishlists!Ids
  <2>4. r \in Wishlists!Wishes /\ Meant(r)
    BY <1>1, <2>3
  <2> HIDE DEF r
  <2>5. /\ wish' \in [Clients -> Wishlists!Wishes]
        /\ \A d \in Clients : Meant(wish'[d])
    BY <2>2, <2>4, WishBecomes
  <2> QED
    BY <1>1, <2>2, <2>5, WishlistBounds
<1> QED
    BY <1>2, <1>3, <1>4

(* A step that leaves the list and the walk alone.                         *)
LEMMA ListKept ==
    ASSUME WishlistInv, items' = items, cursor' = cursor, listed' = listed,
           steady' = steady, wishes' \in 0..(MaxCalls + 1),
           slips' \in 0..MaxMishaps
    PROVE  ListInv'
<1>1. WishNumbers'
    BY WishTypeParts DEF WishlistInv, ListInv, WishNumbers
<1>2. Wishlists!ItemsDistinct'
    BY DEF WishlistInv, ListInv, Wishlists!ItemsDistinct
<1>3. WalkInv'
    BY DEF WishlistInv, ListInv, WalkInv
<1> QED
    BY <1>1, <1>2, <1>3 DEF WishlistInv, ListInv

LEMMA ItemIds ==
    ASSUME Wishlists!TypeOK
    PROVE  {i.id : i \in items} \subseteq Wishlists!Ids
BY DEF Wishlists!TypeOK, Wishlists!Item

(* What the steps of a request in flight do.                               *)
LEMMA ReadKeeps ==
    ASSUME WishlistInv, NEW c \in Clients, Wishlists!Read(c)
    PROVE  /\ wish' \in [Clients -> Wishlists!Wishes]
           /\ \A d \in Clients : Meant(wish'[d])
           /\ ListInv'
<1>1. items' = items /\ wishes' = wishes /\ slips' = slips
    BY DEF Wishlists!Read
<1>2. wishes \in 0..(MaxCalls + 1) /\ slips \in 0..MaxMishaps
    BY DEF WishlistInv, Wishlists!TypeOK
<1>3. wish[c].op \in {"add", "list"}
    BY DEF WishlistInv, Meant, Wishlists!Read, Wishlists!At
<1>4. \/ Wishlists!Goto(c, "insert") /\ UNCHANGED Wishlists!walk
      \/ /\ wish[c].op = "add" /\ Wishlists!Goto(c, "check")
         /\ UNCHANGED Wishlists!walk
      \/ /\ Wishlists!Finish(c)
         /\ \/ UNCHANGED Wishlists!walk
            \/ /\ cursor # Wishlists!Done
               /\ Wishlists!TurnPage({i.id : i \in items})
  <2>1. wish[c].op = "add" \/ wish[c].op = "list"
    BY <1>3
  <2> QED
    BY <2>1, Zenon DEF Wishlists!Read
<1>5. /\ wish' \in [Clients -> Wishlists!Wishes]
      /\ \A d \in Clients : Meant(wish'[d])
    BY <1>3, <1>4, WishGoes, WishFinishes
<1>6. CASE UNCHANGED Wishlists!walk
    BY <1>1, <1>2, <1>5, <1>6, ListKept DEF Wishlists!walk
<1>7. CASE /\ cursor # Wishlists!Done
           /\ Wishlists!TurnPage({i.id : i \in items})
  <2>1. /\ cursor' \in {Wishlists!Done} \cup (0..(MaxCalls + 1))
        /\ listed' \subseteq Wishlists!Ids /\ steady' \subseteq Wishlists!Ids
        /\ WalkInv'
    BY <1>7, ItemIds, PageStep DEF WishlistInv, ListInv
  <2>2. WishNumbers'
    BY <1>1, <2>1 DEF WishlistInv, Wishlists!TypeOK, WishNumbers
  <2>3. Wishlists!ItemsDistinct'
    BY <1>1 DEF WishlistInv, ListInv, Wishlists!ItemsDistinct
  <2> QED
    BY <1>1, <1>5, <2>1, <2>2, <2>3 DEF WishlistInv, ListInv
<1> QED
    BY <1>4, <1>6, <1>7

(* An item is new to the list and there is room for it.                    *)
LEMMA PushKeeps ==
    ASSUME WishlistInv, NEW c \in Clients, Wishlists!Push(c)
    PROVE  /\ wish' \in [Clients -> Wishlists!Wishes]
           /\ \A d \in Clients : Meant(wish'[d])
           /\ ListInv'
<1> DEFINE r == wish[c]
           new == [id |-> r.id, product |-> r.product, variant |-> r.variant]
<1>1. /\ wishes' = wishes /\ slips' = slips /\ cursor' = cursor
      /\ listed' = listed /\ steady' = steady
      /\ Wishlists!Finish(c) /\ r.pc = "push"
    BY DEF Wishlists!Push, Wishlists!At, Wishlists!walk
<1>2. /\ wish' \in [Clients -> Wishlists!Wishes]
      /\ \A d \in Clients : Meant(wish'[d])
    BY <1>1, WishFinishes
<1>3. wishes \in 0..(MaxCalls + 1) /\ slips \in 0..MaxMishaps
    BY DEF WishlistInv, Wishlists!TypeOK
<1>4. CASE items' = items
    BY <1>1, <1>2, <1>3, <1>4, ListKept
<1>5. CASE /\ ~Wishlists!Conflicts(r)
           /\ Wishlists!Cardinality(items) <= MaxItems
           /\ items' = items \cup Wishlists!NewItem(r)
  <2>1. r \in Wishlists!Wishes /\ r.id # 0
    BY <1>1, WishShape DEF WishlistInv, Meant
  <2>2. new \in Wishlists!Item
    <3>1. r.id \in 0..(MaxCalls + 1) /\ r.product \in Products
          /\ r.variant \in Variants \cup {Wishlists!NoVariant}
      BY <2>1 DEF Wishlists!Wishes
    <3>2. r.id \in Wishlists!Ids
      BY <2>1, <3>1, WishlistBounds DEF Wishlists!Ids
    <3> QED
      BY <3>1, <3>2 DEF Wishlists!Item
  <2>3. Wishlists!NewItem(r) = {new}
    <3>1. ASSUME NEW i \in Wishlists!NewItem(r) PROVE i = new
      BY <3>1 DEF Wishlists!NewItem, Wishlists!Same, Wishlists!Item
    <3>2. new \in Wishlists!NewItem(r)
      BY <2>2 DEF Wishlists!NewItem, Wishlists!Same
    <3> QED
      BY <3>1, <3>2
  <2>4. items' = items \cup {new}
    BY <1>5, <2>3
  <2>5. \A i \in items : ~ Wishlists!Same(i, new)
    <3> SUFFICES ASSUME NEW i \in items, Wishlists!Same(i, new) PROVE FALSE
      OBVIOUS
    <3>1. i.product = r.product /\ i.variant = r.variant
      BY DEF Wishlists!Same
    <3> QED
      BY <1>5, <3>1 DEF Wishlists!Conflicts
  <2>6. ASSUME NEW i \in items', NEW j \in items', Wishlists!Same(i, j)
        PROVE  i = j
    <3>1. Wishlists!Same(j, i)
      BY <2>6 DEF Wishlists!Same
    <3>2. CASE i \in items /\ j \in items
      BY <2>6, <3>2 DEF WishlistInv, ListInv, Wishlists!ItemsDistinct
    <3> QED
      BY <2>4, <2>5, <2>6, <3>1, <3>2
  <2>7. IsFiniteSet(items') /\ Wishlists!Cardinality(items') <= MaxItems + 1
    <3>1. IsFiniteSet(items)
      BY DEF WishlistInv, ListInv
    <3>2. /\ Cardinality(items') <= Cardinality(items) + 1
          /\ IsFiniteSet(items')
          /\ Cardinality(items) \in Nat /\ Cardinality(items') \in Nat
      BY <2>4, <3>1, FS_AddElement, FS_CardinalityType
    <3> QED
      BY <1>5, <3>2, SameCardinality, WishlistBounds
  <2>8. WishNumbers'
    BY <1>1, <2>2, <2>4 DEF WishlistInv, Wishlists!TypeOK, WishNumbers
  <2>9. Wishlists!ItemsDistinct'
    BY <2>6, <2>7 DEF Wishlists!ItemsDistinct, Wishlists!Same
  <2>10. WalkInv'
    BY <1>1 DEF WishlistInv, ListInv, WalkInv
  <2> QED
    BY <1>2, <2>7, <2>8, <2>9, <2>10 DEF ListInv
<1> QED
  <2>1. \/ items' = items
        \/ /\ ~Wishlists!Conflicts(r)
           /\ Wishlists!Cardinality(items) <= MaxItems
           /\ items' = items \cup Wishlists!NewItem(r)
    BY DEF Wishlists!Push
  <2> QED
    BY <1>4, <1>5, <2>1

LEMMA PullKeeps ==
    ASSUME WishlistInv, NEW c \in Clients, Wishlists!Pull(c)
    PROVE  /\ wish' \in [Clients -> Wishlists!Wishes]
           /\ \A d \in Clients : Meant(wish'[d])
           /\ ListInv'
<1>1. /\ items' = {i \in items : i.id # wish[c].id}
      /\ steady' = steady \ {wish[c].id}
      /\ Wishlists!Finish(c)
      /\ wishes' = wishes /\ slips' = slips /\ cursor' = cursor
      /\ listed' = listed
    BY DEF Wishlists!Pull
<1>2. /\ wish' \in [Clients -> Wishlists!Wishes]
      /\ \A d \in Clients : Meant(wish'[d])
    BY <1>1, WishFinishes
<1>3. WishNumbers'
    BY <1>1 DEF WishlistInv, ListInv, WishNumbers
<1>4. /\ items' \in SUBSET items /\ IsFiniteSet(items)
      /\ Wishlists!ItemsDistinct /\ WalkInv
    BY <1>1 DEF WishlistInv, ListInv
<1>5. /\ IsFiniteSet(items') /\ Cardinality(items') <= Cardinality(items)
      /\ Cardinality(items') \in Nat /\ Cardinality(items) \in Nat
    BY <1>4, FS_Subset, FS_CardinalityType
<1>6. Wishlists!ItemsDistinct'
  <2>1. Cardinality(items') <= MaxItems + 1
    BY <1>4, <1>5, SameCardinality, WishlistBounds DEF Wishlists!ItemsDistinct
  <2> QED
    BY <1>4, <2>1, SameCardinality
    DEF Wishlists!ItemsDistinct, Wishlists!Same
<1>7. WalkInv'
    BY <1>1, <1>4 DEF WalkInv
<1> QED
    BY <1>2, <1>3, <1>5, <1>6, <1>7 DEF ListInv

LEMMA InitWishlist ==
    ASSUME Wishlists!Init
    PROVE  WishlistInv
<1>1. \/ present = FALSE /\ items = {} /\ wishes = 0
      \/ /\ present = TRUE /\ wishes = 1
         /\ \E i \in Wishlists!Item : i.id = 1 /\ items = {i}
    BY DEF Wishlists!Init
<1>2. /\ wish = [c \in Clients |-> Wishlists!Rest]
      /\ slips = 0 /\ cursor = 0 /\ listed = {} /\ steady = {}
    BY DEF Wishlists!Init, Wishlists!Start
<1>3. present \in BOOLEAN
    BY <1>1, Zenon
<1>4. /\ wish \in [Clients -> Wishlists!Wishes]
      /\ \A c \in Clients : Meant(wish[c])
    BY <1>2, WishShape
<1>5. WishNumbers
    BY <1>1, <1>2, WishlistBounds DEF WishNumbers
<1>6. IsFiniteSet(items) /\ Cardinality(items) \in 0..1
  <2>1. CASE items = {}
    BY <2>1, FS_EmptySet
  <2>2. CASE \E i \in Wishlists!Item : items = {i}
    <3>1. PICK i \in Wishlists!Item : items = {i}
      BY <2>2
    <3>2. IsFiniteSet({i}) /\ Cardinality({i}) = 1
      BY FS_Singleton
    <3> QED
      BY <3>1, <3>2
  <2> QED
    BY <1>1, <2>1, <2>2
<1>7. Wishlists!ItemsDistinct
  <2>1. \A i, j \in items : i = j
    BY <1>1
  <2> QED
    BY <1>6, <2>1, SameCardinality, WishlistBounds
    DEF Wishlists!ItemsDistinct
<1>8. WalkInv
    BY <1>2 DEF WalkInv
<1> QED
    BY <1>3, <1>4, <1>5, <1>6, <1>7, <1>8, WishTypeParts
    DEF WishlistInv, ListInv

LEMMA NextWishlist ==
    ASSUME WishlistInv, Wishlists!Next
    PROVE  WishlistInv'
<1>1. wishes \in 0..(MaxCalls + 1) /\ slips \in 0..MaxMishaps
    BY DEF WishlistInv, Wishlists!TypeOK
<1>2. ASSUME NEW c \in Clients,
             \/ Wishlists!Ask(c) \/ Wishlists!AddItem(c)
             \/ Wishlists!RemoveItem(c) \/ Wishlists!Read(c)
             \/ Wishlists!Insert(c) \/ Wishlists!CheckDuplicate(c)
             \/ Wishlists!Push(c) \/ Wishlists!Pull(c) \/ Wishlists!Dies(c)
      PROVE  /\ wish' \in [Clients -> Wishlists!Wishes]
             /\ \A d \in Clients : Meant(wish'[d])
             /\ ListInv'
  <2>1. CASE \/ Wishlists!Ask(c) \/ Wishlists!AddItem(c)
             \/ Wishlists!RemoveItem(c)
    BY <1>1, <2>1, WishArrives, ListKept
  <2>2. CASE Wishlists!Read(c)
    BY <2>2, ReadKeeps
  <2>3. CASE Wishlists!Insert(c)
    <3>1. /\ Wishlists!Goto(c, "read") /\ wish[c].op \in {"add", "list"}
          /\ items' = items /\ wishes' = wishes /\ slips' = slips
          /\ cursor' = cursor /\ listed' = listed /\ steady' = steady
      BY <2>3
      DEF WishlistInv, Meant, Wishlists!Insert, Wishlists!At, Wishlists!walk
    <3> QED
      BY <1>1, <3>1, WishGoes, ListKept
  <2>4. CASE Wishlists!CheckDuplicate(c)
    <3>1. /\ Wishlists!Goto(c, "push") \/ Wishlists!Finish(c)
          /\ wish[c].op = "add"
          /\ items' = items /\ wishes' = wishes /\ slips' = slips
          /\ cursor' = cursor /\ listed' = listed /\ steady' = steady
      BY <2>4
      DEF WishlistInv, Meant, Wishlists!CheckDuplicate, Wishlists!At,
          Wishlists!walk
    <3> QED
      BY <1>1, <3>1, WishGoes, WishFinishes, ListKept
  <2>5. CASE Wishlists!Push(c)
    BY <2>5, PushKeeps
  <2>6. CASE Wishlists!Pull(c)
    BY <2>6, PullKeeps
  <2>7. CASE Wishlists!Dies(c)
    <3>1. /\ Wishlists!Finish(c) /\ slips < MaxMishaps /\ slips' = slips + 1
          /\ items' = items /\ wishes' = wishes
          /\ cursor' = cursor /\ listed' = listed /\ steady' = steady
      BY <2>7 DEF Wishlists!Dies, Wishlists!walk
    <3>2. slips' \in 0..MaxMishaps
      BY <1>1, <3>1, WishlistBounds
    <3> QED
      BY <1>1, <3>1, <3>2, WishFinishes, ListKept
  <2> QED
    BY <1>2, <2>1, <2>2, <2>3, <2>4, <2>5, <2>6, <2>7
<1>3. /\ wish' \in [Clients -> Wishlists!Wishes]
      /\ \A d \in Clients : Meant(wish'[d])
      /\ ListInv'
    BY <1>2, Zenon DEF Wishlists!Next
<1>4. present' \in BOOLEAN
    BY PresentStep, WishTypeParts DEF WishlistInv
<1>5. Wishlists!TypeOK'
    BY <1>3, <1>4, Zenon DEF ListInv, WishNumbers, Wishlists!TypeOK
<1> QED
    BY <1>3, <1>5 DEF WishlistInv

LEMMA WishlistRests ==
    ASSUME WishlistInv, UNCHANGED wishlistVars
    PROVE  WishlistInv'
<1>1. /\ present' = present /\ items' = items /\ wish' = wish
      /\ wishes' = wishes /\ slips' = slips /\ cursor' = cursor
      /\ listed' = listed /\ steady' = steady
    BY DEF wishlistVars
<1> QED
    BY <1>1, Zenon
    DEF WishlistInv, ListInv, WishNumbers, WalkInv, Wishlists!TypeOK,
        Wishlists!ItemsDistinct

-----------------------------------------------------------------------------
(***************************************************************************)
(* The cart.                                                               *)
(***************************************************************************)
LEMMA CartBounds ==
    /\ IsFiniteSet(Clients) /\ NoSku \notin Skus
    /\ MaxLines \in Nat /\ MaxQuantity \in Nat
    /\ Quantities \subseteq 1..MaxQuantity
    /\ MaxCalls \in Nat /\ MaxFailures \in Nat
BY CustomerAssumption, AccountsAssumption DEF Carts!CartAssumption

(* An add with the key that has still to take effect, and one whose answer *)
(* has yet to be stored; what a later one can know of those before it.     *)
Waits(o) == o.keyed /\ o.pc \in {"read", "insert", "revive", "merge", "push"}
Told(o) == o.keyed /\ o.pc = "store"
Noted == record \/ forgotten

(* What a request asks for can be done.                                    *)
Sent(o) ==
    /\ o.op = "add" => o.id # Carts!NoLine /\ o.sku \in Skus
    /\ o.pc \in {"lookup", "merge", "undo", "push"} => o.op = "add"
    /\ o.keyed => Waits(o) \/ o.pc \in {"lookup", "undo", "store"}
    /\ o.pc \notin {"undo", "store"} => o.quantity <= MaxQuantity

(* An excess has been seen by the request that made it, which is to undo   *)
(* it, and what it puts back is no excess.                                 *)
Excused ==
    /\ \A l \in cart.lines : l.quantity > MaxQuantity =>
          tangled \/ \E c \in Clients : order[c].pc = "undo"
                                       /\ order[c].id = l.id
    /\ \A c \in Clients : order[c].pc = "undo" =>
          tangled \/ order[c].quantity <= MaxQuantity

LinesInv == IsFiniteSet(cart.lines) /\ Carts!LinesDistinct /\ Excused

(* Each of the adds with the key that will still take effect has found     *)
(* none before it, or is counted as overtaken.                             *)
Waiting == {c \in Clients : Waits(order[c])}

KeyInv ==
    /\ applied + Cardinality(Waiting) <= 1 + overtaken
    /\ applied > 0 =>
          Noted \/ \E c \in Clients : Told(order[c])

CartNumbers ==
    /\ cart \in Carts!CartRecord
    /\ arrivals \in 0..MaxCalls /\ failures \in 0..MaxFailures
    /\ applied \in Nat /\ overtaken \in Nat

CartInv ==
    /\ Carts!TypeOK
    /\ \A c \in Clients : Sent(order[c])
    /\ LinesInv /\ KeyInv

LEMMA CartTypeParts ==
    Carts!TypeOK <=> /\ record \in BOOLEAN /\ forgotten \in BOOLEAN
                     /\ tangled \in BOOLEAN
                     /\ order \in [Clients -> Carts!Orders] /\ CartNumbers
BY Zenon DEF Carts!TypeOK, CartNumbers

(* The request c becomes r.                                                *)
Becomes(c, r) ==
    r \in Carts!Orders /\ Sent(r) /\ order' = [order EXCEPT ![c] = r]

LEMMA OrderShape ==
    /\ Carts!Idle \in Carts!Orders /\ Sent(Carts!Idle)
    /\ ~Waits(Carts!Idle) /\ ~Told(Carts!Idle) /\ Carts!Idle.pc = "idle"
    /\ Carts!TypeOK => \A c \in Clients : order[c] \in Carts!Orders
<1>1. Carts!Idle \in Carts!Orders
    BY CartBounds
    DEF Carts!Idle, Carts!Orders, Carts!Steps, Carts!NoVersion, Carts!NoLine
<1>2. Sent(Carts!Idle) /\ ~Waits(Carts!Idle) /\ ~Told(Carts!Idle)
      /\ Carts!Idle.pc = "idle"
    BY CartBounds DEF Carts!Idle, Sent, Waits, Told
<1> QED
    BY <1>1, <1>2 DEF Carts!TypeOK

LEMMA BecomesTyped ==
    ASSUME CartInv, NEW c \in Clients, NEW r, Becomes(c, r)
    PROVE  /\ order' \in [Clients -> Carts!Orders]
           /\ \A d \in Clients : Sent(order'[d])
           /\ order'[c] = r /\ \A d \in Clients \ {c} : order'[d] = order[d]
<1>1. order \in [Clients -> Carts!Orders]
    BY DEF CartInv, Carts!TypeOK
<1>2. /\ order' \in [Clients -> Carts!Orders] /\ order'[c] = r
      /\ \A d \in Clients \ {c} : order'[d] = order[d]
    BY <1>1 DEF Becomes
<1>3. \A d \in Clients : Sent(order'[d])
    BY <1>2 DEF CartInv, Becomes
<1> QED
    BY <1>2, <1>3

(* The ways a request goes on.                                             *)
LEMMA OrderFinishes ==
    ASSUME NEW c \in Clients, Carts!Finish(c)
    PROVE  Becomes(c, Carts!Idle)
BY OrderShape DEF Carts!Finish, Becomes

LEMMA OrderGoes ==
    ASSUME CartInv, NEW c \in Clients, NEW pc2 \in Carts!Steps,
           Carts!Goto(c, pc2),
           pc2 \in {"lookup", "merge", "undo", "push"} => order[c].op = "add",
           order[c].keyed => pc2 \in {"lookup", "undo", "store", "read",
                                      "insert", "revive", "merge", "push"},
           pc2 \notin {"undo", "store"} => order[c].pc \notin {"undo", "store"}
    PROVE  \E r : /\ Becomes(c, r) /\ r.pc = pc2 /\ (r.keyed <=> order[c].keyed)
<1> DEFINE r == [order[c] EXCEPT !.pc = pc2]
<1>1. order[c] \in Carts!Orders /\ Sent(order[c])
    BY OrderShape DEF CartInv
<1>2. /\ r \in Carts!Orders /\ r.pc = pc2 /\ r.op = order[c].op
      /\ r.id = order[c].id /\ r.sku = order[c].sku
      /\ r.quantity = order[c].quantity /\ (r.keyed <=> order[c].keyed)
    BY <1>1 DEF Carts!Orders
<1>3. order' = [order EXCEPT ![c] = r]
    BY DEF Carts!Goto
<1> HIDE DEF r
<1>4. Sent(r)
    BY <1>1, <1>2 DEF Sent, Waits
<1>5. Becomes(c, r)
    BY <1>2, <1>3, <1>4 DEF Becomes
<1> QED
    BY <1>2, <1>5

LEMMA OrderAnswers ==
    ASSUME CartInv, NEW c \in Clients, Carts!Answer(c)
    PROVE  \E r : /\ Becomes(c, r) /\ r.pc \in {"idle", "store"}
                  /\ order[c].keyed => r.keyed /\ r.pc = "store"
<1>1. CASE order[c].keyed
  <2>1. Carts!Goto(c, "store")
    BY <1>1 DEF Carts!Answer
  <2> QED
    BY <1>1, <2>1, OrderGoes DEF Carts!Steps
<1>2. CASE ~order[c].keyed
  <2>1. Carts!Finish(c)
    BY <1>2 DEF Carts!Answer
  <2> QED
    BY <1>2, <2>1, OrderFinishes, OrderShape
<1> QED
    BY <1>1, <1>2

(* No excess is made, and no undoing given up without a mark.              *)
LEMMA ExcuseKept ==
    ASSUME CartInv, NEW c \in Clients, NEW r, Becomes(c, r), r.pc # "undo",
           \A l \in cart'.lines : l \in cart.lines \/ ~(l.quantity > MaxQuantity),
           tangled => tangled', order[c].pc = "undo" => tangled'
    PROVE  Excused'
<1>1. order'[c] = r /\ \A d \in Clients \ {c} : order'[d] = order[d]
    BY BecomesTyped
<1>2. ASSUME NEW l \in cart'.lines, l.quantity > MaxQuantity, ~tangled'
      PROVE  \E d \in Clients : order'[d].pc = "undo" /\ order'[d].id = l.id
  <2>1. l \in cart.lines /\ ~tangled
    BY <1>2
  <2>2. PICK d \in Clients : order[d].pc = "undo" /\ order[d].id = l.id
    BY <1>2, <2>1 DEF CartInv, LinesInv, Excused
  <2>3. d # c
    BY <1>2, <2>2
  <2> QED
    BY <1>1, <2>2, <2>3
<1>3. ASSUME NEW d \in Clients, order'[d].pc = "undo", ~tangled'
      PROVE  order'[d].quantity <= MaxQuantity
  <2>1. d # c /\ ~tangled
    BY <1>1, <1>3
  <2> QED
    BY <1>1, <1>3, <2>1 DEF CartInv, LinesInv, Excused
<1> QED
    BY <1>2, <1>3 DEF Excused

LEMMA FewerLines ==
    ASSUME CartInv, cart'.lines \in SUBSET cart.lines
    PROVE  IsFiniteSet(cart'.lines) /\ Carts!LinesDistinct'
<1>1. IsFiniteSet(cart.lines) /\ Carts!LinesDistinct
    BY DEF CartInv, LinesInv
<1>2. /\ IsFiniteSet(cart'.lines)
      /\ Cardinality(cart'.lines) <= Cardinality(cart.lines)
      /\ Cardinality(cart'.lines) \in Nat /\ Cardinality(cart.lines) \in Nat
    BY <1>1, FS_Subset, FS_CardinalityType
<1>3. Cardinality(cart'.lines) <= MaxLines + 1
    BY <1>1, <1>2, SameCardinality, CartBounds DEF Carts!LinesDistinct
<1> QED
    BY <1>1, <1>2, <1>3, SameCardinality DEF Carts!LinesDistinct

(* A request that leaves the lines alone, or takes some away.              *)
LEMMA LinesKept ==
    ASSUME CartInv, NEW c \in Clients, NEW r, Becomes(c, r), r.pc # "undo",
           cart'.lines \in SUBSET cart.lines,
           tangled => tangled', order[c].pc = "undo" => tangled'
    PROVE  LinesInv'
<1>1. Excused'
    BY ExcuseKept
<1> QED
    BY <1>1, FewerLines DEF LinesInv

(* New quantities for some of the lines.                                   *)
Requantified(S, q) ==
    {IF l \in S THEN [l EXCEPT !.quantity = q[l]] ELSE l : l \in cart.lines}

LEMMA RequantifiedLines ==
    ASSUME CartInv, NEW S \in SUBSET cart.lines, NEW q \in [S -> Nat],
           cart'.lines = Requantified(S, q)
    PROVE  /\ cart'.lines \subseteq Carts!Line
           /\ \A m \in cart'.lines : \/ m \in cart.lines \ S
                                    \/ \E l \in S : /\ m.id = l.id
                                                    /\ m.quantity = q[l]
           /\ IsFiniteSet(cart'.lines) /\ Carts!LinesDistinct'
<1> DEFINE L == cart.lines
           F == [l \in L |-> IF l \in S THEN [l EXCEPT !.quantity = q[l]] ELSE l]
<1>1. L \subseteq Carts!Line /\ IsFiniteSet(L) /\ Carts!LinesDistinct
    BY DEF CartInv, LinesInv, Carts!TypeOK, Carts!CartRecord
<1>2. cart'.lines = {F[l] : l \in L}
    BY DEF Requantified
<1>3. ASSUME NEW l \in L
      PROVE  /\ F[l] \in Carts!Line /\ F[l].sku = l.sku /\ F[l].id = l.id
             /\ l \in S => F[l].quantity = q[l]
             /\ l \notin S => F[l] = l
  <2>1. l \in Carts!Line
    BY <1>1
  <2>2. CASE l \in S
    <3>1. F[l] = [l EXCEPT !.quantity = q[l]] /\ q[l] \in Nat
      BY <2>2
    <3> HIDE DEF F
    <3> QED
      BY <2>1, <2>2, <3>1 DEF Carts!Line
  <2>3. CASE l \notin S
    BY <2>1, <2>3
  <2> QED
    BY <2>2, <2>3
<1>4. F \in [L -> cart'.lines]
    BY <1>2
<1> HIDE DEF F
<1>5. F \in Surjection(L, cart'.lines)
    BY <1>2, <1>4 DEF Surjection
<1>6. IsFiniteSet(cart'.lines) /\ Cardinality(cart'.lines) <= Cardinality(L)
    BY <1>1, <1>5, FS_Surjection
<1>7. Cardinality(cart'.lines) <= MaxLines + 1
    BY <1>1, <1>6, SameCardinality, FS_CardinalityType, CartBounds
    DEF Carts!LinesDistinct
<1>8. ASSUME NEW m \in cart'.lines, NEW n \in cart'.lines, m.sku = n.sku
      PROVE  m = n
  <2>1. PICK l \in L, k \in L : m = F[l] /\ n = F[k]
    BY <1>2
  <2>2. l.sku = k.sku
    BY <1>3, <1>8, <2>1
  <2> QED
    BY <1>1, <2>1, <2>2 DEF Carts!LinesDistinct
<1>9. Carts!LinesDistinct'
    BY <1>7, <1>8, SameCardinality DEF Carts!LinesDistinct
<1>10. ASSUME NEW m \in cart'.lines
       PROVE  /\ m \in Carts!Line
              /\ \/ m \in cart.lines \ S
                 \/ \E l \in S : m.id = l.id /\ m.quantity = q[l]
  <2>1. PICK l \in L : m = F[l]
    BY <1>2
  <2> QED
    BY <1>3, <2>1
<1> QED
    BY <1>6, <1>9, <1>10

LEMMA WriteShape ==
    ASSUME CartInv, NEW lines, lines \subseteq Carts!Line, Carts!Write(lines)
    PROVE  cart' \in Carts!CartRecord /\ cart'.lines = lines
<1>1. cart \in Carts!CartRecord
    BY DEF CartInv, Carts!TypeOK
<1>2. cart' = [cart EXCEPT !.lines = lines, !.version = cart.version + 1]
    BY DEF Carts!Write
<1>3. cart.version + 1 \in Nat /\ lines \in SUBSET Carts!Line
    BY <1>1 DEF Carts!CartRecord
<1> QED
    BY <1>1, <1>2, <1>3 DEF Carts!CartRecord

-----------------------------------------------------------------------------
LEMMA WaitingCount ==
    ASSUME CartInv
    PROVE  /\ IsFiniteSet(Waiting) /\ Cardinality(Waiting) \in Nat
           /\ applied \in Nat /\ overtaken \in Nat
<1>1. Waiting \in SUBSET Clients
    BY DEF Waiting
<1>2. IsFiniteSet(Waiting)
    BY <1>1, CartBounds, FS_Subset
<1> QED
    BY <1>2, FS_CardinalityType DEF CartInv, Carts!TypeOK

LEMMA WaitingMoves ==
    ASSUME CartInv, NEW c \in Clients, NEW r, Becomes(c, r)
    PROVE  Waiting' = IF Waits(r) THEN Waiting \cup {c} ELSE Waiting \ {c}
BY BecomesTyped DEF Waiting

(* A request that does not apply the key, nor starts to wait for it.       *)
LEMMA KeyKept ==
    ASSUME CartInv, NEW c \in Clients, NEW r, Becomes(c, r),
           applied' = applied, overtaken' = overtaken,
           Waits(r) => Waits(order[c]),
           Noted => Noted', Told(order[c]) => Told(r) \/ Noted'
    PROVE  KeyInv'
<1>1. order'[c] = r /\ \A d \in Clients \ {c} : order'[d] = order[d]
    BY BecomesTyped
<1>2. Waiting' \in SUBSET Waiting
    BY WaitingMoves DEF Waiting
<1>3. Cardinality(Waiting') <= Cardinality(Waiting)
      /\ Cardinality(Waiting') \in Nat
    BY <1>2, WaitingCount, FS_Subset, FS_CardinalityType
<1>4. applied' + Cardinality(Waiting') <= 1 + overtaken'
    BY <1>3, WaitingCount DEF CartInv, KeyInv
<1>5. ASSUME applied' > 0, ~Noted'
      PROVE  \E d \in Clients : Told(order'[d])
  <2>1. PICK d \in Clients : Told(order[d])
    BY <1>5 DEF CartInv, KeyInv
  <2> QED
    BY <1>1, <1>5, <2>1
<1> QED
    BY <1>4, <1>5 DEF KeyInv

(* It takes effect.                                                        *)
LEMMA KeyApplied ==
    ASSUME CartInv, NEW c \in Clients, NEW r, Becomes(c, r), Waits(order[c]),
           applied' = applied + 1, overtaken' = overtaken, ~Waits(r), Told(r)
    PROVE  KeyInv'
<1>1. Waiting' = Waiting \ {c} /\ c \in Waiting
    BY WaitingMoves DEF Waiting
<1>2. Cardinality(Waiting') = Cardinality(Waiting) - 1
    BY <1>1, WaitingCount, FS_RemoveElement
<1>3. applied' + Cardinality(Waiting') <= 1 + overtaken'
    BY <1>2, WaitingCount DEF CartInv, KeyInv
<1>4. Told(order'[c])
    BY BecomesTyped
<1> QED
    BY <1>3, <1>4 DEF KeyInv

-----------------------------------------------------------------------------
(* The request c goes on and neither has something new to undo nor starts  *)
(* to wait for its effect.                                                 *)
Proceeds(c, r) ==
    /\ Becomes(c, r) /\ r.pc # "undo"
    /\ Waits(r) => Waits(order[c])
    /\ Told(order[c]) => Told(r)

CartKept(c) ==
    (\E r : Becomes(c, r)) /\ LinesInv' /\ KeyInv' /\ CartNumbers'

LEMMA Answers ==
    ASSUME CartInv, NEW c \in Clients, Carts!Answer(c)
    PROVE  \E r : /\ Proceeds(c, r) /\ ~Waits(r)
                  /\ order[c].keyed => Told(r)
<1>1. PICK r : /\ Becomes(c, r) /\ r.pc \in {"idle", "store"}
               /\ order[c].keyed => r.keyed /\ r.pc = "store"
    BY OrderAnswers
<1>2. ~Waits(r) /\ (order[c].keyed => Told(r))
    BY <1>1 DEF Waits, Told
<1> QED
    BY <1>1, <1>2 DEF Proceeds, Told

LEMMA Gets ==
    ASSUME CartInv, NEW c \in Clients, order[c].pc \in {"read", "insert", "revive"},
           \/ Carts!Goto(c, "insert") \/ Carts!Goto(c, "revive")
           \/ Carts!AfterCart(c)
    PROVE  \E r : Proceeds(c, r)
<1>1. ASSUME NEW pc2 \in {"insert", "revive", "merge"}, Carts!Goto(c, pc2),
             pc2 = "merge" => order[c].op = "add"
      PROVE  \E r : Proceeds(c, r)
  <2>1. PICK r : Becomes(c, r) /\ r.pc = pc2 /\ (r.keyed <=> order[c].keyed)
    BY <1>1, OrderGoes DEF Carts!Steps
  <2> QED
    BY <1>1, <2>1 DEF Proceeds, Waits, Told
<1>2. CASE Carts!AfterCart(c)
    BY <1>1, <1>2, Answers DEF Carts!AfterCart
<1> QED
    BY <1>1, <1>2

LEMMA ProceedStep ==
    ASSUME CartInv, NEW c \in Clients, NEW r, Proceeds(c, r),
           cart' \in Carts!CartRecord, cart'.lines \in SUBSET cart.lines,
           tangled => tangled', order[c].pc = "undo" => tangled',
           Noted => Noted', applied' = applied, overtaken' = overtaken,
           arrivals' \in 0..MaxCalls, failures' = failures
    PROVE  CartKept(c)
<1>1. LinesInv'
    BY LinesKept DEF Proceeds
<1>2. KeyInv'
    BY KeyKept DEF Proceeds
<1>3. CartNumbers'
    BY DEF CartInv, Carts!TypeOK, CartNumbers
<1> QED
    BY <1>1, <1>2, <1>3 DEF CartKept, Proceeds

(* The steps that leave the document alone.                                *)
LEMMA ProceedsQuietly ==
    ASSUME CartInv, NEW c \in Clients, NEW r, Proceeds(c, r), cart' = cart,
           order[c].pc # "undo",
           tangled => tangled', Noted => Noted', applied' = applied,
           overtaken' = overtaken, arrivals' \in 0..MaxCalls, failures' = failures
    PROVE  CartKept(c)
BY ProceedStep DEF CartInv, Carts!TypeOK

LEMMA CartArrives ==
    ASSUME CartInv, NEW c \in Clients, NEW r \in Carts!Orders, Sent(r), ~Waits(r),
           r.pc # "undo", Carts!Arrive(c, r)
    PROVE  CartKept(c)
<1>1. /\ order[c].pc = "idle" /\ order' = [order EXCEPT ![c] = r]
      /\ cart' = cart /\ failures' = failures /\ applied' = applied
      /\ overtaken' = overtaken /\ arrivals' = arrivals + 1
      /\ arrivals < MaxCalls
    BY DEF Carts!Arrive, Carts!At, Carts!ghosts
<1>2. (tangled => tangled') /\ (Noted => Noted')
    BY Zenon DEF Carts!Arrive, Carts!ghosts, Noted
<1>3. ~Told(order[c])
    BY <1>1 DEF CartInv, Sent, Waits, Told
<1>4. Proceeds(c, r)
    BY <1>1, <1>3 DEF Proceeds, Becomes
<1>5. arrivals' \in 0..MaxCalls
    BY <1>1, CartBounds DEF CartInv, Carts!TypeOK
<1> QED
    BY <1>1, <1>2, <1>4, <1>5, ProceedsQuietly

LEMMA ArrivesKeeps ==
    ASSUME CartInv, NEW c \in Clients, Carts!Arrives(c)
    PROVE  CartKept(c)
<1>1. /\ Carts!Idle \in Carts!Orders /\ arrivals \in 0..MaxCalls
      /\ cart.version \in Nat /\ cart.lines \subseteq Carts!Line
      /\ Carts!Idle.op = "none" /\ ~Carts!Idle.keyed
      /\ Carts!Idle.quantity = 0
    BY OrderShape DEF CartInv, Carts!TypeOK, Carts!CartRecord, Carts!Idle
<1>2. \A l \in cart.lines : l.id \in 0..MaxCalls
    BY <1>1, CartBounds DEF Carts!Line
<1>3. Carts!Expected \subseteq Nat \cup {Carts!NoVersion}
    BY <1>1 DEF Carts!Expected
<1>4. \A q \in Quantities : q \in Nat /\ q <= MaxQuantity
    BY CartBounds
<1>5. 0 <= MaxQuantity
    BY CartBounds
<1> USE DEF Carts!Orders, Carts!Steps, Sent, Waits
<1>6. CASE Carts!GetCart(c)
  <2> DEFINE r == [Carts!Idle EXCEPT !.op = "get", !.pc = "read"]
  <2>1. r \in Carts!Orders /\ Sent(r) /\ ~Waits(r) /\ r.pc # "undo"
    BY <1>1, <1>5
  <2>2. Carts!Arrive(c, r)
    BY <1>6 DEF Carts!GetCart
  <2> HIDE DEF r
  <2> QED
    BY <2>1, <2>2, CartArrives
<1>7. CASE Carts!AddItem(c)
  <2>1. PICK t \in Skus, q \in Quantities, v \in Carts!Expected, k \in BOOLEAN :
            Carts!Arrive(c, [Carts!Idle EXCEPT
                !.op = "add", !.sku = t, !.quantity = q, !.version = v,
                !.id = arrivals + 1, !.keyed = k,
                !.pc = IF k THEN "lookup" ELSE "read"])
    BY <1>7 DEF Carts!AddItem
  <2> DEFINE p == IF k THEN "lookup" ELSE "read"
             r == [Carts!Idle EXCEPT
                      !.op = "add", !.sku = t, !.quantity = q, !.version = v,
                      !.id = arrivals + 1, !.keyed = k, !.pc = p]
  <2>2. Carts!Arrive(c, r)
    BY <2>1
  <2>3. arrivals + 1 \in 0..MaxCalls /\ arrivals + 1 # 0
    BY <1>1, <2>2, CartBounds DEF Carts!Arrive
  <2>4. p \in {"lookup", "read"} /\ (k => p = "lookup")
    OBVIOUS
  <2> HIDE DEF p
  <2>5. r \in Carts!Orders
    BY <1>1, <1>3, <1>4, <2>3, <2>4
  <2>6. /\ r.op = "add" /\ r.sku = t /\ r.quantity = q /\ r.id = arrivals + 1
        /\ r.pc = p /\ (r.keyed <=> k)
    BY <1>1
  <2> HIDE DEF r
  <2>7. Sent(r) /\ ~Waits(r) /\ r.pc # "undo"
    BY <1>4, <2>3, <2>4, <2>6 DEF Carts!NoLine
  <2> QED
    BY <2>2, <2>5, <2>7, CartArrives
<1>8. CASE Carts!UpdateItem(c)
  <2>1. PICK l \in cart.lines, q \in Quantities :
            Carts!Arrive(c, [Carts!Idle EXCEPT
                !.op = "update", !.pc = "find_line", !.id = l.id, !.quantity = q,
                !.version = cart.version])
    BY <1>8 DEF Carts!UpdateItem
  <2> DEFINE r == [Carts!Idle EXCEPT
                      !.op = "update", !.pc = "find_line", !.id = l.id,
                      !.quantity = q, !.version = cart.version]
  <2>2. r \in Carts!Orders /\ Sent(r) /\ ~Waits(r) /\ r.pc # "undo"
    BY <1>1, <1>2, <1>4
  <2>3. Carts!Arrive(c, r)
    BY <2>1
  <2> HIDE DEF r
  <2> QED
    BY <2>2, <2>3, CartArrives
<1>9. CASE Carts!RemoveItem(c)
  <2>1. PICK l \in cart.lines, v \in Carts!Expected :
            Carts!Arrive(c, [Carts!Idle EXCEPT
                !.op = "remove", !.pc = "pull", !.id = l.id, !.version = v])
    BY <1>9 DEF Carts!RemoveItem
  <2> DEFINE r == [Carts!Idle EXCEPT
                      !.op = "remove", !.pc = "pull", !.id = l.id, !.version = v]
  <2>2. r \in Carts!Orders /\ Sent(r) /\ ~Waits(r) /\ r.pc # "undo"
    BY <1>1, <1>2, <1>3, <1>5
  <2>3. Carts!Arrive(c, r)
    BY <2>1
  <2> HIDE DEF r
  <2> QED
    BY <2>2, <2>3, CartArrives
<1>10. CASE Carts!ClearCart(c)
  <2>1. PICK v \in Carts!Expected :
            Carts!Arrive(c, [Carts!Idle EXCEPT
                !.op = "clear", !.pc = "empty", !.version = v])
    BY <1>10 DEF Carts!ClearCart
  <2> DEFINE r == [Carts!Idle EXCEPT
                      !.op = "clear", !.pc = "empty", !.version = v]
  <2>2. r \in Carts!Orders /\ Sent(r) /\ ~Waits(r) /\ r.pc # "undo"
    BY <1>1, <1>3, <1>5
  <2>3. Carts!Arrive(c, r)
    BY <2>1
  <2> HIDE DEF r
  <2> QED
    BY <2>2, <2>3, CartArrives
<1> QED
    BY <1>6, <1>7, <1>8, <1>9, <1>10 DEF Carts!Arrives

-----------------------------------------------------------------------------
(* getOrCreate()                                                           *)
LEMMA ReadCartKeeps ==
    ASSUME CartInv, NEW c \in Clients, Carts!ReadCart(c)
    PROVE  CartKept(c)
<1>1. /\ order[c].pc = "read" /\ cart' = cart /\ arrivals' = arrivals
      /\ failures' = failures /\ applied' = applied /\ overtaken' = overtaken
    BY DEF Carts!ReadCart, Carts!At, Carts!counts, Carts!ghosts
<1>2. (tangled => tangled') /\ (Noted => Noted')
    BY Zenon DEF Carts!ReadCart, Carts!ghosts, Noted
<1>3. \/ Carts!Goto(c, "insert") \/ Carts!Goto(c, "revive")
      \/ Carts!AfterCart(c)
    BY Zenon DEF Carts!ReadCart
<1>4. PICK r : Proceeds(c, r)
    BY <1>1, <1>3, Gets
<1>5. arrivals' \in 0..MaxCalls
    BY <1>1 DEF CartInv, Carts!TypeOK
<1> QED
    BY <1>1, <1>2, <1>4, <1>5, ProceedsQuietly

LEMMA MakesCart ==
    ASSUME CartInv, NEW c \in Clients, Carts!Insert(c) \/ Carts!Revive(c)
    PROVE  CartKept(c)
<1>1. /\ order[c].pc \in {"insert", "revive"} /\ Carts!AfterCart(c)
      /\ arrivals' = arrivals /\ failures' = failures /\ applied' = applied
      /\ overtaken' = overtaken
    BY DEF Carts!Insert, Carts!Revive, Carts!At, Carts!counts, Carts!ghosts
<1>2. (tangled => tangled') /\ (Noted => Noted')
  <2>1. CASE Carts!Insert(c)
    BY <2>1, Zenon DEF Carts!Insert, Carts!ghosts, Noted
  <2>2. CASE Carts!Revive(c)
    BY <2>2, Zenon DEF Carts!Revive, Carts!ghosts, Noted
  <2> QED
    BY <2>1, <2>2
<1>3. PICK r : Proceeds(c, r)
    BY <1>1, Gets
<1>4. cart' \in Carts!CartRecord /\ cart'.lines \in SUBSET cart.lines
  <2>1. cart \in Carts!CartRecord
    BY DEF CartInv, Carts!TypeOK
  <2>2. CASE Carts!Insert(c)
    <3>1. cart' = cart \/ cart' = [Carts!NoCart EXCEPT !.present = TRUE]
      BY <2>2 DEF Carts!Insert
    <3>2. [Carts!NoCart EXCEPT !.present = TRUE] \in Carts!CartRecord
          /\ [Carts!NoCart EXCEPT !.present = TRUE].lines = {}
      BY DEF Carts!NoCart, Carts!CartRecord
    <3> QED
      BY <2>1, <3>1, <3>2
  <2>3. CASE Carts!Revive(c)
    <3> DEFINE revived == [cart EXCEPT !.status = "active",
                                       !.version = cart.version + 1]
    <3>1. cart' = cart \/ cart' = revived
      BY <2>3 DEF Carts!Revive
    <3>2. revived \in Carts!CartRecord /\ revived.lines = cart.lines
      <4>1. cart.version + 1 \in Nat
        BY <2>1 DEF Carts!CartRecord
      <4> QED
        BY <2>1, <4>1 DEF Carts!CartRecord
    <3> QED
      BY <2>1, <3>1, <3>2
  <2> QED
    BY <2>2, <2>3
<1>5. arrivals' \in 0..MaxCalls
    BY <1>1 DEF CartInv, Carts!TypeOK
<1> QED
    BY <1>1, <1>2, <1>3, <1>4, <1>5, ProceedStep

(* An add with the key starts to wait only if no effect is known of, or is *)
(* counted.                                                                *)
LEMMA LookupKeeps ==
    ASSUME CartInv, NEW c \in Clients, Carts!Lookup(c) \/ Carts!LookupFails(c)
    PROVE  CartKept(c)
<1>1. /\ order[c].pc = "lookup" /\ cart' = cart /\ arrivals' = arrivals
      /\ failures' \in 0..MaxFailures /\ applied' = applied
  <2>1. failures \in 0..MaxFailures
    BY DEF CartInv, Carts!TypeOK
  <2>2. CASE Carts!Lookup(c)
    BY <2>1, <2>2 DEF Carts!Lookup, Carts!At, Carts!counts
  <2>3. CASE Carts!LookupFails(c)
    BY <2>1, <2>3, CartBounds DEF Carts!LookupFails, Carts!At
  <2> QED
    BY <2>2, <2>3
<1>2. (tangled => tangled') /\ (Noted' <=> Noted)
  <2>1. CASE Carts!Lookup(c)
    BY <2>1, Zenon DEF Carts!Lookup, Noted
  <2>2. CASE Carts!LookupFails(c)
    BY <2>2, Zenon DEF Carts!LookupFails, Noted
  <2> QED
    BY <2>1, <2>2
<1>3. ~Told(order[c]) /\ ~Waits(order[c])
    BY <1>1 DEF Told, Waits
<1>4. arrivals' \in 0..MaxCalls
    BY <1>1 DEF CartInv, Carts!TypeOK
<1>5. CASE Carts!Finish(c) /\ overtaken' = overtaken /\ failures' = failures
  <2>1. Proceeds(c, Carts!Idle)
    BY <1>3, <1>5, OrderFinishes, OrderShape DEF Proceeds
  <2> QED
    BY <1>1, <1>2, <1>4, <1>5, <2>1, ProceedsQuietly
<1>6. ASSUME NEW known, Carts!GoesOn(c, known), record => known
      PROVE  CartKept(c)
  <2>1. /\ Carts!Goto(c, "read")
        /\ overtaken' = IF known \/ Carts!Rivals(c) # {} \/ forgotten
                        THEN overtaken + 1 ELSE overtaken
    BY <1>6 DEF Carts!GoesOn
  <2>2. PICK r : Becomes(c, r) /\ r.pc = "read" /\ (r.keyed <=> order[c].keyed)
    BY <1>1, <2>1, OrderGoes DEF Carts!Steps
  <2>3. LinesInv'
    BY <1>1, <1>2, <2>2, LinesKept
  <2>4. CartNumbers'
    <3>1. overtaken' \in {overtaken, overtaken + 1}
      BY <2>1
    <3> QED
      BY <1>1, <1>4, <3>1 DEF CartInv, Carts!TypeOK, CartNumbers
  <2>5. order'[c] = r /\ \A d \in Clients \ {c} : order'[d] = order[d]
    BY <2>2, BecomesTyped
  <2>6. /\ IsFiniteSet(Waiting) /\ Cardinality(Waiting) \in Nat
        /\ applied \in Nat /\ overtaken \in Nat
        /\ applied + Cardinality(Waiting) <= 1 + overtaken
    BY WaitingCount DEF CartInv, KeyInv
  <2>7. Waiting' \in {Waiting, Waiting \cup {c}}
    <3>1. c \notin Waiting
      BY <1>3 DEF Waiting
    <3> QED
      BY <2>2, <3>1, WaitingMoves
  <2>8. Cardinality(Waiting') \in {Cardinality(Waiting), Cardinality(Waiting) + 1}
    BY <2>6, <2>7, FS_AddElement
  <2>9. applied' + Cardinality(Waiting') <= 1 + overtaken'
    <3>1. CASE known \/ Carts!Rivals(c) # {} \/ forgotten
      BY <1>1, <2>1, <2>6, <2>8, <3>1
    <3>2. CASE Carts!Rivals(c) = {} /\ ~(known \/ forgotten)
      <4>1. \A d \in Clients : ~Told(order[d]) /\ ~Waits(order[d])
        BY <1>3, <3>2 DEF Carts!Rivals, Carts!At, Told, Waits
      <4>2. ~Noted
        BY <1>6, <3>2, Zenon DEF Noted
      <4>5. ~(applied > 0)
        BY <4>1, <4>2 DEF CartInv, KeyInv
      <4>3. Waiting = {}
        BY <4>1 DEF Waiting
      <4>4. Cardinality(Waiting) = 0
        BY <4>3, FS_EmptySet
      <4> QED
        BY <1>1, <2>1, <2>6, <2>8, <3>2, <4>5, <4>4
    <3> QED
      BY <3>1, <3>2
  <2>10. ASSUME applied' > 0, ~Noted'
         PROVE  \E d \in Clients : Told(order'[d])
    <3>1. PICK d \in Clients : Told(order[d])
      BY <1>1, <1>2, <2>10 DEF CartInv, KeyInv
    <3>2. d # c
      BY <1>3, <3>1
    <3> QED
      BY <2>5, <3>1, <3>2
  <2>11. KeyInv'
    BY <2>9, <2>10 DEF KeyInv
  <2> QED
    BY <2>2, <2>3, <2>4, <2>11 DEF CartKept
<1>7. CASE Carts!LookupFails(c)
    BY <1>6, <1>7 DEF Carts!LookupFails
<1>8. CASE Carts!Lookup(c) /\ record
  <2>1. Carts!Finish(c) /\ overtaken' = overtaken /\ failures' = failures
    BY <1>8 DEF Carts!Lookup, Carts!counts
  <2> QED
    BY <1>5, <2>1
<1>9. CASE Carts!Lookup(c) /\ ~record
  <2>1. Carts!GoesOn(c, FALSE)
    BY <1>9 DEF Carts!Lookup
  <2> QED
    BY <1>6, <1>9, <2>1
<1> QED
    BY <1>7, <1>8, <1>9

(* The others that touch the document only to take lines away.             *)
LEMMA OthersKeep ==
    ASSUME CartInv, NEW c \in Clients,
           Carts!FindLine(c) \/ Carts!Reread(c) \/ Carts!Store(c)
    PROVE  CartKept(c)
<1>1. /\ order[c].pc \in {"find_line", "reread", "store"} /\ cart' = cart
      /\ arrivals' = arrivals /\ failures' = failures /\ applied' = applied
      /\ overtaken' = overtaken
    BY DEF Carts!FindLine, Carts!Reread, Carts!Store, Carts!At, Carts!counts,
           Carts!ghosts
<1>2. (tangled => tangled') /\ (Noted => Noted')
  <2>1. CASE Carts!FindLine(c)
    BY <2>1, Zenon DEF Carts!FindLine, Carts!ghosts, Noted
  <2>2. CASE Carts!Reread(c)
    BY <2>2, Zenon DEF Carts!Reread, Carts!ghosts, Noted
  <2>3. CASE Carts!Store(c)
    <3>1. tangled' = tangled /\ record' = TRUE
      BY <2>3 DEF Carts!Store
    <3> QED
      BY <3>1, Zenon DEF Noted
  <2> QED
    BY <2>1, <2>2, <2>3
<1>3. arrivals' \in 0..MaxCalls
    BY <1>1 DEF CartInv, Carts!TypeOK
<1>4. CASE Carts!FindLine(c) \/ Carts!Reread(c)
  <2>1. ~order[c].keyed
    BY <1>4 DEF CartInv, Sent, Waits, Carts!FindLine, Carts!Reread, Carts!At
  <2>2. \E r : Proceeds(c, r)
    <3>1. ASSUME NEW pc2 \in {"set", "read"}, Carts!Goto(c, pc2),
                 order[c].pc \notin {"undo", "store"}
          PROVE  \E r : Proceeds(c, r)
      <4>1. PICK r : Becomes(c, r) /\ r.pc = pc2 /\ (r.keyed <=> order[c].keyed)
        BY <2>1, <3>1, OrderGoes DEF Carts!Steps
      <4> QED
        BY <2>1, <3>1, <4>1 DEF Proceeds, Waits, Told
    <3> QED
      BY <1>4, <3>1, Answers DEF Carts!FindLine, Carts!Reread, Carts!At
  <2> QED
    BY <1>1, <1>2, <1>3, <2>2, ProceedsQuietly
<1>5. CASE Carts!Store(c)
  <2>1. Carts!Finish(c)
    BY <1>5 DEF Carts!Store
  <2>2. Noted'
    BY <1>5, Zenon DEF Carts!Store, Noted
  <2>3. Becomes(c, Carts!Idle)
    BY <2>1, OrderFinishes
  <2>4. LinesInv'
    BY <1>1, <1>2, <2>3, OrderShape, LinesKept
  <2>5. KeyInv'
    BY <1>1, <2>2, <2>3, OrderShape, KeyKept
  <2>6. CartNumbers'
    BY <1>1, <1>3 DEF CartInv, Carts!TypeOK, CartNumbers
  <2> QED
    BY <2>3, <2>4, <2>5, <2>6 DEF CartKept
<1> QED
    BY <1>4, <1>5

(* removeItem() and clearCart()                                            *)
LEMMA EmptiesKeep ==
    ASSUME CartInv, NEW c \in Clients, Carts!Pull(c) \/ Carts!Empty(c)
    PROVE  CartKept(c)
<1>1. /\ order[c].pc \in {"pull", "empty"} /\ arrivals' = arrivals
      /\ failures' = failures /\ applied' = applied /\ overtaken' = overtaken
    BY DEF Carts!Pull, Carts!Empty, Carts!At, Carts!counts, Carts!ghosts
<1>2. (tangled => tangled') /\ (Noted => Noted')
  <2>1. CASE Carts!Pull(c)
    BY <2>1, Zenon DEF Carts!Pull, Carts!ghosts, Noted
  <2>2. CASE Carts!Empty(c)
    BY <2>2, Zenon DEF Carts!Empty, Carts!ghosts, Noted
  <2> QED
    BY <2>1, <2>2
<1>3. cart \in Carts!CartRecord /\ arrivals' \in 0..MaxCalls
    BY <1>1 DEF CartInv, Carts!TypeOK
<1>4. \/ cart' = cart
      \/ \E lines \in SUBSET cart.lines : Carts!Write(lines)
    BY DEF Carts!Pull, Carts!Empty
<1>5. cart' \in Carts!CartRecord /\ cart'.lines \in SUBSET cart.lines
  <2>1. ASSUME NEW lines \in SUBSET cart.lines, Carts!Write(lines)
        PROVE  cart' \in Carts!CartRecord /\ cart'.lines \in SUBSET cart.lines
    <3>1. lines \subseteq Carts!Line
      BY <1>3 DEF Carts!CartRecord
    <3> QED
      BY <2>1, <3>1, WriteShape
  <2> QED
    BY <1>3, <1>4, <2>1
<1>6. \E r : Proceeds(c, r)
  <2>1. Carts!Answer(c) \/ Carts!Goto(c, "reread")
    BY DEF Carts!Pull, Carts!Empty
  <2>2. ~order[c].keyed
    BY <1>1 DEF CartInv, Sent, Waits
  <2>3. ASSUME Carts!Goto(c, "reread") PROVE \E r : Proceeds(c, r)
    <3>1. PICK r : /\ Becomes(c, r) /\ r.pc = "reread"
                   /\ (r.keyed <=> order[c].keyed)
      BY <1>1, <2>2, <2>3, OrderGoes DEF Carts!Steps
    <3> QED
      BY <2>2, <3>1 DEF Proceeds, Waits, Told
  <2> QED
    BY <2>1, <2>3, Answers
<1> QED
  <2>1. PICK r : Proceeds(c, r)
    BY <1>6
  <2> QED
    BY <1>1, <1>2, <1>3, <1>5, <2>1, ProceedStep

-----------------------------------------------------------------------------
(* addItem(): the effect of the key, the increment, the undoing, the push. *)
LEMMA AppliesStep ==
    ASSUME CartInv, NEW c \in Clients, order[c].pc \in {"merge", "push"},
           Carts!Answer(c), Carts!Applies(c), overtaken' = overtaken,
           Noted => Noted', failures' = failures
    PROVE  KeyInv' /\ applied' \in Nat /\ \E r : Proceeds(c, r)
<1>1. PICK r : /\ Proceeds(c, r) /\ ~Waits(r) /\ (order[c].keyed => Told(r))
    BY Answers
<1>2. applied \in Nat
    BY DEF CartInv, Carts!TypeOK
<1>3. CASE order[c].keyed
  <2>1. applied' = applied + 1
    BY <1>3 DEF Carts!Applies
  <2>2. Waits(order[c])
    BY <1>3 DEF Waits
  <2>3. KeyInv'
    BY <1>1, <1>3, <2>1, <2>2, KeyApplied DEF Proceeds
  <2> QED
    BY <1>1, <1>2, <2>1, <2>3
<1>4. CASE ~order[c].keyed
  <2>1. applied' = applied
    BY <1>4 DEF Carts!Applies
  <2>2. KeyInv'
    BY <1>1, <2>1, KeyKept DEF Proceeds
  <2> QED
    BY <1>1, <1>2, <2>1, <2>2
<1> QED
    BY <1>3, <1>4

(* What touching a line marks.                                             *)
LEMMA TouchesMarks ==
    ASSUME NEW S, Carts!Touches(S)
    PROVE  /\ tangled => tangled'
           /\ \A d \in Clients, l \in S :
                 order[d].pc = "undo" /\ order[d].id = l.id => tangled'
<1>1. tangled' = (tangled \/ Carts!BeingUndone(S))
    BY Zenon DEF Carts!Touches
<1>2. tangled => tangled'
    BY <1>1, Zenon
<1>3. Carts!BeingUndone(S) => tangled'
    BY <1>1, Zenon
<1>4. \A d \in Clients, l \in S :
          order[d].pc = "undo" /\ order[d].id = l.id => Carts!BeingUndone(S)
    BY Zenon DEF Carts!BeingUndone, Carts!At
<1> QED
    BY <1>2, <1>3, <1>4, Zenon

LEMMA LineShape ==
    ASSUME CartInv
    PROVE  /\ cart.lines \subseteq Carts!Line
           /\ \A l \in cart.lines : /\ l.id \in 1..MaxCalls /\ l.sku \in Skus
                                   /\ l.quantity \in Nat
           /\ \A l, m \in cart.lines : l.sku = m.sku => l = m
<1>1. cart.lines \subseteq Carts!Line
    BY DEF CartInv, Carts!TypeOK, Carts!CartRecord
<1> QED
    BY <1>1 DEF Carts!Line, CartInv, LinesInv, Carts!LinesDistinct

(* All the lines of a set get one quantity.                                *)
LEMMA SameQuantity ==
    ASSUME CartInv, NEW S \in SUBSET cart.lines, NEW n \in Nat,
           Carts!Write({IF l \in S THEN [l EXCEPT !.quantity = n]
                        ELSE l : l \in cart.lines})
    PROVE  /\ cart' \in Carts!CartRecord
           /\ \A m \in cart'.lines : m \in cart.lines \ S \/ m.quantity = n
           /\ IsFiniteSet(cart'.lines) /\ Carts!LinesDistinct'
<1> DEFINE q == [l \in S |-> n]
           lines == {IF l \in S THEN [l EXCEPT !.quantity = n]
                     ELSE l : l \in cart.lines}
<1>1. q \in [S -> Nat] /\ \A l \in S : q[l] = n
    OBVIOUS
<1>2. lines \subseteq Carts!Line
  <2> SUFFICES ASSUME NEW l \in cart.lines
               PROVE  (IF l \in S THEN [l EXCEPT !.quantity = n] ELSE l)
                          \in Carts!Line
    OBVIOUS
  <2> QED
    BY LineShape DEF Carts!Line
<1>3. cart' \in Carts!CartRecord /\ cart'.lines = lines
    BY <1>2, WriteShape
<1>4. lines = Requantified(S, q)
    BY <1>1 DEF Requantified
<1> HIDE DEF q, lines
<1>5. /\ \A m \in cart'.lines : \/ m \in cart.lines \ S
                               \/ \E l \in S : m.id = l.id /\ m.quantity = q[l]
      /\ IsFiniteSet(cart'.lines) /\ Carts!LinesDistinct'
    BY <1>1, <1>3, <1>4, RequantifiedLines
<1> QED
    BY <1>1, <1>3, <1>5

LEMMA SetQuantityKeeps ==
    ASSUME CartInv, NEW c \in Clients, Carts!SetQuantity(c)
    PROVE  CartKept(c)
<1> DEFINE S == Carts!LineOf(order[c].id)
           n == order[c].quantity
<1>1. /\ order[c].pc = "set" /\ Carts!Answer(c) /\ arrivals' = arrivals
      /\ failures' = failures /\ applied' = applied /\ overtaken' = overtaken
    BY DEF Carts!SetQuantity, Carts!At, Carts!counts
<1>2. Noted => Noted'
    BY Zenon DEF Carts!SetQuantity, Noted
<1>3. PICK r : Proceeds(c, r)
    BY <1>1, Answers
<1>4. /\ n \in Nat /\ ~(n > MaxQuantity) /\ S \in SUBSET cart.lines
      /\ arrivals' \in 0..MaxCalls
  <2>1. order[c] \in Carts!Orders /\ Sent(order[c])
    BY OrderShape DEF CartInv
  <2> QED
    BY <1>1, <2>1, CartBounds
    DEF Carts!Orders, Sent, Carts!LineOf, CartInv, Carts!TypeOK
<1>5. CASE /\ Carts!Write({IF l \in S THEN [l EXCEPT !.quantity = n]
                           ELSE l : l \in cart.lines})
           /\ Carts!Touches(S)
  <2>1. /\ cart' \in Carts!CartRecord
        /\ \A m \in cart'.lines : m \in cart.lines \ S \/ m.quantity = n
        /\ IsFiniteSet(cart'.lines) /\ Carts!LinesDistinct'
    BY <1>4, <1>5, SameQuantity
  <2>2. tangled => tangled'
    BY <1>5, TouchesMarks
  <2>3. \A m \in cart'.lines : m \in cart.lines \/ ~(m.quantity > MaxQuantity)
    BY <1>4, <2>1
  <2>4. Excused'
    BY <1>1, <1>3, <2>2, <2>3, ExcuseKept DEF Proceeds
  <2>5. KeyInv'
    BY <1>1, <1>2, <1>3, KeyKept DEF Proceeds
  <2>6. CartNumbers'
    BY <1>1, <1>4, <2>1 DEF CartInv, Carts!TypeOK, CartNumbers
  <2> QED
    BY <1>3, <2>1, <2>4, <2>5, <2>6 DEF CartKept, LinesInv, Proceeds
<1>6. CASE UNCHANGED <<cart, tangled>>
  <2>1. cart' = cart
    BY <1>6
  <2>2. tangled => tangled'
    BY <1>6, Zenon
  <2> QED
    BY <1>1, <1>2, <1>3, <1>4, <2>1, <2>2, ProceedsQuietly
<1> QED
  <2>1. \/ /\ Carts!Write({IF l \in S THEN [l EXCEPT !.quantity = n]
                           ELSE l : l \in cart.lines})
           /\ Carts!Touches(S)
        \/ UNCHANGED <<cart, tangled>>
    BY Zenon DEF Carts!SetQuantity
  <2> QED
    BY <1>5, <1>6, <2>1

LEMMA UndoKeeps ==
    ASSUME CartInv, NEW c \in Clients, Carts!Undo(c)
    PROVE  CartKept(c)
<1> DEFINE S == Carts!LineOf(order[c].id)
           n == order[c].quantity
           rival == {l \in S : \E d \in Clients \ {c} :
                                   Carts!At(d, "undo") /\ order[d].id = l.id}
<1>1. /\ order[c].pc = "undo" /\ Carts!Answer(c) /\ arrivals' = arrivals
      /\ failures' = failures /\ applied' = applied /\ overtaken' = overtaken
      /\ Carts!Touches(rival)
    BY DEF Carts!Undo, Carts!At, Carts!counts
<1>2. Noted => Noted'
    BY Zenon DEF Carts!Undo, Noted
<1>3. PICK r : Proceeds(c, r)
    BY <1>1, Answers
<1>4. n \in Nat /\ S \in SUBSET cart.lines /\ arrivals' \in 0..MaxCalls
  <2>1. order[c] \in Carts!Orders
    BY OrderShape DEF CartInv
  <2> QED
    BY <1>1, <2>1 DEF Carts!Orders, Carts!LineOf, CartInv, Carts!TypeOK
<1>5. tangled => tangled'
    BY <1>1, TouchesMarks
<1>6. /\ cart' \in Carts!CartRecord
      /\ \A m \in cart'.lines : \/ m \in cart.lines /\ m.id # order[c].id
                               \/ m.quantity = n
      /\ IsFiniteSet(cart'.lines) /\ Carts!LinesDistinct'
  <2>1. CASE S # {}
    <3>1. Carts!Write({IF l \in S THEN [l EXCEPT !.quantity = n]
                       ELSE l : l \in cart.lines})
      BY <2>1 DEF Carts!Undo
    <3>2. /\ cart' \in Carts!CartRecord
          /\ \A m \in cart'.lines : m \in cart.lines \ S \/ m.quantity = n
          /\ IsFiniteSet(cart'.lines) /\ Carts!LinesDistinct'
      BY <1>4, <3>1, SameQuantity
    <3>3. \A m \in cart.lines \ S : m.id # order[c].id
      BY DEF Carts!LineOf
    <3> QED
      BY <3>2, <3>3
  <2>2. CASE S = {}
    <3>1. cart' = cart
      BY <2>2 DEF Carts!Undo
    <3>2. \A m \in cart.lines : m.id # order[c].id
      BY <2>2 DEF Carts!LineOf
    <3>3. cart'.lines \in SUBSET cart.lines /\ cart' \in Carts!CartRecord
      BY <3>1 DEF CartInv, Carts!TypeOK
    <3> QED
      BY <3>1, <3>2, <3>3, FewerLines
  <2> QED
    BY <2>1, <2>2
<1>7. order'[c] = r /\ r.pc # "undo"
      /\ \A d \in Clients \ {c} : order'[d] = order[d]
    BY <1>3, BecomesTyped DEF Proceeds
<1>8. Excused'
  <2>1. ASSUME ~tangled' PROVE ~tangled /\ n <= MaxQuantity
    BY <1>1, <1>5, <2>1 DEF CartInv, LinesInv, Excused
  <2>2. ASSUME NEW m \in cart'.lines, m.quantity > MaxQuantity, ~tangled'
        PROVE  \E d \in Clients : order'[d].pc = "undo" /\ order'[d].id = m.id
    <3>1. m \in cart.lines /\ m.id # order[c].id
      BY <1>4, <1>6, <2>1, <2>2, CartBounds
    <3>2. PICK d \in Clients : order[d].pc = "undo" /\ order[d].id = m.id
      BY <2>1, <2>2, <3>1 DEF CartInv, LinesInv, Excused
    <3> QED
      BY <1>7, <3>1, <3>2
  <2>3. ASSUME NEW d \in Clients, order'[d].pc = "undo", ~tangled'
        PROVE  order'[d].quantity <= MaxQuantity
    BY <1>7, <2>1, <2>3 DEF CartInv, LinesInv, Excused
  <2> QED
    BY <2>2, <2>3 DEF Excused
<1>9. KeyInv'
    BY <1>1, <1>2, <1>3, KeyKept DEF Proceeds
<1>10. CartNumbers'
    BY <1>1, <1>4, <1>6 DEF CartInv, Carts!TypeOK, CartNumbers
<1> QED
    BY <1>3, <1>6, <1>8, <1>9, <1>10 DEF CartKept, LinesInv, Proceeds

(* The line is the first of its SKU, and there is room for it.             *)
LEMMA NewLineKeeps ==
    ASSUME CartInv, NEW c \in Clients, Carts!Push(c)
    PROVE  CartKept(c)
<1> DEFINE new == Carts!NewLine(c)
<1>1. /\ order[c].pc = "push" /\ Carts!Answer(c) /\ arrivals' = arrivals
      /\ failures' = failures /\ overtaken' = overtaken
    BY DEF Carts!Push, Carts!At, Carts!counts
<1>2. (tangled => tangled') /\ (Noted => Noted')
    BY Zenon DEF Carts!Push, Noted
<1>3. PICK r : Proceeds(c, r)
    BY <1>1, Answers
<1>4. arrivals' \in 0..MaxCalls
    BY <1>1 DEF CartInv, Carts!TypeOK
<1>5. CASE /\ Carts!LineFor(order[c].sku) = {}
           /\ Carts!Cardinality(cart.lines) <= MaxLines
           /\ Carts!Write(cart.lines \cup {new}) /\ Carts!Applies(c)
  <2>1. /\ new \in Carts!Line /\ new.quantity = order[c].quantity
        /\ new.sku = order[c].sku /\ ~(new.quantity > MaxQuantity)
    <3>1. order[c] \in Carts!Orders /\ Sent(order[c])
      BY OrderShape DEF CartInv
    <3>2. /\ order[c].id \in 0..MaxCalls /\ order[c].id # 0
          /\ order[c].sku \in Skus /\ order[c].quantity \in Nat
          /\ order[c].quantity <= MaxQuantity
      BY <1>1, <3>1 DEF Carts!Orders, Sent, Carts!NoLine
    <3>3. order[c].id \in 1..MaxCalls /\ ~(order[c].quantity > MaxQuantity)
      BY <3>2, CartBounds
    <3> QED
      BY <3>2, <3>3 DEF Carts!NewLine, Carts!Line
  <2>2. cart' \in Carts!CartRecord /\ cart'.lines = cart.lines \cup {new}
    BY <1>5, <2>1, LineShape, WriteShape
  <2>3. \A l \in cart.lines : l.sku # new.sku
    BY <1>5, <2>1 DEF Carts!LineFor
  <2>4. /\ IsFiniteSet(cart'.lines) /\ Cardinality(cart'.lines) <= MaxLines + 1
    <3>1. IsFiniteSet(cart.lines)
      BY DEF CartInv, LinesInv
    <3>2. /\ IsFiniteSet(cart'.lines)
          /\ Cardinality(cart'.lines) <= Cardinality(cart.lines) + 1
          /\ Cardinality(cart'.lines) \in Nat /\ Cardinality(cart.lines) \in Nat
      <4>1. /\ IsFiniteSet(cart.lines \cup {new})
            /\ Cardinality(cart.lines \cup {new}) =
                   IF new \in cart.lines THEN Cardinality(cart.lines)
                   ELSE Cardinality(cart.lines) + 1
        BY <3>1, FS_AddElement
      <4>2. /\ Cardinality(cart.lines) \in Nat
            /\ Cardinality(cart.lines \cup {new}) \in Nat
        BY <3>1, <4>1, FS_CardinalityType
      <4> QED
        BY <2>2, <4>1, <4>2
    <3> QED
      BY <1>5, <3>2, SameCardinality, CartBounds
  <2>5. \A l, m \in cart'.lines : l.sku = m.sku => l = m
    BY <2>2, <2>3, LineShape
  <2>6. Carts!LinesDistinct'
    BY <2>4, <2>5, SameCardinality DEF Carts!LinesDistinct
  <2>7. \A l \in cart'.lines : l \in cart.lines \/ ~(l.quantity > MaxQuantity)
    BY <2>1, <2>2
  <2>8. Excused'
    BY <1>1, <1>2, <1>3, <2>7, ExcuseKept DEF Proceeds
  <2>9. KeyInv' /\ applied' \in Nat
    BY <1>1, <1>2, <1>5, AppliesStep
  <2>10. CartNumbers'
    BY <1>1, <1>4, <2>2, <2>9 DEF CartInv, Carts!TypeOK, CartNumbers
  <2> QED
    BY <1>3, <2>4, <2>6, <2>8, <2>9, <2>10 DEF CartKept, LinesInv, Proceeds
<1>6. CASE UNCHANGED <<cart, applied>>
  <2>1. cart' = cart /\ applied' = applied
    BY <1>6
  <2> QED
    BY <1>1, <1>2, <1>3, <1>4, <2>1, ProceedsQuietly
<1> QED
  <2>1. \/ /\ Carts!LineFor(order[c].sku) = {}
           /\ Carts!Cardinality(cart.lines) <= MaxLines
           /\ Carts!Write(cart.lines \cup {new}) /\ Carts!Applies(c)
        \/ UNCHANGED <<cart, applied>>
    BY Zenon DEF Carts!Push
  <2> QED
    BY <1>5, <1>6, <2>1

(* The increment: either the total is allowed and the add takes effect, or *)
(* the request remembers what to put back; if what it found was itself an  *)
(* excess, somebody else is about to undo it and the line is marked.       *)
LEMMA MergeKeeps ==
    ASSUME CartInv, NEW c \in Clients, Carts!Merge(c)
    PROVE  CartKept(c)
<1> DEFINE S == Carts!LineFor(order[c].sku)
           total == [l \in S |-> l.quantity + order[c].quantity]
           over == {l \in S : total[l] > MaxQuantity}
           lines == Requantified(S, total)
<1>1. /\ order[c].pc = "merge" /\ arrivals' = arrivals /\ failures' = failures
      /\ overtaken' = overtaken
    BY DEF Carts!Merge, Carts!At, Carts!counts
<1>2. Noted => Noted'
    BY Zenon DEF Carts!Merge, Noted
<1>3. order[c] \in Carts!Orders /\ Sent(order[c])
    BY OrderShape DEF CartInv
<1>4. arrivals' \in 0..MaxCalls
    BY <1>1 DEF CartInv, Carts!TypeOK
<1>5. S \in SUBSET cart.lines /\ \A l \in S : l.sku = order[c].sku
    BY DEF Carts!LineFor
<1>6. total \in [S -> Nat]
  <2>1. \A l \in S : l.quantity + order[c].quantity \in Nat
    BY <1>3, <1>5, LineShape DEF Carts!Orders
  <2> QED
    BY <2>1
<1>7. \/ Carts!Goto(c, "push") /\ UNCHANGED <<cart, tangled, applied>>
      \/ /\ Carts!Write(lines) /\ Carts!Touches(S)
         /\ over = {} /\ Carts!Applies(c) /\ Carts!Answer(c)
      \/ /\ Carts!Write(lines) /\ Carts!Touches(S)
         /\ \E l \in over : order' = [order EXCEPT ![c].pc = "undo",
                                                 ![c].id = l.id,
                                                 ![c].quantity = l.quantity]
         /\ UNCHANGED applied
    BY Zenon DEF Carts!Merge, Requantified
<1> HIDE DEF lines, total
<1>8. CASE Carts!Goto(c, "push") /\ UNCHANGED <<cart, tangled, applied>>
  <2>1. PICK r : Becomes(c, r) /\ r.pc = "push" /\ (r.keyed <=> order[c].keyed)
    BY <1>1, <1>3, <1>8, OrderGoes DEF Carts!Steps, Sent
  <2>2. Proceeds(c, r)
    BY <1>1, <2>1 DEF Proceeds, Waits, Told
  <2>3. cart' = cart /\ applied' = applied
    BY <1>8
  <2>4. tangled => tangled'
    BY <1>8, Zenon
  <2> QED
    BY <1>1, <1>2, <1>4, <2>2, <2>3, <2>4, ProceedsQuietly
<1>9. ASSUME Carts!Write(lines), Carts!Touches(S)
      PROVE  /\ cart' \in Carts!CartRecord
             /\ \A m \in cart'.lines : \/ m \in cart.lines \ S
                                      \/ \E l \in S : /\ m.id = l.id
                                                      /\ m.quantity = total[l]
             /\ IsFiniteSet(cart'.lines) /\ Carts!LinesDistinct'
             /\ tangled => tangled'
             /\ \A d \in Clients, l \in S :
                   order[d].pc = "undo" /\ order[d].id = l.id => tangled'
  <2>1. lines \subseteq Carts!Line
    <3> SUFFICES ASSUME NEW l \in cart.lines
                 PROVE  (IF l \in S THEN [l EXCEPT !.quantity = total[l]] ELSE l)
                            \in Carts!Line
      BY DEF lines, Requantified
    <3>1. CASE l \in S
      <4>1. l \in Carts!Line /\ total[l] \in Nat
        BY <1>6, <3>1, LineShape
      <4> QED
        BY <3>1, <4>1 DEF Carts!Line
    <3>2. CASE l \notin S
      BY <3>2, LineShape
    <3> QED
      BY <3>1, <3>2
  <2>2. cart' \in Carts!CartRecord /\ cart'.lines = Requantified(S, total)
    BY <1>9, <2>1, WriteShape DEF lines
  <2>3. /\ \A m \in cart'.lines : \/ m \in cart.lines \ S
                                 \/ \E l \in S : /\ m.id = l.id
                                                 /\ m.quantity = total[l]
        /\ IsFiniteSet(cart'.lines) /\ Carts!LinesDistinct'
    BY <1>5, <1>6, <2>2, RequantifiedLines
  <2> QED
    BY <1>9, <2>2, <2>3, TouchesMarks
<1>10. CASE /\ Carts!Write(lines) /\ Carts!Touches(S)
            /\ over = {} /\ Carts!Applies(c) /\ Carts!Answer(c)
  <2>1. KeyInv' /\ applied' \in Nat /\ \E r : Proceeds(c, r)
    BY <1>1, <1>2, <1>10, AppliesStep
  <2>2. PICK r : Proceeds(c, r)
    BY <2>1
  <2>3. \A l \in S : ~(total[l] > MaxQuantity)
    BY <1>10
  <2>4. \A m \in cart'.lines : m \in cart.lines \/ ~(m.quantity > MaxQuantity)
    BY <1>9, <1>10, <2>3
  <2>5. Excused'
    BY <1>1, <1>9, <1>10, <2>2, <2>4, ExcuseKept DEF Proceeds
  <2>6. CartNumbers'
    BY <1>1, <1>4, <1>9, <1>10, <2>1 DEF CartInv, Carts!TypeOK, CartNumbers
  <2> QED
    BY <1>9, <1>10, <2>1, <2>2, <2>5, <2>6 DEF CartKept, LinesInv, Proceeds
<1>11. CASE /\ Carts!Write(lines) /\ Carts!Touches(S)
            /\ \E l \in over : order' = [order EXCEPT ![c].pc = "undo",
                                                    ![c].id = l.id,
                                                    ![c].quantity = l.quantity]
            /\ UNCHANGED applied
  <2>1. PICK l \in S : order' = [order EXCEPT ![c].pc = "undo",
                                             ![c].id = l.id,
                                             ![c].quantity = l.quantity]
    BY <1>11
  <2> DEFINE r == [order[c] EXCEPT !.pc = "undo", !.id = l.id,
                                   !.quantity = l.quantity]
  <2>2. /\ l \in cart.lines /\ l.id \in 0..MaxCalls /\ l.id # 0
        /\ l.quantity \in Nat /\ l.sku = order[c].sku
    BY <1>5, LineShape, CartBounds
  <2>3. /\ r \in Carts!Orders /\ r.pc = "undo" /\ r.id = l.id
        /\ r.quantity = l.quantity /\ r.op = order[c].op
        /\ r.sku = order[c].sku /\ (r.keyed <=> order[c].keyed)
    BY <1>3, <2>2 DEF Carts!Orders, Carts!Steps
  <2>4. order' = [order EXCEPT ![c] = r]
    <3>1. order \in [Clients -> Carts!Orders]
      BY DEF CartInv, Carts!TypeOK
    <3> QED
      BY <2>1, <3>1
  <2> HIDE DEF r
  <2>5. Sent(r)
    BY <1>1, <1>3, <2>2, <2>3 DEF Sent, Carts!NoLine
  <2>6. Becomes(c, r)
    BY <2>3, <2>4, <2>5 DEF Becomes
  <2>7. order'[c] = r /\ \A d \in Clients \ {c} : order'[d] = order[d]
    BY <2>6, BecomesTyped
  <2>8. Excused'
    <3>1. ASSUME NEW m \in cart'.lines, m.quantity > MaxQuantity, ~tangled'
          PROVE  \E d \in Clients : order'[d].pc = "undo" /\ order'[d].id = m.id
      <4>1. CASE m \in cart.lines \ S
        <5>1. PICK d \in Clients : order[d].pc = "undo" /\ order[d].id = m.id
          BY <1>9, <1>11, <3>1, <4>1 DEF CartInv, LinesInv, Excused
        <5>2. d # c
          BY <1>1, <5>1
        <5> QED
          BY <2>7, <5>1, <5>2
      <4>2. CASE \E k \in S : m.id = k.id
        <5>1. PICK k \in S : m.id = k.id
          BY <4>2
        <5>2. k = l
          BY <1>5, <2>2, <5>1, LineShape
        <5> QED
          BY <2>3, <2>7, <5>1, <5>2
      <4> QED
        BY <1>9, <1>11, <4>1, <4>2
    <3>2. ASSUME NEW d \in Clients, order'[d].pc = "undo", ~tangled'
          PROVE  order'[d].quantity <= MaxQuantity
      <4>1. ~tangled
        BY <1>9, <1>11, <3>2
      <4>2. CASE d # c
        BY <2>7, <3>2, <4>1, <4>2 DEF CartInv, LinesInv, Excused
      <4>3. CASE d = c
        <5>1. ~(l.quantity > MaxQuantity)
          <6> SUFFICES ASSUME l.quantity > MaxQuantity PROVE FALSE
            OBVIOUS
          <6>1. PICK e \in Clients : order[e].pc = "undo" /\ order[e].id = l.id
            BY <2>2, <4>1 DEF CartInv, LinesInv, Excused
          <6> QED
            BY <1>9, <1>11, <2>1, <3>2, <6>1
        <5> QED
          BY <2>2, <2>3, <2>7, <4>3, <5>1, CartBounds
      <4> QED
        BY <4>2, <4>3
    <3> QED
      BY <3>1, <3>2 DEF Excused
  <2>9. applied' = applied
    BY <1>11
  <2>10. KeyInv'
    BY <1>1, <1>2, <2>3, <2>6, <2>9, KeyKept DEF Waits, Told
  <2>11. CartNumbers'
    BY <1>1, <1>4, <1>9, <1>11, <2>9 DEF CartInv, Carts!TypeOK, CartNumbers
  <2> QED
    BY <1>9, <1>11, <2>6, <2>8, <2>10, <2>11 DEF CartKept, LinesInv
<1> QED
    BY <1>7, <1>8, <1>10, <1>11

-----------------------------------------------------------------------------
(* A crash is marked if it cuts an undoing short.                          *)
LEMMA CrashKeeps ==
    ASSUME CartInv, NEW c \in Clients, Carts!Dies(c)
    PROVE  CartKept(c)
<1>1. /\ Carts!Finish(c) /\ cart' = cart /\ arrivals' = arrivals
      /\ failures < MaxFailures /\ failures' = failures + 1
      /\ applied' = applied /\ overtaken' = overtaken
    BY DEF Carts!Dies
<1>2. /\ tangled => tangled'
      /\ Noted => Noted'
      /\ order[c].pc = "undo" => tangled'
      /\ order[c].pc = "store" => Noted'
  <2>1. /\ tangled' = (tangled \/ Carts!At(c, "undo"))
        /\ forgotten' = (forgotten \/ Carts!At(c, "store"))
        /\ record' = record
    BY Zenon DEF Carts!Dies
  <2> QED
    BY <2>1, Zenon DEF Carts!At, Noted
<1>3. failures \in 0..MaxFailures /\ arrivals \in 0..MaxCalls
      /\ cart \in Carts!CartRecord /\ applied \in Nat /\ overtaken \in Nat
    BY DEF CartInv, Carts!TypeOK
<1>4. failures' \in 0..MaxFailures
    BY <1>1, <1>3, CartBounds
<1>5. Becomes(c, Carts!Idle)
    BY <1>1, OrderFinishes
<1>6. LinesInv'
    BY <1>1, <1>2, <1>5, OrderShape, LinesKept
<1>7. KeyInv'
    BY <1>1, <1>2, <1>5, OrderShape, KeyKept DEF Told
<1>8. CartNumbers'
    BY <1>1, <1>3, <1>4 DEF CartNumbers
<1> QED
    BY <1>5, <1>6, <1>7, <1>8 DEF CartKept

(* No request moves: the cart is converted, it lapses or the key does.     *)
LEMMA NoRequestKeeps ==
    ASSUME CartInv,
           Carts!MarkConverted \/ Carts!Lapse \/ Carts!RecordLapses
    PROVE  order' = order /\ LinesInv' /\ KeyInv' /\ CartNumbers'
<1>1. cart \in Carts!CartRecord /\ cart.version + 1 \in Nat
    BY DEF CartInv, Carts!TypeOK, Carts!CartRecord
<1>2. /\ order' = order /\ applied' = applied /\ overtaken' = overtaken
      /\ arrivals' \in 0..MaxCalls /\ failures' \in 0..MaxFailures
    BY CartBounds
    DEF CartInv, Carts!TypeOK, Carts!MarkConverted, Carts!Lapse,
        Carts!RecordLapses, Carts!ghosts
<1>3. (tangled' <=> tangled) /\ (Noted => Noted')
  <2>1. CASE Carts!MarkConverted
    BY <2>1, Zenon DEF Carts!MarkConverted, Carts!ghosts, Noted
  <2>2. CASE Carts!Lapse
    BY <2>2, Zenon DEF Carts!Lapse, Carts!ghosts, Noted
  <2>3. CASE Carts!RecordLapses
    <3>1. tangled' = tangled /\ forgotten' = TRUE
      BY <2>3 DEF Carts!RecordLapses
    <3> QED
      BY <3>1, Zenon DEF Noted
  <2> QED
    BY <2>1, <2>2, <2>3
<1>5. cart' \in Carts!CartRecord /\ cart'.lines \in SUBSET cart.lines
  <2> DEFINE converted == [cart EXCEPT !.status = "converted",
                                       !.version = cart.version + 1]
  <2>1. cart' \in {cart, converted, Carts!NoCart}
    BY DEF Carts!MarkConverted, Carts!Lapse, Carts!RecordLapses
  <2>2. converted \in Carts!CartRecord /\ converted.lines = cart.lines
    BY <1>1 DEF Carts!CartRecord
  <2>3. Carts!NoCart \in Carts!CartRecord /\ Carts!NoCart.lines = {}
    BY DEF Carts!NoCart, Carts!CartRecord
  <2> QED
    BY <1>1, <2>1, <2>2, <2>3
<1>6. LinesInv'
    BY <1>2, <1>3, <1>5, FewerLines DEF CartInv, LinesInv, Excused
<1>7. KeyInv'
  <2>1. Waiting' = Waiting
    BY <1>2 DEF Waiting
  <2> QED
    BY <1>2, <1>3, <2>1 DEF CartInv, KeyInv
<1>8. CartNumbers'
    BY <1>2, <1>5 DEF CartInv, Carts!TypeOK, CartNumbers
<1> QED
    BY <1>2, <1>6, <1>7, <1>8

LEMMA CartFlagsStep ==
    ASSUME record \in BOOLEAN, forgotten \in BOOLEAN, tangled \in BOOLEAN,
           Carts!Next
    PROVE  record' \in BOOLEAN /\ forgotten' \in BOOLEAN /\ tangled' \in BOOLEAN
<1>1. /\ record' = record \/ record' = TRUE \/ record' = FALSE
      /\ \/ forgotten' = forgotten \/ forgotten' = TRUE \/ forgotten' = FALSE
         \/ \E c \in Clients : forgotten' = (forgotten \/ Carts!At(c, "store"))
      /\ \/ tangled' = tangled
         \/ \E S : tangled' = (tangled \/ Carts!BeingUndone(S))
         \/ \E c \in Clients : tangled' = (tangled \/ Carts!At(c, "undo"))
  <2>1. ASSUME NEW c \in Clients, Carts!Arrives(c)
        PROVE  record' = record /\ forgotten' = forgotten /\ tangled' = tangled
    BY <2>1, Zenon
    DEF Carts!Arrives, Carts!GetCart, Carts!AddItem, Carts!UpdateItem,
        Carts!RemoveItem, Carts!ClearCart, Carts!Arrive, Carts!ghosts
  <2>2. ASSUME NEW c \in Clients, Carts!Continues(c)
        PROVE  /\ record' = record \/ record' = TRUE
               /\ forgotten' = forgotten \/ forgotten' = FALSE
               /\ \/ tangled' = tangled
                  \/ \E S : tangled' = (tangled \/ Carts!BeingUndone(S))
    <3>1. CASE \/ Carts!ReadCart(c) \/ Carts!Insert(c) \/ Carts!Revive(c)
               \/ Carts!Lookup(c) \/ Carts!LookupFails(c) \/ Carts!Push(c)
               \/ Carts!Store(c) \/ Carts!FindLine(c) \/ Carts!Pull(c)
               \/ Carts!Empty(c) \/ Carts!Reread(c)
      BY <3>1, Zenon
      DEF Carts!ReadCart, Carts!Insert, Carts!Revive, Carts!Lookup,
          Carts!LookupFails, Carts!Push, Carts!Store, Carts!FindLine,
          Carts!Pull, Carts!Empty, Carts!Reread, Carts!ghosts
    <3>2. CASE Carts!Merge(c) \/ Carts!Undo(c) \/ Carts!SetQuantity(c)
      BY <3>2, Zenon
      DEF Carts!Merge, Carts!Undo, Carts!SetQuantity, Carts!Touches
    <3> QED
      BY <2>2, <3>1, <3>2, Zenon DEF Carts!Continues
  <2>3. ASSUME NEW c \in Clients, Carts!Dies(c)
        PROVE  /\ record' = record
               /\ forgotten' = (forgotten \/ Carts!At(c, "store"))
               /\ tangled' = (tangled \/ Carts!At(c, "undo"))
    BY <2>3, Zenon DEF Carts!Dies
  <2>4. CASE Carts!MarkConverted
    BY <2>4, Zenon DEF Carts!MarkConverted, Carts!ghosts
  <2>5. CASE Carts!Lapse
    BY <2>5, Zenon DEF Carts!Lapse, Carts!ghosts
  <2>6. CASE Carts!RecordLapses
    BY <2>6, Zenon DEF Carts!RecordLapses
  <2> QED
    BY <2>1, <2>2, <2>3, <2>4, <2>5, <2>6, Zenon DEF Carts!Next
<1> QED
    BY <1>1, Zenon

LEMMA InitCart ==
    ASSUME Carts!Init
    PROVE  CartInv
<1>1. /\ cart = Carts!NoCart /\ order = [c \in Clients |-> Carts!Idle]
      /\ arrivals = 0 /\ failures = 0 /\ applied = 0 /\ overtaken = 0
    BY DEF Carts!Init
<1>2. record \in BOOLEAN /\ forgotten \in BOOLEAN /\ tangled \in BOOLEAN
    BY Zenon DEF Carts!Init
<1>3. cart \in Carts!CartRecord /\ cart.lines = {}
    BY <1>1 DEF Carts!NoCart, Carts!CartRecord
<1>4. /\ order \in [Clients -> Carts!Orders]
      /\ \A c \in Clients : order[c] = Carts!Idle /\ Sent(order[c])
    BY <1>1, OrderShape
<1>5. CartNumbers
    BY <1>1, <1>3, CartBounds DEF CartNumbers
<1>6. LinesInv
  <2>1. IsFiniteSet(cart.lines) /\ Cardinality(cart.lines) = 0
    BY <1>3, FS_EmptySet
  <2>2. Carts!LinesDistinct
    BY <1>3, <2>1, SameCardinality, CartBounds DEF Carts!LinesDistinct
  <2>3. Excused
    BY <1>3, <1>4, OrderShape DEF Excused
  <2> QED
    BY <2>1, <2>2, <2>3 DEF LinesInv
<1>7. KeyInv
  <2>1. Waiting = {}
    BY <1>4, OrderShape DEF Waiting
  <2>2. Cardinality(Waiting) = 0
    BY <2>1, FS_EmptySet
  <2> QED
    BY <1>1, <2>2 DEF KeyInv
<1> QED
    BY <1>2, <1>4, <1>5, <1>6, <1>7, CartTypeParts DEF CartInv

LEMMA NextCart ==
    ASSUME CartInv, Carts!Next
    PROVE  CartInv'
<1>1. ASSUME NEW c \in Clients,
             Carts!Arrives(c) \/ Carts!Continues(c) \/ Carts!Dies(c)
      PROVE  CartKept(c)
    BY <1>1, ArrivesKeeps, ReadCartKeeps, MakesCart, LookupKeeps, OthersKeep,
       EmptiesKeep, SetQuantityKeeps, UndoKeeps, NewLineKeeps, MergeKeeps,
       CrashKeeps DEF Carts!Continues
<1>2. /\ order' \in [Clients -> Carts!Orders]
      /\ \A d \in Clients : Sent(order'[d])
      /\ LinesInv' /\ KeyInv' /\ CartNumbers'
  <2>1. CASE \E c \in Clients :
                Carts!Arrives(c) \/ Carts!Continues(c) \/ Carts!Dies(c)
    <3>1. PICK c \in Clients : CartKept(c)
      BY <1>1, <2>1
    <3>2. PICK r : Becomes(c, r)
      BY <3>1 DEF CartKept
    <3> QED
      BY <3>1, <3>2, BecomesTyped DEF CartKept
  <2>2. CASE Carts!MarkConverted \/ Carts!Lapse \/ Carts!RecordLapses
    BY <2>2, NoRequestKeeps DEF CartInv, Carts!TypeOK
  <2> QED
    BY <2>1, <2>2 DEF Carts!Next
<1>3. record' \in BOOLEAN /\ forgotten' \in BOOLEAN /\ tangled' \in BOOLEAN
    BY CartFlagsStep, CartTypeParts DEF CartInv
<1>4. Carts!TypeOK'
    BY <1>2, <1>3, Zenon DEF CartNumbers, Carts!TypeOK
<1> QED
    BY <1>2, <1>4 DEF CartInv

LEMMA CartRests ==
    ASSUME CartInv, UNCHANGED cartVars
    PROVE  CartInv'
<1>1. /\ cart' = cart /\ record' = record /\ order' = order
      /\ arrivals' = arrivals /\ failures' = failures /\ tangled' = tangled
      /\ applied' = applied /\ forgotten' = forgotten
      /\ overtaken' = overtaken
    BY DEF cartVars
<1> QED
    BY <1>1, Zenon
    DEF CartInv, LinesInv, Excused, KeyInv, Waiting, Noted, Carts!TypeOK,
        Carts!LinesDistinct

-----------------------------------------------------------------------------
(***************************************************************************)
(* The three together.                                                     *)
(***************************************************************************)
CustomerInv == AccountInv /\ CartInv /\ WishlistInv

customerVars == <<part, accountVars, cartVars, wishlistVars>>

LEMMA CustomerStep ==
    ASSUME CustomerInv, [CustomerNext]_customerVars
    PROVE  CustomerInv'
<1>1. UNCHANGED accountVars => UNCHANGED vars
    BY DEF accountVars, vars, docs, grants, counts, ghosts, flags
<1>2. AccountInv'
    BY <1>1, NextSound DEF CustomerInv, CustomerNext, customerVars
<1>3. CartInv'
    BY NextCart, CartRests DEF CustomerInv, CustomerNext, customerVars
<1>4. WishlistInv'
    BY NextWishlist, WishlistRests DEF CustomerInv, CustomerNext, customerVars
<1> QED
    BY <1>2, <1>3, <1>4 DEF CustomerInv

(* The invariant holds in every state.                                     *)
THEOREM CustomerInvariance == CustomerSpec => []CustomerInv
<1>1. CustomerInit => CustomerInv
    BY InitSound, InitCart, InitWishlist DEF CustomerInit, CustomerInv
<1>2. CustomerInv /\ [CustomerNext]_customerVars => CustomerInv'
    BY CustomerStep
<1> QED
    BY <1>1, <1>2, PTL DEF CustomerSpec, customerVars

(* The documents, the tokens and the requests in flight keep their types.  *)
THEOREM DocumentsTyped == CustomerSpec => []CustomerTypeOK
<1>1. CustomerInv => CustomerTypeOK
    BY DEF CustomerInv, AccountInv, CartInv, WishlistInv, CustomerTypeOK
<1> QED
    BY <1>1, CustomerInvariance, PTL

(* Concurrent adds never make two lines of one SKU, nor list one variant   *)
(* twice, and neither list grows past one over its maximum                 *)
(* (addOrMergeItem(), addItem()).                                          *)
THEOREM ListedOnce == CustomerSpec => []NothingTwice
<1>1. CustomerInv => NothingTwice
    BY DEF CustomerInv, CartInv, LinesInv, WishlistInv, ListInv, NothingTwice
<1> QED
    BY <1>1, CustomerInvariance, PTL

(* A line over the maximum quantity is about to be put back, unless        *)
(* another request wrote the line meanwhile or the undoing was cut short   *)
(* (addOrMergeItem()).                                                     *)
THEOREM ExcessExplained == CustomerSpec => []ExcessIsExcused
<1>1. CustomerInv => ExcessIsExcused
  <2>1. Excused => Carts!ExcessIsExcused
    BY DEF Excused, Carts!ExcessIsExcused, Carts!BeingUndone, Carts!At
  <2> QED
    BY <2>1 DEF CustomerInv, CartInv, LinesInv, ExcessIsExcused
<1> QED
    BY <1>1, CustomerInvariance, PTL

(* An add with the idempotency key takes effect once, and once more only   *)
(* for each repetition that could not know of it: its own look-up failed,  *)
(* or it was sent before the answer of an earlier one was stored, or after *)
(* that answer was lost or had lapsed (idempotencyMiddleware()).           *)
THEOREM KeyCounts == CustomerSpec => []KeyAppliesOnce
<1>1. CustomerInv => KeyAppliesOnce
  <2>1. ASSUME CartInv PROVE Carts!KeyAppliesOnce
    BY <2>1, WaitingCount DEF CartInv, KeyInv, Carts!KeyAppliesOnce
  <2> QED
    BY <2>1 DEF CustomerInv, KeyAppliesOnce
<1> QED
    BY <1>1, CustomerInvariance, PTL

(* A walk to the last page has shown every item that was on the list all   *)
(* through it, whatever was added and removed meanwhile, the item of the   *)
(* cursor included (list()).                                               *)
THEOREM WalkShowsAll == CustomerSpec => []WalkComplete
<1>1. CustomerInv => WalkComplete
  <2>1. ASSUME WishlistInv PROVE Wishlists!WalkComplete
    <3>1. steady \subseteq Nat \ {0}
      BY <2>1, IdSets DEF WishlistInv, Wishlists!TypeOK
    <3> QED
      BY <2>1, <3>1
      DEF WishlistInv, ListInv, WalkInv, Wishlists!WalkComplete, Wishlists!Done
  <2> QED
    BY <2>1 DEF CustomerInv, WalkComplete
<1> QED
    BY <1>1, CustomerInvariance, PTL

=============================================================================
