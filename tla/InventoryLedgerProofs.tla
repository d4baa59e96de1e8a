----------------------- MODULE InventoryLedgerProofs ------------------------
(***************************************************************************)
(* Theorems about Inventory that relate its collections to each other and  *)
(* to what the service promises: what is counted as sold is what confirmed *)
(* reservations took, the ledger tells the fate of a reservation, onHand   *)
(* and sold add up to the ledger's receipts, and the service implements    *)
(* Claims.                                                                 *)
(***************************************************************************)
EXTENDS InventoryProofs

(* The calls that are made when the fate of a reservation was just decided. *)
FatedPcs == {"reserve_append", "release_stock", "release_append",
             "confirm_stock", "confirm_append"}

(* A request's own step. *)
Acts(c) ==
    \/ c \in Requests /\ Arrives(c)
    \/ c \in Sweeps /\ SweepStart(c)
    \/ Continues(c)
    \/ Breaks(c)

(* The steps that lead to one of those calls. *)
Decides(c) ==
    \/ ReserveCreate(c)
    \/ ReleaseTransition(c) \/ ReleaseStock(c)
    \/ ConfirmTransition(c) \/ ConfirmStock(c)

-----------------------------------------------------------------------------
(* Every step is a request's own, or the clock's, or changes nothing. *)
LEMMA StepsAreActs ==
    ASSUME [Next]_vars
    PROVE  \/ \E c \in Clients : Acts(c)
           \/ UNCHANGED <<stock, reservations, posted, received, req, stranded, failures>>
<1>1. CASE Next
    BY <1>1 DEF Next, Acts, Expire, Clients
<1>2. CASE UNCHANGED vars
    BY <1>2 DEF vars
<1> QED
    BY <1>1, <1>2

(* A request changes no record but its own. *)
LEMMA ActsAlone ==
    ASSUME TypeInv, NEW c \in Clients, Acts(c)
    PROVE  /\ \E r : req' = [req EXCEPT ![c] = r]
           /\ \A d \in Clients \ {c} : req'[d] = req[d]
<1>1. \E r : req' = [req EXCEPT ![c] = r]
  <2>1. CASE Arrives(c)
    BY <2>1 DEF Arrives, EnsureStart, AdjustStart, ReserveStart, ReleaseStart,
       ConfirmStart, CloseStart, Become
  <2>2. CASE SweepStart(c) \/ SweepNext(c)
    BY <2>2 DEF SweepStart, SweepNext, Become
  <2>3. CASE Breaks(c)
    BY <2>3 DEF Breaks, CreateThrows, SweepItemThrows, CallThrows, Crash, Goto,
       Finish, Become
  <2>4. CASE \/ EnsureCreate(c) \/ EnsureAppend(c) \/ AdjustApply(c)
             \/ AdjustAppend(c) \/ ReserveStock(c) \/ ReserveCreate(c)
             \/ ReserveUndo(c) \/ ReserveReplay(c) \/ ReserveAppend(c)
    BY <2>4 DEF EnsureCreate, EnsureAppend, AdjustApply, AdjustAppend,
       ReserveStock, ReserveCreate, ReserveUndo, ReserveReplay, ReserveAppend,
       Goto, Finish, Become
  <2>5. CASE \/ ReleaseTransition(c) \/ ReleaseStock(c) \/ ReleaseAppend(c)
             \/ ConfirmTransition(c) \/ ConfirmStock(c) \/ ConfirmAppend(c)
    BY <2>5 DEF ReleaseTransition, ReleaseStock, ReleaseAppend,
       ConfirmTransition, ConfirmStock, ConfirmAppend, Transition,
       AppendClosing, Goto, Finish, Become
  <2> QED
    BY <2>1, <2>2, <2>3, <2>4, <2>5 DEF Acts, Continues
<1> QED
    BY <1>1 DEF TypeInv, TypeOK

(* Only the deciding steps lead to a call that follows a decision. *)
LEMMA ElsewhereOtherwise ==
    ASSUME TypeInv, NEW c \in Clients, Acts(c), ~ Decides(c)
    PROVE  req'[c].pc \notin FatedPcs
<1> USE DEF TypeInv
<1>1. req \in [Clients -> Request]
    BY DEF TypeOK
<1>2. ASSUME NEW r, Become(c, r), r.pc \notin FatedPcs
      PROVE  req'[c].pc \notin FatedPcs
    BY <1>1, <1>2 DEF Become
<1>3. CASE Finish(c) /\ req[c].pc # "idle"
    BY <1>3, FinishType DEF FatedPcs
<1>4. CASE Arrives(c)
  <2>1. ASSUME NEW s \in Skus, NEW n \in Openings, EnsureStart(c, s, n)
        PROVE  req'[c].pc \notin FatedPcs
    BY <1>2, <2>1 DEF EnsureStart, FatedPcs
  <2>2. ASSUME NEW s \in Skus, NEW d \in Deltas, NEW a \in AdjustKeys \cup {NoKey},
               AdjustStart(c, s, d, a)
        PROVE  req'[c].pc \notin FatedPcs
    BY <1>2, <2>2 DEF AdjustStart, FatedPcs
  <2>3. ASSUME NEW s \in Skus, NEW k \in Keys, NEW q \in Quantities,
               ReserveStart(c, s, k, q)
        PROVE  req'[c].pc \notin FatedPcs
    BY <1>2, <2>3 DEF ReserveStart, FatedPcs
  <2>4. ASSUME NEW k \in Keys, ReleaseStart(c, k) \/ ConfirmStart(c, k)
        PROVE  req'[c].pc \notin FatedPcs
    BY <1>2, <2>4 DEF ReleaseStart, ConfirmStart, CloseStart, FatedPcs
  <2> QED
    BY <1>4, <2>1, <2>2, <2>3, <2>4 DEF Arrives
<1>5. CASE SweepStart(c) \/ SweepNext(c) \/ SweepItemThrows(c)
  <2>1. \A batch : Resume(batch).pc \notin FatedPcs
    BY DEF Resume, Idle, FatedPcs
  <2>2. \A k, batch : [pc |-> "release_transition", key |-> k,
                       batch |-> batch].pc \notin FatedPcs
    BY DEF FatedPcs
  <2>3. \E r : Become(c, r) /\ r.pc \notin FatedPcs
    <3> HIDE DEF Resume, FatedPcs
    <3> QED
      BY <1>5, <2>1, <2>2 DEF SweepStart, SweepNext, SweepItemThrows
  <2> QED
    BY <1>2, <2>3
<1>6. ASSUME NEW pc, Goto(c, pc), pc \notin FatedPcs,
             \/ req[c].pc = "ensure_create" /\ pc = "ensure_append"
             \/ req[c].pc = "adjust_apply" /\ pc = "adjust_append"
             \/ req[c].pc \in ReservePcs /\ pc \in ReservePcs
      PROVE  req'[c].pc \notin FatedPcs
    BY <1>6, GotoType
<1>7. CASE EnsureCreate(c) \/ AdjustApply(c) \/ ReserveStock(c) \/ CreateThrows(c)
  <2>1. \/ Finish(c) /\ req[c].pc # "idle"
        \/ Goto(c, "ensure_append") /\ req[c].pc = "ensure_create"
        \/ Goto(c, "adjust_append") /\ req[c].pc = "adjust_apply"
        \/ Goto(c, "reserve_create") /\ req[c].pc \in ReservePcs
        \/ Goto(c, "reserve_undo") /\ req[c].pc \in ReservePcs
    BY <1>7 DEF EnsureCreate, AdjustApply, ReserveStock, CreateThrows, At, ReservePcs
  <2>2. /\ "reserve_create" \in ReservePcs /\ "reserve_undo" \in ReservePcs
        /\ \A pc \in {"ensure_append", "adjust_append", "reserve_create",
                      "reserve_undo"} : pc \notin FatedPcs
    BY DEF ReservePcs, FatedPcs
  <2> QED
    BY <1>3, <1>6, <2>1, <2>2
<1>8. CASE \/ EnsureAppend(c) \/ AdjustAppend(c) \/ ReserveUndo(c)
           \/ ReserveReplay(c) \/ ReserveAppend(c) \/ ReleaseAppend(c)
           \/ ConfirmAppend(c) \/ CallThrows(c)
    BY <1>3, <1>8 DEF EnsureAppend, AdjustAppend, ReserveUndo, ReserveReplay,
       ReserveAppend, ReleaseAppend, ConfirmAppend, AppendClosing, CallThrows, At
<1>9. CASE Crash(c)
  <2>1. Become(c, Idle) /\ Idle.pc \notin FatedPcs
    BY <1>9 DEF Crash, Idle, FatedPcs
  <2> QED
    BY <1>2, <2>1
<1> QED
    BY <1>4, <1>5, <1>7, <1>8, <1>9 DEF Acts, Decides, Continues, Breaks

(* The deciding steps go on with the same key. *)
LEMMA DecidesGoesOn ==
    ASSUME TypeInv, NEW c \in Clients, NEW pc, Goto(c, pc),
           \/ req[c].pc = "reserve_create" /\ pc \in ReservePcs
           \/ req[c].pc \in ClosePcs /\ pc \in ClosePcs
    PROVE  /\ req'[c].pc = pc /\ req'[c].key = req[c].key /\ req[c].key \in Keys
           /\ \A d \in Clients \ {c} : req'[d] = req[d]
<1>1. req[c].pc = "reserve_create" => req[c].pc \in ReservePcs
    BY DEF ReservePcs
<1>2. /\ req'[c] = [req[c] EXCEPT !.pc = pc] /\ req'[c].pc = pc
      /\ \A d \in Clients \ {c} : req'[d] = req[d]
    BY <1>1, GotoType DEF TypeInv
<1>3. req[c] \in ReserveRequest \/ req[c] \in CloseRequest
    BY <1>1, RequestShape DEF TypeInv
<1> QED
    BY <1>2, <1>3 DEF ReserveRequest, CloseRequest

-----------------------------------------------------------------------------
(***************************************************************************)
(* What is counted as sold is what confirmed reservations took.            *)
(*                                                                         *)
(* confirm() first closes the reservation and then moves its units; in     *)
(* between they are in the hands of the request. What a failure leaves     *)
(* there is never sold, and is among the stranded units.                   *)
(***************************************************************************)

ConfirmedOf(s, k) ==
    IF reservations[k].status = "confirmed" /\ reservations[k].sku = s
    THEN reservations[k].qty ELSE 0

CommittingOf(s, c) == IF At(c, "confirm_stock") THEN HeldByRequest(s, c) ELSE 0

Moved(s) == stock[s].sold + Tally(CommittingUnits(s), MaxQuantity)

SoldBalance(s) ==
    /\ Moved(s) <= Tally(ConfirmedUnits(s), MaxQuantity)
    /\ Tally(ConfirmedUnits(s), MaxQuantity) <= Moved(s) + stranded[s]

(* Without failures nothing is stranded. *)
Lossless == failures = 0 => \A s \in Skus : stranded[s] = 0

(* Nothing was ever put in or sold without a stock record. *)
Blank ==
    \A s \in Skus :
        ~ stock[s].exists => stock[s].onHand = 0 /\ stock[s].sold = 0

(* The inductive invariant. *)
SoldInv == CustodyInv /\ Blank /\ Lossless /\ \A s \in Skus : SoldBalance(s)

SoldShaped ==
    \A s \in Skus :
        /\ ConfirmedUnits(s) \in [Keys -> 0 .. MaxQuantity]
        /\ \A k \in Keys : ConfirmedUnits(s)[k] = ConfirmedOf(s, k)
        /\ CommittingUnits(s) \in [Clients -> 0 .. MaxQuantity]
        /\ \A c \in Clients : CommittingUnits(s)[c] = CommittingOf(s, c)

LEMMA SoldHasShape == TypeInv => SoldShaped
<1> SUFFICES ASSUME TypeInv, NEW s \in Skus
             PROVE  /\ \A k \in Keys : ConfirmedOf(s, k) \in 0 .. MaxQuantity
                    /\ \A c \in Clients : CommittingOf(s, c) \in 0 .. MaxQuantity
    BY DEF SoldShaped, ConfirmedUnits, CommittingUnits, ConfirmedOf, CommittingOf
<1>1. 0 \in 0 .. MaxQuantity /\ \A q \in Quantities : q \in 0 .. MaxQuantity
    BY QuantityAssumption
<1>2. ASSUME NEW k \in Keys PROVE ConfirmedOf(s, k) \in 0 .. MaxQuantity
  <2>1. reservations[k] \in Reservation \/ reservations[k].status # "confirmed"
    BY DEF TypeInv, TypeOK, NoReservation
  <2> QED
    BY <1>1, <2>1 DEF ConfirmedOf, Reservation
<1>3. ASSUME NEW c \in Clients PROVE CommittingOf(s, c) \in 0 .. MaxQuantity
    BY <1>1, HeldType DEF CommittingOf
<1> QED
    BY <1>2, <1>3

LEMMA SoldShapeNext ==
    ASSUME TypeInv, TypeInv', NEW s \in Skus
    PROVE  /\ ConfirmedUnits(s) \in [Keys -> 0 .. MaxQuantity]
           /\ ConfirmedUnits(s)' \in [Keys -> 0 .. MaxQuantity]
           /\ \A k \in Keys : /\ ConfirmedUnits(s)[k] = ConfirmedOf(s, k)
                               /\ ConfirmedUnits(s)'[k] = ConfirmedOf(s, k)'
           /\ CommittingUnits(s) \in [Clients -> 0 .. MaxQuantity]
           /\ CommittingUnits(s)' \in [Clients -> 0 .. MaxQuantity]
           /\ \A c \in Clients : /\ CommittingUnits(s)[c] = CommittingOf(s, c)
                                  /\ CommittingUnits(s)'[c] = CommittingOf(s, c)'
<1>1. SoldShaped
    BY SoldHasShape
<1>2. SoldShaped'
    BY SoldHasShape, PTL
<1> QED
    BY <1>1, <1>2 DEF SoldShaped

LEMMA ClientsFinite == IsFiniteSet(Clients)
BY ProcessAssumption, FS_Union DEF Clients

(* One request sells what it committed, or loses it to the stranded units. *)
LEMMA SoldByRequest ==
    ASSUME TypeInv, TypeInv', NEW s \in Skus, SoldBalance(s), NEW c \in Clients,
           \A k \in Keys : ConfirmedOf(s, k)' = ConfirmedOf(s, k),
           \A d \in Clients \ {c} : CommittingOf(s, d)' = CommittingOf(s, d),
           stock'[s].sold + CommittingOf(s, c)' <= stock[s].sold + CommittingOf(s, c),
           stock[s].sold + CommittingOf(s, c) + stranded[s]
              <= stock'[s].sold + CommittingOf(s, c)' + stranded'[s]
    PROVE  SoldBalance(s)'
<1> DEFINE f == CommittingUnits(s)
           g == CommittingUnits(s)'
           n == Tally(ConfirmedUnits(s), MaxQuantity)
<1>1. f \in [Clients -> 0 .. MaxQuantity] /\ f[c] = CommittingOf(s, c)
    BY SoldShapeNext
<1>2. g \in [Clients -> 0 .. MaxQuantity] /\ g[c] = CommittingOf(s, c)'
    BY SoldShapeNext
<1>3. \A d \in Clients \ {c} : g[d] = f[d]
    BY SoldShapeNext
<1>4. ConfirmedUnits(s)' = ConfirmedUnits(s)
  <2>1. /\ ConfirmedUnits(s) \in [Keys -> 0 .. MaxQuantity]
        /\ ConfirmedUnits(s)' \in [Keys -> 0 .. MaxQuantity]
        /\ \A k \in Keys : ConfirmedUnits(s)'[k] = ConfirmedUnits(s)[k]
    BY SoldShapeNext
  <2> QED
    BY <2>1
<1>5. MaxQuantity \in Nat
    BY QuantityAssumption
<1>6. n \in Nat
    BY <1>5, SoldShapeNext, ProcessAssumption, TallyType
<1>7. /\ stock[s].sold \in Nat /\ stranded[s] \in Nat
      /\ stock'[s].sold \in Nat /\ stranded'[s] \in Nat
  <2>1. stock[s].sold \in Nat /\ stranded[s] \in Nat
    BY DEF TypeInv, TypeOK, StockRecord
  <2>2. stock'[s].sold \in Nat /\ stranded'[s] \in Nat
    BY DEF TypeInv, TypeOK, StockRecord
  <2> QED
    BY <2>1, <2>2
<1>8. /\ stock[s].sold + Tally(f, MaxQuantity) <= n
      /\ n <= stock[s].sold + Tally(f, MaxQuantity) + stranded[s]
    BY DEF SoldBalance, Moved
<1>9. SoldBalance(s)' <=>
         /\ stock'[s].sold + Tally(g, MaxQuantity) <= n
         /\ n <= stock'[s].sold + Tally(g, MaxQuantity) + stranded'[s]
    BY <1>4 DEF SoldBalance, Moved
<1> HIDE DEF f, g, n
<1>10. Tally(g, MaxQuantity) = Tally(f, MaxQuantity) - f[c] + g[c]
    BY <1>1, <1>2, <1>3, <1>5, ClientsFinite, TallyUpdate
<1>11. /\ Tally(f, MaxQuantity) \in Nat /\ Tally(g, MaxQuantity) \in Nat
       /\ f[c] \in Nat /\ g[c] \in Nat
    BY <1>1, <1>2, <1>5, ClientsFinite, TallyType
<1>12. /\ stock'[s].sold + g[c] <= stock[s].sold + f[c]
       /\ stock[s].sold + f[c] + stranded[s] <= stock'[s].sold + g[c] + stranded'[s]
    BY <1>1, <1>2
<1> QED
    BY <1>6, <1>7, <1>8, <1>9, <1>10, <1>11, <1>12

(* A reservation is confirmed, and its units are committed to be sold. *)
LEMMA SoldByConfirm ==
    ASSUME TypeInv, TypeInv', NEW s \in Skus, SoldBalance(s),
           NEW c \in Clients, NEW k \in Keys,
           \A j \in Keys \ {k} : ConfirmedOf(s, j)' = ConfirmedOf(s, j),
           \A d \in Clients \ {c} : CommittingOf(s, d)' = CommittingOf(s, d),
           ConfirmedOf(s, k)' - ConfirmedOf(s, k)
              = CommittingOf(s, c)' - CommittingOf(s, c),
           stock'[s].sold = stock[s].sold, stranded'[s] = stranded[s]
    PROVE  SoldBalance(s)'
<1> DEFINE f == CommittingUnits(s)
           g == CommittingUnits(s)'
           m == ConfirmedUnits(s)
           n == ConfirmedUnits(s)'
<1>1. /\ f \in [Clients -> 0 .. MaxQuantity] /\ f[c] = CommittingOf(s, c)
      /\ g \in [Clients -> 0 .. MaxQuantity] /\ g[c] = CommittingOf(s, c)'
      /\ \A d \in Clients \ {c} : g[d] = f[d]
  <2>1. f \in [Clients -> 0 .. MaxQuantity] /\ f[c] = CommittingOf(s, c)
    BY SoldShapeNext
  <2>2. g \in [Clients -> 0 .. MaxQuantity] /\ g[c] = CommittingOf(s, c)'
    BY SoldShapeNext
  <2>3. \A d \in Clients \ {c} : g[d] = f[d]
    BY SoldShapeNext
  <2> QED
    BY <2>1, <2>2, <2>3
<1>2. /\ m \in [Keys -> 0 .. MaxQuantity] /\ m[k] = ConfirmedOf(s, k)
      /\ n \in [Keys -> 0 .. MaxQuantity] /\ n[k] = ConfirmedOf(s, k)'
      /\ \A j \in Keys \ {k} : n[j] = m[j]
  <2>1. m \in [Keys -> 0 .. MaxQuantity] /\ m[k] = ConfirmedOf(s, k)
    BY SoldShapeNext
  <2>2. n \in [Keys -> 0 .. MaxQuantity] /\ n[k] = ConfirmedOf(s, k)'
    BY SoldShapeNext
  <2>3. \A j \in Keys \ {k} : n[j] = m[j]
    BY SoldShapeNext
  <2> QED
    BY <2>1, <2>2, <2>3
<1>3. IsFiniteSet(Keys)
    BY ProcessAssumption
<1>4. MaxQuantity \in Nat
    BY QuantityAssumption
<1>5. stock[s].sold \in Nat /\ stranded[s] \in Nat
    BY DEF TypeInv, TypeOK, StockRecord
<1>6. /\ stock[s].sold + Tally(f, MaxQuantity) <= Tally(m, MaxQuantity)
      /\ Tally(m, MaxQuantity) <= stock[s].sold + Tally(f, MaxQuantity) + stranded[s]
    BY DEF SoldBalance, Moved
<1>7. SoldBalance(s)' <=>
         /\ stock[s].sold + Tally(g, MaxQuantity) <= Tally(n, MaxQuantity)
         /\ Tally(n, MaxQuantity) <= stock[s].sold + Tally(g, MaxQuantity) + stranded[s]
    BY DEF SoldBalance, Moved
<1>8. n[k] - m[k] = g[c] - f[c]
    BY <1>1, <1>2
<1> HIDE DEF f, g, m, n
<1>9. Tally(g, MaxQuantity) = Tally(f, MaxQuantity) - f[c] + g[c]
    BY <1>1, <1>4, ClientsFinite, TallyUpdate
<1>10. Tally(n, MaxQuantity) = Tally(m, MaxQuantity) - m[k] + n[k]
    BY <1>2, <1>3, <1>4, TallyUpdate
<1>11. /\ Tally(f, MaxQuantity) \in Nat /\ Tally(g, MaxQuantity) \in Nat
       /\ f[c] \in Nat /\ g[c] \in Nat
    BY <1>1, <1>4, ClientsFinite, TallyType
<1>12. /\ Tally(m, MaxQuantity) \in Nat /\ Tally(n, MaxQuantity) \in Nat
       /\ m[k] \in Nat /\ n[k] \in Nat
    BY <1>2, <1>3, <1>4, TallyType
<1> QED
    BY <1>5, <1>6, <1>7, <1>8, <1>9, <1>10, <1>11, <1>12

(* What other requests commit stays as it is. *)
LEMMA CommittingKept ==
    ASSUME TypeInv, Faithful, NEW s \in Skus, NEW d \in Clients,
           req'[d] = req[d]
    PROVE  CommittingOf(s, d)' = CommittingOf(s, d)
BY HeldKept DEF CommittingOf, At

LEMMA FateIsFaithful == KeepsFate => Faithful
<1>1. NoReservation \notin Reservation
    BY DEF NoReservation, Reservation, Statuses, Terminal
<1> QED
    BY <1>1 DEF KeepsFate, Faithful

(* Which reservations are confirmed changes only when one is confirmed. *)
LEMMA ConfirmedKept ==
    ASSUME TypeInv, TypeInv', NEW c \in Clients, Acts(c), ~ ConfirmTransition(c),
           NEW s \in Skus, NEW k \in Keys
    PROVE  ConfirmedOf(s, k)' = ConfirmedOf(s, k)
<1>1. CASE ReserveCreate(c)
  <2>1. \/ UNCHANGED reservations
        \/ /\ reservations[req[c].key] = NoReservation
           /\ \E r : /\ r.status = "active"
                     /\ reservations' = [reservations EXCEPT ![req[c].key] = r]
    BY <1>1 DEF ReserveCreate
  <2>2. \/ reservations'[k] = reservations[k]
        \/ /\ reservations[k].status # "confirmed"
           /\ reservations'[k].status # "confirmed"
    BY <2>1 DEF TypeInv, TypeOK, NoReservation
  <2> QED
    BY <2>2 DEF ConfirmedOf
<1>2. CASE ReleaseTransition(c)
  <2>1. \/ UNCHANGED reservations
        \/ /\ reservations[req[c].key].status = "active"
           /\ \E to \in {"released", "expired"} :
                 reservations' = [reservations EXCEPT ![req[c].key].status = to]
    BY <1>2 DEF ReleaseTransition, Transition, Transitionable, Target
  <2>2. CASE reservations'[k] = reservations[k]
    BY <2>2 DEF ConfirmedOf
  <2>3. CASE reservations'[k] # reservations[k]
    <3>1. PICK to \in {"released", "expired"} :
             /\ reservations[k].status = "active"
             /\ reservations'[k] = [reservations[k] EXCEPT !.status = to]
      BY <2>1, <2>3 DEF TypeInv, TypeOK
    <3>2. reservations[k] \in Reservation
      BY <3>1 DEF TypeInv, TypeOK, NoReservation
    <3>3. reservations'[k].status = to
      BY <3>1, <3>2 DEF Reservation
    <3> QED
      BY <3>1, <3>3 DEF ConfirmedOf
  <2> QED
    BY <2>2, <2>3
<1>3. CASE UNCHANGED reservations
    BY <1>3 DEF ConfirmedOf
<1>4. CASE Arrives(c) \/ SweepStart(c) \/ Breaks(c)
    BY <1>3, <1>4
    DEF Arrives, EnsureStart, AdjustStart, ReserveStart, ReleaseStart,
        ConfirmStart, CloseStart, SweepStart, Breaks, CreateThrows,
        SweepItemThrows, CallThrows, Crash, Fails
<1>5. CASE Continues(c)
    BY <1>1, <1>2, <1>3, <1>5
    DEF Continues, EnsureCreate, EnsureAppend, AdjustApply, AdjustAppend,
        ReserveStock, ReserveUndo, ReserveReplay, ReserveAppend, ReleaseStock,
        ReleaseAppend, ConfirmStock, ConfirmAppend, AppendClosing, SweepNext
<1> QED
    BY <1>4, <1>5 DEF Acts

(* A step at which no confirm() is between its two updates moves nothing. *)
LEMMA SoldQuiet ==
    ASSUME SoldInv, TypeInv', Faithful, NEW c \in Clients, Acts(c),
           ~ ConfirmTransition(c), ~ ConfirmStock(c), NEW s \in Skus
    PROVE  SoldBalance(s)'
<1> USE DEF SoldInv, CustodyInv
<1>1. \A d \in Clients \ {c} : CommittingOf(s, d)' = CommittingOf(s, d)
    BY ActsAlone, CommittingKept
<1>2. \A k \in Keys : ConfirmedOf(s, k)' = ConfirmedOf(s, k)
    BY ConfirmedKept
<1>3. CommittingOf(s, c)' = 0
  <2>1. CASE ~ Decides(c)
    BY <2>1, ElsewhereOtherwise DEF FatedPcs, CommittingOf, At
  <2>2. CASE ReserveCreate(c) \/ ReleaseTransition(c) \/ ReleaseStock(c)
    <3>1. \/ Finish(c) /\ req[c].pc # "idle"
          \/ \E pc \in {"reserve_append", "reserve_undo"} :
                req[c].pc = "reserve_create" /\ Goto(c, pc)
          \/ \E pc \in {"release_stock", "release_append"} :
                req[c].pc \in ClosePcs /\ Goto(c, pc)
      BY <2>2 DEF ReserveCreate, ReleaseTransition, ReleaseStock, Transition, At,
         ClosePcs
    <3>2. /\ \A pc \in {"reserve_append", "reserve_undo"} : pc \in ReservePcs
          /\ \A pc \in {"release_stock", "release_append"} : pc \in ClosePcs
      BY DEF ReservePcs, ClosePcs
    <3>3. req'[c].pc \in {"idle", "sweep", "reserve_append", "reserve_undo",
                          "release_stock", "release_append"}
      <4>1. CASE Finish(c) /\ req[c].pc # "idle"
        BY <4>1, FinishType DEF TypeInv
      <4>2. ASSUME NEW pc \in {"reserve_append", "reserve_undo"},
                   req[c].pc = "reserve_create", Goto(c, pc)
            PROVE  req'[c].pc = pc
        BY <3>2, <4>2, DecidesGoesOn
      <4>3. ASSUME NEW pc \in {"release_stock", "release_append"},
                   req[c].pc \in ClosePcs, Goto(c, pc)
            PROVE  req'[c].pc = pc
        BY <3>2, <4>3, DecidesGoesOn
      <4> QED
        BY <3>1, <4>1, <4>2, <4>3
    <3> QED
      BY <3>3 DEF CommittingOf, At
  <2> QED
    BY <2>1, <2>2 DEF Decides
<1>4. /\ CommittingOf(s, c) \in Nat /\ stock[s].sold \in Nat
      /\ stranded[s] \in Nat
    BY HeldType, QuantityAssumption DEF CommittingOf, TypeInv, TypeOK, StockRecord
<1>5. stock'[s].sold = stock[s].sold
  <2>1. \/ UNCHANGED stock
        \/ EnsureCreate(c) \/ AdjustApply(c) \/ ReserveStock(c)
        \/ ReserveUndo(c) \/ ReleaseStock(c)
    <3>1. CASE Arrives(c) \/ SweepStart(c) \/ Breaks(c)
      BY <3>1 DEF Arrives, EnsureStart, AdjustStart, ReserveStart, ReleaseStart,
         ConfirmStart, CloseStart, SweepStart, Breaks, CreateThrows,
         SweepItemThrows, CallThrows, Crash, Fails
    <3>2. CASE Continues(c)
      BY <3>2 DEF Continues, EnsureAppend, AdjustAppend, ReserveCreate,
         ReserveReplay, ReserveAppend, ReleaseTransition, ReleaseAppend,
         ConfirmAppend, Transition, AppendClosing, SweepNext
    <3> QED
      BY <3>1, <3>2 DEF Acts
  <2>2. CASE EnsureCreate(c)
    <3>1. \/ UNCHANGED stock
          \/ /\ ~ stock[req[c].sku].exists
             /\ \E r : r.sold = 0 /\ stock' = [stock EXCEPT ![req[c].sku] = r]
      BY <2>2 DEF EnsureCreate
    <3>2. ~ stock[s].exists => stock[s].sold = 0
      BY DEF Blank
    <3> QED
      BY <3>1, <3>2 DEF TypeInv, TypeOK
  <2>3. CASE AdjustApply(c) \/ ReserveStock(c) \/ ReserveUndo(c) \/ ReleaseStock(c)
    <3>1. \/ stock'[s] = stock[s]
          \/ \E n : stock'[s] = [stock[s] EXCEPT !.onHand = n]
          \/ \E n : stock'[s] = [stock[s] EXCEPT !.reserved = n]
      BY <2>3 DEF AdjustApply, ReserveStock, ReserveUndo, ReleaseStock, TypeInv,
         TypeOK
    <3>2. stock[s] \in StockRecord
      BY DEF TypeInv, TypeOK
    <3> QED
      BY <3>1, <3>2 DEF StockRecord
  <2> QED
    BY <2>1, <2>2, <2>3
<1>6. stranded'[s] \in Nat /\ stranded[s] + CommittingOf(s, c) <= stranded'[s]
  <2>1. CASE CallThrows(c) \/ Crash(c)
    <3>1. stranded'[s] = stranded[s] + HeldByRequest(s, c)
      BY <2>1 DEF CallThrows, Crash, Strand
    <3>2. HeldByRequest(s, c) \in Nat /\ CommittingOf(s, c) <= HeldByRequest(s, c)
      BY HeldType, QuantityAssumption DEF CommittingOf
    <3> QED
      BY <1>4, <3>1, <3>2
  <2>2. CASE ~ (CallThrows(c) \/ Crash(c))
    <3>1. UNCHANGED stranded /\ ~ At(c, "confirm_stock")
      <4>1. CASE Arrives(c) \/ SweepStart(c) \/ CreateThrows(c) \/ SweepItemThrows(c)
        BY <4>1 DEF Arrives, EnsureStart, AdjustStart, ReserveStart,
           ReleaseStart, ConfirmStart, CloseStart, SweepStart, CreateThrows,
           SweepItemThrows, At
      <4>2. CASE Continues(c)
        BY <4>2 DEF Continues, EnsureCreate, EnsureAppend, AdjustApply,
           AdjustAppend, ReserveStock, ReserveCreate, ReserveUndo,
           ReserveReplay, ReserveAppend, ReleaseTransition, ReleaseStock,
           ReleaseAppend, ConfirmAppend, Transition, AppendClosing, SweepNext, At
      <4> QED
        BY <2>2, <4>1, <4>2 DEF Acts, Breaks
    <3>2. CommittingOf(s, c) = 0 /\ stranded'[s] = stranded[s]
      BY <3>1 DEF CommittingOf
    <3> QED
      BY <1>4, <3>2
  <2> QED
    BY <2>1, <2>2
<1>7. /\ stock'[s].sold + CommittingOf(s, c)' <= stock[s].sold + CommittingOf(s, c)
      /\ stock[s].sold + CommittingOf(s, c) + stranded[s]
            <= stock'[s].sold + CommittingOf(s, c)' + stranded'[s]
    BY <1>3, <1>4, <1>5, <1>6
<1> QED
    BY <1>1, <1>2, <1>7, SoldByRequest

(* The transition of confirm() commits the units of the reservation. *)
LEMMA SoldConfirmed ==
    ASSUME SoldInv, TypeInv', Faithful, NEW c \in Clients, ConfirmTransition(c),
           NEW s \in Skus
    PROVE  SoldBalance(s)'
<1> USE DEF SoldInv, CustodyInv
<1>1. /\ req[c].pc = "confirm_transition" /\ req[c].pc \in ClosePcs
      /\ UNCHANGED <<stock, stranded>>
    BY DEF ConfirmTransition, Transition, At, ClosePcs
<1>2. Acts(c)
    BY DEF Acts, Continues
<1>3. \A d \in Clients \ {c} : CommittingOf(s, d)' = CommittingOf(s, d)
    BY <1>2, ActsAlone, CommittingKept
<1>4. CommittingOf(s, c) = 0
    BY <1>1 DEF CommittingOf, At
<1>5. PICK k \in Keys : req[c].key = k /\ reservations[k] \in Reservation
  <2>1. req[c].key \in Keys
    BY <1>1, RequestShape DEF TypeInv, CloseRequest
  <2> QED
    BY <1>1, <2>1 DEF TypeInv, Grounded
<1>6. CASE ~ Transitionable(k)
  <2>1. Finish(c) /\ UNCHANGED reservations
    BY <1>5, <1>6 DEF ConfirmTransition, Transition
  <2>2. req'[c].pc \in {"idle", "sweep"}
    BY <1>1, <2>1, FinishType DEF TypeInv
  <2>3. CommittingOf(s, c)' = 0
    BY <2>2 DEF CommittingOf, At
  <2>4. \A j \in Keys : ConfirmedOf(s, j)' = ConfirmedOf(s, j)
    BY <2>1 DEF ConfirmedOf
  <2>5. stock[s].sold \in Nat /\ stranded[s] \in Nat
    BY DEF TypeInv, TypeOK, StockRecord
  <2>6. /\ stock'[s].sold + CommittingOf(s, c)' <= stock[s].sold + CommittingOf(s, c)
        /\ stock[s].sold + CommittingOf(s, c) + stranded[s]
              <= stock'[s].sold + CommittingOf(s, c)' + stranded'[s]
    BY <1>1, <1>4, <2>3, <2>5
  <2> QED
    BY <1>3, <2>4, <2>6, SoldByRequest
<1>7. CASE Transitionable(k)
  <2>1. /\ Goto(c, "confirm_stock")
        /\ reservations' = [reservations EXCEPT ![k].status = "confirmed"]
    BY <1>5, <1>7 DEF ConfirmTransition, Transition
  <2>2. "confirm_stock" \in ClosePcs
    BY DEF ClosePcs
  <2>3. req'[c].pc = "confirm_stock" /\ req'[c].key = k
    BY <1>1, <1>5, <2>1, <2>2, DecidesGoesOn
  <2>4. /\ reservations'[k] = [reservations[k] EXCEPT !.status = "confirmed"]
        /\ \A j \in Keys \ {k} : reservations'[j] = reservations[j]
    BY <2>1 DEF TypeInv, TypeOK
  <2>5. /\ reservations[k].status = "active"
        /\ reservations'[k].status = "confirmed"
        /\ reservations'[k].sku = reservations[k].sku
        /\ reservations'[k].qty = reservations[k].qty
    BY <1>5, <1>7, <2>4 DEF Transitionable, Reservation
  <2>6. \A j \in Keys \ {k} : ConfirmedOf(s, j)' = ConfirmedOf(s, j)
    BY <2>4 DEF ConfirmedOf
  <2>7. ConfirmedOf(s, k) = 0 /\ CommittingOf(s, c)' = ConfirmedOf(s, k)'
    BY <2>3, <2>5 DEF ConfirmedOf, CommittingOf, At, HeldByRequest
  <2>8. ConfirmedOf(s, k)' - ConfirmedOf(s, k)
           = CommittingOf(s, c)' - CommittingOf(s, c)
    BY <1>4, <2>7
  <2> QED
    BY <1>1, <1>3, <2>6, <2>8, SoldByConfirm
<1> QED
    BY <1>6, <1>7

(* commitStock() sells them: it always finds them reserved. *)
LEMMA SoldCommitted ==
    ASSUME SoldInv, TypeInv', Faithful, NEW c \in Clients, ConfirmStock(c),
           NEW s \in Skus
    PROVE  SoldBalance(s)'
<1> USE DEF SoldInv, CustodyInv
<1>1. /\ req[c].pc = "confirm_stock" /\ req[c].pc \in ClosePcs
      /\ UNCHANGED <<reservations, stranded>>
    BY DEF ConfirmStock, At, ClosePcs
<1>2. Acts(c)
    BY DEF Acts, Continues
<1>3. \A d \in Clients \ {c} : CommittingOf(s, d)' = CommittingOf(s, d)
    BY <1>2, ActsAlone, CommittingKept
<1>4. \A j \in Keys : ConfirmedOf(s, j)' = ConfirmedOf(s, j)
    BY <1>1 DEF ConfirmedOf
<1>5. PICK t \in Skus, q \in Nat \ {0} :
         reservations[req[c].key].sku = t /\ reservations[req[c].key].qty = q
  <2>1. reservations[req[c].key] \in Reservation
    BY <1>1 DEF TypeInv, Grounded
  <2>2. \A n \in Quantities : n \in Nat \ {0}
    BY QuantityAssumption
  <2> QED
    BY <2>1, <2>2 DEF Reservation
<1>6. CommittingOf(s, c) = IF s = t THEN q ELSE 0
    BY <1>1, <1>5 DEF CommittingOf, At, HeldByRequest
<1>7. Returnable(t, q)
  <2>1. HeldByRequest(t, c) = q
    BY <1>1, <1>5 DEF HeldByRequest
  <2> QED
    BY <1>5, <2>1, HeldIsReturnable
<1>8. /\ stock' = [stock EXCEPT ![t] = Committed(stock[t], q)]
      /\ Goto(c, "confirm_append")
    BY <1>5, <1>7 DEF ConfirmStock
<1>9. CommittingOf(s, c)' = 0
  <2>1. "confirm_append" \in ClosePcs
    BY DEF ClosePcs
  <2>2. req'[c].pc = "confirm_append"
    BY <1>1, <1>8, <2>1, DecidesGoesOn
  <2> QED
    BY <2>2 DEF CommittingOf, At
<1>10. stock[s] \in StockRecord /\ stranded[s] \in Nat
    BY DEF TypeInv, TypeOK
<1>11. stock'[s].sold = stock[s].sold + CommittingOf(s, c)
  <2>1. stock'[s] = IF s = t THEN Committed(stock[s], q) ELSE stock[s]
    BY <1>8 DEF TypeInv, TypeOK
  <2>2. Committed(stock[s], q).sold = stock[s].sold + q
    BY <1>10 DEF Committed, StockRecord
  <2> QED
    BY <1>6, <1>10, <2>1, <2>2 DEF StockRecord
<1>12. /\ stock'[s].sold + CommittingOf(s, c)' <= stock[s].sold + CommittingOf(s, c)
       /\ stock[s].sold + CommittingOf(s, c) + stranded[s]
             <= stock'[s].sold + CommittingOf(s, c)' + stranded'[s]
    BY <1>1, <1>5, <1>6, <1>9, <1>10, <1>11 DEF StockRecord
<1> QED
    BY <1>3, <1>4, <1>12, SoldByRequest

(* Only failures strand units. *)
LEMMA LosslessKept ==
    ASSUME TypeInv, Lossless, NEW c \in Clients, Acts(c)
    PROVE  Lossless'
<1>1. CASE UNCHANGED <<stranded, failures>>
    BY <1>1 DEF Lossless
<1>2. CASE Breaks(c)
    BY <1>2 DEF Breaks, CreateThrows, SweepItemThrows, CallThrows, Crash, Fails,
       Lossless, TypeInv, TypeOK
<1>3. CASE Arrives(c) \/ SweepStart(c)
    BY <1>1, <1>3 DEF Arrives, EnsureStart, AdjustStart, ReserveStart,
       ReleaseStart, ConfirmStart, CloseStart, SweepStart
<1>4. CASE Continues(c)
    BY <1>1, <1>4 DEF Continues, EnsureCreate, EnsureAppend, AdjustApply,
       AdjustAppend, ReserveStock, ReserveCreate, ReserveUndo, ReserveReplay,
       ReserveAppend, ReleaseTransition, ReleaseStock, ReleaseAppend,
       ConfirmTransition, ConfirmStock, ConfirmAppend, Transition,
       AppendClosing, SweepNext
<1> QED
    BY <1>2, <1>3, <1>4 DEF Acts

(* The conditional updates write to no record that does not exist. *)
LEMMA BlankKept ==
    ASSUME TypeInv, Blank, NEW c \in Clients, Acts(c)
    PROVE  Blank'
<1>1. CASE UNCHANGED stock
    BY <1>1 DEF Blank
<1>2. ASSUME NEW t \in Skus, stock[t].exists,
             \A s \in Skus \ {t} : stock'[s] = stock[s],
             stock'[t].exists = stock[t].exists
      PROVE  Blank'
    BY <1>2 DEF Blank
<1>3. CASE EnsureCreate(c)
  <2>1. req[c] \in OpeningRequest
    BY <1>3, RequestShape DEF EnsureCreate, At, TypeInv
  <2>2. CASE UNCHANGED stock
    BY <1>1, <2>2
  <2>3. CASE stock' # stock
    <3>1. \E r : r.exists = TRUE /\ stock' = [stock EXCEPT ![req[c].sku] = r]
      BY <1>3, <2>3 DEF EnsureCreate
    <3> QED
      BY <2>1, <3>1 DEF Blank, OpeningRequest, TypeInv, TypeOK
  <2> QED
    BY <2>2, <2>3
<1>4. CASE \/ AdjustApply(c) \/ ReserveStock(c) \/ ReserveUndo(c)
           \/ ReleaseStock(c) \/ ConfirmStock(c)
  <2>1. CASE UNCHANGED stock
    BY <1>1, <2>1
  <2>2. CASE stock' # stock
    <3>1. PICK t \in Skus :
             /\ stock[t].exists
             /\ \/ \E d : stock' = [stock EXCEPT ![t] = [stock[t] EXCEPT !.onHand = d]]
                \/ \E d : stock' = [stock EXCEPT ![t] = [stock[t] EXCEPT !.reserved = d]]
                \/ \E q : stock' = [stock EXCEPT ![t] = Committed(stock[t], q)]
      <4>1. CASE AdjustApply(c)
        <5>1. req[c].sku \in Skus
          BY <4>1, RequestShape DEF AdjustApply, At, TypeInv, AdjustRequest
        <5> QED
          BY <2>2, <4>1, <5>1 DEF AdjustApply, Adjustable
      <4>2. CASE ReserveStock(c) \/ ReserveUndo(c)
        <5>1. req[c].sku \in Skus
          BY <4>2, RequestShape DEF ReserveStock, ReserveUndo, At, TypeInv,
             ReserveRequest, ReservePcs
        <5> QED
          BY <2>2, <4>2, <5>1 DEF ReserveStock, ReserveUndo, Reservable, Returnable
      <4>3. CASE ReleaseStock(c) \/ ConfirmStock(c)
        <5>1. reservations[req[c].key] \in Reservation
          BY <4>3 DEF ReleaseStock, ConfirmStock, At, TypeInv, Grounded, ClosePcs
        <5>2. reservations[req[c].key].sku \in Skus
          BY <5>1 DEF Reservation
        <5> QED
          BY <2>2, <4>3, <5>2 DEF ReleaseStock, ConfirmStock, Returnable
      <4> QED
        BY <1>4, <4>1, <4>2, <4>3
    <3>2. stock[t] \in StockRecord
      BY DEF TypeInv, TypeOK
    <3>3. /\ \A s \in Skus \ {t} : stock'[s] = stock[s]
          /\ stock'[t].exists = stock[t].exists
      BY <3>1, <3>2 DEF Committed, StockRecord, TypeInv, TypeOK
    <3> QED
      BY <1>2, <3>1, <3>3
  <2> QED
    BY <2>1, <2>2
<1>5. CASE Arrives(c) \/ SweepStart(c) \/ Breaks(c)
    BY <1>1, <1>5 DEF Arrives, EnsureStart, AdjustStart, ReserveStart,
       ReleaseStart, ConfirmStart, CloseStart, SweepStart, Breaks,
       CreateThrows, SweepItemThrows, CallThrows, Crash, Fails
<1>6. CASE Continues(c)
    BY <1>1, <1>3, <1>4, <1>6 DEF Continues, EnsureAppend, AdjustAppend,
       ReserveCreate, ReserveReplay, ReserveAppend, ReleaseTransition,
       ReleaseAppend, ConfirmTransition, ConfirmAppend, Transition,
       AppendClosing, SweepNext
<1> QED
    BY <1>5, <1>6 DEF Acts

LEMMA InitSold == Init => SoldInv
<1> SUFFICES ASSUME Init PROVE SoldInv
    OBVIOUS
<1>1. CustodyInv /\ TypeInv
    BY InitCustody DEF CustodyInv
<1>2. Blank /\ Lossless
    BY DEF Init, NoStock, Blank, Lossless
<1>3. ASSUME NEW s \in Skus PROVE SoldBalance(s)
  <2>1. /\ ConfirmedUnits(s) \in [Keys -> 0 .. MaxQuantity]
        /\ CommittingUnits(s) \in [Clients -> 0 .. MaxQuantity]
    BY <1>1, SoldHasShape DEF SoldShaped
  <2>2. /\ \A k \in Keys : ConfirmedUnits(s)[k] = 0
        /\ \A c \in Clients : CommittingUnits(s)[c] = 0
    BY DEF Init, NoReservation, Idle, At, ConfirmedUnits, CommittingUnits
  <2>3. /\ Tally(ConfirmedUnits(s), MaxQuantity) = 0
        /\ Tally(CommittingUnits(s), MaxQuantity) = 0
    BY <2>1, <2>2, QuantityAssumption, TallyZero
  <2> QED
    BY <2>3 DEF SoldBalance, Moved, Init, NoStock
<1> QED
    BY <1>1, <1>2, <1>3 DEF SoldInv

LEMMA NextSold == SoldInv /\ [Next]_vars => SoldInv'
<1> SUFFICES ASSUME SoldInv, [Next]_vars PROVE SoldInv'
    OBVIOUS
<1>1. CustodyInv' /\ TypeInv'
    BY NextCustody DEF SoldInv, CustodyInv
<1>2. Faithful
    BY FateKept, FateIsFaithful DEF SoldInv, CustodyInv
<1>3. ASSUME NEW c \in Clients, Acts(c) PROVE SoldInv'
  <2>1. \A s \in Skus : SoldBalance(s)'
    BY <1>1, <1>2, <1>3, SoldQuiet, SoldConfirmed, SoldCommitted
  <2>2. Blank' /\ Lossless'
    BY <1>3, BlankKept, LosslessKept DEF SoldInv, CustodyInv
  <2> QED
    BY <1>1, <2>1, <2>2 DEF SoldInv
<1>4. CASE UNCHANGED <<stock, reservations, posted, received, req, stranded, failures>>
  <2>1. \A s \in Skus : SoldBalance(s)'
    BY <1>4 DEF SoldInv, SoldBalance, Moved, ConfirmedUnits, CommittingUnits,
       At, HeldByRequest
  <2>2. Blank' /\ Lossless'
    BY <1>4 DEF SoldInv, Blank, Lossless
  <2> QED
    BY <1>1, <2>1, <2>2 DEF SoldInv
<1> QED
    BY <1>3, <1>4, StepsAreActs

THEOREM SoldInvariance == Spec => []SoldInv
<1> QED
    BY InitSold, NextSold, PTL DEF Spec

(* What is counted as sold, with what confirm() is about to move there,    *)
(* never exceeds what confirmed reservations took, and equals it as long   *)
(* as nothing failed: confirm() sells a reservation once at most.          *)
THEOREM SoldOnce == Spec => []SoldIsConfirmed
<1>1. SoldInv => SoldIsConfirmed
  <2> SUFFICES ASSUME SoldInv, NEW s \in Skus
               PROVE  /\ Moved(s) <= Tally(ConfirmedUnits(s), MaxQuantity)
                      /\ failures = 0 =>
                            Moved(s) = Tally(ConfirmedUnits(s), MaxQuantity)
    BY DEF SoldIsConfirmed, Moved
  <2>1. MaxQuantity \in Nat
    BY QuantityAssumption
  <2>2. TypeInv /\ SoldBalance(s) /\ (failures = 0 => stranded[s] = 0)
    BY DEF SoldInv, CustodyInv, Lossless
  <2>3. /\ Tally(ConfirmedUnits(s), MaxQuantity) \in Nat
        /\ Tally(CommittingUnits(s), MaxQuantity) \in Nat
    BY <2>1, <2>2, SoldHasShape, ClientsFinite, ProcessAssumption, TallyType
    DEF SoldShaped
  <2>4. Moved(s) \in Nat
    BY <2>2, <2>3 DEF Moved, TypeInv, TypeOK, StockRecord
  <2> QED
    BY <2>2, <2>3, <2>4 DEF SoldBalance
<1> QED
    BY <1>1, SoldInvariance, PTL

-----------------------------------------------------------------------------
(***************************************************************************)
(* The service implements Claims. A claim is the reservation document; the *)
(* supply of a SKU is what is on hand and what was sold. Inserting the     *)
(* document makes the claim and the transition ends it; adjust() and       *)
(* ensureInventory change the supply; every other call is a stutter.       *)
(*                                                                         *)
(* A claim must be within the supply although the insert looks at no       *)
(* counter: that active and confirmed reservations are covered follows     *)
(* from the two balances, since the reserved units are on hand.            *)
(***************************************************************************)

(* What a claim is promised, and the units of the claims on SKU s. *)
PromisedOf(s, k) ==
    IF reservations[k].status \in {"active", "confirmed"} /\ reservations[k].sku = s
    THEN reservations[k].qty ELSE 0

PromisedUnits(s) == [k \in Keys |-> PromisedOf(s, k)]

Supply == [s \in Skus |-> stock[s].onHand + stock[s].sold]

CoveredInv ==
    \A s \in Skus : Tally(PromisedUnits(s), MaxQuantity) <= stock[s].onHand + stock[s].sold

(* Claims counts units as Inventory does. *)
LEMMA PromiseUnits ==
    ASSUME NEW s
    PROVE  Promise!Units(s) = Tally(PromisedUnits(s), MaxQuantity)
<1>1. \A S : Promise!Cardinality(S) = Cardinality(S)
    BY DEF Promise!Cardinality, Cardinality
<1>2. Promise!Promised(s) = PromisedUnits(s)
    BY DEF Promise!Promised, PromisedUnits, PromisedOf
<1>3. \A f, max : Promise!Tokens(f, max) = Tokens(f, max)
    BY DEF Promise!Tokens, Tokens
<1> QED
    BY <1>1, <1>2, <1>3 DEF Promise!Units, Promise!Tally, Tally

PromisedShaped ==
    \A s \in Skus : PromisedUnits(s) \in [Keys -> 0 .. MaxQuantity]

LEMMA PromisedHasShape == TypeInv => PromisedShaped
<1> SUFFICES ASSUME TypeInv, NEW s \in Skus
             PROVE  PromisedUnits(s) \in [Keys -> 0 .. MaxQuantity]
    BY DEF PromisedShaped
<1>1. 0 \in 0 .. MaxQuantity /\ \A q \in Quantities : q \in 0 .. MaxQuantity
    BY QuantityAssumption
<1>2. ASSUME NEW k \in Keys PROVE PromisedOf(s, k) \in 0 .. MaxQuantity
  <2>1. \/ reservations[k] \in Reservation
        \/ reservations[k].status \notin {"active", "confirmed"}
    BY DEF TypeInv, TypeOK, NoReservation
  <2> QED
    BY <1>1, <2>1 DEF PromisedOf, Reservation
<1> QED
    BY <1>2 DEF PromisedUnits

(* Active and confirmed reservations are covered by what was received. *)
LEMMA SoldCovers == SoldInv => CoveredInv
<1> SUFFICES ASSUME SoldInv, NEW s \in Skus
             PROVE  Tally(PromisedUnits(s), MaxQuantity) <= stock[s].onHand + stock[s].sold
    BY DEF CoveredInv
<1> DEFINE held == [k \in Keys |-> HeldByReservation(s, k)]
           confirmed == ConfirmedUnits(s)
           committing == CommittingUnits(s)
           promised == PromisedUnits(s)
           custody == Custody(s)
<1>1. TypeInv /\ MaxQuantity \in Nat
    BY QuantityAssumption DEF SoldInv, CustodyInv
<1>2. /\ promised \in [Keys -> 0 .. MaxQuantity]
      /\ held \in [Keys -> 0 .. MaxQuantity]
      /\ confirmed \in [Keys -> 0 .. MaxQuantity]
      /\ committing \in [Clients -> 0 .. MaxQuantity]
      /\ custody \in [Holders -> 0 .. MaxQuantity]
    BY <1>1, PromisedHasShape, HeldType, SoldHasShape, CustodyHasShape
    DEF PromisedShaped, SoldShaped, CustodyShaped
<1>3. \A k \in Keys : \/ promised[k] = held[k] /\ confirmed[k] = 0
                      \/ promised[k] = confirmed[k] /\ held[k] = 0
    BY DEF PromisedUnits, PromisedOf, ConfirmedUnits, HeldByReservation
<1>4. \A k \in Keys : held[k] <= custody[k]
  <2>1. \A k \in Keys : custody[k] = held[k] /\ held[k] \in Nat
    BY <1>1, <1>2, CustodyHasShape DEF CustodyShaped
  <2> QED
    BY <2>1
<1>5. \A c \in Clients : committing[c] <= custody[c]
  <2>1. \A c \in Clients : /\ custody[c] = HeldByRequest(s, c)
                           /\ HeldByRequest(s, c) \in 0 .. MaxQuantity
                           /\ committing[c] = CommittingOf(s, c)
    BY <1>1, HeldType, CustodyHasShape, SoldHasShape DEF CustodyShaped, SoldShaped
  <2> QED
    BY <1>1, <2>1 DEF CommittingOf
<1>6. /\ Keys \in SUBSET Holders /\ Clients \in SUBSET Holders
      /\ Keys \cap Clients = {} /\ IsFiniteSet(Keys) /\ IsFiniteSet(Holders)
    BY ProcessAssumption, HoldersFinite DEF Holders
<1>7. /\ Tally(custody, MaxQuantity) + stranded[s] = stock[s].reserved
      /\ stock[s].reserved <= stock[s].onHand
      /\ stock[s].sold \in Nat /\ stock[s].onHand \in Nat
      /\ stock[s].reserved \in Nat /\ stranded[s] \in Nat
    BY <1>1 DEF SoldInv, CustodyInv, ReservedIsHeld, TypeInv, TypeOK,
       StockInvariant, StockRecord
<1>8. Tally(confirmed, MaxQuantity)
         <= stock[s].sold + Tally(committing, MaxQuantity) + stranded[s]
    BY DEF SoldInv, SoldBalance, Moved
<1> HIDE DEF held, confirmed, committing, promised, custody
<1>9. Tally(promised, MaxQuantity)
         = Tally(held, MaxQuantity) + Tally(confirmed, MaxQuantity)
    BY <1>1, <1>2, <1>3, <1>6, TallyKinds
<1>10. Tally(held, MaxQuantity) + Tally(committing, MaxQuantity)
          <= Tally(custody, MaxQuantity)
    BY <1>1, <1>2, <1>4, <1>5, <1>6, TallyParts
<1>11. /\ Tally(held, MaxQuantity) \in Nat /\ Tally(confirmed, MaxQuantity) \in Nat
       /\ Tally(committing, MaxQuantity) \in Nat /\ Tally(custody, MaxQuantity) \in Nat
    BY <1>1, <1>2, <1>6, ClientsFinite, TallyType
<1>12. Tally(promised, MaxQuantity) <= stock[s].onHand + stock[s].sold
    BY <1>7, <1>8, <1>9, <1>10, <1>11
<1> QED
    BY <1>12 DEF promised

LEMMA InitPromise == Init => Promise!Init
BY DEF Init, Promise!Init, NoStock, NoReservation, Promise!NoClaim

(* The supply of at most one SKU changes, and no reservation with it. *)
LEMMA SupplyStep ==
    ASSUME SoldInv, SoldInv', UNCHANGED reservations,
           Supply' = Supply \/ \E s \in Skus : \A t \in Skus \ {s} : Supply'[t] = Supply[t]
    PROVE  Promise!Next \/ Supply' = Supply
<1>1. CASE Supply' = Supply
    BY <1>1
<1>2. CASE Supply' # Supply
  <2>1. PICK s \in Skus : \A t \in Skus \ {s} : Supply'[t] = Supply[t]
    BY <1>2
  <2>2. PromisedUnits(s)' = PromisedUnits(s)
    BY DEF PromisedUnits, PromisedOf
  <2>3. CoveredInv'
    BY SoldCovers, PTL
  <2>4. Tally(PromisedUnits(s), MaxQuantity) <= Supply'[s]
    BY <2>2, <2>3 DEF CoveredInv, Supply
  <2>5. Supply'[s] \in Nat
    BY DEF SoldInv, CustodyInv, TypeInv, TypeOK, StockRecord, Supply
  <2>6. Supply' = [Supply EXCEPT ![s] = Supply'[s]]
    BY <2>1 DEF Supply
  <2>7. Promise!Receive(s, Supply'[s])
    BY <2>4, <2>5, <2>6, PromiseUnits DEF Promise!Receive, Supply
  <2> QED
    BY <2>7 DEF Promise!Next, Supply
<1> QED
    BY <1>1, <1>2

(* The insert of a reservation makes a claim. *)
LEMMA ClaimStep ==
    ASSUME SoldInv, SoldInv', NEW c \in Clients, ReserveCreate(c)
    PROVE  Promise!Next \/ UNCHANGED <<Supply, reservations>>
<1>1. req[c].pc = "reserve_create" /\ req[c].pc \in ReservePcs
    BY DEF ReserveCreate, At, ReservePcs
<1>2. PICK k \in Keys, s \in Skus, q \in Quantities :
         req[c].key = k /\ req[c].sku = s /\ req[c].qty = q
    BY <1>1, RequestShape DEF SoldInv, CustodyInv, TypeInv, ReserveRequest
<1>3. Supply' = Supply
    BY DEF ReserveCreate, Supply
<1>4. CASE UNCHANGED reservations
    BY <1>3, <1>4
<1>5. CASE ~ UNCHANGED reservations
  <2>1. /\ reservations[k] = NoReservation
        /\ reservations' = [reservations EXCEPT ![k] =
              [status |-> "active", sku |-> s, qty |-> q]]
    BY <1>2, <1>5 DEF ReserveCreate
  <2> DEFINE f == PromisedUnits(s)
             g == PromisedUnits(s)'
  <2>2. TypeInv /\ TypeInv' /\ MaxQuantity \in Nat /\ q \in Nat /\ IsFiniteSet(Keys)
    BY <1>2, QuantityAssumption, ProcessAssumption DEF SoldInv, CustodyInv
  <2>3. f \in [Keys -> 0 .. MaxQuantity]
    BY <2>2, PromisedHasShape DEF PromisedShaped
  <2>4. g \in [Keys -> 0 .. MaxQuantity]
    <3>1. PromisedShaped'
      BY <2>2, PromisedHasShape, PTL
    <3> QED
      BY <3>1 DEF PromisedShaped
  <2>5. reservations \in [Keys -> {NoReservation} \cup Reservation]
    BY <2>2 DEF TypeInv, TypeOK
  <2>6. f[k] = 0 /\ g[k] = q /\ \A j \in Keys \ {k} : g[j] = f[j]
    BY <2>1, <2>5 DEF PromisedUnits, PromisedOf, NoReservation
  <2>7. CoveredInv'
    BY SoldCovers, PTL
  <2>8. Tally(g, MaxQuantity) <= Supply[s]
    BY <1>3, <2>7 DEF CoveredInv, Supply
  <2> HIDE DEF f, g
  <2>9. Tally(g, MaxQuantity) = Tally(f, MaxQuantity) - f[k] + g[k]
    BY <2>2, <2>3, <2>4, <2>6, TallyUpdate
  <2>10. Tally(f, MaxQuantity) \in Nat
    BY <2>2, <2>3, TallyType
  <2>11. Tally(f, MaxQuantity) + q <= Supply[s]
    BY <2>2, <2>6, <2>8, <2>9, <2>10
  <2>12. Promise!Claim(k, s, q)
    BY <1>3, <2>1, <2>11, PromiseUnits
    DEF Promise!Claim, Promise!NoClaim, NoReservation, Supply, f
  <2> QED
    BY <2>12 DEF Promise!Next
<1> QED
    BY <1>4, <1>5

(* The transition out of active ends one. *)
LEMMA EndStep ==
    ASSUME SoldInv, NEW c \in Clients, ReleaseTransition(c) \/ ConfirmTransition(c)
    PROVE  Promise!Next \/ UNCHANGED <<Supply, reservations>>
<1>1. req[c].key \in Keys
    BY RequestShape DEF ReleaseTransition, ConfirmTransition, At, ClosePcs,
       SoldInv, CustodyInv, TypeInv, CloseRequest
<1>2. Supply' = Supply
    BY DEF ReleaseTransition, ConfirmTransition, Transition, Supply
<1>3. CASE UNCHANGED reservations
    BY <1>2, <1>3
<1>4. CASE ~ UNCHANGED reservations
  <2>1. PICK to \in Terminal :
           /\ reservations[req[c].key].status = "active"
           /\ reservations' = [reservations EXCEPT ![req[c].key].status = to]
    BY <1>4 DEF ReleaseTransition, ConfirmTransition, Transition,
       Transitionable, Target, Terminal
  <2>2. Promise!End(req[c].key, to)
    BY <1>2, <2>1 DEF Promise!End, Supply
  <2> QED
    BY <1>1, <2>1, <2>2 DEF Promise!Next, Promise!Ended, Terminal
<1> QED
    BY <1>3, <1>4

LEMMA NextPromise ==
    SoldInv /\ SoldInv' /\ [Next]_vars
       => Promise!Next \/ UNCHANGED <<Supply, reservations>>
<1> SUFFICES ASSUME SoldInv, SoldInv', [Next]_vars
             PROVE  Promise!Next \/ UNCHANGED <<Supply, reservations>>
    OBVIOUS
<1> USE DEF SoldInv, CustodyInv
<1>1. ASSUME NEW c \in Clients, Acts(c)
      PROVE  Promise!Next \/ UNCHANGED <<Supply, reservations>>
  <2>1. CASE ReserveCreate(c)
    BY <2>1, ClaimStep
  <2>2. CASE ReleaseTransition(c) \/ ConfirmTransition(c)
    BY <2>2, EndStep
  <2>3. CASE /\ UNCHANGED reservations
             /\ \E s \in Skus : \A t \in Skus \ {s} : stock'[t] = stock[t]
    <3>1. \E s \in Skus : \A t \in Skus \ {s} : Supply'[t] = Supply[t]
      BY <2>3 DEF Supply
    <3> QED
      BY <2>3, <3>1, SupplyStep
  <2>4. CASE UNCHANGED <<stock, reservations>>
    BY <2>4 DEF Supply
  <2>5. CASE EnsureCreate(c) \/ AdjustApply(c)
    <3>1. req[c].sku \in Skus
      BY <2>5, RequestShape DEF EnsureCreate, AdjustApply, At, TypeInv,
         OpeningRequest, AdjustRequest
    <3>2. /\ UNCHANGED reservations
          /\ \A t \in Skus \ {req[c].sku} : stock'[t] = stock[t]
      BY <2>5 DEF EnsureCreate, AdjustApply, TypeInv, TypeOK
    <3> QED
      BY <2>3, <3>1, <3>2
  <2>6. CASE ReserveStock(c) \/ ReserveUndo(c)
    <3>1. req[c].sku \in Skus
      BY <2>6, RequestShape DEF ReserveStock, ReserveUndo, At, TypeInv,
         ReservePcs, ReserveRequest
    <3>2. /\ UNCHANGED reservations
          /\ \A t \in Skus \ {req[c].sku} : stock'[t] = stock[t]
      BY <2>6 DEF ReserveStock, ReserveUndo, TypeInv, TypeOK
    <3> QED
      BY <2>3, <3>1, <3>2
  <2>7. CASE ReleaseStock(c) \/ ConfirmStock(c)
    <3>1. reservations[req[c].key] \in Reservation
      BY <2>7 DEF ReleaseStock, ConfirmStock, At, TypeInv, Grounded, ClosePcs
    <3>2. reservations[req[c].key].sku \in Skus
      BY <3>1 DEF Reservation
    <3>3. /\ UNCHANGED reservations
          /\ \A t \in Skus \ {reservations[req[c].key].sku} : stock'[t] = stock[t]
      BY <2>7 DEF ReleaseStock, ConfirmStock, TypeInv, TypeOK
    <3> QED
      BY <2>3, <3>2, <3>3
  <2>8. CASE Arrives(c) \/ SweepStart(c) \/ Breaks(c)
    BY <2>4, <2>8 DEF Arrives, EnsureStart, AdjustStart, ReserveStart,
       ReleaseStart, ConfirmStart, CloseStart, SweepStart, Breaks,
       CreateThrows, SweepItemThrows, CallThrows, Crash, Fails
  <2>9. CASE Continues(c)
    BY <2>1, <2>2, <2>4, <2>5, <2>6, <2>7, <2>9 DEF Continues, EnsureAppend,
       AdjustAppend, ReserveReplay, ReserveAppend, ReleaseAppend,
       ConfirmAppend, AppendClosing, SweepNext
  <2> QED
    BY <1>1, <2>8, <2>9 DEF Acts
<1>2. CASE UNCHANGED <<stock, reservations, posted, received, req, stranded, failures>>
    BY <1>2 DEF Supply
<1> QED
    BY <1>1, <1>2, StepsAreActs

(* The inventory service implements Claims: a reservation is made and      *)
(* ended in single steps, and what is active or confirmed is covered by    *)
(* the units received, although each is written by several calls that      *)
(* interleave and fail.                                                    *)
THEOREM PromiseKept == Spec => KeepsPromise
<1>1. SoldInv /\ SoldInv' /\ [Next]_vars
         => [Promise!Next]_<<[s \in Skus |-> stock[s].onHand + stock[s].sold],
                             reservations>>
    BY NextPromise DEF Supply
<1> QED
    BY <1>1, InitPromise, SoldInvariance, PTL DEF Spec, KeepsPromise, Promise!Spec

-----------------------------------------------------------------------------
(***************************************************************************)
(* The ledger tells the fate of a reservation.                             *)
(*                                                                         *)
(* The entry is appended last, by the request that decided the fate; on    *)
(* the way to it the request knows the fate, since terminal states are     *)
(* final, and is not turned back, since the closing update always finds    *)
(* the units.                                                              *)
(***************************************************************************)

AppendPcs == {"release_stock", "release_append", "confirm_stock", "confirm_append"}

(* A request past a decision has decided what the reservation says. *)
Fated ==
    \A c \in Clients :
        /\ At(c, "reserve_append") => reservations[req[c].key] # NoReservation
        /\ req[c].pc \in {"release_stock", "release_append"} =>
              reservations[req[c].key].status = Target(c)
        /\ req[c].pc \in {"confirm_stock", "confirm_append"} =>
              reservations[req[c].key].status = "confirmed"

Writing(k, pcs) == \E c \in Clients : req[c].pc \in pcs /\ req[c].key = k

LedgerOf(k) ==
    LET status == reservations[k].status IN
    /\ <<"reserve", k>> \in posted => status # "none"
    /\ \A t \in Terminal : <<t, k>> \in posted => status = t
    /\ failures = 0 /\ status # "none" =>
          <<"reserve", k>> \in posted \/ Writing(k, {"reserve_append"})
    /\ failures = 0 /\ status \in Terminal =>
          <<status, k>> \in posted \/ Writing(k, AppendPcs)

(* The inductive invariant. *)
FateInv == CustodyInv /\ Fated /\ \A k \in Keys : LedgerOf(k)

LEMMA FateTellsStatus == FateInv => LedgerTellsStatus
BY DEF FateInv, LedgerOf, Writing, AppendPcs, LedgerTellsStatus

-----------------------------------------------------------------------------
(* The key of a request that is past a decision. *)
LEMMA FatedKey ==
    ASSUME TypeInv, NEW c \in Clients, req[c].pc \in FatedPcs
    PROVE  req[c].key \in Keys
<1>1. req[c].pc \in ReservePcs \/ req[c].pc \in ClosePcs
    BY DEF FatedPcs, ReservePcs, ClosePcs
<1> QED
    BY <1>1, RequestShape DEF TypeInv, ReserveRequest, CloseRequest

(* A fate that was decided stays decided. *)
LEMMA FatedKept ==
    ASSUME TypeInv, Fated, KeepsFate, NEW c \in Clients,
           \A d \in Clients \ {c} : req'[d] = req[d],
           \A k \in Keys : reservations[k] # NoReservation =>
                              reservations'[k] # NoReservation,
           At(c, "reserve_append")' => reservations'[req'[c].key] # NoReservation,
           req'[c].pc \in {"release_stock", "release_append"} =>
              reservations'[req'[c].key].status = Target(c),
           req'[c].pc \in {"confirm_stock", "confirm_append"} =>
              reservations'[req'[c].key].status = "confirmed"
    PROVE  Fated'
<1> SUFFICES ASSUME NEW d \in Clients
             PROVE  /\ At(d, "reserve_append")' =>
                          reservations'[req'[d].key] # NoReservation
                    /\ req'[d].pc \in {"release_stock", "release_append"} =>
                          reservations'[req'[d].key].status = Target(d)
                    /\ req'[d].pc \in {"confirm_stock", "confirm_append"} =>
                          reservations'[req'[d].key].status = "confirmed"
    BY DEF Fated, Target
<1>1. CASE d = c
    BY <1>1
<1>2. CASE d # c /\ req'[d].pc \in FatedPcs
  <2>1. req'[d] = req[d]
    BY <1>2
  <2>2. req[d].key \in Keys
    BY <1>2, <2>1, FatedKey
  <2>3. Target(d) \in Terminal /\ "confirmed" \in Terminal
    BY DEF Target, Terminal
  <2>4. CASE At(d, "reserve_append")
    BY <2>1, <2>2, <2>4 DEF Fated, At
  <2>5. CASE req[d].pc \in {"release_stock", "release_append"}
    <3>1. reservations[req[d].key].status = Target(d)
      BY <2>5 DEF Fated
    <3>2. reservations'[req[d].key] = reservations[req[d].key]
      BY <2>2, <2>3, <3>1 DEF KeepsFate
    <3> QED
      BY <2>1, <2>5, <3>1, <3>2 DEF At
  <2>6. CASE req[d].pc \in {"confirm_stock", "confirm_append"}
    <3>1. reservations[req[d].key].status = "confirmed"
      BY <2>6 DEF Fated
    <3>2. reservations'[req[d].key] = reservations[req[d].key]
      BY <2>2, <2>3, <3>1 DEF KeepsFate
    <3> QED
      BY <2>1, <2>6, <3>1, <3>2 DEF At
  <2> QED
    BY <1>2, <2>1, <2>4, <2>5, <2>6 DEF FatedPcs, At
<1>3. CASE req'[d].pc \notin FatedPcs
    BY <1>3 DEF FatedPcs, At
<1> QED
    BY <1>1, <1>2, <1>3

(* The ledger of a reservation that stays as it is. Entries that come in   *)
(* say what the reservation says, and the acting request does not drop an  *)
(* entry it was on its way to write.                                       *)
LEMMA LedgerKept ==
    ASSUME NEW k \in Keys, LedgerOf(k), NEW c \in Clients,
           \A d \in Clients \ {c} : req'[d] = req[d],
           reservations'[k] = reservations[k], posted \subseteq posted',
           <<"reserve", k>> \in posted' =>
              <<"reserve", k>> \in posted \/ reservations[k].status # "none",
           \A t \in Terminal :
              <<t, k>> \in posted' => <<t, k>> \in posted \/ reservations[k].status = t,
           failures' = 0 => failures = 0,
           failures' = 0 /\ req[c].pc = "reserve_append" /\ req[c].key = k =>
              <<"reserve", k>> \in posted',
           failures' = 0 /\ req[c].pc \in AppendPcs /\ req[c].key = k =>
              \/ <<reservations[k].status, k>> \in posted'
              \/ req'[c].pc \in AppendPcs /\ req'[c].key = k
    PROVE  LedgerOf(k)'
<1> DEFINE status == reservations[k].status
<1>1. reservations'[k].status = status
    OBVIOUS
<1>2. <<"reserve", k>> \in posted' => status # "none"
    BY DEF LedgerOf
<1>3. \A t \in Terminal : <<t, k>> \in posted' => status = t
    BY DEF LedgerOf
<1>4. failures' = 0 /\ status # "none" =>
         <<"reserve", k>> \in posted' \/ Writing(k, {"reserve_append"})'
    BY DEF LedgerOf, Writing
<1>5. failures' = 0 /\ status \in Terminal =>
         <<status, k>> \in posted' \/ Writing(k, AppendPcs)'
    BY DEF LedgerOf, Writing
<1> QED
    BY <1>1, <1>2, <1>3, <1>4, <1>5 DEF LedgerOf

(* A step that appends nothing and writes to no reservation. *)
LEMMA LedgerQuiet ==
    ASSUME NEW k \in Keys, LedgerOf(k), NEW c \in Clients,
           \A d \in Clients \ {c} : req'[d] = req[d],
           reservations'[k] = reservations[k], UNCHANGED posted,
           failures' = 0 => failures = 0,
           failures' = 0 => req[c].pc \notin FatedPcs
    PROVE  LedgerOf(k)'
<1>1. failures' = 0 => req[c].pc # "reserve_append" /\ req[c].pc \notin AppendPcs
    BY DEF FatedPcs, AppendPcs
<1> QED
    BY <1>1, LedgerKept

-----------------------------------------------------------------------------
(* The insert: the request that made the reservation will append RESERVE. *)
LEMMA CreateFate ==
    ASSUME FateInv, KeepsFate, NEW c \in Clients, ReserveCreate(c)
    PROVE  Fated' /\ \A k \in Keys : LedgerOf(k)'
<1> USE DEF FateInv, CustodyInv
<1>1. req[c].pc = "reserve_create" /\ UNCHANGED <<posted, failures>>
    BY DEF ReserveCreate, At
<1>2. "reserve_append" \in ReservePcs /\ "reserve_undo" \in ReservePcs
    BY DEF ReservePcs
<1>3. CASE reservations[req[c].key] = NoReservation
  <2>1. /\ Goto(c, "reserve_append")
        /\ \E r : /\ r.status = "active"
                  /\ reservations' = [reservations EXCEPT ![req[c].key] = r]
    BY <1>3 DEF ReserveCreate
  <2>2. /\ req'[c].pc = "reserve_append" /\ req'[c].key = req[c].key
        /\ req[c].key \in Keys /\ \A d \in Clients \ {c} : req'[d] = req[d]
    BY <1>1, <1>2, <2>1, DecidesGoesOn
  <2>3. /\ reservations'[req[c].key].status = "active"
        /\ \A k \in Keys \ {req[c].key} : reservations'[k] = reservations[k]
    BY <2>1, <2>2 DEF TypeInv, TypeOK
  <2>4. NoReservation.status = "none"
    BY DEF NoReservation
  <2>5. /\ reservations'[req[c].key] # NoReservation
        /\ \A k \in Keys : reservations[k] # NoReservation =>
                              reservations'[k] # NoReservation
    BY <2>3, <2>4
  <2>6. Fated'
    BY <2>2, <2>5, FatedKept DEF At
  <2>7. ASSUME NEW k \in Keys PROVE LedgerOf(k)'
    <3>1. CASE k = req[c].key
      <4>1. \A t \in Terminal : <<t, k>> \notin posted
        BY <1>3, <2>4, <3>1 DEF LedgerOf, Terminal
      <4>2. Writing(k, {"reserve_append"})'
        BY <2>2, <3>1 DEF Writing
      <4> QED
        BY <1>1, <2>3, <3>1, <4>1, <4>2 DEF LedgerOf, Terminal
    <3>2. CASE k # req[c].key
      BY <1>1, <2>2, <2>3, <3>2, LedgerQuiet DEF FatedPcs
    <3> QED
      BY <3>1, <3>2
  <2> QED
    BY <2>6, <2>7
<1>4. CASE reservations[req[c].key] # NoReservation
  <2>1. Goto(c, "reserve_undo") /\ UNCHANGED reservations
    BY <1>4 DEF ReserveCreate
  <2>2. /\ req'[c].pc = "reserve_undo"
        /\ \A d \in Clients \ {c} : req'[d] = req[d]
    BY <1>1, <1>2, <2>1, DecidesGoesOn
  <2>3. Fated'
    BY <2>1, <2>2, FatedKept DEF At
  <2>4. \A k \in Keys : LedgerOf(k)'
    BY <1>1, <2>1, <2>2, LedgerQuiet DEF FatedPcs
  <2> QED
    BY <2>3, <2>4
<1> QED
    BY <1>3, <1>4

(* The transition: the request that closed the reservation will append the *)
(* entry of its new status.                                                *)
LEMMA TransitionFate ==
    ASSUME FateInv, KeepsFate, NEW c \in Clients,
           ReleaseTransition(c) \/ ConfirmTransition(c)
    PROVE  Fated' /\ \A k \in Keys : LedgerOf(k)'
<1> USE DEF FateInv, CustodyInv
<1>1. /\ req[c].pc \in ClosePcs /\ req[c].pc \notin FatedPcs /\ req[c].pc # "idle"
      /\ UNCHANGED <<posted, failures>>
    BY DEF ReleaseTransition, ConfirmTransition, Transition, At, ClosePcs, FatedPcs
<1>2. req[c].key \in Keys
    BY <1>1, RequestShape DEF TypeInv, CloseRequest
<1>3. CASE Transitionable(req[c].key)
  <2>1. PICK to \in Terminal, pc \in {"release_stock", "confirm_stock"} :
           /\ Goto(c, pc)
           /\ reservations' = [reservations EXCEPT ![req[c].key].status = to]
           /\ pc = "release_stock" => to = Target(c)
           /\ pc = "confirm_stock" => to = "confirmed"
    BY <1>3 DEF ReleaseTransition, ConfirmTransition, Transition, Target, Terminal
  <2>2. pc \in ClosePcs /\ pc \in AppendPcs
    BY <2>1 DEF ClosePcs, AppendPcs
  <2>3. /\ req'[c].pc = pc /\ req'[c].key = req[c].key
        /\ \A d \in Clients \ {c} : req'[d] = req[d]
    BY <1>1, <2>1, <2>2, DecidesGoesOn
  <2>4. /\ reservations'[req[c].key] = [reservations[req[c].key] EXCEPT !.status = to]
        /\ \A k \in Keys \ {req[c].key} : reservations'[k] = reservations[k]
    BY <1>2, <2>1 DEF TypeInv, TypeOK
  <2>5. /\ reservations[req[c].key].status = "active"
        /\ reservations'[req[c].key].status = to
    <3>1. reservations[req[c].key] \in Reservation
      BY <1>1 DEF TypeInv, Grounded
    <3> QED
      BY <1>3, <2>4, <3>1 DEF Transitionable, Reservation
  <2>6. \A k \in Keys : reservations[k] # NoReservation =>
                           reservations'[k] # NoReservation
    BY <2>1, <2>4, <2>5 DEF NoReservation, Terminal
  <2>7. Fated'
    BY <2>1, <2>3, <2>5, <2>6, FatedKept DEF At
  <2>8. ASSUME NEW k \in Keys PROVE LedgerOf(k)'
    <3>1. CASE k = req[c].key
      <4>1. \A t \in Terminal : <<t, k>> \notin posted
        BY <2>5, <3>1 DEF LedgerOf, Terminal
      <4>2. Writing(k, AppendPcs)'
        BY <2>2, <2>3, <3>1 DEF Writing
      <4>3. Writing(k, {"reserve_append"}) => Writing(k, {"reserve_append"})'
        BY <1>1, <2>3 DEF Writing, FatedPcs
      <4>4. failures = 0 => <<"reserve", k>> \in posted \/ Writing(k, {"reserve_append"})
        BY <2>5, <3>1 DEF LedgerOf
      <4>5. to # "none" /\ reservations'[k].status = to
        BY <2>1, <2>5, <3>1 DEF Terminal
      <4> QED
        BY <1>1, <4>1, <4>2, <4>3, <4>4, <4>5 DEF LedgerOf
    <3>2. CASE k # req[c].key
      BY <1>1, <2>3, <2>4, <3>2, LedgerQuiet
    <3> QED
      BY <3>1, <3>2
  <2> QED
    BY <2>7, <2>8
<1>4. CASE ~ Transitionable(req[c].key)
  <2>1. Finish(c) /\ UNCHANGED reservations
    BY <1>4 DEF ReleaseTransition, ConfirmTransition, Transition
  <2>2. /\ req'[c].pc \in {"idle", "sweep"}
        /\ \A d \in Clients \ {c} : req'[d] = req[d]
    BY <1>1, <2>1, FinishType DEF TypeInv
  <2>3. Fated'
    BY <2>1, <2>2, FatedKept DEF At
  <2>4. \A k \in Keys : LedgerOf(k)'
    BY <1>1, <2>1, <2>2, LedgerQuiet
  <2> QED
    BY <2>3, <2>4
<1> QED
    BY <1>3, <1>4

(* The closing update leads on to the entry. *)
LEMMA ClosingFate ==
    ASSUME FateInv, KeepsFate, NEW c \in Clients, ReleaseStock(c) \/ ConfirmStock(c)
    PROVE  Fated' /\ \A k \in Keys : LedgerOf(k)'
<1> USE DEF FateInv, CustodyInv
<1>1. /\ req[c].pc \in {"release_stock", "confirm_stock"} /\ req[c].pc \in ClosePcs
      /\ UNCHANGED <<reservations, posted, failures>>
    BY DEF ReleaseStock, ConfirmStock, At, ClosePcs
<1>2. Returnable(reservations[req[c].key].sku, reservations[req[c].key].qty)
  <2>1. reservations[req[c].key] \in Reservation
    BY <1>1 DEF TypeInv, Grounded
  <2>2. PICK t \in Skus, q \in Nat \ {0} :
           reservations[req[c].key].sku = t /\ reservations[req[c].key].qty = q
    <3>1. \A n \in Quantities : n \in Nat \ {0}
      BY QuantityAssumption
    <3> QED
      BY <2>1, <3>1 DEF Reservation
  <2>3. HeldByRequest(t, c) = q
    BY <1>1, <2>2 DEF HeldByRequest
  <2> QED
    BY <2>2, <2>3, HeldIsReturnable
<1>3. PICK pc \in {"release_append", "confirm_append"} :
         /\ Goto(c, pc)
         /\ pc = "release_append" => req[c].pc = "release_stock"
         /\ pc = "confirm_append" => req[c].pc = "confirm_stock"
    BY <1>2 DEF ReleaseStock, ConfirmStock, At
<1>4. pc \in ClosePcs /\ pc \in AppendPcs
    BY <1>3 DEF ClosePcs, AppendPcs
<1>5. /\ req'[c].pc = pc /\ req'[c].key = req[c].key
      /\ \A d \in Clients \ {c} : req'[d] = req[d]
    BY <1>1, <1>3, <1>4, DecidesGoesOn
<1>6. Fated'
  <2>1. /\ pc = "release_append" => reservations[req[c].key].status = Target(c)
        /\ pc = "confirm_append" => reservations[req[c].key].status = "confirmed"
    BY <1>3 DEF Fated
  <2> QED
    BY <1>1, <1>3, <1>5, <2>1, FatedKept DEF At
<1>7. \A k \in Keys : LedgerOf(k)'
    BY <1>1, <1>4, <1>5, LedgerKept
<1> QED
    BY <1>6, <1>7

(* The entry is the one of the status. *)
LEMMA AppendFate ==
    ASSUME FateInv, KeepsFate, NEW c \in Clients,
           ReserveAppend(c) \/ ReleaseAppend(c) \/ ConfirmAppend(c)
    PROVE  Fated' /\ \A k \in Keys : LedgerOf(k)'
<1> USE DEF FateInv, CustodyInv
<1>1. /\ req[c].pc \in {"reserve_append", "release_append", "confirm_append"}
      /\ req[c].pc \in FatedPcs /\ req[c].pc # "idle"
      /\ Finish(c) /\ UNCHANGED <<reservations, failures>>
    BY DEF ReserveAppend, ReleaseAppend, ConfirmAppend, AppendClosing, At, FatedPcs
<1>2. /\ req'[c].pc \in {"idle", "sweep"}
      /\ \A d \in Clients \ {c} : req'[d] = req[d]
    BY <1>1, FinishType DEF TypeInv
<1>3. Fated'
    BY <1>1, <1>2, FatedKept DEF At
<1>4. ASSUME NEW k \in Keys PROVE LedgerOf(k)'
  <2>1. CASE ReserveAppend(c)
    <3>1. /\ posted' = posted \cup {<<"reserve", req[c].key>>}
          /\ req[c].pc = "reserve_append"
      BY <2>1 DEF ReserveAppend, At
    <3>2. reservations[req[c].key].status # "none"
      <4>1. reservations[req[c].key] # NoReservation /\ req[c].key \in Keys
        BY <1>1, <3>1, FatedKey DEF Fated, At
      <4> QED
        BY <4>1 DEF TypeInv, TypeOK, Reservation, Statuses, Terminal
    <3>3. /\ <<"reserve", k>> \in posted' =>
                <<"reserve", k>> \in posted \/ reservations[k].status # "none"
          /\ \A t \in Terminal : <<t, k>> \in posted' => <<t, k>> \in posted
      BY <3>1, <3>2 DEF Terminal
    <3> QED
      BY <1>1, <1>2, <3>1, <3>3, LedgerKept DEF AppendPcs
  <2>2. CASE ReleaseAppend(c) \/ ConfirmAppend(c)
    <3>1. PICK t \in Terminal :
             /\ posted' = posted \cup {<<t, req[c].key>>}
             /\ reservations[req[c].key].status = t
             /\ req[c].pc # "reserve_append"
      BY <2>2 DEF ReleaseAppend, ConfirmAppend, AppendClosing, MovementType,
         Target, Fated, At, Terminal
    <3>2. t # "reserve"
      BY <3>1 DEF Terminal
    <3>3. /\ <<"reserve", k>> \in posted' => <<"reserve", k>> \in posted
          /\ \A u \in Terminal :
                <<u, k>> \in posted' => <<u, k>> \in posted \/ reservations[k].status = u
          /\ req[c].key = k => <<reservations[k].status, k>> \in posted'
      BY <3>1, <3>2
    <3> QED
      BY <1>1, <1>2, <3>1, <3>3, LedgerKept
  <2> QED
    BY <2>1, <2>2
<1> QED
    BY <1>3, <1>4

(* Every other step: it leaves the reservations alone, appends no entry    *)
(* about them, and loses one only by failing.                              *)
LEMMA OtherFate ==
    ASSUME FateInv, KeepsFate, NEW c \in Clients, Acts(c), ~ Decides(c),
           ~ ReserveAppend(c), ~ ReleaseAppend(c), ~ ConfirmAppend(c)
    PROVE  Fated' /\ \A k \in Keys : LedgerOf(k)'
<1> USE DEF FateInv, CustodyInv
<1>1. \A d \in Clients \ {c} : req'[d] = req[d]
    BY ActsAlone
<1>2. req'[c].pc \notin FatedPcs
    BY ElsewhereOtherwise
<1>3. /\ UNCHANGED reservations
      /\ failures' = 0 => failures = 0 /\ req[c].pc \notin FatedPcs
      /\ \/ UNCHANGED posted
         \/ \E x, y : x \in {"init", "adjust"} /\ posted' = posted \cup {<<x, y>>}
  <2>1. CASE Arrives(c) \/ SweepStart(c)
    BY <2>1 DEF Arrives, EnsureStart, AdjustStart, ReserveStart, ReleaseStart,
       ConfirmStart, CloseStart, SweepStart, At, FatedPcs
  <2>2. CASE Breaks(c)
    <3>1. failures \in Nat /\ failures' = failures + 1
      BY <2>2, ProcessAssumption DEF Breaks, CreateThrows, SweepItemThrows,
         CallThrows, Crash, Fails, TypeInv, TypeOK
    <3>2. UNCHANGED <<reservations, posted>>
      BY <2>2 DEF Breaks, CreateThrows, SweepItemThrows, CallThrows, Crash, Fails
    <3> QED
      BY <3>1, <3>2
  <2>3. CASE EnsureAppend(c)
    BY <2>3 DEF EnsureAppend, At, FatedPcs
  <2>4. CASE AdjustAppend(c)
    BY <2>4 DEF AdjustAppend, At, FatedPcs
  <2>5. CASE \/ EnsureCreate(c) \/ AdjustApply(c) \/ ReserveStock(c)
             \/ ReserveUndo(c) \/ ReserveReplay(c) \/ SweepNext(c)
    BY <2>5 DEF EnsureCreate, AdjustApply, ReserveStock, ReserveUndo,
       ReserveReplay, SweepNext, At, FatedPcs
  <2> QED
    BY <2>1, <2>2, <2>3, <2>4, <2>5 DEF Acts, Continues, Decides
<1>4. Fated'
    BY <1>1, <1>2, <1>3, FatedKept DEF At, FatedPcs
<1>5. ASSUME NEW k \in Keys PROVE LedgerOf(k)'
  <2>1. /\ posted \subseteq posted'
        /\ \A t \in Terminal \cup {"reserve"} : <<t, k>> \in posted' => <<t, k>> \in posted
    BY <1>3 DEF Terminal
  <2>2. failures' = 0 => req[c].pc # "reserve_append" /\ req[c].pc \notin AppendPcs
    BY <1>3 DEF FatedPcs, AppendPcs
  <2> QED
    BY <1>1, <1>3, <2>1, <2>2, LedgerKept
<1> QED
    BY <1>4, <1>5

LEMMA InitFate == Init => FateInv
<1> SUFFICES ASSUME Init PROVE FateInv
    OBVIOUS
<1>1. Fated
    BY DEF Init, Idle, Fated, At
<1>2. \A k \in Keys : LedgerOf(k)
    BY DEF Init, NoReservation, LedgerOf, Terminal
<1> QED
    BY <1>1, <1>2, InitCustody DEF FateInv

LEMMA NextFate == FateInv /\ [Next]_vars => FateInv'
<1> SUFFICES ASSUME FateInv, [Next]_vars PROVE FateInv'
    OBVIOUS
<1>1. CustodyInv' /\ KeepsFate
    BY NextCustody, FateKept DEF FateInv, CustodyInv
<1>2. ASSUME NEW c \in Clients, Acts(c) PROVE FateInv'
    BY <1>1, <1>2, CreateFate, TransitionFate, ClosingFate, AppendFate, OtherFate
    DEF FateInv, Decides
<1>3. CASE UNCHANGED <<stock, reservations, posted, received, req, stranded, failures>>
    BY <1>1, <1>3 DEF FateInv, Fated, LedgerOf, Writing, At, Target
<1> QED
    BY <1>2, <1>3, StepsAreActs

(* The ledger never contradicts a reservation: its closing entry is the    *)
(* one of its status, and without failures the entry is there or on its    *)
(* way, however release(), confirm() and the sweep race.                   *)
THEOREM LedgerIsTrue == Spec => []LedgerTellsStatus
<1> QED
    BY InitFate, NextFate, FateTellsStatus, PTL DEF Spec

-----------------------------------------------------------------------------
(***************************************************************************)
(* onHand and sold add up to the receipts in the ledger.                   *)
(*                                                                         *)
(* The stock record changes one call before its entry, so the sums agree   *)
(* when what requests have yet to enter is counted on both sides. adjust() *)
(* must not be under way twice under one idempotency key: append() would   *)
(* take the second entry for a repetition of the first.                    *)
(***************************************************************************)

AdjustPcs == {"adjust_apply", "adjust_append"}

Adjusting(c) == req[c].pc \in AdjustPcs /\ req[c].key # NoKey

(* No two requests in flight adjust under the same idempotency key. *)
AdjustmentsApart ==
    \A c, d \in Clients :
        Adjusting(c) /\ Adjusting(d) /\ req[c].key = req[d].key => c = d

(* Units that were put in, or taken out, and not entered yet. *)
ComingOf(s, c) ==
    IF At(c, "ensure_append") /\ req[c].sku = s THEN req[c].opening
    ELSE IF At(c, "adjust_append") /\ req[c].sku = s /\ req[c].delta > 0
         THEN req[c].delta ELSE 0

GoingOf(s, c) ==
    IF At(c, "adjust_append") /\ req[c].sku = s /\ req[c].delta < 0
    THEN - req[c].delta ELSE 0

Coming(s) == [c \in Clients |-> ComingOf(s, c)]
Going(s) == [c \in Clients |-> GoingOf(s, c)]

(* Openings and deltas have no bound, but those in flight have one, m. *)
Within(m) ==
    \A s \in Skus, c \in Clients : ComingOf(s, c) \in 0 .. m /\ GoingOf(s, c) \in 0 .. m

Owned(s) == stock[s].onHand + stock[s].sold

Entered(s, m) ==
    Owned(s) + Tally(Going(s), m) = received[s] + Tally(Coming(s), m)

Balanced == \E m \in Nat : Within(m) /\ \A s \in Skus : Entered(s, m)

(* An adjustment under way is not in the ledger yet. *)
Unposted == \A c \in Clients : Adjusting(c) => <<"adjust", req[c].key>> \notin posted

(* The inductive invariant. *)
ReceiptInv ==
    /\ CustodyInv /\ Blank /\ Unposted
    /\ failures = 0 => Balanced

-----------------------------------------------------------------------------
(* What comes in is entered, and what goes out, once. *)
LEMMA EnteredSum ==
    ASSUME NEW o \in Int, NEW r \in Int, NEW o2 \in Int, NEW r2 \in Int,
           NEW tf \in Int, NEW tp \in Int, NEW fc \in Int, NEW gc \in Int,
           NEW pc \in Int, NEW qc \in Int,
           o + tp = r + tf, o2 - r2 + qc - gc = o - r + pc - fc
    PROVE  o2 + (tp - pc + qc) = r2 + (tf - fc + gc)
OBVIOUS

(* One request puts in or takes out units, or enters what it did. *)
LEMMA EnteredStep ==
    ASSUME TypeInv, TypeInv', NEW m \in Nat, NEW n \in Nat, Within(m),
           \A s \in Skus : Entered(s, m), NEW c \in Clients,
           \A d \in Clients \ {c} : req'[d] = req[d],
           \A s \in Skus : /\ ComingOf(s, c)' \in 0 .. n
                           /\ GoingOf(s, c)' \in 0 .. n
                           /\ Owned(s)' - received'[s] + GoingOf(s, c)' - ComingOf(s, c)'
                                 = Owned(s) - received[s] + GoingOf(s, c) - ComingOf(s, c)
    PROVE  Within(m + n)' /\ \A s \in Skus : Entered(s, m + n)'
<1>1. m + n \in Nat /\ m <= m + n /\ n <= m + n
    OBVIOUS
<1>2. \A s \in Skus, d \in Clients \ {c} :
         ComingOf(s, d)' = ComingOf(s, d) /\ GoingOf(s, d)' = GoingOf(s, d)
    BY DEF ComingOf, GoingOf, At
<1>3. Within(m + n)'
  <2> SUFFICES ASSUME NEW s \in Skus, NEW d \in Clients
               PROVE  ComingOf(s, d)' \in 0 .. (m + n) /\ GoingOf(s, d)' \in 0 .. (m + n)
    BY DEF Within
  <2>1. CASE d = c
    BY <1>1, <2>1
  <2>2. CASE d # c
    BY <1>1, <1>2, <2>2 DEF Within
  <2> QED
    BY <2>1, <2>2
<1>4. ASSUME NEW s \in Skus PROVE Entered(s, m + n)'
  <2> DEFINE f == Coming(s)
             g == Coming(s)'
             p == Going(s)
             q == Going(s)'
  <2>1. f \in [Clients -> 0 .. m] /\ p \in [Clients -> 0 .. m]
    BY DEF Within, Coming, Going
  <2>2. f \in [Clients -> 0 .. (m + n)] /\ p \in [Clients -> 0 .. (m + n)]
    BY <1>1, <2>1
  <2>3. g \in [Clients -> 0 .. (m + n)] /\ q \in [Clients -> 0 .. (m + n)]
    BY <1>3 DEF Within, Coming, Going
  <2>4. /\ \A d \in Clients \ {c} : g[d] = f[d] /\ q[d] = p[d]
        /\ f[c] = ComingOf(s, c) /\ p[c] = GoingOf(s, c)
        /\ g[c] = ComingOf(s, c)' /\ q[c] = GoingOf(s, c)'
    BY <1>2 DEF Coming, Going
  <2>5. Owned(s) + Tally(p, m) = received[s] + Tally(f, m)
    BY DEF Entered
  <2>6. /\ Owned(s) \in Int /\ received[s] \in Int
        /\ Owned(s)' \in Int /\ received'[s] \in Int
    <3>1. Owned(s) \in Int /\ received[s] \in Int
      BY DEF TypeInv, TypeOK, StockRecord, Owned
    <3>2. Owned(s)' \in Int /\ received'[s] \in Int
      BY DEF TypeInv, TypeOK, StockRecord, Owned
    <3> QED
      BY <3>1, <3>2
  <2>7. Owned(s)' - received'[s] + q[c] - g[c] = Owned(s) - received[s] + p[c] - f[c]
    BY <2>4
  <2> HIDE DEF f, g, p, q
  <2>8. Tally(f, m) = Tally(f, m + n) /\ Tally(p, m) = Tally(p, m + n)
    BY <1>1, <2>1, TallyRebound
  <2>9. Tally(g, m + n) = Tally(f, m + n) - f[c] + g[c]
    BY <1>1, <2>2, <2>3, <2>4, ClientsFinite, TallyUpdate
  <2>10. Tally(q, m + n) = Tally(p, m + n) - p[c] + q[c]
    BY <1>1, <2>2, <2>3, <2>4, ClientsFinite, TallyUpdate
  <2>11. Tally(f, m + n) \in Nat /\ Tally(p, m + n) \in Nat
    BY <1>1, <2>2, ClientsFinite, TallyType
  <2>12. f[c] \in Int /\ g[c] \in Int /\ p[c] \in Int /\ q[c] \in Int
    BY <2>2, <2>3
  <2>13. Owned(s)' + Tally(q, m + n) = received'[s] + Tally(g, m + n)
    <3> DEFINE o == Owned(s)
               r == received[s]
               o2 == Owned(s)'
               r2 == received'[s]
               tf == Tally(f, m + n)
               tp == Tally(p, m + n)
               fc == f[c]
               gc == g[c]
               pc == p[c]
               qc == q[c]
    <3>1. o + tp = r + tf /\ o2 - r2 + qc - gc = o - r + pc - fc
      BY <2>5, <2>7, <2>8
    <3>2. /\ o \in Int /\ r \in Int /\ o2 \in Int /\ r2 \in Int
          /\ tf \in Int /\ tp \in Int
          /\ fc \in Int /\ gc \in Int /\ pc \in Int /\ qc \in Int
      BY <2>6, <2>11, <2>12
    <3>3. Tally(g, m + n) = tf - fc + gc /\ Tally(q, m + n) = tp - pc + qc
      BY <2>9, <2>10
    <3> HIDE DEF o, r, o2, r2, tf, tp, fc, gc, pc, qc
    <3>4. o2 + (tp - pc + qc) = r2 + (tf - fc + gc)
      BY <3>1, <3>2, EnteredSum
    <3>5. o2 + Tally(q, m + n) = r2 + Tally(g, m + n)
      BY <3>3, <3>4
    <3> QED
      BY <3>5 DEF o2, r2
  <2> QED
    BY <2>13 DEF Entered, g, q
<1> QED
    BY <1>3, <1>4

(* Only ensureInventory's insert and adjust()'s own steps lead on to an    *)
(* entry of received units.                                                *)
LEMMA NoReceiptAhead ==
    ASSUME TypeInv, NEW c \in Clients, Acts(c), ~ EnsureCreate(c), ~ AdjustApply(c),
           \A s \in Skus, d \in Deltas, a \in AdjustKeys \cup {NoKey} :
              ~ AdjustStart(c, s, d, a)
    PROVE  req'[c].pc \notin AdjustPcs \cup {"ensure_append"}
<1> DEFINE pcs == AdjustPcs \cup {"ensure_append"}
<1> USE DEF TypeInv
<1>1. req \in [Clients -> Request]
    BY DEF TypeOK
<1>2. ASSUME NEW r, Become(c, r), r.pc \notin pcs
      PROVE  req'[c].pc \notin pcs
    BY <1>1, <1>2 DEF Become
<1>3. CASE Finish(c) /\ req[c].pc # "idle"
    BY <1>3, FinishType DEF AdjustPcs
<1>4. CASE Arrives(c)
  <2>1. ASSUME NEW s \in Skus, NEW n \in Openings, EnsureStart(c, s, n)
        PROVE  req'[c].pc \notin pcs
    BY <1>2, <2>1 DEF EnsureStart, AdjustPcs
  <2>2. ASSUME NEW s \in Skus, NEW k \in Keys, NEW q \in Quantities,
               ReserveStart(c, s, k, q)
        PROVE  req'[c].pc \notin pcs
    BY <1>2, <2>2 DEF ReserveStart, AdjustPcs
  <2>3. ASSUME NEW k \in Keys, ReleaseStart(c, k) \/ ConfirmStart(c, k)
        PROVE  req'[c].pc \notin pcs
    BY <1>2, <2>3 DEF ReleaseStart, ConfirmStart, CloseStart, AdjustPcs
  <2> QED
    BY <1>4, <2>1, <2>2, <2>3 DEF Arrives
<1>5. CASE SweepStart(c) \/ SweepNext(c) \/ SweepItemThrows(c)
  <2>1. \A batch : Resume(batch).pc \notin pcs
    BY DEF Resume, Idle, AdjustPcs
  <2>2. \A k, batch : [pc |-> "release_transition", key |-> k,
                       batch |-> batch].pc \notin pcs
    BY DEF AdjustPcs
  <2>3. \E r : Become(c, r) /\ r.pc \notin pcs
    <3> HIDE DEF Resume, pcs
    <3> QED
      BY <1>5, <2>1, <2>2 DEF SweepStart, SweepNext, SweepItemThrows
  <2> QED
    BY <1>2, <2>3
<1>6. ASSUME NEW pc, Goto(c, pc),
             \/ req[c].pc \in ReservePcs /\ pc \in ReservePcs
             \/ req[c].pc \in ClosePcs /\ pc \in ClosePcs
      PROVE  req'[c].pc \notin pcs
  <2>1. req'[c].pc = pc
    BY <1>6, GotoType
  <2> QED
    BY <1>6, <2>1 DEF ReservePcs, ClosePcs, AdjustPcs
<1>7. CASE \/ ReserveStock(c) \/ ReserveCreate(c) \/ CreateThrows(c)
           \/ ReleaseTransition(c) \/ ConfirmTransition(c)
           \/ ReleaseStock(c) \/ ConfirmStock(c)
  <2>1. \/ Finish(c) /\ req[c].pc # "idle"
        \/ \E pc \in {"reserve_create", "reserve_append", "reserve_undo"} :
              Goto(c, pc) /\ req[c].pc \in ReservePcs
        \/ \E pc \in {"release_stock", "confirm_stock", "release_append",
                      "confirm_append"} : Goto(c, pc) /\ req[c].pc \in ClosePcs
    BY <1>7 DEF ReserveStock, ReserveCreate, CreateThrows, ReleaseTransition,
       ConfirmTransition, ReleaseStock, ConfirmStock, Transition, At, ReservePcs,
       ClosePcs
  <2>2. /\ \A pc \in {"reserve_create", "reserve_append", "reserve_undo"} :
              pc \in ReservePcs
        /\ \A pc \in {"release_stock", "confirm_stock", "release_append",
                      "confirm_append"} : pc \in ClosePcs
    BY DEF ReservePcs, ClosePcs
  <2> QED
    BY <1>3, <1>6, <2>1, <2>2
<1>8. CASE \/ EnsureAppend(c) \/ AdjustAppend(c) \/ ReserveUndo(c)
           \/ ReserveReplay(c) \/ ReserveAppend(c) \/ ReleaseAppend(c)
           \/ ConfirmAppend(c) \/ CallThrows(c)
    BY <1>3, <1>8 DEF EnsureAppend, AdjustAppend, ReserveUndo, ReserveReplay,
       ReserveAppend, ReleaseAppend, ConfirmAppend, AppendClosing, CallThrows, At
<1>9. CASE Crash(c)
  <2>1. Become(c, Idle) /\ Idle.pc \notin pcs
    BY <1>9 DEF Crash, Idle, AdjustPcs
  <2> QED
    BY <1>2, <2>1
<1> QED
    BY <1>4, <1>5, <1>7, <1>8, <1>9 DEF Acts, Continues, Breaks

-----------------------------------------------------------------------------
LEMMA BalancedStep ==
    ASSUME TypeInv, TypeInv', Balanced, NEW c \in Clients, NEW n \in Nat,
           \A d \in Clients \ {c} : req'[d] = req[d],
           \A s \in Skus : /\ ComingOf(s, c)' \in 0 .. n
                           /\ GoingOf(s, c)' \in 0 .. n
                           /\ Owned(s)' - received'[s] + GoingOf(s, c)' - ComingOf(s, c)'
                                 = Owned(s) - received[s] + GoingOf(s, c) - ComingOf(s, c)
    PROVE  Balanced'
<1>1. PICK m \in Nat : Within(m) /\ \A s \in Skus : Entered(s, m)
    BY DEF Balanced
<1>2. Within(m + n)' /\ \A s \in Skus : Entered(s, m + n)'
    BY <1>1, EnteredStep
<1>3. m + n \in Nat
    OBVIOUS
<1> QED
    BY <1>2, <1>3 DEF Balanced

(* Requests that are not about to enter receipts have none to enter. *)
EntryPcs == {"ensure_append", "adjust_append"}

LEMMA NothingToEnter ==
    ASSUME NEW c \in Clients, NEW s \in Skus
    PROVE  /\ req[c].pc \notin EntryPcs => ComingOf(s, c) = 0 /\ GoingOf(s, c) = 0
           /\ req'[c].pc \notin EntryPcs => ComingOf(s, c)' = 0 /\ GoingOf(s, c)' = 0
BY DEF EntryPcs, ComingOf, GoingOf, At

LEMMA OwnedType ==
    ASSUME TypeInv, NEW s \in Skus
    PROVE  Owned(s) \in Int /\ received[s] \in Int
BY DEF TypeInv, TypeOK, StockRecord, Owned

(* A step that changes neither what there is nor what was entered. *)
LEMMA BalancedQuiet ==
    ASSUME TypeInv, TypeInv', Balanced, NEW c \in Clients,
           \A d \in Clients \ {c} : req'[d] = req[d],
           req[c].pc \notin EntryPcs, req'[c].pc \notin EntryPcs,
           \A s \in Skus : Owned(s)' = Owned(s), UNCHANGED received
    PROVE  Balanced'
<1>1. ASSUME NEW s \in Skus
      PROVE  /\ ComingOf(s, c)' \in 0 .. 0 /\ GoingOf(s, c)' \in 0 .. 0
             /\ Owned(s)' - received'[s] + GoingOf(s, c)' - ComingOf(s, c)'
                   = Owned(s) - received[s] + GoingOf(s, c) - ComingOf(s, c)
    BY NothingToEnter, OwnedType
<1> QED
    BY <1>1, BalancedStep

(* ensureInventory *)
LEMMA EnsureBalanced ==
    ASSUME TypeInv, TypeInv', Blank, Balanced, NEW c \in Clients,
           EnsureCreate(c) \/ EnsureAppend(c)
    PROVE  Balanced'
<1>1. \A d \in Clients \ {c} : req'[d] = req[d]
    BY ActsAlone DEF Acts, Continues
<1>2. PICK t \in Skus, n \in Nat : req[c].sku = t /\ req[c].opening = n
  <2>1. req[c] \in OpeningRequest
    BY RequestShape DEF TypeInv, EnsureCreate, EnsureAppend, At
  <2>2. \A n \in Openings : n \in Nat
    BY StockAssumption
  <2> QED
    BY <2>1, <2>2 DEF OpeningRequest
<1>3. CASE EnsureCreate(c) /\ stock[t].exists
  <2>1. /\ Finish(c) /\ UNCHANGED <<stock, received>>
        /\ req[c].pc \notin EntryPcs /\ req[c].pc # "idle"
    BY <1>2, <1>3 DEF EnsureCreate, At, EntryPcs
  <2>2. req'[c].pc \notin EntryPcs
    BY <2>1, FinishType DEF TypeInv, EntryPcs
  <2> QED
    BY <1>1, <2>1, <2>2, BalancedQuiet DEF Owned
<1>4. CASE EnsureCreate(c) /\ ~ stock[t].exists
  <2>1. /\ stock' = [stock EXCEPT ![t] = [exists |-> TRUE, onHand |-> n,
                                          reserved |-> 0, sold |-> 0]]
        /\ Goto(c, "ensure_append") /\ UNCHANGED received
        /\ req[c].pc = "ensure_create" /\ req[c].pc \notin EntryPcs
    BY <1>2, <1>4 DEF EnsureCreate, At, EntryPcs
  <2>2. /\ req'[c] = [req[c] EXCEPT !.pc = "ensure_append"]
        /\ req'[c].pc = "ensure_append"
    BY <2>1, GotoType, Zenon DEF TypeInv
  <2>3. req'[c].sku = t /\ req'[c].opening = n
    <3>1. req[c] \in OpeningRequest
      BY <2>1, RequestShape DEF TypeInv
    <3> QED
      BY <1>2, <2>2, <3>1 DEF OpeningRequest
  <2>4. ASSUME NEW s \in Skus
        PROVE  /\ ComingOf(s, c)' \in 0 .. n /\ GoingOf(s, c)' \in 0 .. n
               /\ Owned(s)' - received'[s] + GoingOf(s, c)' - ComingOf(s, c)'
                     = Owned(s) - received[s] + GoingOf(s, c) - ComingOf(s, c)
    <3>1. ComingOf(s, c) = 0 /\ GoingOf(s, c) = 0
      BY <2>1, NothingToEnter
    <3>2. /\ ComingOf(s, c)' = IF s = t THEN n ELSE 0
          /\ GoingOf(s, c)' = 0
      BY <2>2, <2>3 DEF ComingOf, GoingOf, At
    <3>3. Owned(s)' = Owned(s) + IF s = t THEN n ELSE 0
      <4>1. CASE s = t
        BY <1>4, <2>1, <4>1 DEF Owned, Blank, TypeInv, TypeOK
      <4>2. CASE s # t
        BY <2>1, <4>2, OwnedType DEF Owned, TypeInv, TypeOK
      <4> QED
        BY <4>1, <4>2
    <3> QED
      BY <2>1, <3>1, <3>2, <3>3, OwnedType
  <2> QED
    BY <1>1, <2>4, BalancedStep
<1>5. CASE EnsureAppend(c)
  <2>1. /\ Finish(c) /\ UNCHANGED stock
        /\ received' = [received EXCEPT ![t] = @ + n]
        /\ req[c].pc = "ensure_append" /\ req[c].pc # "idle"
    BY <1>2, <1>5 DEF EnsureAppend, At
  <2>2. req'[c].pc \notin EntryPcs
    BY <2>1, FinishType DEF TypeInv, EntryPcs
  <2>3. ASSUME NEW s \in Skus
        PROVE  /\ ComingOf(s, c)' \in 0 .. 0 /\ GoingOf(s, c)' \in 0 .. 0
               /\ Owned(s)' - received'[s] + GoingOf(s, c)' - ComingOf(s, c)'
                     = Owned(s) - received[s] + GoingOf(s, c) - ComingOf(s, c)
    <3>1. ComingOf(s, c)' = 0 /\ GoingOf(s, c)' = 0
      BY <2>2, NothingToEnter
    <3>2. /\ ComingOf(s, c) = IF s = t THEN n ELSE 0
          /\ GoingOf(s, c) = 0
      BY <1>2, <2>1 DEF ComingOf, GoingOf, At
    <3>3. /\ Owned(s)' = Owned(s)
          /\ received'[s] = received[s] + IF s = t THEN n ELSE 0
      BY <2>1, OwnedType DEF Owned, TypeInv, TypeOK
    <3> QED
      BY <3>1, <3>2, <3>3, OwnedType
  <2> QED
    BY <1>1, <2>3, BalancedStep
<1> QED
    BY <1>3, <1>4, <1>5

(* adjust() *)
LEMMA AdjustBalanced ==
    ASSUME TypeInv, TypeInv', Unposted, Balanced, NEW c \in Clients,
           AdjustApply(c) \/ AdjustAppend(c)
    PROVE  Balanced'
<1>1. \A d \in Clients \ {c} : req'[d] = req[d]
    BY ActsAlone DEF Acts, Continues
<1>2. PICK t \in Skus, d \in Int : req[c].sku = t /\ req[c].delta = d
  <2>1. req[c] \in AdjustRequest
    BY RequestShape DEF TypeInv, AdjustApply, AdjustAppend, At
  <2>2. \A n \in Deltas : n \in Int
    BY StockAssumption
  <2> QED
    BY <2>1, <2>2 DEF AdjustRequest
<1>3. CASE AdjustApply(c) /\ ~ Adjustable(t, d)
  <2>1. /\ Finish(c) /\ UNCHANGED <<stock, received>>
        /\ req[c].pc \notin EntryPcs /\ req[c].pc # "idle"
    BY <1>2, <1>3 DEF AdjustApply, At, EntryPcs
  <2>2. req'[c].pc \notin EntryPcs
    BY <2>1, FinishType DEF TypeInv, EntryPcs
  <2> QED
    BY <1>1, <2>1, <2>2, BalancedQuiet DEF Owned
<1>4. CASE AdjustApply(c) /\ Adjustable(t, d)
  <2>1. /\ stock' = [stock EXCEPT ![t] = [stock[t] EXCEPT !.onHand = @ + d]]
        /\ Goto(c, "adjust_append") /\ UNCHANGED received
        /\ req[c].pc = "adjust_apply" /\ req[c].pc \notin EntryPcs
    BY <1>2, <1>4 DEF AdjustApply, At, EntryPcs
  <2>2. /\ req'[c] = [req[c] EXCEPT !.pc = "adjust_append"]
        /\ req'[c].pc = "adjust_append"
    BY <2>1, GotoType, Zenon DEF TypeInv
  <2>3. req'[c].sku = t /\ req'[c].delta = d
    <3>1. req[c] \in AdjustRequest
      BY <2>1, RequestShape DEF TypeInv
    <3> QED
      BY <1>2, <2>2, <3>1 DEF AdjustRequest
  <2>4. PICK n \in Nat : n = IF d > 0 THEN d ELSE - d
    BY <1>2
  <2>5. ASSUME NEW s \in Skus
        PROVE  /\ ComingOf(s, c)' \in 0 .. n /\ GoingOf(s, c)' \in 0 .. n
               /\ Owned(s)' - received'[s] + GoingOf(s, c)' - ComingOf(s, c)'
                     = Owned(s) - received[s] + GoingOf(s, c) - ComingOf(s, c)
    <3>1. ComingOf(s, c) = 0 /\ GoingOf(s, c) = 0
      BY <2>1, NothingToEnter
    <3>2. /\ ComingOf(s, c)' = IF s = t /\ d > 0 THEN d ELSE 0
          /\ GoingOf(s, c)' = IF s = t /\ d < 0 THEN - d ELSE 0
      BY <2>2, <2>3 DEF ComingOf, GoingOf, At
    <3>3. Owned(s)' = Owned(s) + IF s = t THEN d ELSE 0
      <4>1. CASE s = t
        <5>1. stock[t] \in StockRecord
          BY DEF TypeInv, TypeOK
        <5>2. stock'[t] = [stock[t] EXCEPT !.onHand = @ + d]
          BY <2>1 DEF TypeInv, TypeOK
        <5>3. /\ stock'[t].onHand = stock[t].onHand + d
              /\ stock'[t].sold = stock[t].sold
              /\ stock[t].onHand \in Nat /\ stock[t].sold \in Nat
          BY <5>1, <5>2 DEF StockRecord
        <5> QED
          BY <1>2, <4>1, <5>3 DEF Owned
      <4>2. CASE s # t
        BY <2>1, <4>2, OwnedType DEF Owned, TypeInv, TypeOK
      <4> QED
        BY <4>1, <4>2
    <3>4. received'[s] = received[s] /\ Owned(s) \in Int /\ received[s] \in Int
      BY <2>1, OwnedType
    <3>5. ComingOf(s, c)' \in 0 .. n /\ GoingOf(s, c)' \in 0 .. n
      BY <1>2, <2>4, <3>2
    <3> QED
      BY <1>2, <3>1, <3>2, <3>3, <3>4, <3>5
  <2> QED
    BY <1>1, <2>5, BalancedStep
<1>5. CASE AdjustAppend(c)
  <2>1. <<"adjust", req[c].key>> \notin posted
    <3>1. CASE req[c].key = NoKey
      BY <3>1, StockAssumption
      DEF TypeInv, TypeOK, MovementKeys, MovementKey, Terminal
    <3>2. CASE req[c].key # NoKey
      BY <1>5, <3>2 DEF Unposted, Adjusting, AdjustPcs, AdjustAppend, At
    <3> QED
      BY <3>1, <3>2
  <2>2. /\ Finish(c) /\ UNCHANGED stock
        /\ received' = [received EXCEPT ![t] = @ + d]
        /\ req[c].pc = "adjust_append" /\ req[c].pc # "idle"
    BY <1>2, <1>5, <2>1 DEF AdjustAppend, At
  <2>3. req'[c].pc \notin EntryPcs
    BY <2>2, FinishType DEF TypeInv, EntryPcs
  <2>4. ASSUME NEW s \in Skus
        PROVE  /\ ComingOf(s, c)' \in 0 .. 0 /\ GoingOf(s, c)' \in 0 .. 0
               /\ Owned(s)' - received'[s] + GoingOf(s, c)' - ComingOf(s, c)'
                     = Owned(s) - received[s] + GoingOf(s, c) - ComingOf(s, c)
    <3>1. ComingOf(s, c)' = 0 /\ GoingOf(s, c)' = 0
      BY <2>3, NothingToEnter
    <3>2. /\ ComingOf(s, c) = IF s = t /\ d > 0 THEN d ELSE 0
          /\ GoingOf(s, c) = IF s = t /\ d < 0 THEN - d ELSE 0
      BY <1>2, <2>2 DEF ComingOf, GoingOf, At
    <3>3. /\ Owned(s)' = Owned(s)
          /\ received'[s] = received[s] + IF s = t THEN d ELSE 0
      BY <2>2, OwnedType DEF Owned, TypeInv, TypeOK
    <3>4. Owned(s) \in Int /\ received[s] \in Int
      BY OwnedType
    <3> QED
      BY <1>2, <3>1, <3>2, <3>3, <3>4
  <2> QED
    BY <1>1, <2>4, BalancedStep
<1> QED
    BY <1>3, <1>4, <1>5

(* Every other step that does not fail. What commitStock() takes from      *)
(* onHand it adds to sold.                                                 *)
LEMMA OtherBalanced ==
    ASSUME TypeInv, TypeInv', Balanced, NEW c \in Clients, Acts(c), ~ Breaks(c),
           ~ EnsureCreate(c), ~ EnsureAppend(c), ~ AdjustApply(c), ~ AdjustAppend(c)
    PROVE  Balanced'
<1>1. \A d \in Clients \ {c} : req'[d] = req[d]
    BY ActsAlone
<1>2. req'[c].pc \notin EntryPcs
  <2>1. ASSUME NEW s \in Skus, NEW d \in Deltas, NEW a \in AdjustKeys \cup {NoKey},
               AdjustStart(c, s, d, a)
        PROVE  req'[c].pc \notin EntryPcs
    BY <2>1 DEF AdjustStart, Become, EntryPcs, TypeInv, TypeOK
  <2> QED
    BY <2>1, NoReceiptAhead DEF EntryPcs, AdjustPcs
<1>3. req[c].pc \notin EntryPcs /\ UNCHANGED received
  <2>1. CASE Arrives(c) \/ SweepStart(c)
    BY <2>1 DEF Arrives, EnsureStart, AdjustStart, ReserveStart, ReleaseStart,
       ConfirmStart, CloseStart, SweepStart, At, EntryPcs
  <2>2. CASE Continues(c)
    BY <2>2 DEF Continues, ReserveStock, ReserveCreate, ReserveUndo,
       ReserveReplay, ReserveAppend, ReleaseTransition, ReleaseStock,
       ReleaseAppend, ConfirmTransition, ConfirmStock, ConfirmAppend,
       Transition, AppendClosing, SweepNext, At, EntryPcs
  <2> QED
    BY <2>1, <2>2 DEF Acts
<1>4. ASSUME NEW s \in Skus PROVE Owned(s)' = Owned(s)
  <2>1. stock[s] \in StockRecord
    BY DEF TypeInv, TypeOK
  <2>2. CASE UNCHANGED stock
    BY <2>2 DEF Owned
  <2>3. CASE ReserveStock(c) \/ ReserveUndo(c) \/ ReleaseStock(c)
    <3>1. \/ stock'[s] = stock[s]
          \/ \E n : stock'[s] = [stock[s] EXCEPT !.reserved = n]
      BY <2>3 DEF ReserveStock, ReserveUndo, ReleaseStock, TypeInv, TypeOK
    <3>2. stock'[s].onHand = stock[s].onHand /\ stock'[s].sold = stock[s].sold
      BY <2>1, <3>1 DEF StockRecord
    <3> QED
      BY <3>2 DEF Owned
  <2>4. CASE ConfirmStock(c)
    <3>1. reservations[req[c].key] \in Reservation
      BY <2>4 DEF ConfirmStock, At, TypeInv, Grounded, ClosePcs
    <3>2. \A q \in Quantities : q \in Nat
      BY QuantityAssumption
    <3>3. PICK q \in Nat : \/ stock'[s] = stock[s]
                           \/ stock'[s] = Committed(stock[s], q)
      BY <2>4, <3>1, <3>2 DEF ConfirmStock, TypeInv, TypeOK, Reservation
    <3>4. /\ Committed(stock[s], q).onHand = stock[s].onHand - q
          /\ Committed(stock[s], q).sold = stock[s].sold + q
      BY <2>1 DEF Committed, StockRecord
    <3>5. stock[s].onHand \in Nat /\ stock[s].sold \in Nat
      BY <2>1 DEF StockRecord
    <3> QED
      BY <3>3, <3>4, <3>5 DEF Owned
  <2>5. CASE Arrives(c) \/ SweepStart(c)
    BY <2>2, <2>5 DEF Arrives, EnsureStart, AdjustStart, ReserveStart,
       ReleaseStart, ConfirmStart, CloseStart, SweepStart
  <2>6. CASE Continues(c)
    BY <2>2, <2>3, <2>4, <2>6 DEF Continues, ReserveCreate, ReserveReplay,
       ReserveAppend, ReleaseTransition, ReleaseAppend, ConfirmTransition,
       ConfirmAppend, Transition, AppendClosing, SweepNext
  <2> QED
    BY <2>5, <2>6 DEF Acts
<1> QED
    BY <1>1, <1>2, <1>3, <1>4, BalancedQuiet

(* An adjustment that is under way stays out of the ledger, when no other  *)
(* request has its key.                                                    *)
LEMMA UnpostedKept ==
    ASSUME TypeInv, Unposted, AdjustmentsApart, NEW c \in Clients, Acts(c)
    PROVE  Unposted'
<1>1. \A d \in Clients \ {c} : req'[d] = req[d]
    BY ActsAlone
<1>2. ASSUME \A a : <<"adjust", a>> \in posted' => <<"adjust", a>> \in posted,
             Adjusting(c)' => <<"adjust", req'[c].key>> \notin posted
      PROVE  Unposted'
    BY <1>1, <1>2 DEF Unposted, Adjusting
<1>3. CASE AdjustAppend(c)
  <2>1. Finish(c) /\ req[c].pc = "adjust_append" /\ req[c].pc # "idle"
    BY <1>3 DEF AdjustAppend, At
  <2>2. ~ Adjusting(c)'
    BY <2>1, FinishType DEF TypeInv, Adjusting, AdjustPcs
  <2>3. CASE posted' = posted
    BY <1>2, <2>2, <2>3
  <2>4. CASE posted' # posted
    <3>1. req[c].key # NoKey /\ posted' = posted \cup {<<"adjust", req[c].key>>}
      BY <1>3, <2>4 DEF AdjustAppend
    <3>2. Adjusting(c)
      BY <2>1, <3>1 DEF Adjusting, AdjustPcs
    <3> SUFFICES ASSUME NEW d \in Clients, Adjusting(d)'
                 PROVE  <<"adjust", req'[d].key>> \notin posted'
      BY DEF Unposted
    <3>3. d # c /\ req'[d] = req[d]
      BY <1>1, <2>2
    <3>4. Adjusting(d) /\ req[d].key # req[c].key
      BY <3>2, <3>3 DEF Adjusting, AdjustmentsApart
    <3> QED
      BY <3>1, <3>3, <3>4 DEF Unposted
  <2> QED
    BY <2>3, <2>4
<1>4. CASE AdjustApply(c)
  <2>1. UNCHANGED posted /\ req[c].pc = "adjust_apply" /\ req[c].pc # "idle"
    BY <1>4 DEF AdjustApply, At
  <2>2. CASE Finish(c)
    <3>1. ~ Adjusting(c)'
      BY <2>1, <2>2, FinishType DEF TypeInv, Adjusting, AdjustPcs
    <3> QED
      BY <1>2, <2>1, <3>1
  <2>3. CASE Goto(c, "adjust_append")
    <3>1. req'[c] = [req[c] EXCEPT !.pc = "adjust_append"]
      BY <2>1, <2>3, GotoType, Zenon DEF TypeInv
    <3>2. req[c] \in AdjustRequest
      BY <2>1, RequestShape DEF TypeInv
    <3>3. req'[c].key = req[c].key
      BY <3>1, <3>2 DEF AdjustRequest
    <3> QED
      BY <1>2, <2>1, <3>3 DEF Adjusting, AdjustPcs, Unposted
  <2> QED
    BY <1>4, <2>2, <2>3 DEF AdjustApply
<1>5. ASSUME NEW s \in Skus, NEW d \in Deltas, NEW a \in AdjustKeys \cup {NoKey},
             AdjustStart(c, s, d, a)
      PROVE  Unposted'
  <2>1. req'[c] = [pc |-> "adjust_apply", sku |-> s, delta |-> d, key |-> a]
    BY <1>5 DEF AdjustStart, Become, TypeInv, TypeOK
  <2>2. UNCHANGED posted /\ <<"adjust", a>> \notin posted
    BY <1>5 DEF AdjustStart
  <2> QED
    BY <1>2, <2>1, <2>2
<1>6. CASE EnsureCreate(c)
  <2>1. UNCHANGED posted /\ req[c].pc = "ensure_create" /\ req[c].pc # "idle"
    BY <1>6 DEF EnsureCreate, At
  <2>2. CASE Finish(c)
    <3>1. ~ Adjusting(c)'
      BY <2>1, <2>2, FinishType DEF TypeInv, Adjusting, AdjustPcs
    <3> QED
      BY <1>2, <2>1, <3>1
  <2>3. CASE Goto(c, "ensure_append")
    <3>1. req'[c].pc = "ensure_append"
      BY <2>1, <2>3, GotoType, Zenon DEF TypeInv
    <3> QED
      BY <1>2, <2>1, <3>1 DEF Adjusting, AdjustPcs
  <2> QED
    BY <1>6, <2>2, <2>3 DEF EnsureCreate
<1>7. CASE /\ ~ AdjustAppend(c) /\ ~ AdjustApply(c) /\ ~ EnsureCreate(c)
           /\ \A s \in Skus, d \in Deltas, a \in AdjustKeys \cup {NoKey} :
                 ~ AdjustStart(c, s, d, a)
  <2>1. ~ Adjusting(c)'
    BY <1>7, NoReceiptAhead DEF Adjusting
  <2>2. \/ UNCHANGED posted
        \/ \E x, y : x # "adjust" /\ posted' = posted \cup {<<x, y>>}
    <3>1. CASE Arrives(c) \/ SweepStart(c) \/ Breaks(c)
      BY <3>1 DEF Arrives, EnsureStart, AdjustStart, ReserveStart,
         ReleaseStart, ConfirmStart, CloseStart, SweepStart, Breaks,
         CreateThrows, SweepItemThrows, CallThrows, Crash, Fails
    <3>2. CASE EnsureAppend(c)
      BY <3>2 DEF EnsureAppend
    <3>3. CASE ReserveAppend(c)
      BY <3>3 DEF ReserveAppend
    <3>4. CASE ReleaseAppend(c) \/ ConfirmAppend(c)
      <4>1. \E t \in {"released", "expired", "confirmed"} :
               posted' = posted \cup {<<t, req[c].key>>}
        BY <3>4 DEF ReleaseAppend, ConfirmAppend, AppendClosing, MovementType
      <4> QED
        BY <4>1
    <3>5. CASE Continues(c)
      BY <1>7, <3>2, <3>3, <3>4, <3>5 DEF Continues, ReserveStock,
         ReserveCreate, ReserveUndo, ReserveReplay, ReleaseTransition,
         ReleaseStock, ConfirmTransition, ConfirmStock, Transition, SweepNext
    <3> QED
      BY <3>1, <3>5 DEF Acts
  <2>3. \A a : <<"adjust", a>> \in posted' => <<"adjust", a>> \in posted
    BY <2>2
  <2> QED
    BY <1>2, <2>1, <2>3
<1> QED
    BY <1>3, <1>4, <1>5, <1>6, <1>7

LEMMA InitReceipt == Init => ReceiptInv
<1> SUFFICES ASSUME Init PROVE ReceiptInv
    OBVIOUS
<1>1. CustodyInv /\ Blank
    BY InitSold DEF SoldInv
<1>2. Unposted
    BY DEF Init, Unposted
<1>3. ASSUME NEW s \in Skus, NEW c \in Clients
      PROVE  ComingOf(s, c) = 0 /\ GoingOf(s, c) = 0
    BY DEF Init, Idle, ComingOf, GoingOf, At
<1>4. ASSUME NEW s \in Skus PROVE Entered(s, 0)
  <2>1. /\ Coming(s) \in [Clients -> 0 .. 0] /\ Going(s) \in [Clients -> 0 .. 0]
        /\ \A c \in Clients : Coming(s)[c] = 0 /\ Going(s)[c] = 0
    BY <1>3 DEF Coming, Going
  <2>2. Tally(Coming(s), 0) = 0 /\ Tally(Going(s), 0) = 0
    BY <2>1, TallyZero
  <2>3. Owned(s) = 0 /\ received[s] = 0
    BY DEF Init, NoStock, Owned
  <2> QED
    BY <2>2, <2>3 DEF Entered
<1>5. Balanced
    BY <1>3, <1>4 DEF Balanced, Within
<1> QED
    BY <1>1, <1>2, <1>5 DEF ReceiptInv

LEMMA NextReceipt == ReceiptInv /\ AdjustmentsApart /\ [Next]_vars => ReceiptInv'
<1> SUFFICES ASSUME ReceiptInv, AdjustmentsApart, [Next]_vars PROVE ReceiptInv'
    OBVIOUS
<1>1. CustodyInv' /\ TypeInv' /\ TypeInv /\ Blank /\ Unposted
    BY NextCustody DEF ReceiptInv, CustodyInv
<1>2. ASSUME NEW c \in Clients, Acts(c) PROVE ReceiptInv'
  <2>1. Blank' /\ Unposted'
    BY <1>1, <1>2, BlankKept, UnpostedKept
  <2>2. CASE Breaks(c)
    <3>1. failures' # 0
      BY <1>1, <2>2, ProcessAssumption DEF Breaks, CreateThrows,
         SweepItemThrows, CallThrows, Crash, Fails, TypeInv, TypeOK
    <3> QED
      BY <1>1, <2>1, <3>1 DEF ReceiptInv
  <2>3. CASE ~ Breaks(c)
    <3>1. UNCHANGED failures
      <4>1. CASE Arrives(c) \/ SweepStart(c)
        BY <4>1 DEF Arrives, EnsureStart, AdjustStart, ReserveStart,
           ReleaseStart, ConfirmStart, CloseStart, SweepStart
      <4>2. CASE Continues(c)
        BY <4>2 DEF Continues, EnsureCreate, EnsureAppend, AdjustApply,
           AdjustAppend, ReserveStock, ReserveCreate, ReserveUndo,
           ReserveReplay, ReserveAppend, ReleaseTransition, ReleaseStock,
           ReleaseAppend, ConfirmTransition, ConfirmStock, ConfirmAppend,
           Transition, AppendClosing, SweepNext
      <4> QED
        BY <1>2, <2>3, <4>1, <4>2 DEF Acts
    <3>2. Balanced => Balanced'
      BY <1>1, <1>2, <2>3, EnsureBalanced, AdjustBalanced, OtherBalanced
    <3> QED
      BY <1>1, <2>1, <3>1, <3>2 DEF ReceiptInv
  <2> QED
    BY <2>2, <2>3
<1>3. CASE UNCHANGED <<stock, reservations, posted, received, req, stranded, failures>>
  <2>1. Blank' /\ Unposted'
    BY <1>3 DEF ReceiptInv, Blank, Unposted, Adjusting
  <2>2. \A s \in Skus, c \in Clients : /\ ComingOf(s, c)' = ComingOf(s, c)
                                     /\ GoingOf(s, c)' = GoingOf(s, c)
    BY <1>3 DEF ComingOf, GoingOf, At
  <2>3. \A s \in Skus : Coming(s)' = Coming(s) /\ Going(s)' = Going(s)
    BY <2>2 DEF Coming, Going
  <2>4. \A m \in Nat : Within(m) => Within(m)'
    BY <2>2 DEF Within
  <2>5. \A s \in Skus : Owned(s)' = Owned(s) /\ received'[s] = received[s]
    BY <1>3 DEF Owned
  <2>6. \A s \in Skus, m \in Nat : Entered(s, m) => Entered(s, m)'
    BY <2>3, <2>5 DEF Entered
  <2>7. Balanced => Balanced'
    BY <2>4, <2>6 DEF Balanced
  <2> QED
    BY <1>1, <1>3, <2>1, <2>7 DEF ReceiptInv
<1> QED
    BY <1>2, <1>3, StepsAreActs

(* onHand + sold equals cumulative receipts minus write-offs, all visible  *)
(* in the ledger, whenever nothing has failed and no request is between    *)
(* the stock update and its entry, provided that no two requests are ever  *)
(* under way with the same idempotency key of adjust().                    *)
THEOREM ReceiptsAddUp ==
    Spec /\ []AdjustmentsApart => []LedgerAccountsForStock
<1>1. ReceiptInv => LedgerAccountsForStock
  <2> SUFFICES ASSUME ReceiptInv, failures = 0,
                      \A c \in Clients : req[c].pc \notin {"ensure_append", "adjust_append"},
                      NEW s \in Skus
               PROVE  stock[s].onHand + stock[s].sold = received[s]
    BY DEF LedgerAccountsForStock
  <2>1. PICK m \in Nat : Within(m) /\ Entered(s, m)
    BY DEF ReceiptInv, Balanced
  <2>2. \A c \in Clients : ComingOf(s, c) = 0 /\ GoingOf(s, c) = 0
    BY NothingToEnter DEF EntryPcs
  <2>3. /\ Coming(s) \in [Clients -> 0 .. m] /\ Going(s) \in [Clients -> 0 .. m]
        /\ \A c \in Clients : Coming(s)[c] = 0 /\ Going(s)[c] = 0
    BY <2>1, <2>2 DEF Coming, Going
  <2>4. Tally(Coming(s), m) = 0 /\ Tally(Going(s), m) = 0
    BY <2>1, <2>3, TallyZero
  <2>5. Owned(s) \in Int /\ received[s] \in Int
    BY OwnedType DEF ReceiptInv, CustodyInv
  <2>6. Owned(s) = received[s]
    BY <2>1, <2>4, <2>5 DEF Entered
  <2> QED
    BY <2>6 DEF Owned
<1> QED
    BY <1>1, InitReceipt, NextReceipt, PTL DEF Spec

=============================================================================
