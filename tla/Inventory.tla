----------------------------- MODULE Inventory -----------------------------
(***************************************************************************)
(* The inventory service: stock records, reservations and the movement     *)
(* ledger (src/src/modules/inventory).                                     *)
(*                                                                         *)
(* Every repository call is one MongoDB operation on one document and is   *)
(* atomic; nothing spans two documents.  A service method is a sequence of *)
(* such calls separated by awaits, at which every other request may run.   *)
(* One action below is one awaited call, together with the code that runs  *)
(* without yielding before the next one.  A request in flight is a record  *)
(* req[c] whose pc names the call it is about to make.                     *)
(*                                                                         *)
(* An idempotency key of reserve() identifies at most one reservation      *)
(* document (unique index uq_reservation_idem), so a reservation is named  *)
(* by its key.                                                             *)
(***************************************************************************)
EXTENDS Tally

CONSTANTS
    Skus,           \* stock keeping units the catalog knows
    Keys,           \* idempotency keys of reserve(), one per reservation
    Requests,       \* slots for concurrent API requests
    Sweeps,         \* slots for concurrent runs of the expiry sweep
    Quantities,     \* quantities a reservation may ask for
    MaxQuantity,    \* MAX_RESERVATION_QUANTITY
    Openings,       \* values of initialOnHand
    Deltas,         \* deltas of adjust()
    AdjustKeys,     \* idempotency keys of adjust()
    NoKey,          \* the absent idempotency key
    SweepLimit,     \* the limit of findActiveExpired
    MaxOnHand,      \* bound: adjust() is not asked to exceed it
    MaxFailures     \* bound: crashes and rejected database calls

Clients == Requests \cup Sweeps

ASSUME QuantityAssumption ==
    /\ MaxQuantity \in Nat
    /\ Quantities \subseteq 1 .. MaxQuantity

ASSUME StockAssumption ==
    /\ Openings \subseteq Nat
    /\ Deltas \subseteq Int \ {0}
    /\ MaxOnHand \in Nat
    /\ NoKey \notin AdjustKeys

ASSUME ProcessAssumption ==
    /\ IsFiniteSet(Keys) /\ IsFiniteSet(Requests) /\ IsFiniteSet(Sweeps)
    /\ Requests \cap Sweeps = {}
    /\ Keys \cap Clients = {}
    /\ SweepLimit \in Nat \ {0}
    /\ MaxFailures \in Nat

VARIABLES
    stock,          \* the inventories collection, by SKU
    reservations,   \* the inventory_reservations collection, by key
    due,            \* reservations whose expiresAt has passed
    posted,         \* idempotency keys in inventory_movements
    received,       \* per SKU, sum of the INIT and ADJUST movements
    req,            \* the requests in flight
    stranded,       \* history: units no reservation or request accounts for
    failures        \* crashes and rejected calls so far

vars == <<stock, reservations, due, posted, received, req, stranded, failures>>

-----------------------------------------------------------------------------
(***************************************************************************)
(* Types                                                                   *)
(***************************************************************************)

Terminal == {"released", "expired", "confirmed"}
Statuses == {"active"} \cup Terminal

NoStock == [exists |-> FALSE, onHand |-> 0, reserved |-> 0, sold |-> 0]
StockRecord == [exists: BOOLEAN, onHand: Nat, reserved: Nat, sold: Nat]

NoReservation == [status |-> "none"]
Reservation == [status: Statuses, sku: Skus, qty: Quantities]

Idle == [pc |-> "idle"]
OpeningRequest == [pc: {"ensure_create", "ensure_append"},
                   sku: Skus, opening: Openings]
AdjustRequest == [pc: {"adjust_apply", "adjust_append"},
                  sku: Skus, delta: Deltas, key: AdjustKeys \cup {NoKey}]
ReserveRequest == [pc: {"reserve_stock", "reserve_create", "reserve_undo",
                        "reserve_append", "reserve_replay"},
                   sku: Skus, key: Keys, qty: Quantities]
ClosePcs == {"release_transition", "release_stock", "release_append",
             "confirm_transition", "confirm_stock", "confirm_append"}
CloseRequest == [pc: ClosePcs, key: Keys, batch: SUBSET Keys]
SweepRequest == [pc: {"sweep"}, batch: SUBSET Keys]
Request == {Idle} \cup OpeningRequest \cup AdjustRequest \cup ReserveRequest
             \cup CloseRequest \cup SweepRequest

(* Keys of ledger entries.  An adjustment without a caller's key is posted *)
(* under a key of its own (adjust:<movementId>), which no later entry can  *)
(* repeat, so only its delta is kept, in received.                         *)
MovementKey == ({"reserve"} \cup Terminal) \X Keys
MovementKeys == MovementKey \cup ({"adjust"} \X AdjustKeys)
                            \cup ({"init"} \X Skus)

Init ==
    /\ stock = [s \in Skus |-> NoStock]
    /\ reservations = [k \in Keys |-> NoReservation]
    /\ due = {}
    /\ posted = {}
    /\ received = [s \in Skus |-> 0]
    /\ req = [c \in Clients |-> Idle]
    /\ stranded = [s \in Skus |-> 0]
    /\ failures = 0

-----------------------------------------------------------------------------
(***************************************************************************)
(* Conditions of the conditional updates (inventory.repository.ts), each   *)
(* of which matches the stock record of one SKU, if there is one.          *)
(* The Faulty... operators here and below are variants with a fault        *)
(* seeded, against which the properties are tried; nothing else uses them. *)
(***************************************************************************)

FaultyAdjustable(s, d) == TRUE

Adjustable(s, d) ==
    /\ stock[s].exists
    /\ stock[s].onHand + d >= stock[s].reserved
    /\ stock[s].onHand + d >= 0

FaultyReservable(s, q) == stock[s].onHand >= q

Reservable(s, q) == stock[s].exists /\ stock[s].onHand - stock[s].reserved >= q

Returnable(s, q) == stock[s].exists /\ stock[s].reserved >= q

FaultyTransitionable(k) == reservations[k] # NoReservation

Transitionable(k) == reservations[k].status = "active"

FaultyDueActive == due

(* findActiveExpired, before its limit is applied *)
DueActive == {k \in due : reservations[k].status = "active"}

-----------------------------------------------------------------------------
(***************************************************************************)
(* Units in the hands of a reservation, and of a request in flight.        *)
(***************************************************************************)

HeldByReservation(s, k) ==
    IF reservations[k].status = "active" /\ reservations[k].sku = s
    THEN reservations[k].qty ELSE 0

(* reserve() between reserveStock and the reservation document, and        *)
(* release() or confirm() between the transition and the stock update.     *)
HeldByRequest(s, c) ==
    CASE /\ req[c].pc \in {"reserve_create", "reserve_undo"}
         /\ req[c].sku = s -> req[c].qty
      [] /\ req[c].pc \in {"release_stock", "confirm_stock"}
         /\ reservations[req[c].key].sku = s -> reservations[req[c].key].qty
      [] OTHER -> 0

-----------------------------------------------------------------------------
(***************************************************************************)
(* Control of a request                                                    *)
(***************************************************************************)

At(c, pc) == req[c].pc = pc

Become(c, r) == req' = [req EXCEPT ![c] = r]

Goto(c, pc) == Become(c, [req[c] EXCEPT !.pc = pc])

(* A sweep goes on with what is left of its batch. *)
Resume(batch) == IF batch = {} THEN Idle ELSE [pc |-> "sweep", batch |-> batch]

(* The method returns or throws. *)
Finish(c) == Become(c, IF c \in Sweeps THEN Resume(req[c].batch) ELSE Idle)

-----------------------------------------------------------------------------
(***************************************************************************)
(* ensureInventory, and VariantBootstrapHandler.handle whose opening is 0. *)
(***************************************************************************)

EnsureStart(c, s, n) ==
    /\ At(c, "idle")
    /\ ~ stock[s].exists
    /\ Become(c, [pc |-> "ensure_create", sku |-> s, opening |-> n])
    /\ UNCHANGED <<stock, reservations, due, posted, received, stranded, failures>>

(* create(); a duplicate key means that another request was first. *)
EnsureCreate(c) ==
    LET s == req[c].sku IN
    /\ At(c, "ensure_create")
    /\ IF stock[s].exists
       THEN Finish(c) /\ UNCHANGED stock
       ELSE /\ stock' = [stock EXCEPT ![s] =
                  [exists |-> TRUE, onHand |-> req[c].opening, reserved |-> 0, sold |-> 0]]
            /\ Goto(c, "ensure_append")
    /\ UNCHANGED <<reservations, due, posted, received, stranded, failures>>

EnsureAppend(c) ==
    /\ At(c, "ensure_append")
    /\ posted' = posted \cup {<<"init", req[c].sku>>}
    /\ received' = [received EXCEPT ![req[c].sku] = @ + req[c].opening]
    /\ Finish(c)
    /\ UNCHANGED <<stock, reservations, due, stranded, failures>>

-----------------------------------------------------------------------------
(***************************************************************************)
(* adjust().  A key that is already in the ledger replays the current      *)
(* record and changes nothing.                                             *)
(***************************************************************************)

AdjustStart(c, s, d, a) ==
    /\ At(c, "idle")
    /\ stock[s].exists
    /\ <<"adjust", a>> \notin posted
    /\ stock[s].onHand + d <= MaxOnHand
    /\ Become(c, [pc |-> "adjust_apply", sku |-> s, delta |-> d, key |-> a])
    /\ UNCHANGED <<stock, reservations, due, posted, received, stranded, failures>>

AdjustApply(c) ==
    LET s == req[c].sku
        d == req[c].delta IN
    /\ At(c, "adjust_apply")
    /\ IF Adjustable(s, d)
       THEN /\ stock' = [stock EXCEPT ![s].onHand = @ + d]
            /\ Goto(c, "adjust_append")
       ELSE Finish(c) /\ UNCHANGED stock
    /\ UNCHANGED <<reservations, due, posted, received, stranded, failures>>

(* append() ignores an entry whose key is already in the ledger. *)
AdjustAppend(c) ==
    LET entry == <<"adjust", req[c].key>> IN
    /\ At(c, "adjust_append")
    /\ IF entry \in posted
       THEN UNCHANGED <<posted, received>>
       ELSE /\ posted' = IF req[c].key = NoKey THEN posted ELSE posted \cup {entry}
            /\ received' = [received EXCEPT ![req[c].sku] = @ + req[c].delta]
    /\ Finish(c)
    /\ UNCHANGED <<stock, reservations, due, stranded, failures>>

-----------------------------------------------------------------------------
(***************************************************************************)
(* reserve().  A retry with a key that has a reservation reads the stock   *)
(* record once more and is answered with that reservation, whatever its    *)
(* status; a different payload under the same key is refused at once.      *)
(***************************************************************************)

SamePayload(k, s, q) == reservations[k].sku = s /\ reservations[k].qty = q

ReserveStart(c, s, k, q) ==
    /\ At(c, "idle")
    /\ stock[s].exists
    /\ \/ /\ reservations[k] = NoReservation
          /\ Become(c, [pc |-> "reserve_stock", sku |-> s, key |-> k, qty |-> q])
       \/ /\ reservations[k] # NoReservation
          /\ SamePayload(k, s, q)
          /\ Become(c, [pc |-> "reserve_replay", sku |-> s, key |-> k, qty |-> q])
    /\ UNCHANGED <<stock, reservations, due, posted, received, stranded, failures>>

ReserveStock(c) ==
    LET s == req[c].sku
        q == req[c].qty IN
    /\ At(c, "reserve_stock")
    /\ IF Reservable(s, q)
       THEN /\ stock' = [stock EXCEPT ![s].reserved = @ + q]
            /\ Goto(c, "reserve_create")
       ELSE Finish(c) /\ UNCHANGED stock
    /\ UNCHANGED <<reservations, due, posted, received, stranded, failures>>

(* The unique index on the key lets one of several concurrent inserts win. *)
ReserveCreate(c) ==
    LET k == req[c].key IN
    /\ At(c, "reserve_create")
    /\ IF reservations[k] = NoReservation
       THEN /\ reservations' = [reservations EXCEPT ![k] =
                   [status |-> "active", sku |-> req[c].sku, qty |-> req[c].qty]]
            /\ Goto(c, "reserve_append")
       ELSE Goto(c, "reserve_undo") /\ UNCHANGED reservations
    /\ UNCHANGED <<stock, due, posted, received, stranded, failures>>

FaultyReserveUndo(c) ==
    /\ At(c, "reserve_undo")
    /\ Finish(c)
    /\ UNCHANGED <<stock, reservations, due, posted, received, stranded, failures>>

(* releaseStock() after a failed insert.  Its result is not looked at. *)
ReserveUndo(c) ==
    LET s == req[c].sku
        q == req[c].qty IN
    /\ At(c, "reserve_undo")
    /\ stock' = IF Returnable(s, q)
                THEN [stock EXCEPT ![s].reserved = @ - q] ELSE stock
    /\ Finish(c)
    /\ UNCHANGED <<reservations, due, posted, received, stranded, failures>>

ReserveReplay(c) ==
    /\ At(c, "reserve_replay")
    /\ Finish(c)
    /\ UNCHANGED <<stock, reservations, due, posted, received, stranded, failures>>

ReserveAppend(c) ==
    /\ At(c, "reserve_append")
    /\ posted' = posted \cup {<<"reserve", req[c].key>>}
    /\ Finish(c)
    /\ UNCHANGED <<stock, reservations, due, received, stranded, failures>>

-----------------------------------------------------------------------------
(***************************************************************************)
(* release(), called for one reservation or by the expiry sweep, and       *)
(* confirm().  A reservation found in a terminal state is answered as it   *)
(* is (or refused) and nothing changes.                                    *)
(***************************************************************************)

Target(c) == IF c \in Sweeps THEN "expired" ELSE "released"

CloseStart(c, k, pc) ==
    /\ At(c, "idle")
    /\ reservations[k].status = "active"
    /\ Become(c, [pc |-> pc, key |-> k, batch |-> {}])
    /\ UNCHANGED <<stock, reservations, due, posted, received, stranded, failures>>

ReleaseStart(c, k) == CloseStart(c, k, "release_transition")

ConfirmStart(c, k) == CloseStart(c, k, "confirm_transition")

(* transition(id, ['active'], to); null means that another request closed  *)
(* the reservation first.                                                  *)
Transition(c, to, pc) ==
    LET k == req[c].key IN
    /\ IF Transitionable(k)
       THEN /\ reservations' = [reservations EXCEPT ![k].status = to]
            /\ Goto(c, pc)
       ELSE Finish(c) /\ UNCHANGED reservations
    /\ UNCHANGED <<stock, due, posted, received, stranded, failures>>

ReleaseTransition(c) ==
    /\ At(c, "release_transition")
    /\ Transition(c, Target(c), "release_stock")

ConfirmTransition(c) ==
    /\ At(c, "confirm_transition")
    /\ Transition(c, "confirmed", "confirm_stock")

(* releaseStock(); null throws DatabaseError after the transition. *)
ReleaseStock(c) ==
    LET s == reservations[req[c].key].sku
        q == reservations[req[c].key].qty IN
    /\ At(c, "release_stock")
    /\ IF Returnable(s, q)
       THEN /\ stock' = [stock EXCEPT ![s].reserved = @ - q]
            /\ Goto(c, "release_append")
       ELSE Finish(c) /\ UNCHANGED stock
    /\ UNCHANGED <<reservations, due, posted, received, stranded, failures>>

FaultyCommitted(r, q) == [r EXCEPT !.reserved = @ - q, !.onHand = @ - q]

Committed(r, q) ==
    [r EXCEPT !.reserved = @ - q, !.onHand = @ - q, !.sold = @ + q]

(* commitStock(); null throws DatabaseError after the transition. *)
ConfirmStock(c) ==
    LET s == reservations[req[c].key].sku
        q == reservations[req[c].key].qty IN
    /\ At(c, "confirm_stock")
    /\ IF Returnable(s, q)
       THEN /\ stock' = [stock EXCEPT ![s] = Committed(@, q)]
            /\ Goto(c, "confirm_append")
       ELSE Finish(c) /\ UNCHANGED stock
    /\ UNCHANGED <<reservations, due, posted, received, stranded, failures>>

AppendClosing(c, type) ==
    /\ posted' = posted \cup {<<type, req[c].key>>}
    /\ Finish(c)
    /\ UNCHANGED <<stock, reservations, due, received, stranded, failures>>

FaultyMovementType(c) == "released"

MovementType(c) == IF c \in Sweeps THEN "expired" ELSE "released"

ReleaseAppend(c) ==
    At(c, "release_append") /\ AppendClosing(c, MovementType(c))

ConfirmAppend(c) == At(c, "confirm_append") /\ AppendClosing(c, "confirmed")

-----------------------------------------------------------------------------
(***************************************************************************)
(* expireReservations(): one query, then release(asExpired) for each       *)
(* reservation found; what it throws is counted and the loop goes on.      *)
(***************************************************************************)

(* The clock passes expiresAt. *)
Expire(k) ==
    /\ reservations[k].status = "active"
    /\ k \notin due
    /\ due' = due \cup {k}
    /\ UNCHANGED <<stock, reservations, posted, received, req, stranded, failures>>

SweepStart(c) ==
    /\ At(c, "idle")
    /\ \E batch \in SUBSET DueActive :
          /\ batch # {}
          /\ \/ Cardinality(batch) = SweepLimit
             \/ batch = DueActive /\ Cardinality(batch) < SweepLimit
          /\ Become(c, Resume(batch))
    /\ UNCHANGED <<stock, reservations, due, posted, received, stranded, failures>>

SweepNext(c) ==
    /\ At(c, "sweep")
    /\ \E k \in req[c].batch :
          LET rest == req[c].batch \ {k} IN
          Become(c, IF reservations[k].status = "active"
                    THEN [pc |-> "release_transition", key |-> k, batch |-> rest]
                    ELSE Resume(rest))
    /\ UNCHANGED <<stock, reservations, due, posted, received, stranded, failures>>

-----------------------------------------------------------------------------
(***************************************************************************)
(* Failures: the awaited call is rejected before it had an effect, or the  *)
(* process that serves the request dies.  No code resumes a request, so    *)
(* the units it held are accounted to nobody from then on.                 *)
(***************************************************************************)

Strand(c) == stranded' = [s \in Skus |-> stranded[s] + HeldByRequest(s, c)]

Fails == /\ failures < MaxFailures
         /\ failures' = failures + 1
         /\ UNCHANGED <<stock, reservations, due, posted, received>>

(* reserve() catches a failed insert and gives the units back. *)
CreateThrows(c) ==
    /\ At(c, "reserve_create")
    /\ Goto(c, "reserve_undo")
    /\ UNCHANGED stranded
    /\ Fails

(* The sweep catches what one release throws and goes on. *)
SweepItemThrows(c) ==
    /\ At(c, "sweep")
    /\ \E k \in req[c].batch : Become(c, Resume(req[c].batch \ {k}))
    /\ UNCHANGED stranded
    /\ Fails

CallThrows(c) ==
    /\ req[c].pc \notin {"idle", "sweep", "reserve_create"}
    /\ Finish(c)
    /\ Strand(c)
    /\ Fails

Crash(c) ==
    /\ ~ At(c, "idle")
    /\ Become(c, Idle)
    /\ Strand(c)
    /\ Fails

-----------------------------------------------------------------------------
(***************************************************************************)
(* The specification                                                       *)
(***************************************************************************)

Arrives(c) ==
    \/ \E s \in Skus, n \in Openings : EnsureStart(c, s, n)
    \/ \E s \in Skus, d \in Deltas, a \in AdjustKeys \cup {NoKey} :
          AdjustStart(c, s, d, a)
    \/ \E s \in Skus, k \in Keys, q \in Quantities : ReserveStart(c, s, k, q)
    \/ \E k \in Keys : ReleaseStart(c, k)
    \/ \E k \in Keys : ConfirmStart(c, k)

Continues(c) ==
    \/ EnsureCreate(c)
    \/ EnsureAppend(c)
    \/ AdjustApply(c)
    \/ AdjustAppend(c)
    \/ ReserveStock(c)
    \/ ReserveCreate(c)
    \/ ReserveUndo(c)
    \/ ReserveReplay(c)
    \/ ReserveAppend(c)
    \/ ReleaseTransition(c)
    \/ ReleaseStock(c)
    \/ ReleaseAppend(c)
    \/ ConfirmTransition(c)
    \/ ConfirmStock(c)
    \/ ConfirmAppend(c)
    \/ SweepNext(c)

Breaks(c) ==
    \/ CreateThrows(c)
    \/ SweepItemThrows(c)
    \/ CallThrows(c)
    \/ Crash(c)

Next ==
    \/ \E c \in Requests : Arrives(c)
    \/ \E c \in Sweeps : SweepStart(c)
    \/ \E c \in Clients : Continues(c)
    \/ \E c \in Clients : Breaks(c)
    \/ \E k \in Keys : Expire(k)

Spec == Init /\ [][Next]_vars

(* A request that has not failed goes on: the event loop runs every        *)
(* callback.  The sweep endpoint is called again and again (reservation.md *)
(* wires a scheduler to it).  No request is ever obliged to arrive.        *)
FairSpec ==
    /\ Spec
    /\ \A c \in Clients : WF_vars(Continues(c))
    /\ \A c \in Sweeps : WF_vars(SweepStart(c))

-----------------------------------------------------------------------------
(***************************************************************************)
(* Properties                                                              *)
(***************************************************************************)

(* Type invariant of the collections and of the requests in flight. *)
TypeOK ==
    /\ stock \in [Skus -> StockRecord]
    /\ reservations \in [Keys -> {NoReservation} \cup Reservation]
    /\ due \subseteq Keys
    /\ posted \subseteq MovementKeys
    /\ received \in [Skus -> Int]
    /\ req \in [Clients -> Request]
    /\ stranded \in [Skus -> Nat]
    /\ failures \in 0 .. MaxFailures

(* The counters never contradict each other: no unit is promised that is   *)
(* not on hand (reservations and adjustments never oversell), whatever     *)
(* interleaves or fails (satisfiesQuantityInvariants in Inventory.ts).     *)
StockInvariant == \A s \in Skus : stock[s].reserved <= stock[s].onHand

(* What each reservation and each request in flight holds of SKU s.        *)
Custody(s) ==
    [h \in Keys \cup Clients |->
        IF h \in Keys THEN HeldByReservation(s, h) ELSE HeldByRequest(s, h)]

(* Every reserved unit is accounted for: it belongs to an active           *)
(* reservation, to the one request that is moving it between the stock     *)
(* record and a reservation document, or was stranded by a failure.  So a  *)
(* reservation never gives back more than it took, nor twice, although     *)
(* the two documents are updated separately.                               *)
ReservedIsHeld ==
    \A s \in Skus :
        stock[s].reserved = Tally(Custody(s), MaxQuantity) + stranded[s]

(* A reservation that was closed finds its units still reserved, so        *)
(* releaseStock and commitStock never answer null there: the "failed after *)
(* state transition" errors of release() and confirm() cannot occur.       *)
ClosedFindsItsUnits ==
    \A c \in Clients :
        req[c].pc \in {"release_stock", "confirm_stock"} =>
            LET r == reservations[req[c].key] IN Returnable(r.sku, r.qty)

(* Units of SKU s in confirmed reservations, and the part of them that a   *)
(* confirm() in flight has not yet moved to sold.                          *)
ConfirmedUnits(s) ==
    [k \in Keys |->
        IF reservations[k].status = "confirmed" /\ reservations[k].sku = s
        THEN reservations[k].qty ELSE 0]

CommittingUnits(s) ==
    [c \in Clients |-> IF At(c, "confirm_stock") THEN HeldByRequest(s, c) ELSE 0]

(* What is counted as sold is what confirmed reservations took; a failure  *)
(* between the two updates can only leave a confirmed quantity unsold,     *)
(* never count one twice.                                                  *)
SoldIsConfirmed ==
    \A s \in Skus :
        LET moved == stock[s].sold + Tally(CommittingUnits(s), MaxQuantity)
            confirmed == Tally(ConfirmedUnits(s), MaxQuantity) IN
        /\ moved <= confirmed
        /\ failures = 0 => moved = confirmed

(* The ledger tells the fate of a reservation: the closing entry is the    *)
(* one of its status, so there is one at most, and without failures an     *)
(* entry is missing only while a request is on its way to write it.        *)
LedgerTellsStatus ==
    \A k \in Keys :
        LET status == reservations[k].status
            Writing(pcs) == \E c \in Clients :
                               req[c].pc \in pcs /\ req[c].key = k IN
        /\ <<"reserve", k>> \in posted => status # "none"
        /\ \A t \in Terminal : <<t, k>> \in posted => status = t
        /\ failures = 0 /\ status # "none" =>
              <<"reserve", k>> \in posted \/ Writing({"reserve_append"})
        /\ failures = 0 /\ status \in Terminal =>
              \/ <<status, k>> \in posted
              \/ Writing({"release_stock", "release_append",
                          "confirm_stock", "confirm_append"})

(* onHand + sold equals cumulative receipts minus write-offs, all visible  *)
(* in the ledger (docs/inventory/domain-model.md), whenever no request is  *)
(* between the stock update and its entry and nothing has failed.          *)
LedgerAccountsForStock ==
    (/\ failures = 0
     /\ \A c \in Clients : req[c].pc \notin {"ensure_append", "adjust_append"})
    => \A s \in Skus : stock[s].onHand + stock[s].sold = received[s]

KeepsFate ==
    \A k \in Keys :
        /\ reservations[k] # NoReservation =>
              /\ reservations'[k].sku = reservations[k].sku
              /\ reservations'[k].qty = reservations[k].qty
        /\ reservations[k].status \in Terminal =>
              reservations'[k] = reservations[k]

(* A reservation keeps its SKU and quantity, and leaves active at most     *)
(* once: terminal states never move.                                       *)
TerminalIsFinal == [][KeepsFate]_vars

(* Every active reservation that is past its expiry is eventually closed,  *)
(* although sweeps are limited, overlap, race with release() and           *)
(* confirm(), and may fail or die in the middle of a batch.                *)
DueIsClosed ==
    \A k \in Keys :
        (k \in due) ~> (reservations[k].status \in Terminal)

(* A retry of reserve() that is answered leaves the RESERVE entry in the   *)
(* ledger, unless another request is about to write it: a "retry replays   *)
(* reservation and re-inserts movement idempotently"                       *)
(* (docs/inventory/failure-handling.md).                                   *)
RetryRestoresEntry ==
    [][\A c \in Clients :
          (/\ ReserveReplay(c)
           /\ ~ \E d \in Clients : /\ At(d, "reserve_append")
                                   /\ req[d].key = req[c].key)
          => <<"reserve", req[c].key>> \in posted']_vars

(* The service implements what it promises: seen from outside, a           *)
(* reservation is made and ended in single steps, within the units that    *)
(* were received (docs/inventory/reservation.md).                          *)
Promise == INSTANCE Claims
              WITH supply <- [s \in Skus |-> stock[s].onHand + stock[s].sold],
                   claims <- reservations

KeepsPromise == Promise!Spec

=============================================================================
