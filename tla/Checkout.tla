------------------------------ MODULE Checkout ------------------------------
(***************************************************************************)
(* The checkout service (src/src/modules/checkout): a saga that reserves   *)
(* every line of a checkout with the inventory service, keeps references   *)
(* to the reservations, and releases them when the checkout is given up.   *)
(*                                                                         *)
(* The collections of checkout and inventory are updated by calls of their *)
(* own.  One action is one awaited call, as in Inventory, whose service is *)
(* represented here by what it promises (Claims): reserve() and release()  *)
(* take effect at one point in time and may throw.                         *)
(*                                                                         *)
(* A checkout is named by its user and idempotency key, which are unique   *)
(* together.  Its lines have different SKUs; quantities are inventory's    *)
(* concern, so every line asks for one unit.                               *)
(***************************************************************************)
EXTENDS Integers, FiniteSets

CONSTANTS
    Checkouts,      \* pairs of a user and an idempotency key
    Skus,           \* SKUs the carts hold
    Requests,       \* slots for concurrent API requests
    Sweeps,         \* slots for concurrent runs of the expiry sweep
    Supplies,       \* units of a SKU that inventory may have
    SweepLimit,     \* the limit of findActiveExpired
    MaxUpdates,     \* bound: addresses are updated at lower versions only
    MaxFailures     \* bound: crashes and rejected calls

Clients == Requests \cup Sweeps
Lines == Checkouts \X Skus      \* idempotency keys <checkoutId>:<sku>

ASSUME CheckoutAssumption ==
    /\ IsFiniteSet(Lines) /\ IsFiniteSet(Clients)
    /\ Requests \cap Sweeps = {}
    /\ Supplies \subseteq Nat
    /\ SweepLimit \in Nat \ {0}
    /\ MaxUpdates \in Nat
    /\ MaxFailures \in Nat

VARIABLES
    checkouts,      \* the checkouts collection
    clock,          \* where each checkout's expiresAt lies
    supply,         \* units inventory received, by SKU
    claims,         \* inventory's reservations, by idempotency key
    req,            \* the requests in flight
    failures        \* crashes and rejected calls so far

vars == <<checkouts, clock, supply, claims, req, failures>>

Service == INSTANCE Claims WITH
              Keys <- Lines, Quantities <- {1}, MaxQuantity <- 1

-----------------------------------------------------------------------------
(***************************************************************************)
(* Types                                                                   *)
(***************************************************************************)

Active == {"priced", "reserved", "ready"}
Terminal == {"completed", "failed", "expired", "cancelled"}
Statuses == Active \cup Terminal

NoCheckout == [status |-> "none"]

(* refs is the reservations array, which names lines of this checkout.     *)
CheckoutRecord == [status: Statuses, version: Nat,
                   items: SUBSET Skus, refs: SUBSET Skus]

(* The remaining life of a checkout in seconds is rounded down to become   *)
(* the TTL of its reservations, which may therefore expire in its closing  *)
(* second.                                                                 *)
Times == {"early", "closing", "past"}

NoVersion == -1     \* expectedVersion left out

Idle == [pc |-> "idle"]

(* made: lines reserved by this request; todo: lines still to be reserved, *)
(* or to be released; after: what follows compensate().                    *)
Call == [pc: {"mark_failed", "reserve_begin", "reserve_line", "set_refs",
              "make_ready", "compensate", "expire", "cancel", "update",
              "complete"},
         id: Checkouts, version: Nat \cup {NoVersion},
         made: SUBSET Skus, todo: SUBSET Skus,
         after: {"finish", "mark_failed", "expire"},
         batch: SUBSET (Checkouts \X SUBSET Skus)]
Sweep == [pc: {"sweep"}, batch: SUBSET (Checkouts \X SUBSET Skus)]
Request == {Idle} \cup Call \cup Sweep

Init ==
    /\ checkouts = [id \in Checkouts |-> NoCheckout]
    /\ clock = [id \in Checkouts |-> "early"]
    /\ supply \in [Skus -> Supplies]
    /\ claims = [l \in Lines |-> Service!NoClaim]
    /\ req = [c \in Clients |-> Idle]
    /\ failures = 0

-----------------------------------------------------------------------------
(***************************************************************************)
(* The conditional updates of checkout.repository.ts.  The Faulty...       *)
(* operators here and below are variants with a fault seeded, against      *)
(* which the properties are tried; nothing else uses them.                 *)
(***************************************************************************)

FaultyMatches(id, from, v) == checkouts[id].status \in from

(* The filter { _id, status: { $in: from }, version: v }, without the      *)
(* version if v is not given, and without the status if from is Statuses.  *)
Matches(id, from, v) ==
    /\ checkouts[id].status \in from
    /\ v = NoVersion \/ checkouts[id].version = v

Moved(id, to) ==
    [checkouts EXCEPT ![id].status = to, ![id].version = @ + 1]

IsActive(id) == checkouts[id].status \in Active

(* requireLive() on what requireOwned() or findById() has just read.       *)
IsLive(id) == IsActive(id) /\ clock[id] # "past"

-----------------------------------------------------------------------------
(***************************************************************************)
(* Control of a request                                                    *)
(***************************************************************************)

At(c, pc) == req[c].pc = pc

Become(c, r) == req' = [req EXCEPT ![c] = r]

Goto(c, pc) == Become(c, [req[c] EXCEPT !.pc = pc])

(* A call about to be made, on a checkout read at version v.             *)
NewCall(pc, id, v) ==
    [pc |-> pc, id |-> id, version |-> v, made |-> {}, todo |-> {},
     after |-> "finish", batch |-> {}]

Resume(batch) == IF batch = {} THEN Idle ELSE [pc |-> "sweep", batch |-> batch]

Finished(c) == IF c \in Sweeps THEN Resume(req[c].batch) ELSE Idle

Finish(c) == Become(c, Finished(c))

FaultyCompensating(r, left, after) ==
    [r EXCEPT !.pc = IF left # {} THEN "compensate" ELSE after,
              !.todo = left, !.after = after]

(* What remains of request r when compensate() has lines left to release.  *)
Compensating(r, left, after) ==
    CASE left # {} ->
             [r EXCEPT !.pc = "compensate", !.todo = left, !.after = after]
      [] left = {} /\ after # "finish" ->
             [r EXCEPT !.pc = after, !.todo = left, !.after = "finish"]
      [] OTHER -> Idle

-----------------------------------------------------------------------------
(***************************************************************************)
(* createCheckout(), and the passing of time                               *)
(***************************************************************************)

(* Of several creates with one key the unique index lets one insert; the   *)
(* others replay its checkout.                                             *)
Create(id, items) ==
    /\ checkouts[id] = NoCheckout
    /\ checkouts' = [checkouts EXCEPT ![id] =
           [status |-> "priced", version |-> 0, items |-> items, refs |-> {}]]
    /\ UNCHANGED <<clock, supply, claims, req, failures>>

(* Time passes for a checkout.                                             *)
Tick(id) ==
    /\ IsActive(id) /\ clock[id] # "past"
    /\ clock' = [clock EXCEPT ![id] =
                    IF @ = "early" THEN "closing" ELSE "past"]
    /\ UNCHANGED <<checkouts, supply, claims, req, failures>>

(* Inventory's own sweep closes a reservation whose TTL has passed.        *)
ClaimExpires(id, s) ==
    /\ clock[id] # "early"
    /\ Service!End(<<id, s>>, "expired")
    /\ UNCHANGED <<checkouts, clock, req, failures>>

-----------------------------------------------------------------------------
(***************************************************************************)
(* requireLive() of an active checkout past its expiry: every operation    *)
(* that calls it first releases the reservations it has read, then expires *)
(* the checkout, and throws.                                               *)
(***************************************************************************)

ExpireStart(c, id) ==
    /\ At(c, "idle")
    /\ IsActive(id) /\ clock[id] = "past"
    /\ Become(c, Compensating(NewCall("expire", id, NoVersion),
                              checkouts[id].refs, "expire"))
    /\ UNCHANGED <<checkouts, clock, supply, claims, failures>>

Expire(c) ==
    LET id == req[c].id IN
    /\ At(c, "expire")
    /\ checkouts' = IF Matches(id, Active, req[c].version)
                    THEN Moved(id, "expired") ELSE checkouts
    /\ Finish(c)
    /\ UNCHANGED <<clock, supply, claims, failures>>

(* compensate(): release() closes a reservation that is active; on another *)
(* it throws or changes nothing, and what it throws is only logged.        *)
Compensate(c) ==
    /\ At(c, "compensate")
    /\ \E s \in req[c].todo :
          LET line == <<req[c].id, s>> IN
          /\ IF claims[line].status = "active"
             THEN Service!End(line, "released")
             ELSE UNCHANGED <<supply, claims>>
          /\ LET next == Compensating(req[c], req[c].todo \ {s}, req[c].after) IN
             Become(c, IF next = Idle THEN Finished(c) ELSE next)
    /\ UNCHANGED <<checkouts, clock, failures>>

-----------------------------------------------------------------------------
(***************************************************************************)
(* validate(): the cart or a line may have changed at any time.  Without   *)
(* a change nothing happens.                                               *)
(***************************************************************************)

ValidateStart(c, id) ==
    /\ At(c, "idle")
    /\ IsLive(id)
    /\ Become(c, NewCall("mark_failed", id, checkouts[id].version))
    /\ UNCHANGED <<checkouts, clock, supply, claims, failures>>

(* markFailed() looks at the version only.                                 *)
MarkFailed(c) ==
    LET id == req[c].id IN
    /\ At(c, "mark_failed")
    /\ checkouts' = IF Matches(id, Statuses, req[c].version)
                    THEN Moved(id, "failed") ELSE checkouts
    /\ Finish(c)
    /\ UNCHANGED <<clock, supply, claims, failures>>

-----------------------------------------------------------------------------
(***************************************************************************)
(* reserve()                                                               *)
(***************************************************************************)

(* After the revalidation, which may also find a change (then as in        *)
(* ValidateStart).  A reserved or ready checkout is returned as it is.     *)
ReserveStart(c, id) ==
    /\ At(c, "idle")
    /\ IsLive(id) /\ checkouts[id].status = "priced"
    /\ Become(c, NewCall("reserve_begin", id, checkouts[id].version))
    /\ UNCHANGED <<checkouts, clock, supply, claims, failures>>

ReserveBegin(c) ==
    LET id == req[c].id
        v == req[c].version IN
    /\ At(c, "reserve_begin")
    /\ IF Matches(id, {"priced"}, v)
       THEN /\ checkouts' = Moved(id, "reserved")
            /\ Become(c, [req[c] EXCEPT !.pc = "reserve_line", !.version = v + 1,
                                        !.todo = checkouts[id].items])
       ELSE Finish(c) /\ UNCHANGED checkouts
    /\ UNCHANGED <<clock, supply, claims, failures>>

(* inventory.reserve(), which replays a reservation made under the key.    *)
Reserve(line) ==
    IF claims[line] = Service!NoClaim
    THEN Service!Claim(line, line[2], 1)
    ELSE UNCHANGED <<supply, claims>>

ReserveLine(c) ==
    /\ At(c, "reserve_line")
    /\ \E s \in req[c].todo :
          /\ Reserve(<<req[c].id, s>>)
          /\ Become(c, [req[c] EXCEPT
                 !.pc = IF req[c].todo = {s} THEN "set_refs" ELSE @,
                 !.made = @ \cup {s}, !.todo = @ \ {s}])
    /\ UNCHANGED <<checkouts, clock, failures>>

FaultyLineThrows(c) ==
    /\ At(c, "reserve_line")
    /\ \E s \in req[c].todo :
          Become(c, [req[c] EXCEPT
                 !.pc = IF req[c].todo = {s} THEN "set_refs" ELSE @, !.todo = @ \ {s}])
    /\ UNCHANGED <<checkouts, clock, supply, claims, failures>>

(* inventory.reserve() throws: too few units, or any other reason.         *)
LineThrows(c) ==
    /\ At(c, "reserve_line")
    /\ Become(c, Compensating(req[c], req[c].made, "mark_failed"))
    /\ UNCHANGED <<checkouts, clock, supply, claims, failures>>

FaultySetRefs(c) ==
    /\ At(c, "set_refs")
    /\ IF Matches(req[c].id, Statuses, req[c].version)
       THEN /\ checkouts' = [Moved(req[c].id, "reserved")
                                EXCEPT ![req[c].id].refs = req[c].made]
            /\ Become(c, [req[c] EXCEPT !.pc = "make_ready", !.version = @ + 1])
       ELSE Finish(c) /\ UNCHANGED checkouts
    /\ UNCHANGED <<clock, supply, claims, failures>>

(* setReservations() looks at the version only and keeps the status.       *)
SetRefs(c) ==
    LET id == req[c].id IN
    /\ At(c, "set_refs")
    /\ IF Matches(id, Statuses, req[c].version)
       THEN /\ checkouts' = [Moved(id, checkouts[id].status)
                                EXCEPT ![id].refs = req[c].made]
            /\ Become(c, [req[c] EXCEPT !.pc = "make_ready", !.version = @ + 1])
       ELSE /\ Become(c, Compensating(req[c], req[c].made, "finish"))
            /\ UNCHANGED checkouts
    /\ UNCHANGED <<clock, supply, claims, failures>>

MakeReady(c) ==
    LET id == req[c].id IN
    /\ At(c, "make_ready")
    /\ IF Matches(id, {"reserved"}, req[c].version)
       THEN checkouts' = Moved(id, "ready") /\ Finish(c)
       ELSE /\ Become(c, Compensating(req[c], req[c].made, "finish"))
            /\ UNCHANGED checkouts
    /\ UNCHANGED <<clock, supply, claims, failures>>

-----------------------------------------------------------------------------
(***************************************************************************)
(* cancel(), updateAddress()                                               *)
(***************************************************************************)

(* The caller may name the version it expects.                             *)
CancelStart(c, id, v) ==
    /\ At(c, "idle")
    /\ IsLive(id)
    /\ Become(c, NewCall("cancel", id, v))
    /\ UNCHANGED <<checkouts, clock, supply, claims, failures>>

FaultyCancel(c) ==
    LET id == req[c].id IN
    /\ At(c, "cancel")
    /\ IF Matches(id, Active, req[c].version)
       THEN checkouts' = Moved(id, "cancelled") ELSE UNCHANGED checkouts
    /\ Finish(c)
    /\ UNCHANGED <<clock, supply, claims, failures>>

(* The references released are those the update returned.                  *)
Cancel(c) ==
    LET id == req[c].id IN
    /\ At(c, "cancel")
    /\ IF Matches(id, Active, req[c].version)
       THEN /\ checkouts' = Moved(id, "cancelled")
            /\ Become(c, Compensating(req[c], checkouts[id].refs, "finish"))
       ELSE Finish(c) /\ UNCHANGED checkouts
    /\ UNCHANGED <<clock, supply, claims, failures>>

UpdateStart(c, id, v) ==
    /\ At(c, "idle")
    /\ IsLive(id)
    /\ Become(c, NewCall("update", id, v))
    /\ UNCHANGED <<checkouts, clock, supply, claims, failures>>

(* updateAddress() looks at the version only and keeps the status.         *)
Update(c) ==
    LET id == req[c].id IN
    /\ At(c, "update")
    /\ checkouts' = IF Matches(id, Statuses, req[c].version)
                    THEN Moved(id, checkouts[id].status) ELSE checkouts
    /\ Finish(c)
    /\ UNCHANGED <<clock, supply, claims, failures>>

-----------------------------------------------------------------------------
(***************************************************************************)
(* The order service reads a checkout with getForOrder() and then calls    *)
(* complete(), with the version it read or without one.                    *)
(***************************************************************************)

OrderStart(c, id) ==
    /\ At(c, "idle")
    /\ checkouts[id].status = "ready" /\ clock[id] # "past"
    /\ \E v \in {checkouts[id].version, NoVersion} :
          Become(c, NewCall("complete", id, v))
    /\ UNCHANGED <<checkouts, clock, supply, claims, failures>>

(* markCompleted(), which does not look at the expiry again.               *)
Complete(c) ==
    LET id == req[c].id IN
    /\ At(c, "complete")
    /\ checkouts' = IF Matches(id, {"ready"}, req[c].version)
                    THEN Moved(id, "completed") ELSE checkouts
    /\ Finish(c)
    /\ UNCHANGED <<clock, supply, claims, failures>>

-----------------------------------------------------------------------------
(***************************************************************************)
(* expireCheckouts(): one query, then for each checkout found, with the    *)
(* references it had then, release and expire.                             *)
(***************************************************************************)

FaultyDue ==
    {id \in Checkouts : checkouts[id].status \in {"priced", "ready"} /\ clock[id] = "past"}

Due == {id \in Checkouts : IsActive(id) /\ clock[id] = "past"}

SweepStart(c) ==
    /\ At(c, "idle")
    /\ \E found \in SUBSET Due :
          /\ found # {}
          /\ \/ Cardinality(found) = SweepLimit
             \/ found = Due /\ Cardinality(found) < SweepLimit
          /\ Become(c, Resume({<<id, checkouts[id].refs>> : id \in found}))
    /\ UNCHANGED <<checkouts, clock, supply, claims, failures>>

SweepNext(c) ==
    /\ At(c, "sweep")
    /\ \E next \in req[c].batch :
          LET call == [NewCall("expire", next[1], NoVersion)
                          EXCEPT !.batch = req[c].batch \ {next}] IN
          Become(c, Compensating(call, next[2], "expire"))
    /\ UNCHANGED <<checkouts, clock, supply, claims, failures>>

-----------------------------------------------------------------------------
(***************************************************************************)
(* Failures.  A rejected call ends a request, and one checkout's turn in   *)
(* a sweep; a process that dies ends both.  A release() or reserve() that  *)
(* is rejected is caught; reserve() may have made the reservation by then. *)
(***************************************************************************)

Fail == failures < MaxFailures /\ failures' = failures + 1

(* The process dies, or a call of an API request is rejected.              *)
Crash(c) ==
    /\ req[c] # Idle
    /\ Become(c, Idle)
    /\ Fail
    /\ UNCHANGED <<checkouts, clock, supply, claims>>

SweepItemThrows(c) ==
    /\ c \in Sweeps /\ At(c, "expire")
    /\ Finish(c)
    /\ Fail
    /\ UNCHANGED <<checkouts, clock, supply, claims>>

ReleaseThrows(c) ==
    /\ At(c, "compensate")
    /\ \E s \in req[c].todo :
          LET next == Compensating(req[c], req[c].todo \ {s}, req[c].after) IN
          Become(c, IF next = Idle THEN Finished(c) ELSE next)
    /\ Fail
    /\ UNCHANGED <<checkouts, clock, supply, claims>>

ReserveThrowsLate(c) ==
    /\ At(c, "reserve_line")
    /\ \E s \in req[c].todo : Reserve(<<req[c].id, s>>)
    /\ Become(c, Compensating(req[c], req[c].made, "mark_failed"))
    /\ Fail
    /\ UNCHANGED <<checkouts, clock>>

-----------------------------------------------------------------------------

Arrives(c, id) ==
    \/ ExpireStart(c, id)
    \/ ValidateStart(c, id)
    \/ ReserveStart(c, id)
    \/ \E v \in 0 .. MaxUpdates + 3 : CancelStart(c, id, v)
    \/ \E v \in 0 .. MaxUpdates - 1 : UpdateStart(c, id, v)
    \/ OrderStart(c, id)

Continues(c) ==
    \/ Expire(c) \/ Compensate(c) \/ MarkFailed(c)
    \/ ReserveBegin(c) \/ ReserveLine(c) \/ LineThrows(c)
    \/ SetRefs(c) \/ MakeReady(c)
    \/ Cancel(c) \/ Update(c) \/ Complete(c)
    \/ SweepNext(c)

Fails(c) ==
    \/ Crash(c) \/ SweepItemThrows(c)
    \/ ReleaseThrows(c) \/ ReserveThrowsLate(c)

Next ==
    \/ \E id \in Checkouts, items \in SUBSET Skus \ {{}} : Create(id, items)
    \/ \E id \in Checkouts : Tick(id)
    \/ \E id \in Checkouts, s \in Skus : ClaimExpires(id, s)
    \/ \E c \in Requests, id \in Checkouts : Arrives(c, id)
    \/ \E c \in Sweeps : SweepStart(c)
    \/ \E c \in Clients : Continues(c) \/ Fails(c)

Spec == Init /\ [][Next]_vars

(* A request that has not failed goes on, and the sweep is called again    *)
(* and again.                                                              *)
FairSpec ==
    /\ Spec
    /\ \A c \in Clients : WF_vars(Continues(c))
    /\ \A c \in Sweeps : WF_vars(SweepStart(c))

-----------------------------------------------------------------------------
(***************************************************************************)
(* Properties                                                              *)
(***************************************************************************)

(* The collections and the requests in flight have their types.            *)
TypeOK ==
    /\ checkouts \in [Checkouts -> {NoCheckout} \cup CheckoutRecord]
    /\ clock \in [Checkouts -> Times]
    /\ supply \in [Skus -> Nat]
    /\ claims \in [Lines -> {Service!NoClaim} \cup
                     [status: {"active"} \cup Service!Ended, sku: Skus, qty: {1}]]
    /\ req \in [Clients -> Request]
    /\ failures \in 0 .. MaxFailures

(* Request c is working on a checkout.                                     *)
Busy(c, id) == req[c] # Idle /\ ~ At(c, "sweep") /\ req[c].id = id

(* Lines that request c has reserved and not yet handed over or released.  *)
InHand(c, id) ==
    CASE Busy(c, id) /\ At(c, "compensate") -> req[c].todo
      [] Busy(c, id) /\ req[c].pc \in {"reserve_line", "set_refs", "make_ready"} ->
             req[c].made
      [] OTHER -> {}

(* No reservation is forgotten: unless something failed, a checkout's      *)
(* active reservations are among its references or in the hands of a       *)
(* request that is reserving or releasing them (reserve(), compensate()).  *)
NothingForgotten ==
    failures = 0 =>
        \A id \in Checkouts, s \in Skus :
            claims[<<id, s>>].status = "active" =>
                \/ s \in checkouts[id].refs
                \/ \E c \in Clients : s \in InHand(c, id)

(* A ready or completed checkout holds units for every one of its lines    *)
(* until its last second, whatever cancels, sweeps, retries, and failing   *)
(* saga steps do beside it.                                                *)
HoldsUntilDue ==
    \A id \in Checkouts :
        (checkouts[id].status \in {"ready", "completed"} /\ clock[id] = "early")
        => \A s \in checkouts[id].items : claims[<<id, s>>].status = "active"

(* A cancelled checkout holds nothing once no request is working on it:    *)
(* what cancel() did not find in the references is released by the saga it *)
(* has overtaken.                                                          *)
CancelledHoldsNothing ==
    \A id \in Checkouts :
        (/\ failures = 0
         /\ checkouts[id].status = "cancelled"
         /\ ~ \E c \in Clients : Busy(c, id))
        => \A s \in Skus : claims[<<id, s>>].status # "active"

Allowed(from) ==
    CASE from = "priced" -> {"reserved", "failed", "expired", "cancelled"}
      [] from = "reserved" -> {"ready", "failed", "expired", "cancelled"}
      [] from = "ready" -> {"completed", "failed", "expired", "cancelled"}
      [] OTHER -> {}

ChangesAsAllowed ==
    \A id \in Checkouts :
        (/\ checkouts[id] # NoCheckout
         /\ checkouts'[id].status # checkouts[id].status)
        => checkouts'[id].status \in Allowed(checkouts[id].status)

(* Every change of status is one of ALLOWED_TRANSITIONS, although          *)
(* markFailed() and setReservations() compare only the version: a version  *)
(* stands for one status.                                                  *)
FollowsMachine == [][ChangesAsAllowed]_vars

(* A checkout past its expiry is eventually closed, also one that a lost   *)
(* race or a crash left reserved, although sweeps are limited, act on old  *)
(* copies and may fail.                                                    *)
DueIsClosed ==
    \A id \in Checkouts :
        (clock[id] = "past") ~> (checkouts[id].status \in Terminal)

(* Reservations end with their checkout: "stock can never outlive its      *)
(* checkout" (docs/checkout/inventory-integration.md), once no request is  *)
(* working on it and nothing has failed.                                   *)
StockDiesWithCheckout ==
    \A id \in Checkouts :
        (/\ failures = 0
         /\ checkouts[id].status \in Terminal \ {"completed"}
         /\ ~ \E c \in Clients : Busy(c, id))
        => \A s \in Skus : claims[<<id, s>>].status # "active"

(* Of complete() and an expiry exactly one wins: what a checkout that was  *)
(* completed had reserved is not released ("exactly one wins; losers       *)
(* replay or 409", docs/checkout/concurrency.md).                          *)
CompletedKeepsUnits ==
    \A id \in Checkouts :
        checkouts[id].status = "completed" =>
            \A s \in checkouts[id].refs : claims[<<id, s>>].status # "released"

=============================================================================
