--------------------------- MODULE CheckoutProofs ---------------------------
(***************************************************************************)
(* Theorems about Checkout, for every value of its constants: first its    *)
(* types and its state machine, then the reservations of a checkout.       *)
(*                                                                         *)
(* markFailed() and setReservations() compare only the version. That they  *)
(* cannot overwrite a terminal status is due to what the requests know: a  *)
(* request that is about to write has read, or made, a version at which    *)
(* the checkout was active, every update makes a new version, and so the   *)
(* version it compares with still stands for an active checkout.           *)
(***************************************************************************)
EXTENDS Checkout, TLAPS

Docs == {NoCheckout} \cup CheckoutRecord

ClaimRecords == {Service!NoClaim} \cup
                   [status: {"active"} \cup Service!Ended, sku: Skus, qty: {1}]

(* Requests that may yet write with the version they hold. *)
Writes(r) ==
    \/ r.pc \in {"mark_failed", "reserve_begin", "reserve_line", "set_refs",
                 "make_ready"}
    \/ r.pc = "compensate" /\ r.after = "mark_failed"

Knows(r, doc) ==
    /\ doc \in CheckoutRecord
    /\ r.version \in Nat
    /\ r.version <= doc.version
    /\ r.version = doc.version => doc.status \in Active

VersionsKnown ==
    \A c \in Clients : Writes(req[c]) => Knows(req[c], checkouts[req[c].id])

TypeInv == TypeOK /\ VersionsKnown

(* What every step does to a checkout. *)
Advances ==
    \A id \in Checkouts :
        \/ checkouts'[id] = checkouts[id]
        \/ checkouts[id] = NoCheckout
        \/ /\ checkouts[id] \in CheckoutRecord
           /\ checkouts'[id] \in CheckoutRecord
           /\ checkouts'[id].version = checkouts[id].version + 1

-----------------------------------------------------------------------------
(* Records of requests. *)

CallPcs == {"mark_failed", "reserve_begin", "reserve_line", "set_refs",
            "make_ready", "compensate", "expire", "cancel", "update",
            "complete"}

LEMMA RequestShape ==
    ASSUME TypeOK, NEW c \in Clients
    PROVE  /\ req[c] \in Request
           /\ req[c].pc \in CallPcs => req[c] \in Call
           /\ req[c].pc = "sweep" => req[c] \in Sweep
           /\ req[c] # Idle => req[c] \in Call \cup Sweep
<1>1. req[c] \in Request
    BY DEF TypeOK
<1>2. CASE req[c] = Idle
    BY <1>1, <1>2 DEF Idle, CallPcs
<1>3. CASE req[c] \in Call
    BY <1>1, <1>3 DEF Call
<1>4. CASE req[c] \in Sweep
    BY <1>1, <1>4 DEF Sweep, CallPcs
<1> QED
    BY <1>1, <1>2, <1>3, <1>4 DEF Request

LEMMA IdleShape == Idle \in Request /\ ~ Writes(Idle)
BY DEF Idle, Request, Writes

LEMMA NewCallShape ==
    ASSUME NEW pc \in CallPcs, NEW id \in Checkouts,
           NEW v \in Nat \cup {NoVersion}
    PROVE  /\ NewCall(pc, id, v) \in Call
           /\ NewCall(pc, id, v).pc = pc
           /\ NewCall(pc, id, v).id = id
           /\ NewCall(pc, id, v).version = v
           /\ NewCall(pc, id, v).after = "finish"
BY DEF NewCall, Call, CallPcs

(* compensate() keeps the checkout and the version of the request, and     *)
(* what follows it is what was asked for.                                  *)
LEMMA CompensatingShape ==
    ASSUME NEW r \in Call, NEW left \in SUBSET Skus,
           NEW after \in {"finish", "mark_failed", "expire"}
    PROVE  LET next == Compensating(r, left, after) IN
           /\ next \in Call \cup {Idle}
           /\ next # Idle => /\ next.id = r.id
                             /\ next.version = r.version
                             /\ Writes(next) => after = "mark_failed"
<1>1. CASE left # {}
  <2>1. Compensating(r, left, after) =
            [r EXCEPT !.pc = "compensate", !.todo = left, !.after = after]
    BY <1>1 DEF Compensating
  <2> QED
    BY <2>1 DEF Call, Writes
<1>2. CASE left = {} /\ after # "finish"
  <2>1. Compensating(r, left, after) =
            [r EXCEPT !.pc = after, !.todo = left, !.after = "finish"]
    BY <1>2 DEF Compensating
  <2> QED
    BY <2>1, <1>2 DEF Call, Writes
<1>3. CASE left = {} /\ after = "finish"
    BY <1>3 DEF Compensating
<1> QED
    BY <1>1, <1>2, <1>3

LEMMA FinishedShape ==
    ASSUME TypeOK, NEW c \in Clients, req[c] # Idle
    PROVE  Finished(c) \in Request /\ ~ Writes(Finished(c))
<1>1. req[c].batch \in SUBSET (Checkouts \X SUBSET Skus)
    BY RequestShape DEF Call, Sweep
<1>2. CASE Finished(c) = Idle
    BY <1>2, IdleShape
<1>3. CASE Finished(c) # Idle
  <2>1. Finished(c) = [pc |-> "sweep", batch |-> req[c].batch]
    BY <1>3 DEF Finished, Resume
  <2> QED
    BY <1>1, <2>1 DEF Request, Sweep, Writes
<1> QED
    BY <1>2, <1>3

-----------------------------------------------------------------------------
(* Documents. *)

LEMMA DocShape ==
    ASSUME TypeOK, NEW id \in Checkouts
    PROVE  /\ checkouts[id] \in Docs
           /\ checkouts[id].status \in Statuses =>
                 checkouts[id] \in CheckoutRecord
BY DEF TypeOK, Docs, NoCheckout, Statuses, Active, Terminal, CheckoutRecord

LEMMA MovedShape ==
    ASSUME TypeOK, NEW id \in Checkouts, checkouts[id].status \in Statuses,
           NEW to \in Statuses
    PROVE  /\ Moved(id, to) \in [Checkouts -> Docs]
           /\ Moved(id, to)[id] \in CheckoutRecord
           /\ Moved(id, to)[id].status = to
           /\ Moved(id, to)[id].version = checkouts[id].version + 1
           /\ \A x \in Checkouts \ {id} : Moved(id, to)[x] = checkouts[x]
<1>1. checkouts[id] \in CheckoutRecord
    BY DocShape
<1>2. checkouts \in [Checkouts -> Docs]
    BY DEF TypeOK, Docs
<1>3. Moved(id, to)[id] =
          [checkouts[id] EXCEPT !.status = to, !.version = @ + 1]
    BY <1>2 DEF Moved
<1>4. [checkouts[id] EXCEPT !.status = to, !.version = @ + 1] \in CheckoutRecord
  <2>1. checkouts[id].version + 1 \in Nat
    BY <1>1 DEF CheckoutRecord
  <2>2. ASSUME NEW doc \in CheckoutRecord, NEW v \in Nat
        PROVE  [doc EXCEPT !.status = to, !.version = v] \in CheckoutRecord
    BY <2>2 DEF CheckoutRecord
  <2> QED
    BY <1>1, <2>1, <2>2
<1>5. /\ [checkouts[id] EXCEPT !.status = to, !.version = @ + 1].status = to
      /\ [checkouts[id] EXCEPT !.status = to, !.version = @ + 1].version =
             checkouts[id].version + 1
    BY <1>1 DEF CheckoutRecord
<1>6. Moved(id, to) \in [Checkouts -> Docs]
    BY <1>2, <1>3, <1>4 DEF Moved, Docs
<1>7. \A x \in Checkouts \ {id} : Moved(id, to)[x] = checkouts[x]
    BY <1>2 DEF Moved
<1> QED
    BY <1>3, <1>4, <1>5, <1>6, <1>7

LEMMA MovedAdvances ==
    ASSUME TypeOK, NEW id \in Checkouts, checkouts[id].status \in Statuses,
           NEW to \in Statuses, checkouts' = Moved(id, to)
    PROVE  Advances
<1>1. checkouts[id] \in CheckoutRecord
    BY DocShape
<1>2. /\ Moved(id, to)[id] \in CheckoutRecord
      /\ Moved(id, to)[id].version = checkouts[id].version + 1
      /\ \A x \in Checkouts \ {id} : Moved(id, to)[x] = checkouts[x]
    BY ONLY MovedShape, TypeOK, id \in Checkouts, to \in Statuses,
            checkouts[id].status \in Statuses
<1> QED
    BY <1>1, <1>2 DEF Advances

(* An update of a document leaves what other requests know true.           *)
LEMMA KnowledgeKept ==
    ASSUME NEW r, NEW x, NEW y, Knows(r, x), y = x \/
              (/\ y \in CheckoutRecord
               /\ y.version = x.version + 1)
    PROVE  Knows(r, y)
BY DEF Knows, CheckoutRecord

-----------------------------------------------------------------------------
(* Every step replaces the record of one request, and advances documents.  *)
LEMMA StepKeeps ==
    ASSUME TypeInv, NEW c \in Clients, NEW r \in Request, Become(c, r),
           checkouts' \in [Checkouts -> Docs], Advances,
           clock' = clock, supply' = supply,
           claims' \in [Lines -> ClaimRecords],
           failures' \in 0 .. MaxFailures,
           Writes(r) => Knows(r, checkouts'[r.id])
    PROVE  TypeInv'
<1>1. /\ req' \in [Clients -> Request]
      /\ req'[c] = r
      /\ \A d \in Clients \ {c} : req'[d] = req[d]
    BY DEF TypeInv, TypeOK, Become
<1>2. TypeOK'
    BY <1>1 DEF TypeInv, TypeOK, Docs, ClaimRecords
<1>3. ASSUME NEW d \in Clients, Writes(req'[d])
      PROVE  Knows(req'[d], checkouts'[req'[d].id])
  <2>1. CASE d = c
    BY <1>1, <1>3, <2>1
  <2>2. CASE d # c
    <3>1. req'[d] = req[d] /\ Writes(req[d])
      BY <1>1, <1>3, <2>2
    <3>2. req[d] \in Call
      BY <3>1, RequestShape DEF Writes, CallPcs, TypeInv
    <3>3. Knows(req[d], checkouts[req[d].id]) /\ req[d].id \in Checkouts
      BY <3>1, <3>2 DEF TypeInv, VersionsKnown, Call
    <3>4. checkouts[req[d].id] # NoCheckout
      BY <3>3 DEF Knows, CheckoutRecord, NoCheckout
    <3> QED
      BY <3>1, <3>3, <3>4, KnowledgeKept DEF Advances
  <2> QED
    BY <2>1, <2>2
<1> QED
    BY <1>2, <1>3 DEF TypeInv, VersionsKnown

(* A step that changes no document. *)
LEMMA QuietStep ==
    ASSUME TypeInv, NEW c \in Clients, NEW r \in Request, Become(c, r),
           checkouts' = checkouts, clock' = clock, supply' = supply,
           claims' \in [Lines -> ClaimRecords],
           failures' \in 0 .. MaxFailures,
           Writes(r) => Knows(r, checkouts[r.id])
    PROVE  TypeInv' /\ ChangesAsAllowed
<1>1. checkouts' \in [Checkouts -> Docs] /\ Advances
    BY DEF TypeInv, TypeOK, Docs, Advances
<1>2. TypeInv'
    BY <1>1, StepKeeps
<1> QED
    BY <1>2 DEF ChangesAsAllowed

(* A step that moves one document to a new version. *)
LEMMA WriteStep ==
    ASSUME TypeInv, NEW c \in Clients, NEW r \in Request, Become(c, r),
           NEW id \in Checkouts, checkouts[id].status \in Statuses,
           NEW to \in Statuses, checkouts' = Moved(id, to),
           to = checkouts[id].status \/ to \in Allowed(checkouts[id].status),
           UNCHANGED <<clock, supply, claims, failures>>,
           Writes(r) => Knows(r, Moved(id, to)[r.id])
    PROVE  TypeInv' /\ ChangesAsAllowed
<1>1. /\ Moved(id, to) \in [Checkouts -> Docs]
      /\ Moved(id, to)[id].status = to
      /\ \A x \in Checkouts \ {id} : Moved(id, to)[x] = checkouts[x]
    BY ONLY MovedShape, TypeInv, id \in Checkouts, to \in Statuses,
            checkouts[id].status \in Statuses DEF TypeInv
<1>2. Advances
    BY MovedAdvances DEF TypeInv
<1>3. claims' \in [Lines -> ClaimRecords] /\ failures' \in 0 .. MaxFailures
    BY DEF TypeInv, TypeOK, ClaimRecords
<1>4. checkouts' \in [Checkouts -> Docs]
    BY <1>1
<1>5. Writes(r) => Knows(r, checkouts'[r.id])
    OBVIOUS
<1>6. TypeInv'
    BY <1>2, <1>3, <1>4, <1>5, StepKeeps
<1>7. checkouts'[id].status = to
    BY <1>1
<1>8. \A x \in Checkouts \ {id} : checkouts'[x] = checkouts[x]
    BY <1>1
<1> QED
    BY <1>6, <1>7, <1>8 DEF ChangesAsAllowed

-----------------------------------------------------------------------------
(* The beginnings of requests. *)

LEMMA ActiveDoc ==
    ASSUME TypeOK, NEW id \in Checkouts, IsActive(id)
    PROVE  checkouts[id] \in CheckoutRecord /\ checkouts[id].status \in Statuses
BY DocShape DEF IsActive, Statuses

LEMMA StartStep ==
    ASSUME TypeInv, NEW c \in Requests, NEW id \in Checkouts, Arrives(c, id)
    PROVE  TypeInv' /\ ChangesAsAllowed
<1> c \in Clients
    BY DEF Clients
<1> MaxUpdates \in Nat
    BY CheckoutAssumption
<1> DEFINE doc == checkouts[id]
<1>1. ASSUME NEW r \in Request, Become(c, r),
             UNCHANGED <<checkouts, clock, supply, claims, failures>>,
             Writes(r) => Knows(r, checkouts[r.id])
      PROVE  TypeInv' /\ ChangesAsAllowed
  <2>1. claims' \in [Lines -> ClaimRecords] /\ failures' \in 0 .. MaxFailures
    BY <1>1 DEF TypeInv, TypeOK, ClaimRecords
  <2> QED
    BY <1>1, <2>1, QuietStep
<1>2. CASE ExpireStart(c, id)
  <2> DEFINE r == Compensating(NewCall("expire", id, NoVersion), doc.refs, "expire")
  <2>1. doc \in CheckoutRecord
    BY <1>2, ActiveDoc DEF ExpireStart, TypeInv
  <2>2. NewCall("expire", id, NoVersion) \in Call
    BY NewCallShape DEF CallPcs
  <2>3. doc.refs \in SUBSET Skus
    BY <2>1 DEF CheckoutRecord
  <2>4. r \in Call \cup {Idle} /\ (r # Idle => ~ Writes(r))
    BY <2>2, <2>3, CompensatingShape
  <2>5. r \in Request /\ ~ Writes(r)
    BY <2>4, IdleShape DEF Request
  <2>6. Become(c, r) /\ UNCHANGED <<checkouts, clock, supply, claims, failures>>
    BY <1>2 DEF ExpireStart
  <2> HIDE DEF r
  <2> QED
    BY <1>1, <2>5, <2>6
<1>3. ASSUME NEW pc \in CallPcs, IsLive(id), Become(c, NewCall(pc, id, doc.version)),
             UNCHANGED <<checkouts, clock, supply, claims, failures>>
      PROVE  TypeInv' /\ ChangesAsAllowed
  <2> DEFINE r == NewCall(pc, id, doc.version)
  <2>1. doc \in CheckoutRecord /\ doc.status \in Active
    BY <1>3, ActiveDoc DEF IsLive, IsActive, TypeInv
  <2>2. doc.version \in Nat
    BY <2>1 DEF CheckoutRecord
  <2>3. r \in Call /\ r.id = id /\ r.version = doc.version
    BY <2>2, NewCallShape
  <2>4. Knows(r, checkouts[r.id])
    BY <2>1, <2>2, <2>3 DEF Knows
  <2>5. r \in Request
    BY <2>3 DEF Request
  <2> HIDE DEF r
  <2> QED
    BY <1>1, <1>3, <2>4, <2>5 DEF r
<1>4. CASE ValidateStart(c, id)
    BY <1>3, <1>4 DEF ValidateStart, CallPcs
<1>5. CASE ReserveStart(c, id)
    BY <1>3, <1>5 DEF ReserveStart, CallPcs
<1>6. ASSUME NEW pc \in {"cancel", "update", "complete"},
             NEW v \in Nat \cup {NoVersion}, Become(c, NewCall(pc, id, v)),
             UNCHANGED <<checkouts, clock, supply, claims, failures>>
      PROVE  TypeInv' /\ ChangesAsAllowed
  <2> DEFINE r == NewCall(pc, id, v)
  <2>1. pc \in CallPcs
    BY DEF CallPcs
  <2>2. r \in Call /\ r.pc = pc
    BY <2>1, NewCallShape
  <2>3. r \in Request /\ ~ Writes(r)
    BY <2>2 DEF Request, Writes
  <2> HIDE DEF r
  <2> QED
    BY <1>1, <1>6, <2>3 DEF r
<1>7. ASSUME NEW v \in 0 .. MaxUpdates + 3, CancelStart(c, id, v)
      PROVE  TypeInv' /\ ChangesAsAllowed
    BY <1>6, <1>7 DEF CancelStart
<1>8. ASSUME NEW v \in 0 .. MaxUpdates - 1, UpdateStart(c, id, v)
      PROVE  TypeInv' /\ ChangesAsAllowed
    BY <1>6, <1>8 DEF UpdateStart
<1>9. CASE OrderStart(c, id)
  <2>1. IsActive(id)
    BY <1>9 DEF OrderStart, IsActive, Active
  <2>2. doc.version \in Nat
    BY <2>1, ActiveDoc DEF TypeInv, CheckoutRecord
  <2> QED
    BY <1>6, <1>9, <2>2 DEF OrderStart
<1> QED
    BY <1>2, <1>4, <1>5, <1>7, <1>8, <1>9 DEF Arrives

-----------------------------------------------------------------------------
(* Writes to documents. *)

(* A request that ends, or loses its condition, changes nothing.           *)
LEMMA EndStep ==
    ASSUME TypeInv, NEW c \in Clients, req[c] # Idle, Finish(c),
           UNCHANGED <<checkouts, clock, supply, claims>>,
           failures' \in 0 .. MaxFailures
    PROVE  TypeInv' /\ ChangesAsAllowed
<1>1. Finished(c) \in Request /\ ~ Writes(Finished(c))
    BY FinishedShape DEF TypeInv
<1>2. claims' \in [Lines -> ClaimRecords]
    BY DEF TypeInv, TypeOK, ClaimRecords
<1> QED
    BY <1>1, <1>2, QuietStep DEF Finish

(* A request that writes and ends. *)
LEMMA FinalWrite ==
    ASSUME TypeInv, NEW c \in Clients, req[c] # Idle, Finish(c),
           NEW id \in Checkouts, checkouts[id].status \in Statuses,
           NEW to \in Statuses, checkouts' = Moved(id, to),
           to = checkouts[id].status \/ to \in Allowed(checkouts[id].status),
           UNCHANGED <<clock, supply, claims, failures>>
    PROVE  TypeInv' /\ ChangesAsAllowed
<1>1. Finished(c) \in Request /\ ~ Writes(Finished(c))
    BY FinishedShape DEF TypeInv
<1> QED
    BY <1>1, WriteStep DEF Finish

(* What a request that still writes knows about its document. *)
LEMMA WriterKnows ==
    ASSUME TypeInv, NEW c \in Clients, req[c].pc \in CallPcs
    PROVE  /\ req[c] \in Call /\ req[c].id \in Checkouts /\ req[c] # Idle
           /\ Writes(req[c]) => Knows(req[c], checkouts[req[c].id])
BY RequestShape DEF TypeInv, VersionsKnown, Call, CallPcs, Idle

LEMMA MarkFailedStep ==
    ASSUME TypeInv, NEW c \in Clients, MarkFailed(c)
    PROVE  TypeInv' /\ ChangesAsAllowed
<1> DEFINE id == req[c].id
<1>1. req[c].pc = "mark_failed"
    BY DEF MarkFailed, At
<1>2. id \in Checkouts /\ req[c] # Idle /\ Knows(req[c], checkouts[id])
    BY <1>1, WriterKnows DEF CallPcs, Writes
<1>3. CASE Matches(id, Statuses, req[c].version)
  <2>1. checkouts[id].status \in Active
    BY <1>2, <1>3 DEF Matches, Knows, NoVersion
  <2>2. "failed" \in Statuses /\ "failed" \in Allowed(checkouts[id].status)
    BY <2>1 DEF Active, Statuses, Terminal, Allowed
  <2> QED
    BY <1>2, <1>3, <2>1, <2>2, FinalWrite DEF MarkFailed, Statuses
<1>4. CASE ~ Matches(id, Statuses, req[c].version)
    BY <1>2, <1>4, EndStep DEF MarkFailed, TypeInv, TypeOK
<1> QED
    BY <1>3, <1>4

LEMMA ExpireStep ==
    ASSUME TypeInv, NEW c \in Clients, Expire(c)
    PROVE  TypeInv' /\ ChangesAsAllowed
<1> DEFINE id == req[c].id
<1>1. id \in Checkouts /\ req[c] # Idle
    BY WriterKnows DEF Expire, At, CallPcs
<1>2. CASE Matches(id, Active, req[c].version)
  <2>1. checkouts[id].status \in Active
    BY <1>2 DEF Matches
  <2>2. "expired" \in Statuses /\ "expired" \in Allowed(checkouts[id].status)
    BY <2>1 DEF Active, Statuses, Terminal, Allowed
  <2> QED
    BY <1>1, <1>2, <2>1, <2>2, FinalWrite DEF Expire, Statuses
<1>3. CASE ~ Matches(id, Active, req[c].version)
    BY <1>1, <1>3, EndStep DEF Expire, TypeInv, TypeOK
<1> QED
    BY <1>2, <1>3

LEMMA CompleteStep ==
    ASSUME TypeInv, NEW c \in Clients, Complete(c)
    PROVE  TypeInv' /\ ChangesAsAllowed
<1> DEFINE id == req[c].id
<1>1. id \in Checkouts /\ req[c] # Idle
    BY WriterKnows DEF Complete, At, CallPcs
<1>2. CASE Matches(id, {"ready"}, req[c].version)
  <2>1. checkouts[id].status = "ready"
    BY <1>2 DEF Matches
  <2>2. /\ checkouts[id].status \in Statuses /\ "completed" \in Statuses
        /\ "completed" \in Allowed(checkouts[id].status)
    BY <2>1 DEF Active, Statuses, Terminal, Allowed
  <2> QED
    BY <1>1, <1>2, <2>2, FinalWrite DEF Complete
<1>3. CASE ~ Matches(id, {"ready"}, req[c].version)
    BY <1>1, <1>3, EndStep DEF Complete, TypeInv, TypeOK
<1> QED
    BY <1>2, <1>3

LEMMA UpdateStep ==
    ASSUME TypeInv, NEW c \in Clients, Update(c)
    PROVE  TypeInv' /\ ChangesAsAllowed
<1> DEFINE id == req[c].id
<1>1. id \in Checkouts /\ req[c] # Idle
    BY WriterKnows DEF Update, At, CallPcs
<1>2. CASE Matches(id, Statuses, req[c].version)
    BY <1>1, <1>2, FinalWrite DEF Update, Matches
<1>3. CASE ~ Matches(id, Statuses, req[c].version)
    BY <1>1, <1>3, EndStep DEF Update, TypeInv, TypeOK
<1> QED
    BY <1>2, <1>3

LEMMA CancelStep ==
    ASSUME TypeInv, NEW c \in Clients, Cancel(c)
    PROVE  TypeInv' /\ ChangesAsAllowed
<1> DEFINE id == req[c].id
           r == Compensating(req[c], checkouts[id].refs, "finish")
<1>1. req[c] \in Call /\ id \in Checkouts /\ req[c] # Idle
    BY WriterKnows DEF Cancel, At, CallPcs
<1>2. CASE Matches(id, Active, req[c].version)
  <2>1. checkouts[id] \in CheckoutRecord /\ checkouts[id].status \in Active
    BY <1>1, <1>2, ActiveDoc DEF Matches, IsActive, TypeInv
  <2>2. "cancelled" \in Statuses /\ "cancelled" \in Allowed(checkouts[id].status)
    BY <2>1 DEF Active, Statuses, Terminal, Allowed
  <2>3. checkouts[id].refs \in SUBSET Skus
    BY <2>1 DEF CheckoutRecord
  <2>4. r \in Call \cup {Idle} /\ (r # Idle => ~ Writes(r))
    BY <1>1, <2>3, CompensatingShape
  <2>5. r \in Request /\ ~ Writes(r)
    BY <2>4, IdleShape DEF Request
  <2>6. Become(c, r) /\ checkouts' = Moved(id, "cancelled")
    BY <1>2 DEF Cancel
  <2>7. checkouts[id].status \in Statuses
    BY <2>1 DEF Statuses
  <2>8. UNCHANGED <<clock, supply, claims, failures>>
    BY DEF Cancel
  <2> HIDE DEF r
  <2> QED
    BY <1>1, <2>2, <2>5, <2>6, <2>7, <2>8, WriteStep
<1>3. CASE ~ Matches(id, Active, req[c].version)
    BY <1>1, <1>3, EndStep DEF Cancel, TypeInv, TypeOK
<1> QED
    BY <1>2, <1>3

-----------------------------------------------------------------------------
(* The saga. *)

LEMMA ReserveBeginStep ==
    ASSUME TypeInv, NEW c \in Clients, ReserveBegin(c)
    PROVE  TypeInv' /\ ChangesAsAllowed
<1> DEFINE id == req[c].id
           v == req[c].version
           r == [req[c] EXCEPT !.pc = "reserve_line", !.version = v + 1,
                               !.todo = checkouts[id].items]
<1>1. /\ req[c] \in Call /\ id \in Checkouts /\ req[c] # Idle
      /\ Knows(req[c], checkouts[id])
    BY WriterKnows DEF ReserveBegin, At, CallPcs, Writes
<1>2. CASE Matches(id, {"priced"}, v)
  <2>1. checkouts[id].status = "priced" /\ checkouts[id].version = v
    BY <1>1, <1>2 DEF Matches, Knows, NoVersion
  <2>2. /\ checkouts[id].status \in Statuses /\ "reserved" \in Statuses
        /\ "reserved" \in Active /\ "reserved" \in Allowed(checkouts[id].status)
    BY <2>1 DEF Active, Statuses, Terminal, Allowed
  <2>3. checkouts[id].items \in SUBSET Skus /\ v \in Nat
    BY <1>1 DEF Knows, CheckoutRecord
  <2>4. r \in Call /\ r.id = id /\ r.version = v + 1
    <3>1. v + 1 \in Nat
      BY <2>3
    <3> DEFINE items == checkouts[id].items
               n == v + 1
               called == req[c]
    <3>2. called \in Call /\ n \in Nat /\ items \in SUBSET Skus
      BY <1>1, <2>3, <3>1
    <3>3. r = [called EXCEPT !.pc = "reserve_line", !.version = n, !.todo = items]
      OBVIOUS
    <3> HIDE DEF items, n, called, r
    <3>4. r \in Call /\ r.id = called.id /\ r.version = n
      BY <3>2, <3>3 DEF Call
    <3> QED
      BY <3>4 DEF called, n
  <2>5. /\ Moved(id, "reserved")[id] \in CheckoutRecord
        /\ Moved(id, "reserved")[id].status = "reserved"
        /\ Moved(id, "reserved")[id].version = v + 1
    BY <1>1, <2>1, <2>2, MovedShape DEF TypeInv
  <2>6. Knows(r, Moved(id, "reserved")[r.id])
    BY <2>2, <2>3, <2>4, <2>5 DEF Knows
  <2>7. r \in Request
    BY <2>4 DEF Request
  <2>8. /\ Become(c, r) /\ checkouts' = Moved(id, "reserved")
        /\ UNCHANGED <<clock, supply, claims, failures>>
    BY <1>2 DEF ReserveBegin
  <2> HIDE DEF r
  <2> QED
    BY <1>1, <2>2, <2>6, <2>7, <2>8, WriteStep
<1>3. CASE ~ Matches(id, {"priced"}, v)
    BY <1>1, <1>3, EndStep DEF ReserveBegin, TypeInv, TypeOK
<1> QED
    BY <1>2, <1>3

(* A request that gives up, and the lines it still has to release.         *)
LEMMA GiveUpStep ==
    ASSUME TypeInv, NEW c \in Clients, req[c] \in Call,
           NEW left \in SUBSET Skus, NEW after \in {"finish", "mark_failed", "expire"},
           after = "mark_failed" => Knows(req[c], checkouts[req[c].id]),
           Become(c, Compensating(req[c], left, after)),
           UNCHANGED <<checkouts, clock, supply>>,
           claims' \in [Lines -> ClaimRecords],
           failures' \in 0 .. MaxFailures
    PROVE  TypeInv' /\ ChangesAsAllowed
<1> DEFINE r == Compensating(req[c], left, after)
<1>1. /\ r \in Call \cup {Idle}
      /\ r # Idle => /\ r.id = req[c].id /\ r.version = req[c].version
                     /\ Writes(r) => after = "mark_failed"
    BY CompensatingShape
<1>2. r \in Request
    BY <1>1, IdleShape DEF Request
<1>3. Writes(r) => Knows(r, checkouts[r.id])
    BY <1>1, IdleShape DEF Knows
<1>4. Become(c, r)
    OBVIOUS
<1> HIDE DEF r
<1> QED
    BY <1>2, <1>3, <1>4, QuietStep

LEMMA LineThrowsStep ==
    ASSUME TypeInv, NEW c \in Clients, LineThrows(c)
    PROVE  TypeInv' /\ ChangesAsAllowed
<1>1. req[c] \in Call /\ Knows(req[c], checkouts[req[c].id])
    BY WriterKnows DEF LineThrows, At, CallPcs, Writes
<1>2. req[c].made \in SUBSET Skus
    BY <1>1 DEF Call
<1> QED
    BY <1>1, <1>2, GiveUpStep
    DEF LineThrows, TypeInv, TypeOK, ClaimRecords

(* reserve() of the inventory service makes at most one claim.             *)
LEMMA ReserveType ==
    ASSUME TypeOK, NEW id \in Checkouts, NEW s \in Skus, Reserve(<<id, s>>)
    PROVE  supply' = supply /\ claims' \in [Lines -> ClaimRecords]
<1>1. claims \in [Lines -> ClaimRecords]
    BY DEF TypeOK, ClaimRecords
<1>2. [status |-> "active", sku |-> s, qty |-> 1] \in ClaimRecords
    BY DEF ClaimRecords
<1> QED
    BY <1>1, <1>2 DEF Reserve, Service!Claim

LEMMA ReserveLineStep ==
    ASSUME TypeInv, NEW c \in Clients, ReserveLine(c)
    PROVE  TypeInv' /\ ChangesAsAllowed
<1>1. req[c] \in Call /\ Knows(req[c], checkouts[req[c].id])
    BY WriterKnows DEF ReserveLine, At, CallPcs, Writes
<1>2. PICK s \in req[c].todo :
          /\ Reserve(<<req[c].id, s>>)
          /\ Become(c, [req[c] EXCEPT
                 !.pc = IF req[c].todo = {s} THEN "set_refs" ELSE @,
                 !.made = @ \cup {s}, !.todo = @ \ {s}])
    BY DEF ReserveLine
<1> DEFINE next == IF req[c].todo = {s} THEN "set_refs" ELSE req[c].pc
           r == [req[c] EXCEPT !.pc = next, !.made = @ \cup {s}, !.todo = @ \ {s}]
<1>3. s \in Skus /\ req[c].id \in Checkouts
    BY <1>1 DEF Call
<1>4. supply' = supply /\ claims' \in [Lines -> ClaimRecords]
    BY <1>2, <1>3, ReserveType DEF TypeInv
<1>5. next \in {"set_refs", "reserve_line"}
    BY DEF ReserveLine, At
<1> HIDE DEF next
<1>6. r \in Call /\ r.id = req[c].id /\ r.version = req[c].version
    BY <1>1, <1>3, <1>5 DEF Call
<1>7. r \in Request /\ Knows(r, checkouts[r.id])
    BY <1>1, <1>6 DEF Request, Knows
<1>8. Become(c, r)
    BY <1>2 DEF next
<1>9. UNCHANGED <<checkouts, clock>> /\ failures' \in 0 .. MaxFailures
    BY DEF ReserveLine, TypeInv, TypeOK
<1> HIDE DEF r
<1> QED
    BY <1>4, <1>7, <1>8, <1>9, QuietStep

LEMMA SetRefsStep ==
    ASSUME TypeInv, NEW c \in Clients, SetRefs(c)
    PROVE  TypeInv' /\ ChangesAsAllowed
<1> DEFINE id == req[c].id
           v == req[c].version
           r == [req[c] EXCEPT !.pc = "make_ready", !.version = @ + 1]
<1>1. /\ req[c] \in Call /\ id \in Checkouts /\ Knows(req[c], checkouts[id])
      /\ req[c].made \in SUBSET Skus
    BY WriterKnows DEF SetRefs, At, CallPcs, Writes, Call
<1>2. CASE Matches(id, Statuses, v)
  <2> DEFINE m == Moved(id, checkouts[id].status)
  <2>1. /\ checkouts[id].version = v /\ v \in Nat
        /\ checkouts[id].status \in Active /\ checkouts[id].status \in Statuses
    BY <1>1, <1>2 DEF Matches, Knows, NoVersion
  <2>2. /\ m \in [Checkouts -> Docs] /\ m[id] \in CheckoutRecord
        /\ m[id].status = checkouts[id].status /\ m[id].version = v + 1
        /\ \A x \in Checkouts \ {id} : m[x] = checkouts[x]
    BY <1>1, <2>1, MovedShape DEF TypeInv
  <2>3. checkouts' = [m EXCEPT ![id].refs = req[c].made] /\ Become(c, r)
    BY <1>2 DEF SetRefs
  <2> HIDE DEF m
  <2>4. [m[id] EXCEPT !.refs = req[c].made] \in CheckoutRecord
    BY <1>1, <2>2 DEF CheckoutRecord
  <2>5. /\ [m[id] EXCEPT !.refs = req[c].made].status = m[id].status
        /\ [m[id] EXCEPT !.refs = req[c].made].version = m[id].version
    BY <2>2 DEF CheckoutRecord
  <2>6. /\ checkouts'[id] = [m[id] EXCEPT !.refs = req[c].made]
        /\ \A x \in Checkouts \ {id} : checkouts'[x] = checkouts[x]
        /\ checkouts' \in [Checkouts -> Docs]
    BY <1>1, <2>2, <2>3, <2>4 DEF Docs
  <2>7. /\ checkouts'[id] \in CheckoutRecord
        /\ checkouts'[id].status = checkouts[id].status
        /\ checkouts'[id].version = v + 1
    BY <2>2, <2>4, <2>5, <2>6
  <2>8. Advances
    BY <1>1, <2>1, <2>6, <2>7 DEF Advances, Knows
  <2>9. r \in Call /\ r.id = id /\ r.version = v + 1
    <3>1. v + 1 \in Nat
      BY <2>1
    <3>2. ASSUME NEW call \in Call, NEW n \in Nat
          PROVE  LET q == [call EXCEPT !.pc = "make_ready", !.version = n] IN
                 q \in Call /\ q.id = call.id /\ q.version = n
      BY <3>2 DEF Call
    <3> QED
      BY <1>1, <3>1, <3>2
  <2>10. r \in Request /\ Knows(r, checkouts'[r.id])
    BY <2>1, <2>7, <2>9 DEF Request, Knows
  <2>11. /\ clock' = clock /\ supply' = supply
         /\ claims' \in [Lines -> ClaimRecords] /\ failures' \in 0 .. MaxFailures
    BY DEF SetRefs, TypeInv, TypeOK, ClaimRecords
  <2> HIDE DEF r
  <2>12. TypeInv'
    BY <2>3, <2>6, <2>8, <2>10, <2>11, StepKeeps
  <2> QED
    BY <2>6, <2>7, <2>12 DEF ChangesAsAllowed
<1>3. CASE ~ Matches(id, Statuses, v)
  <2>1. /\ Become(c, Compensating(req[c], req[c].made, "finish"))
        /\ UNCHANGED <<checkouts, clock, supply>>
        /\ claims' \in [Lines -> ClaimRecords] /\ failures' \in 0 .. MaxFailures
    BY <1>3 DEF SetRefs, TypeInv, TypeOK, ClaimRecords
  <2> QED
    BY <1>1, <2>1, GiveUpStep
<1> QED
    BY <1>2, <1>3

LEMMA MakeReadyStep ==
    ASSUME TypeInv, NEW c \in Clients, MakeReady(c)
    PROVE  TypeInv' /\ ChangesAsAllowed
<1> DEFINE id == req[c].id
<1>1. /\ req[c] \in Call /\ id \in Checkouts /\ req[c] # Idle
      /\ req[c].made \in SUBSET Skus
    BY WriterKnows DEF MakeReady, At, CallPcs, Call
<1>2. CASE Matches(id, {"reserved"}, req[c].version)
  <2>1. checkouts[id].status = "reserved"
    BY <1>2 DEF Matches
  <2>2. /\ checkouts[id].status \in Statuses /\ "ready" \in Statuses
        /\ "ready" \in Allowed(checkouts[id].status)
    BY <2>1 DEF Active, Statuses, Terminal, Allowed
  <2> QED
    BY <1>1, <1>2, <2>2, FinalWrite DEF MakeReady
<1>3. CASE ~ Matches(id, {"reserved"}, req[c].version)
  <2>1. /\ Become(c, Compensating(req[c], req[c].made, "finish"))
        /\ UNCHANGED <<checkouts, clock, supply>>
        /\ claims' \in [Lines -> ClaimRecords] /\ failures' \in 0 .. MaxFailures
    BY <1>3 DEF MakeReady, TypeInv, TypeOK, ClaimRecords
  <2> QED
    BY <1>1, <2>1, GiveUpStep
<1> QED
    BY <1>2, <1>3

-----------------------------------------------------------------------------
(* Releases, sweeps, failures, and what happens outside requests. *)

(* Closing a claim keeps its record one of a claim.                        *)
LEMMA EndType ==
    ASSUME TypeOK, NEW line \in Lines, NEW how \in Service!Ended,
           Service!End(line, how)
    PROVE  supply' = supply /\ claims' \in [Lines -> ClaimRecords]
<1>1. claims \in [Lines -> ClaimRecords]
    BY DEF TypeOK, ClaimRecords
<1>2. claims[line].status = "active" /\ claims[line] \in ClaimRecords
    BY <1>1 DEF Service!End
<1>3. [claims[line] EXCEPT !.status = how] \in ClaimRecords
    BY <1>2 DEF ClaimRecords, Service!NoClaim
<1> QED
    BY <1>1, <1>3 DEF Service!End

(* compensate() goes on with the next line, or the request with what       *)
(* follows, or it ends.                                                    *)
LEMMA GoOnStep ==
    ASSUME TypeInv, NEW c \in Clients, At(c, "compensate"),
           NEW s \in req[c].todo,
           LET next == Compensating(req[c], req[c].todo \ {s}, req[c].after) IN
               Become(c, IF next = Idle THEN Finished(c) ELSE next),
           UNCHANGED <<checkouts, clock, supply>>,
           claims' \in [Lines -> ClaimRecords],
           failures' \in 0 .. MaxFailures
    PROVE  TypeInv' /\ ChangesAsAllowed
<1> DEFINE next == Compensating(req[c], req[c].todo \ {s}, req[c].after)
<1>1. /\ req[c] \in Call /\ req[c] # Idle
      /\ Writes(req[c]) => Knows(req[c], checkouts[req[c].id])
    BY WriterKnows DEF At, CallPcs
<1>2. /\ req[c].todo \ {s} \in SUBSET Skus
      /\ req[c].after \in {"finish", "mark_failed", "expire"}
    BY <1>1 DEF Call
<1>3. req[c].after = "mark_failed" => Knows(req[c], checkouts[req[c].id])
    BY <1>1 DEF At, Writes
<1>4. CASE next = Idle
  <2>1. Become(c, Finished(c))
    BY <1>4
  <2>2. Finished(c) \in Request /\ ~ Writes(Finished(c))
    BY <1>1, FinishedShape DEF TypeInv
  <2> QED
    BY <2>1, <2>2, QuietStep
<1>5. CASE next # Idle
  <2>1. Become(c, next)
    BY <1>5
  <2> QED
    BY <1>1, <1>2, <1>3, <2>1, GiveUpStep
<1> QED
    BY <1>4, <1>5

LEMMA CompensateStep ==
    ASSUME TypeInv, NEW c \in Clients, Compensate(c)
    PROVE  TypeInv' /\ ChangesAsAllowed
<1>1. At(c, "compensate") /\ req[c] \in Call
    BY WriterKnows DEF Compensate, At, CallPcs
<1>2. PICK s \in req[c].todo :
          /\ IF claims[<<req[c].id, s>>].status = "active"
             THEN Service!End(<<req[c].id, s>>, "released")
             ELSE UNCHANGED <<supply, claims>>
          /\ LET next == Compensating(req[c], req[c].todo \ {s}, req[c].after) IN
             Become(c, IF next = Idle THEN Finished(c) ELSE next)
    BY DEF Compensate
<1>3. <<req[c].id, s>> \in Lines /\ "released" \in Service!Ended
    BY <1>1 DEF Call, Lines, Service!Ended
<1>4. supply' = supply /\ claims' \in [Lines -> ClaimRecords]
    BY <1>2, <1>3, EndType DEF TypeInv, TypeOK, ClaimRecords
<1>5. UNCHANGED <<checkouts, clock>> /\ failures' \in 0 .. MaxFailures
    BY DEF Compensate, TypeInv, TypeOK
<1> QED
    BY <1>1, <1>2, <1>4, <1>5, GoOnStep

(* The count of failures stays within its bound.                           *)
LEMMA FailType ==
    ASSUME TypeOK, Fail
    PROVE  failures' \in 0 .. MaxFailures
BY CheckoutAssumption DEF TypeOK, Fail

LEMMA ReleaseThrowsStep ==
    ASSUME TypeInv, NEW c \in Clients, ReleaseThrows(c)
    PROVE  TypeInv' /\ ChangesAsAllowed
<1>1. failures' \in 0 .. MaxFailures
    BY FailType DEF ReleaseThrows, TypeInv
<1>2. At(c, "compensate") /\ UNCHANGED <<checkouts, clock, supply>>
    BY DEF ReleaseThrows
<1>3. claims' \in [Lines -> ClaimRecords]
    BY DEF ReleaseThrows, TypeInv, TypeOK, ClaimRecords
<1>4. PICK s \in req[c].todo :
          LET next == Compensating(req[c], req[c].todo \ {s}, req[c].after) IN
          Become(c, IF next = Idle THEN Finished(c) ELSE next)
    BY DEF ReleaseThrows
<1> QED
    BY <1>1, <1>2, <1>3, <1>4, GoOnStep

LEMMA ReserveThrowsLateStep ==
    ASSUME TypeInv, NEW c \in Clients, ReserveThrowsLate(c)
    PROVE  TypeInv' /\ ChangesAsAllowed
<1>1. /\ req[c] \in Call /\ Knows(req[c], checkouts[req[c].id])
      /\ req[c].id \in Checkouts
    BY WriterKnows DEF ReserveThrowsLate, At, CallPcs, Writes
<1>2. req[c].made \in SUBSET Skus /\ req[c].todo \in SUBSET Skus
    BY <1>1 DEF Call
<1>3. PICK s \in req[c].todo : Reserve(<<req[c].id, s>>)
    BY DEF ReserveThrowsLate
<1>4. supply' = supply /\ claims' \in [Lines -> ClaimRecords]
    BY <1>1, <1>2, <1>3, ReserveType DEF TypeInv
<1>5. failures' \in 0 .. MaxFailures
    BY FailType DEF ReserveThrowsLate, TypeInv
<1>6. /\ Become(c, Compensating(req[c], req[c].made, "mark_failed"))
      /\ UNCHANGED <<checkouts, clock>>
    BY DEF ReserveThrowsLate
<1> QED
    BY <1>1, <1>2, <1>4, <1>5, <1>6, GiveUpStep

LEMMA CrashStep ==
    ASSUME TypeInv, NEW c \in Clients, Crash(c)
    PROVE  TypeInv' /\ ChangesAsAllowed
<1>1. failures' \in 0 .. MaxFailures
    BY FailType DEF Crash, TypeInv
<1> QED
    BY <1>1, IdleShape, QuietStep DEF Crash, TypeInv, TypeOK, ClaimRecords

LEMMA SweepItemThrowsStep ==
    ASSUME TypeInv, NEW c \in Clients, SweepItemThrows(c)
    PROVE  TypeInv' /\ ChangesAsAllowed
<1>1. failures' \in 0 .. MaxFailures
    BY FailType DEF SweepItemThrows, TypeInv
<1>2. req[c] # Idle
    BY WriterKnows DEF SweepItemThrows, At, CallPcs
<1> QED
    BY <1>1, <1>2, EndStep DEF SweepItemThrows

LEMMA SweepStartStep ==
    ASSUME TypeInv, NEW c \in Sweeps, SweepStart(c)
    PROVE  TypeInv' /\ ChangesAsAllowed
<1>1. PICK found \in SUBSET Due :
          Become(c, Resume({<<id, checkouts[id].refs>> : id \in found}))
    BY DEF SweepStart
<1> DEFINE batch == {<<id, checkouts[id].refs>> : id \in found}
<1>2. \A id \in found : id \in Checkouts /\ checkouts[id] \in CheckoutRecord
    BY ActiveDoc DEF Due, TypeInv
<1>3. batch \in SUBSET (Checkouts \X SUBSET Skus)
    BY <1>2 DEF CheckoutRecord
<1> HIDE DEF batch
<1>4. Resume(batch) \in Request /\ ~ Writes(Resume(batch))
    BY <1>3, IdleShape DEF Resume, Request, Sweep, Writes
<1>5. /\ UNCHANGED <<checkouts, clock, supply>>
      /\ claims' \in [Lines -> ClaimRecords] /\ failures' \in 0 .. MaxFailures
    BY DEF SweepStart, TypeInv, TypeOK, ClaimRecords
<1>6. Become(c, Resume(batch)) /\ c \in Clients
    BY <1>1 DEF batch, Clients
<1> HIDE DEF Resume
<1> QED
    BY <1>4, <1>5, <1>6, QuietStep

LEMMA SweepNextStep ==
    ASSUME TypeInv, NEW c \in Clients, SweepNext(c)
    PROVE  TypeInv' /\ ChangesAsAllowed
<1>1. req[c].batch \in SUBSET (Checkouts \X SUBSET Skus)
    BY RequestShape DEF SweepNext, At, TypeInv, Sweep
<1>2. PICK next \in req[c].batch :
          Become(c, Compensating([NewCall("expire", next[1], NoVersion)
                                     EXCEPT !.batch = req[c].batch \ {next}],
                                 next[2], "expire"))
    BY DEF SweepNext
<1> DEFINE call == [NewCall("expire", next[1], NoVersion)
                       EXCEPT !.batch = req[c].batch \ {next}]
           r == Compensating(call, next[2], "expire")
<1>3. next[1] \in Checkouts /\ next[2] \in SUBSET Skus
    BY <1>1, <1>2
<1>4. NewCall("expire", next[1], NoVersion) \in Call
    BY <1>3, NewCallShape DEF CallPcs
<1>5. call \in Call
  <2>1. req[c].batch \ {next} \in SUBSET (Checkouts \X SUBSET Skus)
    BY <1>1
  <2>2. ASSUME NEW x \in Call, NEW b \in SUBSET (Checkouts \X SUBSET Skus)
        PROVE  [x EXCEPT !.batch = b] \in Call
    BY <2>2 DEF Call
  <2> QED
    BY <1>4, <2>1, <2>2
<1> HIDE DEF call
<1>6. r \in Call \cup {Idle} /\ (r # Idle => ~ Writes(r))
    BY <1>3, <1>5, CompensatingShape
<1>7. r \in Request /\ ~ Writes(r)
    BY <1>6, IdleShape DEF Request
<1>8. Become(c, r)
    BY <1>2 DEF call
<1>9. /\ UNCHANGED <<checkouts, clock, supply>>
      /\ claims' \in [Lines -> ClaimRecords] /\ failures' \in 0 .. MaxFailures
    BY DEF SweepNext, TypeInv, TypeOK, ClaimRecords
<1> HIDE DEF r
<1> QED
    BY <1>7, <1>8, <1>9, QuietStep

(* Steps outside requests.                                                 *)
LEMMA CreateStep ==
    ASSUME TypeInv, NEW id \in Checkouts, NEW items \in SUBSET Skus \ {{}},
           Create(id, items)
    PROVE  TypeInv' /\ ChangesAsAllowed
<1> DEFINE doc == [status |-> "priced", version |-> 0, items |-> items, refs |-> {}]
<1>1. doc \in CheckoutRecord
    BY DEF CheckoutRecord, Statuses, Active
<1>2. checkouts \in [Checkouts -> Docs] /\ checkouts' = [checkouts EXCEPT ![id] = doc]
    BY DEF Create, TypeInv, TypeOK, Docs
<1> HIDE DEF doc
<1>3. /\ checkouts' \in [Checkouts -> Docs]
      /\ \A x \in Checkouts : checkouts[x] # NoCheckout => checkouts'[x] = checkouts[x]
    BY <1>1, <1>2 DEF Docs, Create
<1>4. TypeOK'
    BY <1>3 DEF Create, TypeInv, TypeOK, Docs
<1>5. VersionsKnown'
  <2> SUFFICES ASSUME NEW c \in Clients, Writes(req[c])
               PROVE  Knows(req[c], checkouts'[req[c].id])
    BY DEF VersionsKnown, Create
  <2>1. Knows(req[c], checkouts[req[c].id]) /\ req[c].id \in Checkouts
    BY WriterKnows DEF Writes, CallPcs
  <2>2. checkouts[req[c].id] # NoCheckout
    BY <2>1 DEF Knows, CheckoutRecord, NoCheckout
  <2> QED
    BY <1>3, <2>1, <2>2
<1> QED
    BY <1>3, <1>4, <1>5 DEF TypeInv, ChangesAsAllowed

LEMMA TickStep ==
    ASSUME TypeInv, NEW id \in Checkouts, Tick(id)
    PROVE  TypeInv' /\ ChangesAsAllowed
<1>1. clock' \in [Checkouts -> Times]
    BY DEF Tick, TypeInv, TypeOK, Times
<1> QED
    BY <1>1 DEF Tick, TypeInv, TypeOK, VersionsKnown, ChangesAsAllowed

LEMMA ClaimExpiresStep ==
    ASSUME TypeInv, NEW id \in Checkouts, NEW s \in Skus, ClaimExpires(id, s)
    PROVE  TypeInv' /\ ChangesAsAllowed
<1>1. <<id, s>> \in Lines /\ "expired" \in Service!Ended
    BY DEF Lines, Service!Ended
<1>2. supply' = supply /\ claims' \in [Lines -> ClaimRecords]
    BY <1>1, EndType DEF ClaimExpires, TypeInv
<1> QED
    BY <1>2 DEF ClaimExpires, TypeInv, TypeOK, VersionsKnown, ChangesAsAllowed,
                ClaimRecords

-----------------------------------------------------------------------------
LEMMA StutterStep ==
    ASSUME TypeInv, UNCHANGED vars
    PROVE  TypeInv' /\ ChangesAsAllowed
BY DEF vars, TypeInv, TypeOK, VersionsKnown, ChangesAsAllowed

LEMMA InitStep == Init => TypeInv
<1> SUFFICES ASSUME Init PROVE TypeInv
    OBVIOUS
<1>1. TypeOK
  <2>1. supply \in [Skus -> Nat] /\ failures \in 0 .. MaxFailures
    <3>1. /\ supply \in [Skus -> Supplies] /\ failures = 0
          /\ Supplies \subseteq Nat /\ MaxFailures \in Nat
      BY CheckoutAssumption DEF Init
    <3>2. supply \in [Skus -> Nat]
      BY ONLY <3>1
    <3> QED
      BY ONLY <3>1, <3>2
  <2>2. checkouts \in [Checkouts -> {NoCheckout} \cup CheckoutRecord]
    BY DEF Init
  <2>3. clock \in [Checkouts -> Times]
    BY DEF Init, Times
  <2>4. claims \in [Lines -> ClaimRecords]
    BY DEF Init, ClaimRecords
  <2>5. req \in [Clients -> Request]
    BY IdleShape DEF Init
  <2> QED
    BY <2>1, <2>2, <2>3, <2>4, <2>5 DEF TypeOK, ClaimRecords
<1>2. VersionsKnown
    BY IdleShape DEF Init, VersionsKnown
<1> QED
    BY <1>1, <1>2 DEF TypeInv

LEMMA NextStep ==
    ASSUME TypeInv, [Next]_vars
    PROVE  TypeInv' /\ ChangesAsAllowed
<1>1. ASSUME NEW c \in Clients, Continues(c)
      PROVE  TypeInv' /\ ChangesAsAllowed
    BY <1>1, ExpireStep, CompensateStep, MarkFailedStep, ReserveBeginStep,
       ReserveLineStep, LineThrowsStep, SetRefsStep, MakeReadyStep, CancelStep,
       UpdateStep, CompleteStep, SweepNextStep DEF Continues
<1>2. ASSUME NEW c \in Clients, Fails(c)
      PROVE  TypeInv' /\ ChangesAsAllowed
    BY <1>2, CrashStep, SweepItemThrowsStep, ReleaseThrowsStep,
       ReserveThrowsLateStep DEF Fails
<1> QED
    BY <1>1, <1>2, CreateStep, TickStep, ClaimExpiresStep, StartStep,
       SweepStartStep, StutterStep DEF Next

(* The invariant: types, and what the requests know of the versions.       *)
THEOREM TypeInvariance == Spec => []TypeInv
<1> QED
    BY InitStep, NextStep, PTL DEF Spec

(* The collections and the requests in flight keep their types, for any    *)
(* number of checkouts, lines, requests and sweeps.                        *)
THEOREM TypeCorrect == Spec => []TypeOK
<1> QED
    BY TypeInvariance, PTL DEF TypeInv

(* Every change of status of a checkout is one of ALLOWED_TRANSITIONS; in  *)
(* particular the updates that compare only the version never overwrite a  *)
(* terminal status.                                                        *)
THEOREM MachineFollowed == Spec => FollowsMachine
<1> QED
    BY TypeInvariance, NextStep, PTL DEF Spec, FollowsMachine

-----------------------------------------------------------------------------
(***************************************************************************)
(* The reservations of checkouts.                                          *)
(*                                                                         *)
(* A checkout has one saga, which makes all its reservations. The          *)
(* invariant follows the saga, and says that whoever releases does so for  *)
(* a reason that lasts: the checkout is past its expiry, is closed, or has *)
(* lost its saga before it was ready. Most steps neither begin nor go on   *)
(* with a saga; what they have in common is Settles.                       *)
(***************************************************************************)

(* The steps of the saga, between the begin and the hand-over.             *)
Saga(r) == r.pc \in {"reserve_line", "set_refs", "make_ready"}
SagaOn(c, id) == Saga(req[c]) /\ req[c].id = id

Closed == {"failed", "expired", "cancelled"}

(* A checkout that will not become ready any more.                         *)
Stopped(id) ==
    \/ checkouts[id].status \in Closed
    \/ checkouts[id].status = "reserved" /\ \A c \in Clients : ~ SagaOn(c, id)

IsHeld(id, s) == claims[<<id, s>>].status = "active"

(* What a saga has done so far and what it still has to do.                *)
Reserving(c) ==
    LET id == req[c].id
        doc == checkouts[id]
    IN Saga(req[c]) =>
        /\ doc.status \in {"reserved"} \cup Closed
        /\ doc.refs = IF req[c].pc = "make_ready" THEN req[c].made ELSE {}
        /\ IF req[c].pc = "reserve_line"
           THEN /\ doc.items \subseteq req[c].made \cup req[c].todo
                /\ \A s \in req[c].todo : claims[<<id, s>>] = Service!NoClaim
           ELSE doc.items \subseteq req[c].made
        /\ clock[id] = "early" /\ doc.status = "reserved" =>
              \A s \in req[c].made : IsHeld(id, s)

(* A checkout has one saga at most.                                        *)
OneSaga ==
    \A c, d \in Clients :
        Saga(req[c]) /\ Saga(req[d]) /\ req[c].id = req[d].id => c = d

(* Before it begins, nothing is reserved.                                  *)
Unbegun ==
    \A id \in Checkouts :
        /\ checkouts[id].status \in {"none", "priced"} =>
              \A s \in Skus : claims[<<id, s>>] = Service!NoClaim
        /\ checkouts[id].status = "priced" => checkouts[id].refs = {}

(* Whoever releases has a reason that lasts; who has yet to begin has made *)
(* nothing.                                                                *)
UndoneBy(c, id) == req[c].pc = "compensate" /\ req[c].id = id

Releasing(c) ==
    /\ \A id \in Checkouts :
          UndoneBy(c, id) => clock[id] = "past" \/ Stopped(id)
    /\ req[c] # Idle => \A b \in req[c].batch : clock[b[1]] = "past"
    /\ At(c, "reserve_begin") => req[c].made = {}

(* A reservation is named by a checkout that is not cancelled, or somebody *)
(* has it in hand.                                                         *)
Named(id, s) ==
    s \in checkouts[id].refs /\ checkouts[id].status # "cancelled"

Kept(id, s) == Named(id, s) \/ \E c \in Clients : s \in InHand(c, id)

Custody ==
    failures = 0 =>
        \A id \in Checkouts, s \in Skus : IsHeld(id, s) => Kept(id, s)

SagaInv ==
    /\ \A c \in Clients : Reserving(c) /\ Releasing(c)
    /\ OneSaga /\ Unbegun /\ HoldsUntilDue

StockInv == SagaInv /\ Custody

-----------------------------------------------------------------------------
(* What a step that neither begins nor goes on with a saga may do.         *)
DocSettles(id) ==
    \/ checkouts'[id] = checkouts[id]
    \/ /\ checkouts'[id].items = checkouts[id].items
       /\ checkouts'[id].refs = checkouts[id].refs
       /\ \/ checkouts'[id].status = checkouts[id].status
          \/ /\ checkouts[id].status \in Active
             /\ checkouts'[id].status \in Closed
          \/ /\ checkouts[id].status = "ready"
             /\ checkouts'[id].status = "completed"

ClockSettles(id) ==
    /\ clock'[id] = "early" => clock[id] = "early"
    /\ clock[id] = "past" => clock'[id] = "past"

ClaimSettles(id, s) ==
    \/ claims'[<<id, s>>] = claims[<<id, s>>]
    \/ /\ IsHeld(id, s) /\ ~ IsHeld(id, s)'
       /\ clock[id] # "early" \/ Stopped(id)
    \/ /\ claims[<<id, s>>] = Service!NoClaim
       /\ \E c \in Clients : SagaOn(c, id) /\ ~ Saga(req'[c])

Settles ==
    /\ \A id \in Checkouts : DocSettles(id) /\ ClockSettles(id)
    /\ \A id \in Checkouts, s \in Skus : ClaimSettles(id, s)
    /\ \A c \in Clients : Saga(req'[c]) => req'[c] = req[c]
    /\ \A c \in Clients : req'[c] = req[c] \/ Releasing(c)'

(* ... and what it leaves held or in hand.                                 *)
HandsOver ==
    failures' = 0 =>
        /\ failures = 0
        /\ \A id \in Checkouts, s \in Skus :
              IsHeld(id, s)' /\ (IsHeld(id, s) => Kept(id, s)) => Kept(id, s)'

LEMMA Lasts ==
    ASSUME Settles, NEW id \in Checkouts
    PROVE  Stopped(id) => Stopped(id)'
BY DEF Settles, DocSettles, Stopped, SagaOn, Closed, Active

LEMMA SagaStatus ==
    ASSUME SagaInv, NEW c \in Clients, NEW id \in Checkouts, SagaOn(c, id)
    PROVE  checkouts[id].status \in {"reserved"} \cup Closed
BY DEF SagaInv, SagaOn, Reserving

LEMMA HeldOnce ==
    ASSUME NEW id, NEW s, IsHeld(id, s)
    PROVE  claims[<<id, s>>] # Service!NoClaim
BY DEF IsHeld, Service!NoClaim

LEMMA SettleReserving ==
    ASSUME TypeOK, SagaInv, Settles, NEW c \in Clients
    PROVE  Reserving(c)'
<1> SUFFICES ASSUME Saga(req'[c]) PROVE Reserving(c)'
    BY DEF Reserving
<1> DEFINE id == req[c].id
<1>1. req'[c] = req[c] /\ Saga(req[c]) /\ Reserving(c)
    BY DEF Settles, SagaInv
<1>2. id \in Checkouts /\ req[c].made \in SUBSET Skus /\ req[c].todo \in SUBSET Skus
    BY <1>1, RequestShape DEF Saga, CallPcs, Call
<1>3. DocSettles(id) /\ ClockSettles(id)
    BY <1>2 DEF Settles
<1>4. checkouts[id].status \in {"reserved"} \cup Closed
    BY <1>1 DEF Reserving
<1>5. /\ checkouts'[id].items = checkouts[id].items
      /\ checkouts'[id].refs = checkouts[id].refs
      /\ checkouts'[id].status \in {"reserved"} \cup Closed
      /\ checkouts'[id].status = "reserved" => checkouts[id].status = "reserved"
    BY <1>3, <1>4 DEF DocSettles, Closed, Active
<1>6. ASSUME NEW s \in Skus, claims[<<id, s>>] = Service!NoClaim
      PROVE  claims'[<<id, s>>] = Service!NoClaim
  <2>1. ~ IsHeld(id, s)
    BY <1>6, HeldOnce
  <2>2. \A d \in Clients : SagaOn(d, id) => Saga(req'[d])
    BY <1>1 DEF SagaInv, OneSaga, SagaOn
  <2> QED
    BY <1>2, <1>6, <2>1, <2>2 DEF Settles, ClaimSettles
<1>7. ASSUME clock'[id] = "early", checkouts'[id].status = "reserved",
             NEW s \in req[c].made
      PROVE  IsHeld(id, s)'
  <2>1. clock[id] = "early" /\ checkouts[id].status = "reserved" /\ s \in Skus
    BY <1>2, <1>3, <1>5, <1>7 DEF ClockSettles
  <2>2. IsHeld(id, s)
    BY <1>1, <2>1 DEF Reserving
  <2>3. ~ Stopped(id)
    BY <1>1, <2>1 DEF Stopped, SagaOn, Closed
  <2> QED
    BY <1>2, <2>1, <2>2, <2>3, HeldOnce DEF Settles, ClaimSettles, IsHeld
<1> QED
    BY <1>1, <1>2, <1>5, <1>6, <1>7 DEF Reserving, Saga, IsHeld

LEMMA SettleReleasing ==
    ASSUME TypeOK, SagaInv, Settles, NEW c \in Clients
    PROVE  Releasing(c)'
<1>1. CASE req'[c] = req[c]
  <2>1. Releasing(c)
    BY DEF SagaInv
  <2>2. ASSUME NEW id \in Checkouts, UndoneBy(c, id)'
        PROVE  clock'[id] = "past" \/ Stopped(id)'
    BY <1>1, <2>1, <2>2, Lasts DEF Releasing, UndoneBy, Settles, ClockSettles
  <2>3. ASSUME req[c] # Idle, NEW b \in req[c].batch
        PROVE  clock'[b[1]] = "past"
    <3>1. b[1] \in Checkouts
      BY <2>3, RequestShape DEF Call, Sweep
    <3> QED
      BY <2>1, <2>3, <3>1 DEF Releasing, Settles, ClockSettles
  <2> QED
    BY <1>1, <2>1, <2>2, <2>3 DEF Releasing, At
<1> QED
    BY <1>1 DEF Settles

LEMMA SettleKeeps ==
    ASSUME TypeOK, SagaInv, Settles
    PROVE  SagaInv'
<1>1. \A c \in Clients : Reserving(c)' /\ Releasing(c)'
    BY SettleReserving, SettleReleasing
<1>2. OneSaga'
    BY DEF Settles, SagaInv, OneSaga
<1>3. Unbegun'
  <2> SUFFICES ASSUME NEW id \in Checkouts,
                      checkouts'[id].status \in {"none", "priced"}
               PROVE  /\ \A s \in Skus : claims'[<<id, s>>] = Service!NoClaim
                      /\ checkouts'[id].status = "priced" => checkouts'[id].refs = {}
    BY DEF Unbegun
  <2>1. /\ checkouts[id].status = checkouts'[id].status
        /\ checkouts[id].status = "priced" => checkouts'[id].refs = checkouts[id].refs
    BY DEF Settles, DocSettles, Closed
  <2>2. \A s \in Skus : claims[<<id, s>>] = Service!NoClaim
    BY <2>1 DEF SagaInv, Unbegun
  <2>3. \A s \in Skus : ~ IsHeld(id, s)
    BY <2>2, HeldOnce
  <2>4. \A c \in Clients : ~ SagaOn(c, id)
    BY <2>1, SagaStatus DEF Closed
  <2>5. \A s \in Skus : claims'[<<id, s>>] = Service!NoClaim
    BY <2>2, <2>3, <2>4 DEF Settles, ClaimSettles
  <2> QED
    BY <2>1, <2>5 DEF SagaInv, Unbegun
<1>4. HoldsUntilDue'
  <2>1. ASSUME NEW id \in Checkouts, checkouts'[id].status \in {"ready", "completed"},
               clock'[id] = "early", NEW s \in checkouts'[id].items
        PROVE  claims'[<<id, s>>].status = "active"
    <3>1. DocSettles(id) /\ ClockSettles(id)
      BY <2>1 DEF Settles
    <3>2. /\ checkouts[id].status \in {"ready", "completed"}
          /\ s \in checkouts[id].items /\ clock[id] = "early"
      BY <2>1, <3>1 DEF DocSettles, ClockSettles, Closed
    <3>3. s \in Skus
      BY <3>2, DocShape DEF Statuses, Active, Terminal, CheckoutRecord
    <3>4. IsHeld(id, s)
      BY <3>2 DEF SagaInv, HoldsUntilDue, IsHeld
    <3>5. ~ Stopped(id)
      BY <3>2 DEF Stopped, Closed
    <3> QED
      BY <3>2, <3>3, <3>4, <3>5, HeldOnce DEF Settles, ClaimSettles, IsHeld
  <2> QED
    BY <2>1 DEF HoldsUntilDue
<1> QED
    BY <1>1, <1>2, <1>3, <1>4 DEF SagaInv

-----------------------------------------------------------------------------
(* The steps of one request. *)

(* InHand, as a function of the request.                                   *)
Hand(r, id) ==
    IF r.pc = "compensate" /\ r.id = id THEN r.todo
    ELSE IF Saga(r) /\ r.id = id THEN r.made ELSE {}

LEMMA HandIs ==
    ASSUME NEW c, NEW id
    PROVE  InHand(c, id) = Hand(req[c], id) /\ InHand(c, id)' = Hand(req'[c], id)
BY DEF InHand, Hand, Busy, At, Saga, Idle

LEMMA Becomes ==
    ASSUME TypeOK, NEW c \in Clients, NEW r \in Request, Become(c, r)
    PROVE  req'[c] = r /\ \A d \in Clients \ {c} : req'[d] = req[d]
BY DEF TypeOK, Become

(* What one request had in hand, or a checkout named, is so still.         *)
LEMMA Passes ==
    ASSUME TypeOK, NEW c \in Clients, NEW r \in Request, Become(c, r),
           failures' = 0 => failures = 0,
           \A id \in Checkouts, s \in Skus :
              failures' = 0 /\ IsHeld(id, s)' =>
                 /\ IsHeld(id, s) \/ s \in Hand(r, id)
                 /\ Named(id, s) \/ s \in Hand(req[c], id) =>
                       Named(id, s)' \/ s \in Hand(r, id)
    PROVE  HandsOver
<1>1. req'[c] = r /\ \A d \in Clients \ {c} : req'[d] = req[d]
    BY Becomes
<1>2. ASSUME failures' = 0, NEW id \in Checkouts, NEW s \in Skus,
             IsHeld(id, s)', IsHeld(id, s) => Kept(id, s)
      PROVE  Kept(id, s)'
  <2>1. CASE s \in Hand(r, id)
    <3>1. s \in InHand(c, id)'
      BY <1>1, <2>1, HandIs
    <3> QED
      BY <3>1 DEF Kept
  <2>2. CASE Named(id, s) \/ s \in InHand(c, id)
    <3>1. Named(id, s)' \/ s \in Hand(r, id)
      BY <1>2, <2>2, HandIs
    <3> QED
      BY <2>1, <3>1 DEF Kept
  <2>3. CASE \E d \in Clients \ {c} : s \in InHand(d, id)
    <3>1. \E d \in Clients \ {c} : s \in InHand(d, id)'
      BY <1>1, <2>3, HandIs
    <3> QED
      BY <3>1 DEF Kept
  <2> QED
    BY <1>2, <2>1, <2>2, <2>3 DEF Kept
<1> QED
    BY <1>2 DEF HandsOver

(* A request that has begun with nothing in hand, and does not release     *)
(* without a reason.                                                       *)
LEMMA QuietSettles ==
    ASSUME TypeInv, SagaInv, NEW c \in Clients, NEW r \in Request,
           Become(c, r), ~ Saga(r), Releasing(c)',
           \A id \in Checkouts : DocSettles(id), clock' = clock,
           \A id \in Checkouts, s \in Skus : ClaimSettles(id, s)
    PROVE  Settles
<1>1. req'[c] = r /\ \A d \in Clients \ {c} : req'[d] = req[d]
    BY Becomes DEF TypeInv
<1>2. \A id \in Checkouts : ClockSettles(id)
    BY DEF ClockSettles
<1>3. \A d \in Clients : Saga(req'[d]) => req'[d] = req[d]
    BY <1>1
<1>4. \A d \in Clients : req'[d] = req[d] \/ Releasing(d)'
    BY <1>1
<1> QED
    BY <1>2, <1>3, <1>4 DEF Settles

LEMMA SameClaims ==
    ASSUME claims' = claims
    PROVE  /\ \A id, s : IsHeld(id, s)' = IsHeld(id, s)
           /\ \A id, s : ClaimSettles(id, s)
BY DEF ClaimSettles, IsHeld

(* A request that ends, after a write or without.                          *)
LEMMA EndSettles ==
    ASSUME TypeInv, SagaInv, NEW c \in Clients, req[c] # Idle, Finish(c),
           \A id \in Checkouts : DocSettles(id), clock' = clock,
           claims' = claims
    PROVE  Settles /\ (\A id : Hand(Finished(c), id) = {})
<1>1. Finished(c) \in Request
    BY FinishedShape DEF TypeInv
<1>2. \/ Finished(c) = Idle
      \/ Finished(c) = [pc |-> "sweep", batch |-> req[c].batch]
    BY DEF Finished, Resume
<1>3. /\ ~ Saga(Finished(c)) /\ Finished(c).pc # "compensate"
      /\ Finished(c).pc # "reserve_begin"
    BY <1>2 DEF Saga, Idle
<1>4. req'[c] = Finished(c)
    BY <1>1, Becomes DEF Finish, TypeInv
<1>5. \A b \in req[c].batch : clock[b[1]] = "past"
    BY DEF SagaInv, Releasing
<1>6. Releasing(c)'
    BY <1>2, <1>3, <1>4, <1>5 DEF Releasing, UndoneBy, At
<1> QED
    BY <1>1, <1>3, <1>6, SameClaims, QuietSettles DEF Hand, Finish

LEMMA SameDocs ==
    ASSUME checkouts' = checkouts
    PROVE  \A id \in Checkouts : DocSettles(id) /\ \A s : Named(id, s)' = Named(id, s)
BY DEF DocSettles, Named

(* A request that had nothing in hand ends without a write.                *)
LEMMA Refused ==
    ASSUME TypeInv, SagaInv, NEW c \in Clients, req[c] # Idle, Finish(c),
           ~ Saga(req[c]), req[c].pc # "compensate",
           UNCHANGED <<checkouts, clock, claims, failures>>
    PROVE  Settles /\ HandsOver
<1>1. Settles /\ \A id : Hand(Finished(c), id) = {}
    BY SameDocs, EndSettles
<1>2. Finished(c) \in Request /\ \A id : Hand(req[c], id) = {}
    BY FinishedShape DEF TypeInv, Hand
<1>3. \A id \in Checkouts, s \in Skus :
          IsHeld(id, s)' = IsHeld(id, s) /\ Named(id, s)' = Named(id, s)
    BY DEF IsHeld, Named
<1>4. HandsOver
    BY <1>1, <1>2, <1>3, Passes DEF Finish, TypeInv
<1> QED
    BY <1>1, <1>4

-----------------------------------------------------------------------------
(* Updates of a document. *)

LEMMA MovedSettles ==
    ASSUME TypeOK, NEW id \in Checkouts, checkouts[id].status \in Statuses,
           NEW to \in Statuses, checkouts' = Moved(id, to),
           \/ to = checkouts[id].status
           \/ checkouts[id].status \in Active /\ to \in Closed
           \/ checkouts[id].status = "ready" /\ to = "completed"
    PROVE  /\ \A x \in Checkouts : DocSettles(x)
           /\ \A x \in Checkouts \ {id} : checkouts'[x] = checkouts[x]
           /\ checkouts'[id].status = to
           /\ checkouts'[id].refs = checkouts[id].refs
<1>1. /\ Moved(id, to)[id].status = to
      /\ \A x \in Checkouts \ {id} : Moved(id, to)[x] = checkouts[x]
    BY ONLY MovedShape, TypeOK, id \in Checkouts, to \in Statuses,
            checkouts[id].status \in Statuses
<1>2. checkouts[id] \in CheckoutRecord
    BY DocShape
<1>3. /\ Moved(id, to)[id].items = checkouts[id].items
      /\ Moved(id, to)[id].refs = checkouts[id].refs
    BY <1>2 DEF Moved, TypeOK, CheckoutRecord
<1>4. DocSettles(id)
    BY <1>1, <1>3 DEF DocSettles
<1>5. \A x \in Checkouts \ {id} : DocSettles(x)
    BY <1>1 DEF DocSettles
<1> QED
    BY <1>1, <1>3, <1>4, <1>5

(* A request that had nothing in hand writes and ends.                     *)
LEMMA Written ==
    ASSUME TypeInv, SagaInv, NEW c \in Clients, req[c] # Idle, Finish(c),
           ~ Saga(req[c]), req[c].pc # "compensate",
           UNCHANGED <<clock, claims, failures>>,
           NEW id \in Checkouts, checkouts[id].status \in Statuses,
           NEW to \in Statuses, checkouts' = Moved(id, to),
           to = "cancelled" => checkouts[id].status = "cancelled",
           \/ to = checkouts[id].status
           \/ checkouts[id].status \in Active /\ to \in Closed
           \/ checkouts[id].status = "ready" /\ to = "completed"
    PROVE  Settles /\ HandsOver
<1>1. /\ \A x \in Checkouts : DocSettles(x)
      /\ \A x \in Checkouts \ {id} : checkouts'[x] = checkouts[x]
      /\ checkouts'[id].status = to
      /\ checkouts'[id].refs = checkouts[id].refs
    BY MovedSettles DEF TypeInv
<1>2. Settles /\ \A x : Hand(Finished(c), x) = {}
    BY <1>1, EndSettles
<1>3. Finished(c) \in Request /\ \A x : Hand(req[c], x) = {}
    BY FinishedShape DEF TypeInv, Hand
<1>4. \A x \in Checkouts, s \in Skus :
          IsHeld(x, s)' = IsHeld(x, s) /\ (Named(x, s) => Named(x, s)')
    BY <1>1 DEF IsHeld, Named
<1>5. HandsOver
    BY <1>2, <1>3, <1>4, Passes DEF Finish, TypeInv
<1> QED
    BY <1>2, <1>5

LEMMA ExpireSettles ==
    ASSUME TypeInv, SagaInv, NEW c \in Clients, Expire(c)
    PROVE  Settles /\ HandsOver
<1> DEFINE id == req[c].id
<1>1. /\ id \in Checkouts /\ req[c] # Idle /\ ~ Saga(req[c])
      /\ req[c].pc # "compensate"
    BY WriterKnows DEF Expire, At, CallPcs, Saga
<1>2. CASE Matches(id, Active, req[c].version)
  <2>1. /\ checkouts[id].status \in Active /\ checkouts[id].status \in Statuses
        /\ checkouts' = Moved(id, "expired") /\ Finish(c)
        /\ UNCHANGED <<clock, claims, failures>>
    BY <1>2 DEF Expire, Matches, Statuses
  <2>2. "expired" \in Statuses /\ "expired" \in Closed
    BY DEF Statuses, Terminal, Closed
  <2> QED
    BY <1>1, <2>1, <2>2, Written
<1>3. CASE ~ Matches(id, Active, req[c].version)
    BY <1>1, <1>3, Refused DEF Expire
<1> QED
    BY <1>2, <1>3

LEMMA MarkFailedSettles ==
    ASSUME TypeInv, SagaInv, NEW c \in Clients, MarkFailed(c)
    PROVE  Settles /\ HandsOver
<1> DEFINE id == req[c].id
<1>1. /\ id \in Checkouts /\ req[c] # Idle /\ ~ Saga(req[c])
      /\ req[c].pc # "compensate" /\ Knows(req[c], checkouts[id])
    BY WriterKnows DEF MarkFailed, At, CallPcs, Saga, Writes
<1>2. CASE Matches(id, Statuses, req[c].version)
  <2>1. /\ checkouts[id].status \in Active /\ checkouts[id].status \in Statuses
        /\ checkouts' = Moved(id, "failed") /\ Finish(c)
        /\ UNCHANGED <<clock, claims, failures>>
    BY <1>1, <1>2 DEF MarkFailed, Matches, Knows, NoVersion
  <2>2. "failed" \in Statuses /\ "failed" \in Closed
    BY DEF Statuses, Terminal, Closed
  <2> QED
    BY <1>1, <2>1, <2>2, Written
<1>3. CASE ~ Matches(id, Statuses, req[c].version)
    BY <1>1, <1>3, Refused DEF MarkFailed
<1> QED
    BY <1>2, <1>3

LEMMA UpdateSettles ==
    ASSUME TypeInv, SagaInv, NEW c \in Clients, Update(c)
    PROVE  Settles /\ HandsOver
<1> DEFINE id == req[c].id
<1>1. /\ id \in Checkouts /\ req[c] # Idle /\ ~ Saga(req[c])
      /\ req[c].pc # "compensate"
    BY WriterKnows DEF Update, At, CallPcs, Saga
<1>2. CASE Matches(id, Statuses, req[c].version)
  <2>1. /\ checkouts[id].status \in Statuses
        /\ checkouts' = Moved(id, checkouts[id].status) /\ Finish(c)
        /\ UNCHANGED <<clock, claims, failures>>
    BY <1>2 DEF Update, Matches
  <2> QED
    BY <1>1, <2>1, Written
<1>3. CASE ~ Matches(id, Statuses, req[c].version)
    BY <1>1, <1>3, Refused DEF Update
<1> QED
    BY <1>2, <1>3

LEMMA CompleteSettles ==
    ASSUME TypeInv, SagaInv, NEW c \in Clients, Complete(c)
    PROVE  Settles /\ HandsOver
<1> DEFINE id == req[c].id
<1>1. /\ id \in Checkouts /\ req[c] # Idle /\ ~ Saga(req[c])
      /\ req[c].pc # "compensate"
    BY WriterKnows DEF Complete, At, CallPcs, Saga
<1>2. CASE Matches(id, {"ready"}, req[c].version)
  <2>1. /\ checkouts[id].status = "ready" /\ checkouts[id].status \in Statuses
        /\ checkouts' = Moved(id, "completed") /\ Finish(c)
        /\ UNCHANGED <<clock, claims, failures>>
    BY <1>2 DEF Complete, Matches, Statuses, Active
  <2>2. "completed" \in Statuses
    BY DEF Statuses, Terminal
  <2> QED
    BY <1>1, <2>1, <2>2, Written
<1>3. CASE ~ Matches(id, {"ready"}, req[c].version)
    BY <1>1, <1>3, Refused DEF Complete
<1> QED
    BY <1>2, <1>3

(* A request that comes to release what is left of its lines.              *)
LEMMA CompensatingHand ==
    ASSUME NEW q \in Call, NEW left \in SUBSET Skus,
           NEW after \in {"finish", "mark_failed", "expire"}
    PROVE  LET r == Compensating(q, left, after) IN
           /\ r \in Request /\ ~ Saga(r) /\ r.pc # "reserve_begin"
           /\ r # Idle => r.id = q.id /\ r.batch = q.batch
           /\ \A id : Hand(r, id) = IF id = q.id THEN left ELSE {}
<1>1. CASE left # {}
  <2>1. Compensating(q, left, after) =
            [q EXCEPT !.pc = "compensate", !.todo = left, !.after = after]
    BY <1>1 DEF Compensating
  <2>2. Compensating(q, left, after) \in Call
    BY <2>1 DEF Call
  <2> QED
    BY <2>1, <2>2 DEF Call, Saga, Hand, Request
<1>2. CASE left = {} /\ after # "finish"
  <2>1. Compensating(q, left, after) =
            [q EXCEPT !.pc = after, !.todo = left, !.after = "finish"]
    BY <1>2 DEF Compensating
  <2>2. Compensating(q, left, after) \in Call
    BY <1>2, <2>1 DEF Call
  <2> QED
    BY <1>2, <2>1, <2>2 DEF Call, Saga, Hand, Request
<1>3. CASE left = {} /\ after = "finish"
    BY <1>3 DEF Compensating, Idle, Saga, Hand, Request
<1> QED
    BY <1>1, <1>2, <1>3

LEMMA CompensatingReleases ==
    ASSUME TypeInv, NEW c \in Clients, NEW q \in Call, NEW left \in SUBSET Skus,
           NEW after \in {"finish", "mark_failed", "expire"},
           Become(c, Compensating(q, left, after)),
           NEW id \in Checkouts, q.id = id,
           clock'[id] = "past" \/ Stopped(id)',
           \A b \in q.batch : clock'[b[1]] = "past"
    PROVE  Releasing(c)'
<1> DEFINE r == Compensating(q, left, after)
<1>1. /\ r \in Request /\ r.pc # "reserve_begin"
      /\ r # Idle => r.id = q.id /\ r.batch = q.batch
    BY CompensatingHand
<1> HIDE DEF r
<1>2. req'[c] = r
    BY <1>1, Becomes DEF r, TypeInv
<1>3. \A x \in Checkouts : UndoneBy(c, x)' => x = id
    BY <1>1, <1>2 DEF UndoneBy, Idle
<1>4. \A x \in Checkouts : UndoneBy(c, x)' => clock'[x] = "past" \/ Stopped(x)'
    BY <1>3 DEF Stopped, SagaOn
<1> QED
    BY <1>1, <1>2, <1>4 DEF Releasing, At

(* What it found in the references is now in its hands.                    *)
LEMMA CancelSettles ==
    ASSUME TypeInv, SagaInv, NEW c \in Clients, Cancel(c)
    PROVE  Settles /\ HandsOver
<1>1. /\ req[c] \in Call /\ req[c].id \in Checkouts /\ req[c] # Idle
      /\ ~ Saga(req[c]) /\ req[c].pc # "compensate"
    BY WriterKnows DEF Cancel, At, CallPcs, Saga
<1>2. PICK id \in Checkouts : id = req[c].id
    BY <1>1
<1>3. CASE Matches(id, Active, req[c].version)
  <2>1. /\ checkouts[id].status \in Active /\ checkouts' = Moved(id, "cancelled")
        /\ Become(c, Compensating(req[c], checkouts[id].refs, "finish"))
        /\ UNCHANGED <<clock, claims, failures>>
    BY <1>2, <1>3 DEF Cancel, Matches
  <2>2. PICK q \in Call : q = req[c]
    BY <1>1
  <2>3. checkouts[id].status \in Statuses
    BY <2>1 DEF Statuses
  <2>4. PICK refs \in SUBSET Skus : refs = checkouts[id].refs
    BY <2>3, DocShape DEF CheckoutRecord, TypeInv
  <2> DEFINE r == Compensating(q, refs, "finish")
  <2>5. /\ r \in Request /\ ~ Saga(r)
        /\ \A x : Hand(r, x) = IF x = q.id THEN refs ELSE {}
    BY CompensatingHand
  <2>6. "cancelled" \in Statuses /\ "cancelled" \in Closed
    BY DEF Statuses, Terminal, Closed
  <2>7. /\ \A x \in Checkouts : DocSettles(x)
        /\ \A x \in Checkouts \ {id} : checkouts'[x] = checkouts[x]
        /\ checkouts'[id].status = "cancelled"
    BY <2>1, <2>3, <2>6, MovedSettles DEF TypeInv
  <2>8. Become(c, r)
    BY <2>1, <2>2, <2>4
  <2>9. Stopped(id)' /\ \A b \in q.batch : clock'[b[1]] = "past"
    BY <1>1, <2>1, <2>2, <2>6, <2>7 DEF Stopped, SagaInv, Releasing
  <2>10. Releasing(c)'
    BY <1>2, <2>2, <2>8, <2>9, CompensatingReleases
  <2> HIDE DEF r
  <2>11. Settles
    BY <2>1, <2>5, <2>7, <2>8, <2>10, SameClaims, QuietSettles
  <2>12. ASSUME NEW x \in Checkouts, NEW s \in Skus, Named(x, s)
         PROVE  Named(x, s)' \/ s \in Hand(r, x)
    <3>1. CASE x = id
      BY <1>2, <2>2, <2>4, <2>5, <2>12, <3>1 DEF Named
    <3>2. CASE x # id
      BY <2>7, <2>12, <3>2 DEF Named
    <3> QED
      BY <3>1, <3>2
  <2>13. \A x : Hand(req[c], x) = {}
    BY <1>1 DEF Hand
  <2>14. \A x \in Checkouts, s \in Skus : IsHeld(x, s)' = IsHeld(x, s)
    BY <2>1 DEF IsHeld
  <2>15. HandsOver
    BY <2>1, <2>5, <2>8, <2>12, <2>13, <2>14, Passes DEF TypeInv
  <2> QED
    BY <2>11, <2>15
<1>4. CASE ~ Matches(id, Active, req[c].version)
    BY <1>1, <1>2, <1>4, Refused DEF Cancel
<1> QED
    BY <1>3, <1>4

-----------------------------------------------------------------------------
(* Steps that change a request only. *)

LEMMA Quiet ==
    ASSUME TypeInv, SagaInv, NEW c \in Clients, NEW r \in Request,
           Become(c, r), ~ Saga(r), Releasing(c)',
           UNCHANGED <<checkouts, clock, claims>>, failures' = 0 => failures = 0,
           \A id \in Checkouts :
              failures' = 0 => Hand(req[c], id) \subseteq Hand(r, id)
    PROVE  Settles /\ HandsOver
<1>1. Settles
    BY SameDocs, SameClaims, QuietSettles
<1>2. \A id \in Checkouts, s \in Skus :
          IsHeld(id, s)' = IsHeld(id, s) /\ Named(id, s)' = Named(id, s)
    BY DEF IsHeld, Named
<1>3. HandsOver
    BY <1>2, Passes DEF TypeInv
<1> QED
    BY <1>1, <1>3

LEMMA IdleHand ==
    ASSUME NEW c, req[c].pc = "idle"
    PROVE  \A id : Hand(req[c], id) = {}
BY DEF Hand, Saga

(* An operation begins with a call that is neither part of a saga nor a    *)
(* release.                                                                *)
LEMMA BeginSettles ==
    ASSUME TypeInv, SagaInv, NEW c \in Clients, At(c, "idle"),
           NEW id \in Checkouts, NEW v \in Nat \cup {NoVersion},
           NEW pc \in {"mark_failed", "reserve_begin", "cancel", "update", "complete"},
           Become(c, NewCall(pc, id, v)),
           UNCHANGED <<checkouts, clock, claims, failures>>
    PROVE  Settles /\ HandsOver
<1> DEFINE r == NewCall(pc, id, v)
<1>1. /\ r \in Request /\ ~ Saga(r) /\ r.pc # "compensate"
      /\ r.batch = {} /\ r.made = {}
    BY NewCallShape DEF CallPcs, Request, NewCall, Saga
<1> HIDE DEF r
<1>2. req'[c] = r
    BY <1>1, Becomes DEF TypeInv, r
<1>3. Releasing(c)'
    BY <1>1, <1>2 DEF Releasing, UndoneBy, At
<1>4. \A x : Hand(req[c], x) = {}
    BY IdleHand DEF At
<1> QED
    BY <1>1, <1>3, <1>4, Quiet DEF r

LEMMA ArrivesSettles ==
    ASSUME TypeInv, SagaInv, NEW c \in Requests, NEW id \in Checkouts,
           Arrives(c, id)
    PROVE  Settles /\ HandsOver
<1> c \in Clients
    BY DEF Clients
<1>1. IsActive(id) \/ checkouts[id].status = "ready" =>
          checkouts[id] \in CheckoutRecord /\ checkouts[id].version \in Nat
    BY DocShape DEF IsActive, Active, Statuses, CheckoutRecord, TypeInv
<1>2. CASE ExpireStart(c, id)
  <2>1. PICK refs \in SUBSET Skus : refs = checkouts[id].refs
    BY <1>1, <1>2 DEF ExpireStart, CheckoutRecord
  <2>2. NewCall("expire", id, NoVersion) \in Call
    BY NewCallShape DEF CallPcs
  <2>3. PICK q \in Call : q = NewCall("expire", id, NoVersion)
    BY <2>2
  <2> DEFINE r == Compensating(q, refs, "expire")
  <2>4. q.id = id /\ q.batch = {}
    BY <2>3 DEF NewCall
  <2>5. r \in Request /\ ~ Saga(r)
    BY CompensatingHand
  <2>6. /\ Become(c, r) /\ clock[id] = "past"
        /\ UNCHANGED <<checkouts, clock, claims, failures>>
    BY <1>2, <2>1, <2>3 DEF ExpireStart
  <2>7. Releasing(c)'
    BY <2>4, <2>6, CompensatingReleases
  <2>8. \A x : Hand(req[c], x) = {}
    BY <1>2, IdleHand DEF ExpireStart, At
  <2> HIDE DEF r
  <2> QED
    BY <2>5, <2>6, <2>7, <2>8, Quiet
<1>3. CASE ValidateStart(c, id)
    BY <1>1, <1>3, BeginSettles DEF ValidateStart, IsLive
<1>4. CASE ReserveStart(c, id)
    BY <1>1, <1>4, BeginSettles DEF ReserveStart, IsLive
<1>5. CASE \E v \in 0 .. MaxUpdates + 3 : CancelStart(c, id, v)
    BY <1>5, BeginSettles, CheckoutAssumption DEF CancelStart
<1>6. CASE \E v \in 0 .. MaxUpdates - 1 : UpdateStart(c, id, v)
    BY <1>6, BeginSettles, CheckoutAssumption DEF UpdateStart
<1>7. CASE OrderStart(c, id)
    BY <1>1, <1>7, BeginSettles DEF OrderStart
<1> QED
    BY <1>2, <1>3, <1>4, <1>5, <1>6, <1>7 DEF Arrives

LEMMA SweepStartSettles ==
    ASSUME TypeInv, SagaInv, NEW c \in Sweeps, SweepStart(c)
    PROVE  Settles /\ HandsOver
<1> c \in Clients
    BY DEF Clients
<1>1. PICK found \in SUBSET Due :
          Become(c, Resume({<<id, checkouts[id].refs>> : id \in found}))
    BY DEF SweepStart
<1> DEFINE batch == {<<id, checkouts[id].refs>> : id \in found}
           r == Resume(batch)
<1>2. \A id \in found : checkouts[id].refs \in SUBSET Skus /\ id \in Checkouts
    BY ActiveDoc DEF Due, CheckoutRecord, TypeInv
<1>3. batch \in SUBSET (Checkouts \X SUBSET Skus)
    BY <1>2
<1>4. \A b \in batch : clock[b[1]] = "past"
    BY DEF Due
<1> HIDE DEF batch
<1>5. r = Idle \/ r = [pc |-> "sweep", batch |-> batch]
    BY DEF Resume
<1>6. /\ r \in Request /\ ~ Saga(r)
      /\ r.pc # "compensate" /\ r.pc # "reserve_begin"
    BY <1>3, <1>5 DEF Request, Sweep, Saga, Idle
<1>7. Become(c, r)
    BY <1>1 DEF batch
<1> HIDE DEF r
<1>8. req'[c] = r
    BY <1>6, <1>7, Becomes DEF TypeInv
<1>9. Releasing(c)'
    BY <1>4, <1>5, <1>6, <1>8 DEF Releasing, UndoneBy, SweepStart, At
<1>10. \A x : Hand(req[c], x) = {}
    BY IdleHand DEF SweepStart, At
<1> QED
    BY <1>6, <1>7, <1>9, <1>10, Quiet DEF SweepStart

LEMMA SweepNextSettles ==
    ASSUME TypeInv, SagaInv, NEW c \in Clients, SweepNext(c)
    PROVE  Settles /\ HandsOver
<1>1. /\ req[c].batch \in SUBSET (Checkouts \X SUBSET Skus)
      /\ req[c] # Idle
    BY RequestShape DEF SweepNext, At, TypeInv, Sweep, Idle
<1>2. PICK next \in req[c].batch :
          Become(c, Compensating([NewCall("expire", next[1], NoVersion)
                                     EXCEPT !.batch = req[c].batch \ {next}],
                                 next[2], "expire"))
    BY DEF SweepNext
<1>3. PICK id \in Checkouts, refs \in SUBSET Skus : next = <<id, refs>>
    BY <1>1
<1>4. PICK q \in Call : q = [NewCall("expire", id, NoVersion)
                                EXCEPT !.batch = req[c].batch \ {next}]
  <2>1. NewCall("expire", id, NoVersion) \in Call
    BY NewCallShape DEF CallPcs
  <2>2. ASSUME NEW x \in Call, NEW b \in SUBSET (Checkouts \X SUBSET Skus)
        PROVE  [x EXCEPT !.batch = b] \in Call
    BY DEF Call
  <2> QED
    BY <1>1, <2>1, <2>2
<1> DEFINE r == Compensating(q, refs, "expire")
<1>5. q.id = id /\ q.batch \subseteq req[c].batch
    BY <1>4 DEF NewCall
<1>6. r \in Request /\ ~ Saga(r)
    BY CompensatingHand
<1>7. Become(c, r) /\ UNCHANGED <<checkouts, clock, claims, failures>>
    BY <1>2, <1>3, <1>4 DEF SweepNext
<1>8. clock[id] = "past" /\ \A b \in q.batch : clock[b[1]] = "past"
    BY <1>1, <1>3, <1>5 DEF SagaInv, Releasing
<1>9. Releasing(c)'
    BY <1>5, <1>7, <1>8, CompensatingReleases
<1>10. \A x : Hand(req[c], x) = {}
    BY DEF SweepNext, At, Hand, Saga
<1> HIDE DEF r
<1> QED
    BY <1>6, <1>7, <1>9, <1>10, Quiet

LEMMA CrashSettles ==
    ASSUME TypeInv, SagaInv, NEW c \in Clients, Crash(c)
    PROVE  Settles /\ HandsOver
<1>1. Idle \in Request /\ ~ Saga(Idle)
    BY IdleShape DEF Saga, Idle
<1>2. req'[c] = Idle
    BY <1>1, Becomes DEF Crash, TypeInv
<1>3. Releasing(c)'
    BY <1>2 DEF Releasing, UndoneBy, Idle, At
<1>4. failures' # 0
    BY DEF Crash, Fail, TypeInv, TypeOK
<1> QED
    BY <1>1, <1>3, <1>4, Quiet DEF Crash

LEMMA SweepItemThrowsSettles ==
    ASSUME TypeInv, SagaInv, NEW c \in Clients, SweepItemThrows(c)
    PROVE  Settles /\ HandsOver
<1>1. failures' # 0
    BY DEF SweepItemThrows, Fail, TypeInv, TypeOK
<1>2. req[c] # Idle
    BY DEF SweepItemThrows, At, Idle
<1>3. Settles
    BY <1>2, SameDocs, EndSettles DEF SweepItemThrows
<1> QED
    BY <1>1, <1>3 DEF HandsOver

-----------------------------------------------------------------------------
(* Releasing. *)

(* A saga gives up: what it has made is in its hands, to be released, and  *)
(* the checkout will not become ready any more.                            *)
LEMMA GiveUpSettles ==
    ASSUME TypeInv, SagaInv, NEW c \in Clients, Saga(req[c]),
           NEW after \in {"finish", "mark_failed"},
           Become(c, Compensating(req[c], req[c].made, after)),
           UNCHANGED <<checkouts, clock>>,
           failures' = 0 => failures = 0 /\ claims' = claims,
           \A x \in Checkouts, s \in Skus :
              claims'[<<x, s>>] = claims[<<x, s>>] \/
                 (x = req[c].id /\ claims[<<x, s>>] = Service!NoClaim)
    PROVE  Settles /\ HandsOver
<1>1. req[c] \in Call
    BY WriterKnows DEF Saga, CallPcs
<1>2. PICK q \in Call : q = req[c]
    BY <1>1
<1>3. PICK id \in Checkouts, made \in SUBSET Skus : id = q.id /\ made = q.made
    BY DEF Call
<1> DEFINE r == Compensating(q, made, after)
<1>4. Become(c, Compensating(q, made, after))
    BY <1>2, <1>3
<1>5. /\ r \in Request /\ ~ Saga(r)
      /\ \A x : Hand(r, x) = IF x = q.id THEN made ELSE {}
    BY CompensatingHand
<1> HIDE DEF r
<1>6. /\ Become(c, r) /\ r \in Request /\ ~ Saga(r)
      /\ \A x : Hand(r, x) = IF x = id THEN made ELSE {}
    BY <1>3, <1>4, <1>5 DEF r
<1>7. req'[c] = r /\ \A d \in Clients \ {c} : req'[d] = req[d]
    BY <1>6, Becomes DEF TypeInv
<1>8. SagaOn(c, id) /\ checkouts[id].status \in {"reserved"} \cup Closed
    BY <1>2, <1>3, SagaStatus DEF SagaOn
<1>9. \A d \in Clients : ~ SagaOn(d, id)'
    BY <1>6, <1>7, <1>8 DEF SagaOn, SagaInv, OneSaga
<1>10. Stopped(id)'
    BY <1>8, <1>9 DEF Stopped
<1>11. \A b \in q.batch : clock'[b[1]] = "past"
    BY <1>1, <1>2 DEF SagaInv, Releasing, Call, Idle
<1>12. Releasing(c)'
    BY <1>3, <1>4, <1>10, <1>11, CompensatingReleases
<1>13. \A x \in Checkouts, s \in Skus : ClaimSettles(x, s)
    BY <1>2, <1>3, <1>6, <1>7, <1>8 DEF ClaimSettles
<1>14. Settles
    BY <1>6, <1>12, <1>13, SameDocs, QuietSettles
<1>15. \A x : Hand(req[c], x) \subseteq Hand(r, x)
    BY <1>2, <1>3, <1>6 DEF Hand, Saga
<1>16. HandsOver
    BY <1>6, <1>15, SameDocs, SameClaims, Passes DEF TypeInv
<1> QED
    BY <1>14, <1>16

LEMMA LineThrowsSettles ==
    ASSUME TypeInv, SagaInv, NEW c \in Clients, LineThrows(c)
    PROVE  Settles /\ HandsOver
BY GiveUpSettles DEF LineThrows, At, Saga

LEMMA ReserveThrowsLateSettles ==
    ASSUME TypeInv, SagaInv, NEW c \in Clients, ReserveThrowsLate(c)
    PROVE  Settles /\ HandsOver
<1>1. req[c] \in Call /\ Saga(req[c])
    BY WriterKnows DEF ReserveThrowsLate, At, CallPcs, Saga
<1>2. PICK s \in req[c].todo : Reserve(<<req[c].id, s>>)
    BY DEF ReserveThrowsLate
<1>3. req[c].id \in Checkouts /\ s \in Skus
    BY <1>1 DEF Call
<1>4. \A x \in Checkouts, t \in Skus :
          claims'[<<x, t>>] = claims[<<x, t>>] \/
             (x = req[c].id /\ claims[<<x, t>>] = Service!NoClaim)
    BY <1>2, <1>3 DEF Reserve, Service!Claim, TypeInv, TypeOK, Lines
<1>5. failures' # 0
    BY DEF ReserveThrowsLate, Fail, TypeInv, TypeOK
<1> QED
    BY <1>1, <1>4, <1>5, GiveUpSettles DEF ReserveThrowsLate

(* A request has dealt with one of its lines.                              *)
LEMMA GoOnSettles ==
    ASSUME TypeInv, SagaInv, NEW c \in Clients, At(c, "compensate"),
           NEW s \in req[c].todo,
           LET next == Compensating(req[c], req[c].todo \ {s}, req[c].after) IN
               Become(c, IF next = Idle THEN Finished(c) ELSE next),
           UNCHANGED <<checkouts, clock>>, failures' = 0 => failures = 0,
           \A x \in Checkouts, t \in Skus :
              \/ claims'[<<x, t>>] = claims[<<x, t>>]
              \/ x = req[c].id /\ t = s /\ IsHeld(x, t) /\ ~ IsHeld(x, t)',
           failures' = 0 => claims'[<<req[c].id, s>>].status # "active"
    PROVE  Settles /\ HandsOver
<1>1. req[c] \in Call /\ req[c] # Idle
    BY WriterKnows DEF At, CallPcs
<1>2. PICK q \in Call : q = req[c]
    BY <1>1
<1>3. PICK id \in Checkouts, left \in SUBSET Skus :
          id = q.id /\ left = q.todo \ {s}
    BY DEF Call
<1>4. q.after \in {"finish", "mark_failed", "expire"} /\ s \in Skus
    BY <1>2 DEF Call
<1>5. UndoneBy(c, id) /\ (clock[id] = "past" \/ Stopped(id))
    BY <1>2, <1>3 DEF SagaInv, Releasing, UndoneBy, At
<1> DEFINE next == Compensating(q, left, q.after)
           r == IF next = Idle THEN Finished(c) ELSE next
<1>6. /\ next \in Request /\ ~ Saga(next) /\ next.pc # "reserve_begin"
      /\ next # Idle => next.id = q.id /\ next.batch = q.batch
      /\ \A x : Hand(next, x) = IF x = q.id THEN left ELSE {}
  <2>1. PICK after \in {"finish", "mark_failed", "expire"} : after = q.after
    BY <1>4
  <2>2. LET n == Compensating(q, left, after) IN
        /\ n \in Request /\ ~ Saga(n) /\ n.pc # "reserve_begin"
        /\ n # Idle => n.id = q.id /\ n.batch = q.batch
        /\ \A x : Hand(n, x) = IF x = q.id THEN left ELSE {}
    BY CompensatingHand
  <2> QED
    BY <2>1, <2>2
<1>7. Become(c, r)
    BY <1>2, <1>3
<1> HIDE DEF next
<1>8. /\ Finished(c) \in Request /\ ~ Saga(Finished(c))
      /\ Finished(c).pc # "reserve_begin"
      /\ Finished(c).pc # "compensate" /\ \A x : Hand(Finished(c), x) = {}
      /\ Finished(c) # Idle => Finished(c).batch = q.batch
    BY <1>1, <1>2, FinishedShape
       DEF TypeInv, Finished, Resume, Saga, Hand, Idle
<1>9. /\ r \in Request /\ ~ Saga(r) /\ r.pc # "reserve_begin"
      /\ \A x : Hand(r, x) = IF x = id THEN left ELSE {}
      /\ r # Idle => r.batch = q.batch
      /\ r.pc = "compensate" => r.id = id
  <2>1. CASE next = Idle
    <3>1. \A x : Hand(Idle, x) = {}
      BY DEF Hand, Idle, Saga
    <3> QED
      BY <1>3, <1>6, <1>8, <2>1, <3>1
  <2>2. CASE next # Idle
    BY <1>3, <1>6, <2>2
  <2> QED
    BY <2>1, <2>2
<1> HIDE DEF r
<1>10. req'[c] = r /\ \A d \in Clients \ {c} : req'[d] = req[d]
    BY <1>7, <1>9, Becomes DEF TypeInv
<1>11. Releasing(c)'
  <2>1. Stopped(id) => Stopped(id)'
    BY <1>9, <1>10 DEF Stopped, SagaOn
  <2>2. \A b \in q.batch : clock'[b[1]] = "past"
    BY <1>1, <1>2 DEF SagaInv, Releasing
  <2>3. \A x \in Checkouts : UndoneBy(c, x)' => x = id
    BY <1>9, <1>10 DEF UndoneBy
  <2>4. \A x \in Checkouts : UndoneBy(c, x)' => clock'[x] = "past" \/ Stopped(x)'
    BY <1>5, <2>1, <2>3 DEF Stopped, SagaOn
  <2> QED
    BY <1>9, <1>10, <2>2, <2>4 DEF Releasing, At
<1>12. \A x \in Checkouts, t \in Skus : ClaimSettles(x, t)
  <2>1. clock[id] # "early" \/ Stopped(id)
    BY <1>5
  <2> QED
    BY <1>2, <1>3, <2>1 DEF ClaimSettles
<1>13. Settles
    BY <1>7, <1>9, <1>11, <1>12, SameDocs, QuietSettles
<1>14. ASSUME failures' = 0, NEW x \in Checkouts, NEW t \in Skus, IsHeld(x, t)'
       PROVE  IsHeld(x, t) /\ (t \in Hand(req[c], x) => t \in Hand(r, x))
  <2>1. IsHeld(x, t) /\ ~ (x = id /\ t = s)
    BY <1>2, <1>3, <1>14 DEF IsHeld
  <2>2. Hand(req[c], x) = IF x = id THEN q.todo ELSE {}
    BY <1>2, <1>3, <1>5 DEF Hand, UndoneBy, Saga
  <2> QED
    BY <1>3, <1>9, <2>1, <2>2
<1>15. HandsOver
    BY <1>7, <1>9, <1>14, SameDocs, Passes DEF TypeInv
<1> QED
    BY <1>13, <1>15

(* A reservation that is closed was held, and no other changes.            *)
LEMMA EndIs ==
    ASSUME TypeOK, NEW id \in Checkouts, NEW s \in Skus,
           NEW how \in Service!Ended, Service!End(<<id, s>>, how)
    PROVE  /\ IsHeld(id, s) /\ ~ IsHeld(id, s)'
           /\ \A x \in Checkouts, t \in Skus :
                 (x = id /\ t = s) \/ claims'[<<x, t>>] = claims[<<x, t>>]
<1>1. claims \in [Lines -> ClaimRecords] /\ <<id, s>> \in Lines
    BY DEF TypeOK, ClaimRecords, Lines
<1>2. claims' = [claims EXCEPT ![<<id, s>>].status = how] /\ IsHeld(id, s)
    BY DEF Service!End, IsHeld
<1>3. claims[<<id, s>>] \in ClaimRecords /\ claims[<<id, s>>].status = "active"
    BY <1>1, <1>2 DEF IsHeld
<1>4. [claims[<<id, s>>] EXCEPT !.status = how].status = how
    BY <1>3 DEF ClaimRecords, Service!NoClaim
<1>5. claims'[<<id, s>>].status = how /\ how # "active"
    BY <1>1, <1>2, <1>4 DEF Service!Ended
<1>6. \A l \in Lines \ {<<id, s>>} : claims'[l] = claims[l]
    BY <1>1, <1>2
<1>7. \A x \in Checkouts, t \in Skus : <<x, t>> \in Lines
    BY DEF Lines
<1> QED
    BY <1>2, <1>5, <1>6, <1>7 DEF IsHeld

LEMMA CompensateSettles ==
    ASSUME TypeInv, SagaInv, NEW c \in Clients, Compensate(c)
    PROVE  Settles /\ HandsOver
<1>1. PICK s \in req[c].todo :
          /\ IF claims[<<req[c].id, s>>].status = "active"
             THEN Service!End(<<req[c].id, s>>, "released")
             ELSE UNCHANGED <<supply, claims>>
          /\ LET next == Compensating(req[c], req[c].todo \ {s}, req[c].after) IN
             Become(c, IF next = Idle THEN Finished(c) ELSE next)
    BY DEF Compensate
<1>2. req[c].id \in Checkouts /\ s \in Skus
    BY WriterKnows DEF Compensate, At, CallPcs, Call
<1>3. PICK id \in Checkouts : id = req[c].id
    BY <1>2
<1>4. /\ claims'[<<id, s>>].status # "active"
      /\ \A x \in Checkouts, t \in Skus :
            \/ claims'[<<x, t>>] = claims[<<x, t>>]
            \/ x = id /\ t = s /\ IsHeld(x, t) /\ ~ IsHeld(x, t)'
  <2>1. CASE Service!End(<<id, s>>, "released")
    <3>1. "released" \in Service!Ended
      BY DEF Service!Ended
    <3>2. /\ IsHeld(id, s) /\ ~ IsHeld(id, s)'
          /\ \A x \in Checkouts, t \in Skus :
                (x = id /\ t = s) \/ claims'[<<x, t>>] = claims[<<x, t>>]
      BY <1>2, <2>1, <3>1, EndIs DEF TypeInv
    <3> QED
      BY <3>2 DEF IsHeld
  <2>2. CASE claims[<<id, s>>].status # "active" /\ claims' = claims
    BY <2>2
  <2> QED
    BY <1>1, <1>3, <2>1, <2>2
<1>5. UNCHANGED <<checkouts, clock, failures>> /\ At(c, "compensate")
    BY DEF Compensate
<1> QED
    BY <1>1, <1>3, <1>4, <1>5, GoOnSettles

LEMMA ReleaseThrowsSettles ==
    ASSUME TypeInv, SagaInv, NEW c \in Clients, ReleaseThrows(c)
    PROVE  Settles /\ HandsOver
<1>1. PICK s \in req[c].todo :
          LET next == Compensating(req[c], req[c].todo \ {s}, req[c].after) IN
          Become(c, IF next = Idle THEN Finished(c) ELSE next)
    BY DEF ReleaseThrows
<1>2. failures' # 0
    BY DEF ReleaseThrows, Fail, TypeInv, TypeOK
<1>3. claims' = claims
    BY DEF ReleaseThrows
<1> QED
    BY <1>1, <1>2, <1>3, GoOnSettles DEF ReleaseThrows

-----------------------------------------------------------------------------
(* Steps of no request. *)

LEMMA OutsideSettles ==
    ASSUME TypeInv, SagaInv, UNCHANGED <<checkouts, req, failures>>,
           \A id \in Checkouts : ClockSettles(id),
           \A id \in Checkouts, s \in Skus : ClaimSettles(id, s),
           \A id \in Checkouts, s \in Skus : IsHeld(id, s)' => IsHeld(id, s)
    PROVE  Settles /\ HandsOver
<1>1. Settles
    BY SameDocs DEF Settles
<1>2. \A id \in Checkouts, s \in Skus : Kept(id, s)' = Kept(id, s)
    BY HandIs DEF Kept, Named
<1> QED
    BY <1>1, <1>2 DEF HandsOver

LEMMA TickSettles ==
    ASSUME TypeInv, SagaInv, NEW id \in Checkouts, Tick(id)
    PROVE  Settles /\ HandsOver
<1>1. \A x \in Checkouts : ClockSettles(x)
    BY DEF Tick, ClockSettles, TypeInv, TypeOK
<1> QED
    BY <1>1, SameClaims, OutsideSettles DEF Tick

LEMMA ClaimExpiresSettles ==
    ASSUME TypeInv, SagaInv, NEW id \in Checkouts, NEW s \in Skus,
           ClaimExpires(id, s)
    PROVE  Settles /\ HandsOver
<1>1. \A x \in Checkouts : ClockSettles(x)
    BY DEF ClaimExpires, ClockSettles
<1>2. \A x \in Checkouts, t \in Skus :
          \/ claims'[<<x, t>>] = claims[<<x, t>>]
          \/ x = id /\ t = s /\ IsHeld(x, t) /\ ~ IsHeld(x, t)'
  <2>1. "expired" \in Service!Ended
    BY DEF Service!Ended
  <2>2. /\ IsHeld(id, s) /\ ~ IsHeld(id, s)'
        /\ \A x \in Checkouts, t \in Skus :
              (x = id /\ t = s) \/ claims'[<<x, t>>] = claims[<<x, t>>]
    BY <2>1, EndIs DEF ClaimExpires, TypeInv
  <2> QED
    BY <2>2
<1>3. \A x \in Checkouts, t \in Skus :
          ClaimSettles(x, t) /\ (IsHeld(x, t)' => IsHeld(x, t))
    BY <1>2 DEF ClaimSettles, IsHeld, ClaimExpires
<1> QED
    BY <1>1, <1>3, OutsideSettles DEF ClaimExpires

LEMMA StutterSettles ==
    ASSUME TypeInv, SagaInv, UNCHANGED vars
    PROVE  Settles /\ HandsOver
<1>1. \A x \in Checkouts : ClockSettles(x)
    BY DEF vars, ClockSettles
<1> QED
    BY <1>1, SameClaims, OutsideSettles DEF vars
-----------------------------------------------------------------------------
(* The steps of a saga. *)

(* A step of the only saga of a checkout, which goes on with it, leaves    *)
(* the other checkouts alone and keeps the invariant if its own part of it *)
(* holds.                                                                  *)
LEMMA SagaGoesOn ==
    ASSUME TypeInv, SagaInv, NEW c \in Clients, NEW r \in Call,
           Become(c, r), Saga(r), NEW id \in Checkouts, r.id = id,
           req[c] # Idle, r.batch = req[c].batch, clock' = clock,
           \A x \in Checkouts \ {id} : checkouts'[x] = checkouts[x],
           \A x \in Checkouts \ {id}, s \in Skus :
              claims'[<<x, s>>] = claims[<<x, s>>],
           checkouts'[id].status \in {"reserved"} \cup Closed,
           Stopped(id) => checkouts'[id].status \in Closed,
           \A d \in Clients \ {c} : ~ SagaOn(d, id),
           Reserving(c)'
    PROVE  SagaInv'
<1>1. r \in Request /\ r.pc # "compensate" /\ r.pc # "reserve_begin"
    BY DEF Request, Saga
<1>2. req'[c] = r /\ \A d \in Clients \ {c} : req'[d] = req[d]
    BY <1>1, Becomes DEF TypeInv
<1>3. ASSUME NEW x \in Checkouts, Stopped(x)
      PROVE  Stopped(x)'
  <2>1. CASE x = id
    BY <1>3, <2>1 DEF Stopped
  <2>2. CASE x # id
    BY <1>2, <1>3, <2>2 DEF Stopped, SagaOn
  <2> QED
    BY <2>1, <2>2
<1>4. ASSUME NEW d \in Clients
      PROVE  Releasing(d)'
  <2>1. Releasing(d) /\ Releasing(c)
    BY DEF SagaInv
  <2>2. CASE d = c
    BY <1>1, <1>2, <2>1, <2>2 DEF Releasing, UndoneBy, At
  <2>3. CASE d # c
    <3>1. req'[d] = req[d]
      BY <1>2, <2>3
    <3>2. \A x \in Checkouts : UndoneBy(d, x)' => clock'[x] = "past" \/ Stopped(x)'
      BY <1>3, <2>1, <3>1 DEF Releasing, UndoneBy
    <3> QED
      BY <2>1, <3>1, <3>2 DEF Releasing, At
  <2> QED
    BY <2>2, <2>3
<1>5. ASSUME NEW d \in Clients, d # c
      PROVE  Reserving(d)'
  <2> SUFFICES ASSUME Saga(req'[d]) PROVE Reserving(d)'
    BY DEF Reserving
  <2>1. req'[d] = req[d] /\ Saga(req[d]) /\ Reserving(d)
    BY <1>2, <1>5 DEF SagaInv
  <2>2. /\ req[d].id \in Checkouts
        /\ req[d].made \in SUBSET Skus /\ req[d].todo \in SUBSET Skus
    BY <2>1, RequestShape DEF Saga, CallPcs, Call, TypeInv
  <2>3. req[d].id # id
    BY <1>5, <2>1 DEF SagaOn
  <2>4. /\ checkouts'[req[d].id] = checkouts[req[d].id]
        /\ \A s \in Skus : claims'[<<req[d].id, s>>] = claims[<<req[d].id, s>>]
    BY <2>2, <2>3
  <2> QED
    BY <2>1, <2>2, <2>4 DEF Reserving, IsHeld
<1>6. OneSaga'
  <2>1. \A d \in Clients : SagaOn(d, id)' => d = c
    BY <1>2 DEF SagaOn
  <2>2. \A d, e \in Clients \ {c} :
            Saga(req'[d]) /\ Saga(req'[e]) /\ req'[d].id = req'[e].id => d = e
    BY <1>2 DEF SagaInv, OneSaga
  <2> QED
    BY <1>2, <2>1, <2>2 DEF OneSaga, SagaOn
<1>7. Unbegun'
    BY DEF Unbegun, SagaInv, Closed
<1>8. HoldsUntilDue'
  <2>1. ASSUME NEW x \in Checkouts, checkouts'[x].status \in {"ready", "completed"},
               clock'[x] = "early", NEW s \in checkouts'[x].items
        PROVE  claims'[<<x, s>>].status = "active"
    <3>1. x # id
      BY <2>1 DEF Closed
    <3>2. /\ checkouts[x].status \in {"ready", "completed"}
          /\ s \in checkouts[x].items /\ clock[x] = "early"
      BY <2>1, <3>1
    <3>3. s \in Skus
      BY <3>2, DocShape DEF Statuses, Active, Terminal, CheckoutRecord, TypeInv
    <3> QED
      BY <3>1, <3>2, <3>3 DEF SagaInv, HoldsUntilDue
  <2> QED
    BY <2>1 DEF HoldsUntilDue
<1> QED
    BY <1>4, <1>5, <1>6, <1>7, <1>8 DEF SagaInv

(* A saga's request, and its checkout.                                     *)
LEMMA SagaRequest ==
    ASSUME TypeInv, SagaInv, NEW c \in Clients, Saga(req[c])
    PROVE  \E q \in Call, id \in Checkouts, made \in SUBSET Skus :
              /\ q = req[c] /\ id = q.id /\ made = q.made
              /\ q # Idle /\ q.todo \in SUBSET Skus
              /\ SagaOn(c, id) /\ \A d \in Clients \ {c} : ~ SagaOn(d, id)
              /\ Knows(q, checkouts[id])
              /\ checkouts[id].status \in {"reserved"} \cup Closed
              /\ checkouts[id].status \in Statuses
              /\ Stopped(id) => checkouts[id].status \in Closed
<1>1. PICK q \in Call : q = req[c]
    BY WriterKnows DEF Saga, CallPcs
<1>2. PICK id \in Checkouts, made \in SUBSET Skus :
          id = q.id /\ made = q.made /\ q.todo \in SUBSET Skus
    BY DEF Call
<1>3. q # Idle /\ Knows(q, checkouts[id])
    BY <1>1, <1>2, WriterKnows DEF Saga, CallPcs, Writes
<1>4. SagaOn(c, id) /\ \A d \in Clients \ {c} : ~ SagaOn(d, id)
    BY <1>1, <1>2 DEF SagaOn, SagaInv, OneSaga
<1>5. checkouts[id].status \in {"reserved"} \cup Closed
    BY <1>4, SagaStatus
<1>6. checkouts[id].status \in Statuses
    BY <1>5 DEF Closed, Statuses, Active, Terminal
<1>7. Stopped(id) => checkouts[id].status \in Closed
    BY <1>4 DEF Stopped
<1> QED
    BY <1>1, <1>2, <1>3, <1>4, <1>5, <1>6, <1>7

(* One saga begins, for a checkout that has none and has reserved nothing. *)
LEMMA ReserveBeginKeeps ==
    ASSUME TypeInv, SagaInv, NEW c \in Clients, ReserveBegin(c)
    PROVE  SagaInv' /\ HandsOver
<1>1. PICK q \in Call : q = req[c]
    BY WriterKnows DEF ReserveBegin, At, CallPcs
<1>2. PICK id \in Checkouts : id = q.id
    BY DEF Call
<1>3. /\ q.pc = "reserve_begin" /\ q # Idle /\ Knows(q, checkouts[id])
      /\ UNCHANGED <<clock, claims, failures>>
    BY <1>1, <1>2, WriterKnows DEF ReserveBegin, At, CallPcs, Writes
<1>4. q.made = {}
    BY <1>1, <1>3 DEF SagaInv, Releasing, At
<1>5. CASE Matches(id, {"priced"}, q.version)
  <2>1. /\ checkouts[id].status = "priced" /\ checkouts[id].status \in Statuses
        /\ checkouts[id] \in CheckoutRecord /\ q.version \in Nat
    BY <1>3, <1>5 DEF Matches, Knows, Statuses, Active
  <2>2. PICK items \in SUBSET Skus, n \in Nat :
            items = checkouts[id].items /\ n = q.version + 1
    BY <2>1 DEF CheckoutRecord
  <2>3. PICK r \in Call :
            /\ r = [q EXCEPT !.pc = "reserve_line", !.version = n, !.todo = items]
            /\ r.pc = "reserve_line" /\ r.id = id /\ r.batch = q.batch
            /\ r.made = {} /\ r.todo = items
    <3> DEFINE r == [q EXCEPT !.pc = "reserve_line", !.version = n, !.todo = items]
    <3>1. /\ r \in Call /\ r.pc = "reserve_line" /\ r.id = q.id
          /\ r.batch = q.batch /\ r.made = q.made /\ r.todo = items
      BY DEF Call
    <3> QED
      BY <1>2, <1>4, <3>1
  <2>4. Become(c, r) /\ checkouts' = Moved(id, "reserved")
    BY <1>1, <1>2, <1>5, <2>2, <2>3 DEF ReserveBegin
  <2>5. "reserved" \in Statuses
    BY DEF Statuses, Active
  <2>6. /\ checkouts'[id].status = "reserved"
        /\ \A x \in Checkouts \ {id} : checkouts'[x] = checkouts[x]
    BY <2>1, <2>4, <2>5, MovedShape DEF TypeInv
  <2>7. checkouts'[id].items = items /\ checkouts'[id].refs = checkouts[id].refs
    BY <2>1, <2>2, <2>4 DEF Moved, TypeInv, TypeOK, CheckoutRecord
  <2>8. /\ \A s \in Skus : claims[<<id, s>>] = Service!NoClaim
        /\ checkouts[id].refs = {}
    BY <2>1 DEF SagaInv, Unbegun
  <2>9. \A d \in Clients : ~ SagaOn(d, id)
    BY <2>1, SagaStatus DEF Closed
  <2>10. ~ Stopped(id)
    BY <2>1 DEF Stopped, Closed
  <2>11. r \in Request /\ Saga(r)
    BY <2>3 DEF Request, Saga
  <2>12. req'[c] = r
    BY <2>4, <2>11, Becomes DEF TypeInv
  <2>13. Reserving(c)'
    BY <1>3, <2>3, <2>6, <2>7, <2>8, <2>12 DEF Reserving
  <2>14. SagaInv'
    BY <1>1, <1>3, <2>3, <2>4, <2>6, <2>9, <2>10, <2>11, <2>13, SagaGoesOn
  <2>15. \A x \in Checkouts : Hand(req[c], x) = {}
    BY <1>1, <1>3 DEF Hand, Saga
  <2>16. ASSUME NEW x \in Checkouts, NEW s \in Skus, IsHeld(x, s)'
         PROVE  IsHeld(x, s) /\ (Named(x, s) => Named(x, s)')
    <3>1. IsHeld(x, s)
      BY <1>3, <2>16 DEF IsHeld
    <3>2. x # id
      BY <2>8, <3>1, HeldOnce
    <3> QED
      BY <2>6, <3>1, <3>2 DEF Named
  <2>17. HandsOver
    BY <1>3, <2>4, <2>11, <2>15, <2>16, Passes DEF TypeInv
  <2> QED
    BY <2>14, <2>17
<1>6. CASE ~ Matches(id, {"priced"}, q.version)
  <2>1. Finish(c) /\ UNCHANGED checkouts /\ ~ Saga(q)
    BY <1>1, <1>2, <1>3, <1>6 DEF ReserveBegin, Saga
  <2>2. Settles /\ HandsOver
    BY <1>1, <1>3, <2>1, Refused
  <2> QED
    BY <2>2, SettleKeeps DEF TypeInv
<1> QED
    BY <1>5, <1>6

(* One more line is reserved by its own saga.                              *)
LEMMA ReserveLineKeeps ==
    ASSUME TypeInv, SagaInv, NEW c \in Clients, ReserveLine(c)
    PROVE  SagaInv' /\ HandsOver
<1>1. req[c].pc = "reserve_line" /\ Saga(req[c])
    BY DEF ReserveLine, At, Saga
<1>2. PICK q \in Call, id \in Checkouts, made \in SUBSET Skus :
          /\ q = req[c] /\ id = q.id /\ made = q.made
          /\ q # Idle /\ q.todo \in SUBSET Skus
          /\ SagaOn(c, id) /\ \A d \in Clients \ {c} : ~ SagaOn(d, id)
          /\ checkouts[id].status \in {"reserved"} \cup Closed
          /\ Stopped(id) => checkouts[id].status \in Closed
    BY <1>1, SagaRequest
<1>3. PICK s \in q.todo :
          /\ Reserve(<<id, s>>)
          /\ Become(c, [q EXCEPT
                 !.pc = IF q.todo = {s} THEN "set_refs" ELSE @,
                 !.made = @ \cup {s}, !.todo = @ \ {s}])
    BY <1>2 DEF ReserveLine
<1> DEFINE pc == IF q.todo = {s} THEN "set_refs" ELSE "reserve_line"
           r == [q EXCEPT !.pc = pc, !.made = @ \cup {s}, !.todo = @ \ {s}]
<1>4. pc \in {"set_refs", "reserve_line"} /\ s \in Skus
    BY <1>2
<1>5. Become(c, r)
    BY <1>1, <1>2, <1>3
<1>6. pc = "set_refs" => q.todo = {s}
    OBVIOUS
<1> HIDE DEF pc
<1>7. /\ r \in Call /\ r.pc = pc /\ r.id = id /\ r.batch = q.batch
      /\ r.made = made \cup {s} /\ r.todo = q.todo \ {s}
    BY <1>2, <1>4 DEF Call
<1> HIDE DEF r
<1>8. r \in Request /\ Saga(r)
    BY <1>4, <1>7 DEF Request, Saga
<1>9. req'[c] = r
    BY <1>5, <1>8, Becomes DEF TypeInv
<1>10. UNCHANGED <<checkouts, clock, failures>>
    BY DEF ReserveLine
<1>11. /\ checkouts[id].refs = {}
       /\ checkouts[id].items \subseteq made \cup q.todo
       /\ \A t \in q.todo : claims[<<id, t>>] = Service!NoClaim
       /\ clock[id] = "early" /\ checkouts[id].status = "reserved" =>
             \A t \in made : IsHeld(id, t)
    BY <1>1, <1>2 DEF SagaInv, Reserving
<1>12. /\ IsHeld(id, s)'
       /\ \A x \in Checkouts, t \in Skus :
             (x = id /\ t = s) \/ claims'[<<x, t>>] = claims[<<x, t>>]
  <2>1. claims' = [claims EXCEPT ![<<id, s>>] =
                      [status |-> "active", sku |-> s, qty |-> 1]]
    BY <1>3, <1>11 DEF Reserve, Service!Claim
  <2>2. claims \in [Lines -> ClaimRecords] /\ <<id, s>> \in Lines
    BY <1>4 DEF TypeInv, TypeOK, ClaimRecords, Lines
  <2>3. claims'[<<id, s>>].status = "active"
    BY <2>1, <2>2
  <2>4. \A l \in Lines \ {<<id, s>>} : claims'[l] = claims[l]
    BY <2>1, <2>2
  <2>5. \A x \in Checkouts, t \in Skus : <<x, t>> \in Lines
    BY DEF Lines
  <2> QED
    BY <2>3, <2>4, <2>5 DEF IsHeld
<1>13. Reserving(c)'
  <2>1. \A t \in r.todo : claims'[<<id, t>>] = Service!NoClaim
    BY <1>2, <1>7, <1>11, <1>12
  <2>2. clock[id] = "early" /\ checkouts[id].status = "reserved" =>
            \A t \in r.made : IsHeld(id, t)'
    BY <1>2, <1>7, <1>11, <1>12 DEF IsHeld
  <2>3. checkouts[id].items \subseteq r.made \cup r.todo
    BY <1>7, <1>11
  <2>4. r.pc = "set_refs" => checkouts[id].items \subseteq r.made
    BY <1>6, <1>7, <2>3
  <2> QED
    BY <1>2, <1>4, <1>7, <1>9, <1>10, <1>11, <2>1, <2>2, <2>3, <2>4
       DEF Reserving, IsHeld
<1>14. SagaInv'
  <2>1. \A x \in Checkouts \ {id}, t \in Skus : claims'[<<x, t>>] = claims[<<x, t>>]
    BY <1>12
  <2> QED
    BY <1>2, <1>5, <1>7, <1>8, <1>10, <1>13, <2>1, SagaGoesOn
<1>15. ASSUME NEW x \in Checkouts, NEW t \in Skus, IsHeld(x, t)'
       PROVE  /\ IsHeld(x, t) \/ t \in Hand(r, x)
              /\ Named(x, t)' = Named(x, t)
              /\ t \in Hand(req[c], x) => t \in Hand(r, x)
  <2>1. /\ Hand(req[c], x) = IF x = id THEN made ELSE {}
        /\ Hand(r, x) = IF x = id THEN made \cup {s} ELSE {}
    BY <1>1, <1>2, <1>7, <1>8 DEF Hand, Saga
  <2> QED
    BY <1>10, <1>12, <1>15, <2>1 DEF IsHeld, Named
<1>16. HandsOver
    BY <1>5, <1>8, <1>10, <1>15, Passes DEF TypeInv
<1> QED
    BY <1>14, <1>16

(* A saga writes the references, and still has its lines in hand.          *)
LEMMA SetRefsKeeps ==
    ASSUME TypeInv, SagaInv, NEW c \in Clients, SetRefs(c)
    PROVE  SagaInv' /\ HandsOver
<1>1. req[c].pc = "set_refs" /\ Saga(req[c])
    BY DEF SetRefs, At, Saga
<1>2. PICK q \in Call, id \in Checkouts, made \in SUBSET Skus :
          /\ q = req[c] /\ id = q.id /\ made = q.made
          /\ q # Idle /\ q.todo \in SUBSET Skus
          /\ SagaOn(c, id) /\ \A d \in Clients \ {c} : ~ SagaOn(d, id)
          /\ Knows(q, checkouts[id])
          /\ checkouts[id].status \in {"reserved"} \cup Closed
          /\ checkouts[id].status \in Statuses
          /\ Stopped(id) => checkouts[id].status \in Closed
    BY <1>1, SagaRequest
<1>3. UNCHANGED <<clock, claims, failures>>
    BY DEF SetRefs
<1>4. CASE Matches(id, Statuses, q.version)
  <2>1. q.version \in Nat /\ checkouts[id] \in CheckoutRecord
    BY <1>2 DEF Knows
  <2>2. PICK n \in Nat : n = q.version + 1
    BY <2>1
  <2> DEFINE r == [q EXCEPT !.pc = "make_ready", !.version = n]
             m == Moved(id, checkouts[id].status)
  <2>3. Become(c, r) /\ checkouts' = [m EXCEPT ![id].refs = made]
    BY <1>2, <1>4, <2>2 DEF SetRefs
  <2>4. /\ r \in Call /\ r.pc = "make_ready" /\ r.id = id /\ r.batch = q.batch
        /\ r.made = made
    BY <1>2 DEF Call
  <2> HIDE DEF r
  <2>5. r \in Request /\ Saga(r)
    BY <2>4 DEF Request, Saga
  <2>6. req'[c] = r
    BY <2>3, <2>5, Becomes DEF TypeInv
  <2>7. /\ m \in [Checkouts -> Docs] /\ m[id] \in CheckoutRecord
        /\ m[id].status = checkouts[id].status
        /\ \A x \in Checkouts \ {id} : m[x] = checkouts[x]
    BY <1>2, MovedShape DEF TypeInv
  <2>8. m[id].items = checkouts[id].items
    BY <2>1 DEF Moved, TypeInv, TypeOK, CheckoutRecord
  <2> HIDE DEF m
  <2>9. checkouts'[id] = [m[id] EXCEPT !.refs = made]
    BY <2>3, <2>7
  <2>10. /\ checkouts'[id].status = checkouts[id].status
         /\ checkouts'[id].items = checkouts[id].items
         /\ checkouts'[id].refs = made
    BY <2>7, <2>8, <2>9 DEF CheckoutRecord
  <2>11. \A x \in Checkouts \ {id} : checkouts'[x] = checkouts[x]
    BY <2>3, <2>7
  <2>12. /\ checkouts[id].refs = {} /\ checkouts[id].items \subseteq made
         /\ clock[id] = "early" /\ checkouts[id].status = "reserved" =>
               \A s \in made : IsHeld(id, s)
    BY <1>1, <1>2 DEF SagaInv, Reserving
  <2>13. Reserving(c)'
    BY <1>2, <1>3, <2>4, <2>6, <2>10, <2>12 DEF Reserving, IsHeld
  <2>14. SagaInv'
    BY <1>2, <1>3, <2>3, <2>4, <2>5, <2>10, <2>11, <2>13, SagaGoesOn
  <2>15. ASSUME NEW x \in Checkouts, NEW s \in Skus, IsHeld(x, s)'
         PROVE  /\ IsHeld(x, s)
                /\ Named(x, s) => Named(x, s)'
                /\ s \in Hand(req[c], x) => s \in Hand(r, x)
    <3>1. Hand(req[c], x) = Hand(r, x)
      BY <1>1, <1>2, <2>4, <2>5 DEF Hand, Saga
    <3> QED
      BY <1>3, <2>11, <2>12, <2>15, <3>1 DEF IsHeld, Named
  <2>16. HandsOver
    BY <1>3, <2>3, <2>5, <2>15, Passes DEF TypeInv
  <2> QED
    BY <2>14, <2>16
<1>5. CASE ~ Matches(id, Statuses, q.version)
  <2>1. Become(c, Compensating(req[c], req[c].made, "finish")) /\ checkouts' = checkouts
    BY <1>2, <1>5 DEF SetRefs
  <2>2. Settles /\ HandsOver
    BY <1>1, <1>3, <2>1, GiveUpSettles
  <2> QED
    BY <2>2, SettleKeeps DEF TypeInv
<1> QED
    BY <1>4, <1>5

(* A saga ends: its lines are held, and the references name them.          *)
LEMMA MakeReadyKeeps ==
    ASSUME TypeInv, SagaInv, NEW c \in Clients, MakeReady(c)
    PROVE  SagaInv' /\ HandsOver
<1>1. req[c].pc = "make_ready" /\ Saga(req[c])
    BY DEF MakeReady, At, Saga
<1>2. PICK q \in Call, id \in Checkouts, made \in SUBSET Skus :
          /\ q = req[c] /\ id = q.id /\ made = q.made
          /\ q # Idle
          /\ SagaOn(c, id) /\ \A d \in Clients \ {c} : ~ SagaOn(d, id)
    BY <1>1, SagaRequest
<1>3. UNCHANGED <<clock, claims, failures>>
    BY DEF MakeReady
<1>4. CASE Matches(id, {"reserved"}, q.version)
  <2>1. /\ checkouts[id].status = "reserved" /\ checkouts[id].status \in Statuses
        /\ "ready" \in Statuses
    BY <1>4 DEF Matches, Statuses, Active
  <2>2. checkouts' = Moved(id, "ready") /\ Finish(c)
    BY <1>2, <1>4 DEF MakeReady
  <2>3. /\ checkouts'[id].status = "ready"
        /\ \A x \in Checkouts \ {id} : checkouts'[x] = checkouts[x]
    BY <2>1, <2>2, MovedShape DEF TypeInv
  <2>4. checkouts[id] \in CheckoutRecord
    BY <2>1, DocShape DEF TypeInv
  <2>5. /\ checkouts'[id].items = checkouts[id].items
        /\ checkouts'[id].refs = checkouts[id].refs
    BY <2>2, <2>4 DEF Moved, TypeInv, TypeOK, CheckoutRecord
  <2>6. /\ checkouts[id].refs = made /\ checkouts[id].items \subseteq made
        /\ clock[id] = "early" => \A s \in made : IsHeld(id, s)
    BY <1>1, <1>2, <2>1 DEF SagaInv, Reserving
  <2>7. /\ Finished(c) \in Request
        /\ \/ Finished(c) = Idle
           \/ Finished(c) = [pc |-> "sweep", batch |-> q.batch]
    BY <1>2, FinishedShape DEF TypeInv, Finished, Resume
  <2>8. /\ ~ Saga(Finished(c)) /\ Finished(c).pc # "compensate"
        /\ Finished(c).pc # "reserve_begin" /\ \A x : Hand(Finished(c), x) = {}
    BY <2>7 DEF Saga, Idle, Hand
  <2>9. req'[c] = Finished(c) /\ \A d \in Clients \ {c} : req'[d] = req[d]
    BY <2>2, <2>7, Becomes DEF Finish, TypeInv
  <2>10. \A d \in Clients : Reserving(d)'
    <3> SUFFICES ASSUME NEW d \in Clients, Saga(req'[d]) PROVE Reserving(d)'
      BY DEF Reserving
    <3>1. req'[d] = req[d] /\ Saga(req[d]) /\ Reserving(d) /\ d # c
      BY <2>8, <2>9 DEF SagaInv
    <3>2. req[d].id \in Checkouts /\ req[d].id # id
      BY <1>2, <3>1, RequestShape DEF SagaOn, Saga, CallPcs, Call, TypeInv
    <3>3. checkouts'[req[d].id] = checkouts[req[d].id]
      BY <2>3, <3>2
    <3> QED
      BY <1>3, <3>1, <3>3 DEF Reserving, IsHeld
  <2>11. ASSUME NEW x \in Checkouts, Stopped(x)
         PROVE  Stopped(x)'
    <3>1. x # id
      BY <1>2, <2>1, <2>11 DEF Stopped, Closed
    <3> QED
      BY <2>3, <2>8, <2>9, <2>11, <3>1 DEF Stopped, SagaOn
  <2>12. \A d \in Clients : Releasing(d)'
    <3>1. Releasing(c)'
      <4>1. \A b \in q.batch : clock[b[1]] = "past"
        BY <1>2 DEF SagaInv, Releasing
      <4> QED
        BY <1>3, <2>7, <2>8, <2>9, <4>1 DEF Releasing, UndoneBy, At
    <3>2. ASSUME NEW d \in Clients, d # c PROVE Releasing(d)'
      <4>1. Releasing(d) /\ req'[d] = req[d]
        BY <2>9, <3>2 DEF SagaInv
      <4>2. \A x \in Checkouts :
                UndoneBy(d, x)' => clock'[x] = "past" \/ Stopped(x)'
        BY <1>3, <2>11, <4>1 DEF Releasing, UndoneBy
      <4> QED
        BY <1>3, <4>1, <4>2 DEF Releasing, At
    <3> QED
      BY <3>1, <3>2
  <2>13. OneSaga'
    BY <2>8, <2>9 DEF SagaInv, OneSaga
  <2>14. Unbegun'
    BY <1>3, <2>3 DEF SagaInv, Unbegun
  <2>15. HoldsUntilDue'
    BY <1>3, <2>3, <2>5, <2>6 DEF SagaInv, HoldsUntilDue, IsHeld
  <2>16. SagaInv'
    BY <2>10, <2>12, <2>13, <2>14, <2>15 DEF SagaInv
  <2>17. ASSUME NEW x \in Checkouts, NEW s \in Skus,
                Named(x, s) \/ s \in Hand(req[c], x)
         PROVE  Named(x, s)'
    <3>1. CASE x = id
      BY <1>1, <1>2, <2>3, <2>5, <2>6, <2>17, <3>1 DEF Named, Hand, Saga
    <3>2. CASE x # id
      BY <1>1, <1>2, <2>3, <2>17, <3>2 DEF Named, Hand, Saga
    <3> QED
      BY <3>1, <3>2
  <2>18. \A x \in Checkouts, s \in Skus : IsHeld(x, s)' = IsHeld(x, s)
    BY <1>3 DEF IsHeld
  <2>19. HandsOver
    BY <1>3, <2>2, <2>7, <2>17, <2>18, Passes DEF Finish, TypeInv
  <2> QED
    BY <2>16, <2>19
<1>5. CASE ~ Matches(id, {"reserved"}, q.version)
  <2>1. Become(c, Compensating(req[c], req[c].made, "finish")) /\ checkouts' = checkouts
    BY <1>2, <1>5 DEF MakeReady
  <2>2. Settles /\ HandsOver
    BY <1>1, <1>3, <2>1, GiveUpSettles
  <2> QED
    BY <2>2, SettleKeeps DEF TypeInv
<1> QED
    BY <1>4, <1>5

(* A new checkout has reserved nothing.                                    *)
LEMMA CreateKeeps ==
    ASSUME TypeInv, SagaInv, NEW id \in Checkouts,
           NEW items \in SUBSET Skus \ {{}}, Create(id, items)
    PROVE  SagaInv' /\ HandsOver
<1>1. /\ checkouts[id].status = "none"
      /\ UNCHANGED <<clock, claims, req, failures>>
    BY DEF Create, NoCheckout
<1>2. /\ checkouts'[id].status = "priced" /\ checkouts'[id].refs = {}
      /\ \A x \in Checkouts \ {id} : checkouts'[x] = checkouts[x]
    BY DEF Create, TypeInv, TypeOK
<1>3. \A c \in Clients : ~ SagaOn(c, id)
    BY <1>1, SagaStatus DEF Closed
<1>4. \A s \in Skus : claims[<<id, s>>] = Service!NoClaim
    BY <1>1 DEF SagaInv, Unbegun
<1>5. \A c \in Clients : Reserving(c)'
  <2> SUFFICES ASSUME NEW c \in Clients, Saga(req[c]) PROVE Reserving(c)'
    BY <1>1 DEF Reserving
  <2>1. req[c].id \in Checkouts /\ req[c].id # id /\ Reserving(c)
    BY <1>3, RequestShape DEF SagaInv, SagaOn, Saga, CallPcs, Call, TypeInv
  <2> QED
    BY <1>1, <1>2, <2>1 DEF Reserving, IsHeld
<1>6. ASSUME NEW x \in Checkouts, Stopped(x)
      PROVE  Stopped(x)'
  <2>1. x # id
    BY <1>1, <1>6 DEF Stopped, Closed
  <2> QED
    BY <1>1, <1>2, <1>6, <2>1 DEF Stopped, SagaOn
<1>7. ASSUME NEW c \in Clients PROVE Releasing(c)'
  <2>1. Releasing(c)
    BY DEF SagaInv
  <2>2. \A x \in Checkouts : UndoneBy(c, x)' => clock'[x] = "past" \/ Stopped(x)'
    BY <1>1, <1>6, <2>1 DEF Releasing, UndoneBy
  <2> QED
    BY <1>1, <2>1, <2>2 DEF Releasing, At
<1>8. OneSaga' /\ Unbegun' /\ HoldsUntilDue'
    BY <1>1, <1>2, <1>4 DEF SagaInv, OneSaga, Unbegun, HoldsUntilDue
<1>9. SagaInv'
    BY <1>5, <1>7, <1>8 DEF SagaInv
<1>10. \A x \in Checkouts, s \in Skus :
           IsHeld(x, s)' => IsHeld(x, s) /\ (Kept(x, s) => Kept(x, s)')
  <2> SUFFICES ASSUME NEW x \in Checkouts, NEW s \in Skus, IsHeld(x, s)'
               PROVE  IsHeld(x, s) /\ (Kept(x, s) => Kept(x, s)')
    OBVIOUS
  <2>1. IsHeld(x, s)
    BY <1>1 DEF IsHeld
  <2>2. x # id
    BY <1>4, <2>1, HeldOnce
  <2>3. Named(x, s)' = Named(x, s) /\ \A c : InHand(c, x)' = InHand(c, x)
    BY <1>1, <1>2, <2>2, HandIs DEF Named
  <2> QED
    BY <2>1, <2>3 DEF Kept
<1>11. HandsOver
    BY <1>1, <1>10 DEF HandsOver
<1> QED
    BY <1>9, <1>11

-----------------------------------------------------------------------------
LEMMA InitStock == Init => StockInv
<1> SUFFICES ASSUME Init PROVE StockInv
    OBVIOUS
<1>1. /\ \A id \in Checkouts : checkouts[id].status = "none"
      /\ \A id \in Checkouts, s \in Skus : claims[<<id, s>>] = Service!NoClaim
      /\ \A c \in Clients : req[c] = Idle
    BY DEF Init, NoCheckout, Lines
<1>2. \A id \in Checkouts, s \in Skus : ~ IsHeld(id, s)
    BY <1>1, HeldOnce
<1>3. \A c \in Clients : Reserving(c) /\ Releasing(c)
    BY <1>1 DEF Reserving, Releasing, UndoneBy, Saga, Idle, At
<1>4. OneSaga /\ Unbegun /\ HoldsUntilDue
    BY <1>1 DEF OneSaga, Unbegun, HoldsUntilDue, Saga, Idle
<1> QED
    BY <1>2, <1>3, <1>4 DEF StockInv, SagaInv, Custody

(* Every step hands over what is held.                                     *)
LEMMA NextHandsOver ==
    ASSUME TypeInv, SagaInv, [Next]_vars
    PROVE  SagaInv' /\ HandsOver
<1>1. ASSUME Settles /\ HandsOver
      PROVE  SagaInv' /\ HandsOver
    BY <1>1, SettleKeeps DEF TypeInv
<1>2. ASSUME NEW c \in Clients, Continues(c)
      PROVE  SagaInv' /\ HandsOver
  <2>1. CASE ReserveBegin(c) \/ ReserveLine(c) \/ SetRefs(c) \/ MakeReady(c)
    BY <2>1, ReserveBeginKeeps, ReserveLineKeeps, SetRefsKeeps, MakeReadyKeeps
  <2>2. CASE \/ Expire(c) \/ Compensate(c) \/ MarkFailed(c) \/ LineThrows(c)
             \/ Cancel(c) \/ Update(c) \/ Complete(c) \/ SweepNext(c)
    BY <1>1, <2>2, ExpireSettles, CompensateSettles, MarkFailedSettles,
       LineThrowsSettles, CancelSettles, UpdateSettles, CompleteSettles,
       SweepNextSettles
  <2> QED
    BY <1>2, <2>1, <2>2 DEF Continues
<1>3. ASSUME NEW c \in Clients, Fails(c)
      PROVE  SagaInv' /\ HandsOver
    BY <1>1, <1>3, CrashSettles, SweepItemThrowsSettles, ReleaseThrowsSettles,
       ReserveThrowsLateSettles DEF Fails
<1>4. ASSUME NEW c \in Requests, NEW id \in Checkouts, Arrives(c, id)
      PROVE  SagaInv' /\ HandsOver
    BY <1>1, <1>4, ArrivesSettles
<1>5. ASSUME NEW c \in Sweeps, SweepStart(c)
      PROVE  SagaInv' /\ HandsOver
    BY <1>1, <1>5, SweepStartSettles
<1>6. ASSUME NEW id \in Checkouts, Tick(id) \/ \E s \in Skus : ClaimExpires(id, s)
      PROVE  SagaInv' /\ HandsOver
    BY <1>1, <1>6, TickSettles, ClaimExpiresSettles
<1>7. CASE UNCHANGED vars
    BY <1>1, <1>7, StutterSettles
<1>8. ASSUME NEW id \in Checkouts, NEW items \in SUBSET Skus \ {{}},
             Create(id, items)
      PROVE  SagaInv' /\ HandsOver
    BY <1>8, CreateKeeps
<1> QED
    BY <1>2, <1>3, <1>4, <1>5, <1>6, <1>7, <1>8 DEF Next

LEMMA NextStock ==
    ASSUME TypeInv, StockInv, [Next]_vars
    PROVE  StockInv'
<1>1. SagaInv' /\ HandsOver
    BY NextHandsOver DEF StockInv
<1>2. Custody'
    BY <1>1 DEF StockInv, Custody, HandsOver
<1> QED
    BY <1>1, <1>2 DEF StockInv

(* The invariant: how far each saga has come, why whoever releases may do  *)
(* so, and who has the reservations.                                       *)
THEOREM StockInvariance == Spec => []StockInv
<1> QED
    BY InitStock, NextStock, TypeInvariance, PTL DEF Spec

(* Unless something failed, an active reservation of a checkout is among   *)
(* its references, or in the hands of a request that is reserving or       *)
(* releasing it.                                                           *)
THEOREM NothingIsForgotten == Spec => []NothingForgotten
<1>1. StockInv => NothingForgotten
    BY DEF StockInv, Custody, IsHeld, Kept, Named, NothingForgotten
<1> QED
    BY <1>1, StockInvariance, PTL

(* A ready or completed checkout holds every one of its lines until its    *)
(* closing second, whatever cancels, sweeps, retries and failing sagas do. *)
THEOREM HeldUntilDue == Spec => []HoldsUntilDue
<1>1. StockInv => HoldsUntilDue
    BY DEF StockInv, SagaInv
<1> QED
    BY <1>1, StockInvariance, PTL

(* A cancelled checkout that no request works on holds nothing, unless     *)
(* something failed.                                                       *)
THEOREM CancelledIsFree == Spec => []CancelledHoldsNothing
<1>1. ASSUME StockInv
      PROVE  CancelledHoldsNothing
  <2> SUFFICES ASSUME NEW id \in Checkouts, failures = 0,
                      checkouts[id].status = "cancelled",
                      ~ \E c \in Clients : Busy(c, id),
                      NEW s \in Skus, IsHeld(id, s)
               PROVE  FALSE
    BY DEF CancelledHoldsNothing, IsHeld
  <2>1. PICK c \in Clients : s \in InHand(c, id)
    BY <1>1 DEF StockInv, Custody, Kept, Named
  <2> QED
    BY <2>1 DEF InHand
<1> QED
    BY <1>1, StockInvariance, PTL

=============================================================================
