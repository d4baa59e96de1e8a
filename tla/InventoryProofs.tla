-------------------------- MODULE InventoryProofs ---------------------------
(***************************************************************************)
(* Theorems about Inventory, for every value of its constants.             *)
(*                                                                         *)
(* The first part is about Tally: sums of quantities behave like sums.     *)
(*                                                                         *)
(* Type correctness and the order of the counters are proved together:     *)
(* that onHand stays a natural number when units are sold is due to        *)
(* reserved being at most onHand. The last part shows that every reserved  *)
(* unit is accounted for.                                                  *)
(***************************************************************************)
EXTENDS Inventory, FiniteSetTheorems, TLAPS

(***************************************************************************)
(* Sums: what changing the quantity of one holder does to the total, and   *)
(* bounds of the total.                                                    *)
(***************************************************************************)

(* The tokens of one holder, and those of all the others. *)
Own(h, n) == {h} \X (1 .. n)
Others(f, max, h) == {u \in Tokens(f, max) : u[1] # h}

(* A total is a natural number. *)
LEMMA TallyType ==
    ASSUME NEW H, IsFiniteSet(H), NEW max \in Nat, NEW f \in [H -> 0 .. max]
    PROVE  IsFiniteSet(Tokens(f, max)) /\ Tally(f, max) \in Nat
<1>1. IsFiniteSet(1 .. max)
    BY FS_Interval
<1>2. IsFiniteSet(H \X (1 .. max))
    BY <1>1, FS_Product
<1>3. Tokens(f, max) \in SUBSET (H \X (1 .. max))
    BY DEF Tokens
<1>4. IsFiniteSet(Tokens(f, max))
    BY <1>2, <1>3, FS_Subset
<1> QED
    BY <1>4, FS_CardinalityType DEF Tally

(* A holder has as many tokens as units. *)
LEMMA OwnCardinality ==
    ASSUME NEW h, NEW n \in Nat
    PROVE  IsFiniteSet(Own(h, n)) /\ Cardinality(Own(h, n)) = n
<1>1. IsFiniteSet({h}) /\ Cardinality({h}) = 1
    BY FS_Singleton
<1>2. IsFiniteSet(1 .. n) /\ Cardinality(1 .. n) = n
    BY FS_Interval
<1>3. IsFiniteSet(Own(h, n)) /\ Cardinality(Own(h, n)) = Cardinality({h}) * Cardinality(1 .. n)
    BY <1>1, <1>2, FS_Product DEF Own
<1> QED
    BY <1>1, <1>2, <1>3

(* The total is what one holder has and what the others have. *)
LEMMA TallySplit ==
    ASSUME NEW H, IsFiniteSet(H), NEW max \in Nat, NEW f \in [H -> 0 .. max],
           NEW h \in H
    PROVE  /\ Cardinality(Others(f, max, h)) \in Nat
           /\ Tally(f, max) = Cardinality(Others(f, max, h)) + f[h]
<1>1. f[h] \in Nat /\ f[h] <= max
    OBVIOUS
<1>2. IsFiniteSet(Tokens(f, max))
    BY TallyType
<1>3. Others(f, max, h) \in SUBSET Tokens(f, max)
    BY DEF Others
<1>4. IsFiniteSet(Others(f, max, h)) /\ Cardinality(Others(f, max, h)) \in Nat
    BY <1>2, <1>3, FS_Subset, FS_CardinalityType
<1>5. IsFiniteSet(Own(h, f[h])) /\ Cardinality(Own(h, f[h])) = f[h]
    BY <1>1, OwnCardinality
<1>6. Tokens(f, max) = Others(f, max, h) \cup Own(h, f[h])
    BY <1>1 DEF Tokens, Others, Own
<1>7. Others(f, max, h) \cap Own(h, f[h]) = {}
    BY DEF Others, Own
<1>8. Cardinality(Others(f, max, h) \cap Own(h, f[h])) = 0
    BY <1>7, FS_EmptySet
<1>9. Cardinality(Tokens(f, max)) =
         Cardinality(Others(f, max, h)) + f[h]
         - Cardinality(Others(f, max, h) \cap Own(h, f[h]))
    BY <1>4, <1>5, <1>6, FS_Union
<1> QED
    BY <1>1, <1>4, <1>8, <1>9 DEF Tally

(* Changing what one holder has changes the total by the difference. *)
LEMMA TallyUpdate ==
    ASSUME NEW H, IsFiniteSet(H), NEW max \in Nat,
           NEW f \in [H -> 0 .. max], NEW g \in [H -> 0 .. max],
           NEW h \in H, \A x \in H \ {h} : g[x] = f[x]
    PROVE  Tally(g, max) = Tally(f, max) - f[h] + g[h]
<1>1. Others(f, max, h) = Others(g, max, h)
    BY DEF Others, Tokens
<1>2. /\ Cardinality(Others(f, max, h)) \in Nat
      /\ Tally(f, max) = Cardinality(Others(f, max, h)) + f[h]
    BY TallySplit
<1>3. Tally(g, max) = Cardinality(Others(g, max, h)) + g[h]
    BY TallySplit
<1> QED
    BY <1>1, <1>2, <1>3

(* Moving units from one holder to another leaves the total as it is. *)
LEMMA TallyMove ==
    ASSUME NEW H, IsFiniteSet(H), NEW max \in Nat,
           NEW f \in [H -> 0 .. max], NEW g \in [H -> 0 .. max],
           NEW a \in H, NEW b \in H, a # b,
           \A x \in H \ {a, b} : g[x] = f[x],
           g[a] + g[b] = f[a] + f[b]
    PROVE  Tally(g, max) = Tally(f, max)
<1> DEFINE m == [f EXCEPT ![a] = g[a]]
<1>1. m \in [H -> 0 .. max] /\ m[a] = g[a] /\ \A x \in H \ {a} : m[x] = f[x]
    OBVIOUS
<1>2. \A x \in H \ {b} : g[x] = m[x]
    BY <1>1
<1> HIDE DEF m
<1>3. Tally(m, max) = Tally(f, max) - f[a] + m[a]
    BY <1>1, TallyUpdate
<1>4. Tally(g, max) = Tally(m, max) - m[b] + g[b]
    BY <1>1, <1>2, TallyUpdate
<1>5. Tally(f, max) \in Nat /\ Tally(m, max) \in Nat /\ Tally(g, max) \in Nat
    BY <1>1, TallyType
<1>6. m[b] = f[b] /\ f[a] \in Nat /\ f[b] \in Nat /\ g[a] \in Nat /\ g[b] \in Nat
    BY <1>1
<1> QED
    BY <1>1, <1>3, <1>4, <1>5, <1>6

(* No holder has more than the total. *)
LEMMA TallyBound ==
    ASSUME NEW H, IsFiniteSet(H), NEW max \in Nat, NEW f \in [H -> 0 .. max],
           NEW h \in H
    PROVE  f[h] <= Tally(f, max)
<1>1. f[h] \in Nat
    OBVIOUS
<1> QED
    BY <1>1, TallySplit

(* Nobody has anything. *)
LEMMA TallyZero ==
    ASSUME NEW H, NEW max \in Nat, NEW f \in [H -> 0 .. max],
           \A h \in H : f[h] = 0
    PROVE  Tally(f, max) = 0
<1>1. Tokens(f, max) = {}
    BY DEF Tokens
<1> QED
    BY <1>1, FS_EmptySet DEF Tally

(* More holders, each with at least as much, have at least as much in all. *)
LEMMA TallyMonotone ==
    ASSUME NEW H, IsFiniteSet(H), NEW G \in SUBSET H, NEW max \in Nat,
           NEW f \in [H -> 0 .. max], NEW g \in [G -> 0 .. max],
           \A x \in G : g[x] <= f[x]
    PROVE  Tally(g, max) <= Tally(f, max)
<1>1. IsFiniteSet(Tokens(f, max))
    BY TallyType
<1>2. Tokens(g, max) \in SUBSET Tokens(f, max)
    BY DEF Tokens
<1> QED
    BY <1>1, <1>2, FS_Subset DEF Tally

(* Two groups of holders, neither of which has the units of the other,     *)
(* have together at most what all have: parts of a whole.                  *)
LEMMA TallyParts ==
    ASSUME NEW H, IsFiniteSet(H), NEW G \in SUBSET H, NEW K \in SUBSET H,
           G \cap K = {}, NEW max \in Nat,
           NEW f \in [H -> 0 .. max], NEW g \in [G -> 0 .. max],
           NEW k \in [K -> 0 .. max],
           \A x \in G : g[x] <= f[x], \A x \in K : k[x] <= f[x]
    PROVE  Tally(g, max) + Tally(k, max) <= Tally(f, max)
<1>1. IsFiniteSet(G) /\ IsFiniteSet(K)
    BY FS_Subset
<1>2. /\ IsFiniteSet(Tokens(f, max)) /\ Tally(f, max) \in Nat
      /\ IsFiniteSet(Tokens(g, max)) /\ Tally(g, max) \in Nat
      /\ IsFiniteSet(Tokens(k, max)) /\ Tally(k, max) \in Nat
    BY <1>1, TallyType
<1>3. Tokens(g, max) \cup Tokens(k, max) \in SUBSET Tokens(f, max)
    BY DEF Tokens
<1>4. Cardinality(Tokens(g, max) \cup Tokens(k, max)) <= Tally(f, max)
    BY <1>2, <1>3, FS_Subset DEF Tally
<1>5. Tokens(g, max) \cap Tokens(k, max) = {}
    BY DEF Tokens
<1>6. Cardinality(Tokens(g, max) \cap Tokens(k, max)) = 0
    BY <1>5, FS_EmptySet
<1>7. Cardinality(Tokens(g, max) \cup Tokens(k, max)) =
         Cardinality(Tokens(g, max)) + Cardinality(Tokens(k, max))
         - Cardinality(Tokens(g, max) \cap Tokens(k, max))
    BY <1>2, FS_Union
<1> QED
    BY <1>2, <1>4, <1>6, <1>7 DEF Tally

(* Holders each of which belongs to one of two kinds have together what    *)
(* the two kinds have.                                                     *)
LEMMA TallyKinds ==
    ASSUME NEW H, IsFiniteSet(H), NEW max \in Nat,
           NEW f \in [H -> 0 .. max], NEW g \in [H -> 0 .. max],
           NEW k \in [H -> 0 .. max],
           \A x \in H : \/ f[x] = g[x] /\ k[x] = 0
                        \/ f[x] = k[x] /\ g[x] = 0
    PROVE  Tally(f, max) = Tally(g, max) + Tally(k, max)
<1>1. /\ IsFiniteSet(Tokens(g, max)) /\ Tally(g, max) \in Nat
      /\ IsFiniteSet(Tokens(k, max)) /\ Tally(k, max) \in Nat
    BY TallyType
<1>2. \A x \in H : f[x] \in Nat /\ g[x] \in Nat /\ k[x] \in Nat
    OBVIOUS
<1>3. ASSUME NEW x \in H, NEW i \in 1 .. max
      PROVE  i <= f[x] <=> (i <= g[x] \/ i <= k[x])
    BY <1>2
<1>4. ASSUME NEW x \in H, NEW i \in 1 .. max
      PROVE  ~ (i <= g[x] /\ i <= k[x])
    BY <1>2
<1>5. Tokens(f, max) = Tokens(g, max) \cup Tokens(k, max)
    BY <1>3 DEF Tokens
<1>6. Tokens(g, max) \cap Tokens(k, max) = {}
    BY <1>4 DEF Tokens
<1>7. Cardinality(Tokens(g, max) \cap Tokens(k, max)) = 0
    BY <1>6, FS_EmptySet
<1>8. Cardinality(Tokens(g, max) \cup Tokens(k, max)) =
         Cardinality(Tokens(g, max)) + Cardinality(Tokens(k, max))
         - Cardinality(Tokens(g, max) \cap Tokens(k, max))
    BY <1>1, FS_Union
<1> QED
    BY <1>1, <1>5, <1>7, <1>8 DEF Tally

(* A total does not depend on the bound, as long as it is one. *)
LEMMA TallyRebound ==
    ASSUME NEW H, NEW m \in Nat, NEW n \in Nat, m <= n,
           NEW f \in [H -> 0 .. m]
    PROVE  Tally(f, m) = Tally(f, n)
<1>1. \A x \in H : f[x] \in Nat /\ f[x] <= m
    OBVIOUS
<1>2. Tokens(f, m) = Tokens(f, n)
    BY <1>1 DEF Tokens
<1> QED
    BY <1>2 DEF Tally

-----------------------------------------------------------------------------
(***************************************************************************)
(* Types, and the order of the counters.                                   *)
(***************************************************************************)

(* A request that closes a reservation has one to close. *)
Grounded ==
    \A c \in Clients :
        req[c].pc \in ClosePcs => reservations[req[c].key] \in Reservation

(* The slots of the sweep run nothing else. *)
SweepPcs == {"idle", "sweep"} \cup ClosePcs

SweepsOnlySweep == \A c \in Sweeps : req[c].pc \in SweepPcs

TypeInv == TypeOK /\ StockInvariant /\ Grounded /\ SweepsOnlySweep

ReservePcs == {"reserve_stock", "reserve_create", "reserve_undo",
               "reserve_append", "reserve_replay"}

-----------------------------------------------------------------------------
(* The pc of a request tells the shape of its record. *)
LEMMA RequestShape ==
    ASSUME TypeOK, NEW c \in Clients
    PROVE  /\ req[c] \in Request
           /\ req[c].pc \in {"ensure_create", "ensure_append"} =>
                 req[c] \in OpeningRequest
           /\ req[c].pc \in {"adjust_apply", "adjust_append"} =>
                 req[c] \in AdjustRequest
           /\ req[c].pc \in ReservePcs => req[c] \in ReserveRequest
           /\ req[c].pc \in ClosePcs => req[c] \in CloseRequest
           /\ req[c].pc = "sweep" => req[c] \in SweepRequest
<1>1. req[c] \in Request
    BY DEF TypeOK
<1>2. CASE req[c] = Idle
    BY <1>1, <1>2 DEF Idle, ReservePcs, ClosePcs
<1>3. CASE req[c] \in OpeningRequest
    BY <1>1, <1>3 DEF OpeningRequest, ReservePcs, ClosePcs
<1>4. CASE req[c] \in AdjustRequest
    BY <1>1, <1>4 DEF AdjustRequest, ReservePcs, ClosePcs
<1>5. CASE req[c] \in ReserveRequest
    BY <1>1, <1>5 DEF ReserveRequest, ReservePcs, ClosePcs
<1>6. CASE req[c] \in CloseRequest
    BY <1>1, <1>6 DEF CloseRequest, ReservePcs, ClosePcs
<1>7. CASE req[c] \in SweepRequest
    BY <1>1, <1>7 DEF SweepRequest, ReservePcs, ClosePcs
<1> QED
    BY <1>1, <1>2, <1>3, <1>4, <1>5, <1>6, <1>7 DEF Request

(* What a request becomes when it goes on is again a request of its shape. *)
LEMMA GotoShape ==
    ASSUME NEW r, NEW pc
    PROVE  /\ r \in OpeningRequest /\ pc = "ensure_append" =>
                 [r EXCEPT !.pc = pc] \in OpeningRequest
           /\ r \in AdjustRequest /\ pc = "adjust_append" =>
                 [r EXCEPT !.pc = pc] \in AdjustRequest
           /\ r \in ReserveRequest /\ pc \in ReservePcs =>
                 [r EXCEPT !.pc = pc] \in ReserveRequest
           /\ r \in CloseRequest /\ pc \in ClosePcs =>
                 [r EXCEPT !.pc = pc] \in CloseRequest
BY DEF OpeningRequest, AdjustRequest, ReserveRequest, CloseRequest, ReservePcs,
       ClosePcs

(* So is what a sweep resumes with, which never closes a reservation yet. *)
LEMMA ResumeShape ==
    ASSUME NEW batch \in SUBSET Keys
    PROVE  /\ Resume(batch) \in Request
           /\ Resume(batch).pc \in {"idle", "sweep"}
BY DEF Resume, Request, Idle, SweepRequest

LEMMA IdleShape == Idle \in Request /\ Idle.pc = "idle"
BY DEF Idle, Request

-----------------------------------------------------------------------------
(* Replacing the record of one request by one of a fitting shape. *)
LEMMA BecomeType ==
    ASSUME TypeOK, SweepsOnlySweep, NEW c \in Clients, NEW r \in Request,
           c \in Sweeps => r.pc \in SweepPcs, Become(c, r)
    PROVE  /\ req' \in [Clients -> Request]
           /\ req'[c] = r
           /\ \A d \in Clients \ {c} : req'[d] = req[d]
           /\ SweepsOnlySweep'
BY DEF TypeOK, SweepsOnlySweep, Become, Clients

(* A request that returns or throws is idle, or a sweep going on. *)
LEMMA FinishType ==
    ASSUME TypeOK, SweepsOnlySweep, NEW c \in Clients, Finish(c),
           req[c].pc # "idle"
    PROVE  /\ req' \in [Clients -> Request]
           /\ req'[c].pc \in {"idle", "sweep"}
           /\ \A d \in Clients \ {c} : req'[d] = req[d]
           /\ SweepsOnlySweep'
<1>1. CASE c \in Sweeps
  <2>1. req[c].pc \in SweepPcs
    BY <1>1 DEF SweepsOnlySweep
  <2>2. req[c] \in CloseRequest \/ req[c] \in SweepRequest
    BY <2>1, RequestShape DEF SweepPcs
  <2>3. req[c].batch \in SUBSET Keys
    BY <2>2 DEF CloseRequest, SweepRequest
  <2>4. Become(c, Resume(req[c].batch))
    BY <1>1 DEF Finish
  <2>5. /\ Resume(req[c].batch) \in Request
        /\ Resume(req[c].batch).pc \in {"idle", "sweep"}
    BY <2>3, ResumeShape
  <2> HIDE DEF Resume
  <2> QED
    BY <2>4, <2>5, BecomeType DEF SweepPcs
<1>2. CASE c \notin Sweeps
  <2>1. Become(c, Idle)
    BY <1>2 DEF Finish
  <2> QED
    BY <2>1, <1>2, IdleShape, BecomeType
<1> QED
    BY <1>1, <1>2

(* Going on keeps the shape of the request. *)
LEMMA GotoType ==
    ASSUME TypeOK, SweepsOnlySweep, NEW c \in Clients, NEW pc, Goto(c, pc),
           \/ req[c].pc = "ensure_create" /\ pc = "ensure_append"
           \/ req[c].pc = "adjust_apply" /\ pc = "adjust_append"
           \/ req[c].pc \in ReservePcs /\ pc \in ReservePcs
           \/ req[c].pc \in ClosePcs /\ pc \in ClosePcs
    PROVE  /\ req' \in [Clients -> Request]
           /\ req'[c] = [req[c] EXCEPT !.pc = pc]
           /\ req'[c].pc = pc
           /\ \A d \in Clients \ {c} : req'[d] = req[d]
           /\ SweepsOnlySweep'
<1> DEFINE r == [req[c] EXCEPT !.pc = pc]
<1>1. Become(c, r)
    BY DEF Goto
<1>2. CASE req[c].pc \in ClosePcs /\ pc \in ClosePcs
  <2>1. req[c] \in CloseRequest
    BY <1>2, RequestShape
  <2>2. r \in CloseRequest /\ r.pc = pc
    BY <1>2, <2>1, GotoShape DEF CloseRequest
  <2>3. r \in Request
    BY <2>2 DEF Request
  <2> HIDE DEF r
  <2> QED
    BY <1>1, <1>2, <2>2, <2>3, BecomeType DEF SweepPcs, r
<1>3. CASE ~(req[c].pc \in ClosePcs /\ pc \in ClosePcs)
  <2>1. c \notin Sweeps
    BY <1>3 DEF SweepsOnlySweep, SweepPcs, ReservePcs, ClosePcs
  <2>2. r \in Request /\ r.pc = pc
    BY <1>3, RequestShape, GotoShape
    DEF OpeningRequest, AdjustRequest, ReserveRequest, ReservePcs, Request
  <2> HIDE DEF r
  <2> QED
    BY <1>1, <2>1, <2>2, BecomeType DEF r
<1> QED
    BY <1>2, <1>3

-----------------------------------------------------------------------------
(***************************************************************************)
(* Each group of actions preserves TypeInv.                                *)
(***************************************************************************)

(* The parts of TypeInv about the records of requests, when reservations   *)
(* stay and the acting request does not start to close a reservation that  *)
(* is not there.                                                           *)
LEMMA GroundedKept ==
    ASSUME TypeInv, NEW c \in Clients,
           \A d \in Clients \ {c} : req'[d] = req[d],
           \A k \in Keys : reservations[k] \in Reservation =>
                              reservations'[k] \in Reservation,
           req'[c].pc \in ClosePcs => reservations'[req'[c].key] \in Reservation
    PROVE  Grounded'
<1> SUFFICES ASSUME NEW d \in Clients, req'[d].pc \in ClosePcs
             PROVE  reservations'[req'[d].key] \in Reservation
    BY DEF Grounded
<1>1. CASE d = c
    BY <1>1
<1>2. CASE d # c
  <2>1. req'[d] = req[d] /\ reservations[req[d].key] \in Reservation
    BY <1>2 DEF TypeInv, Grounded
  <2>2. req[d].key \in Keys
    BY <1>2, <2>1, RequestShape DEF TypeInv, CloseRequest
  <2> QED
    BY <2>1, <2>2
<1> QED
    BY <1>1, <1>2

LEMMA ArrivesType ==
    ASSUME TypeInv, NEW c \in Requests, Arrives(c)
    PROVE  TypeInv'
<1> USE DEF TypeInv
<1>1. c \in Clients /\ c \notin Sweeps
    BY ProcessAssumption DEF Clients
<1>2. UNCHANGED <<stock, reservations, due, posted, received, stranded, failures>>
    BY DEF Arrives, EnsureStart, AdjustStart, ReserveStart, ReleaseStart,
           ConfirmStart, CloseStart
<1>3. PICK r \in Request :
         /\ Become(c, r)
         /\ r.pc \in ClosePcs => reservations[r.key] \in Reservation
  <2>1. ASSUME NEW s \in Skus, NEW n \in Openings, EnsureStart(c, s, n)
        PROVE  \E r \in Request : Become(c, r) /\ r.pc \notin ClosePcs
    <3>1. [pc |-> "ensure_create", sku |-> s, opening |-> n] \in Request
        BY DEF Request, OpeningRequest
    <3> QED
        BY <2>1, <3>1 DEF EnsureStart, ClosePcs
  <2>2. ASSUME NEW s \in Skus, NEW d \in Deltas, NEW a \in AdjustKeys \cup {NoKey},
               AdjustStart(c, s, d, a)
        PROVE  \E r \in Request : Become(c, r) /\ r.pc \notin ClosePcs
    <3>1. [pc |-> "adjust_apply", sku |-> s, delta |-> d, key |-> a] \in Request
        BY DEF Request, AdjustRequest
    <3> QED
        BY <2>2, <3>1 DEF AdjustStart, ClosePcs
  <2>3. ASSUME NEW s \in Skus, NEW k \in Keys, NEW q \in Quantities,
               ReserveStart(c, s, k, q)
        PROVE  \E r \in Request : Become(c, r) /\ r.pc \notin ClosePcs
    <3>1. /\ [pc |-> "reserve_stock", sku |-> s, key |-> k, qty |-> q] \in Request
          /\ [pc |-> "reserve_replay", sku |-> s, key |-> k, qty |-> q] \in Request
        BY DEF Request, ReserveRequest
    <3> QED
        BY <2>3, <3>1 DEF ReserveStart, ClosePcs
  <2>4. ASSUME NEW k \in Keys, ReleaseStart(c, k) \/ ConfirmStart(c, k)
        PROVE  \E r \in Request : /\ Become(c, r)
                                  /\ reservations[r.key] \in Reservation
    <3>1. PICK pc \in {"release_transition", "confirm_transition"} :
             CloseStart(c, k, pc)
        BY <2>4 DEF ReleaseStart, ConfirmStart
    <3>2. [pc |-> pc, key |-> k, batch |-> {}] \in Request
        BY <3>1 DEF Request, CloseRequest, ClosePcs
    <3>3. reservations[k] \in Reservation
        BY <3>1 DEF CloseStart, TypeOK, NoReservation
    <3> QED
        BY <3>1, <3>2, <3>3 DEF CloseStart
  <2> QED
    BY <2>1, <2>2, <2>3, <2>4 DEF Arrives
<1>4. /\ req' \in [Clients -> Request]
      /\ req'[c] = r
      /\ \A d \in Clients \ {c} : req'[d] = req[d]
      /\ SweepsOnlySweep'
    BY <1>1, <1>3, BecomeType
<1>5. Grounded'
    BY <1>1, <1>2, <1>3, <1>4, GroundedKept
<1> QED
    BY <1>2, <1>4, <1>5 DEF TypeOK, StockInvariant

(* ensureInventory and adjust *)
LEMMA RecordType ==
    ASSUME TypeInv, NEW c \in Clients,
           \/ EnsureCreate(c) \/ EnsureAppend(c) \/ AdjustApply(c) \/ AdjustAppend(c)
    PROVE  TypeInv'
<1> USE DEF TypeInv
<1>1. CASE EnsureCreate(c)
  <2>1. req[c] \in OpeningRequest /\ req[c].sku \in Skus /\ req[c].opening \in Nat
    BY <1>1, RequestShape, StockAssumption DEF EnsureCreate, At, OpeningRequest
  <2>2. /\ req' \in [Clients -> Request]
        /\ req'[c].pc \notin ClosePcs
        /\ \A d \in Clients \ {c} : req'[d] = req[d]
        /\ SweepsOnlySweep'
    <3>1. CASE Finish(c)
      BY <1>1, <3>1, FinishType DEF EnsureCreate, At, ClosePcs
    <3>2. CASE Goto(c, "ensure_append")
      <4>1. /\ req' \in [Clients -> Request]
            /\ req'[c].pc = "ensure_append"
            /\ \A d \in Clients \ {c} : req'[d] = req[d]
            /\ SweepsOnlySweep'
        BY <1>1, <3>2, GotoType, Zenon DEF EnsureCreate, At
      <4> QED
        BY <4>1 DEF ClosePcs
    <3> QED
      BY <1>1, <3>1, <3>2 DEF EnsureCreate
  <2> DEFINE fresh == [exists |-> TRUE, onHand |-> req[c].opening,
                       reserved |-> 0, sold |-> 0]
  <2>3. fresh \in StockRecord /\ fresh.reserved <= fresh.onHand
    BY <2>1 DEF StockRecord
  <2>4. \/ UNCHANGED stock
        \/ stock' = [stock EXCEPT ![req[c].sku] = fresh]
    BY <1>1 DEF EnsureCreate
  <2> HIDE DEF fresh
  <2>5. stock' \in [Skus -> StockRecord] /\ StockInvariant'
    BY <2>1, <2>3, <2>4 DEF TypeOK, StockInvariant
  <2>6. Grounded'
    BY <1>1, <2>2, GroundedKept DEF EnsureCreate
  <2> QED
    BY <1>1, <2>2, <2>5, <2>6 DEF EnsureCreate, TypeOK
<1>2. CASE EnsureAppend(c)
  <2>1. req[c].sku \in Skus /\ req[c].opening \in Nat
    BY <1>2, RequestShape, StockAssumption DEF EnsureAppend, At, OpeningRequest
  <2>2. /\ req' \in [Clients -> Request]
        /\ req'[c].pc \notin ClosePcs
        /\ \A d \in Clients \ {c} : req'[d] = req[d]
        /\ SweepsOnlySweep'
    BY <1>2, FinishType DEF EnsureAppend, At, ClosePcs
  <2>3. posted' \subseteq MovementKeys /\ received' \in [Skus -> Int]
    BY <1>2, <2>1 DEF EnsureAppend, TypeOK, MovementKeys
  <2>4. Grounded'
    BY <1>2, <2>2, GroundedKept DEF EnsureAppend
  <2> QED
    BY <1>2, <2>2, <2>3, <2>4 DEF EnsureAppend, TypeOK, StockInvariant
<1>3. CASE AdjustApply(c)
  <2>1. req[c].sku \in Skus /\ req[c].delta \in Int
    BY <1>3, RequestShape, StockAssumption DEF AdjustApply, At, AdjustRequest
  <2>2. /\ req' \in [Clients -> Request]
        /\ req'[c].pc \notin ClosePcs
        /\ \A d \in Clients \ {c} : req'[d] = req[d]
        /\ SweepsOnlySweep'
    <3>1. CASE Finish(c)
      BY <1>3, <3>1, FinishType DEF AdjustApply, At, ClosePcs
    <3>2. CASE Goto(c, "adjust_append")
      <4>1. /\ req' \in [Clients -> Request]
            /\ req'[c].pc = "adjust_append"
            /\ \A d \in Clients \ {c} : req'[d] = req[d]
            /\ SweepsOnlySweep'
        BY <1>3, <3>2, GotoType, Zenon DEF AdjustApply, At
      <4> QED
        BY <4>1 DEF ClosePcs
    <3> QED
      BY <1>3, <3>1, <3>2 DEF AdjustApply
  <2>3. stock' \in [Skus -> StockRecord] /\ StockInvariant'
    BY <1>3, <2>1
    DEF AdjustApply, Adjustable, TypeOK, StockInvariant, StockRecord
  <2>4. Grounded'
    BY <1>3, <2>2, GroundedKept DEF AdjustApply
  <2> QED
    BY <1>3, <2>2, <2>3, <2>4 DEF AdjustApply, TypeOK
<1>4. CASE AdjustAppend(c)
  <2>1. /\ req[c].sku \in Skus /\ req[c].delta \in Int
        /\ req[c].key \in AdjustKeys \cup {NoKey}
    BY <1>4, RequestShape, StockAssumption DEF AdjustAppend, At, AdjustRequest
  <2>2. /\ req' \in [Clients -> Request]
        /\ req'[c].pc \notin ClosePcs
        /\ \A d \in Clients \ {c} : req'[d] = req[d]
        /\ SweepsOnlySweep'
    BY <1>4, FinishType DEF AdjustAppend, At, ClosePcs
  <2>3. posted' \subseteq MovementKeys /\ received' \in [Skus -> Int]
    BY <1>4, <2>1 DEF AdjustAppend, TypeOK, MovementKeys
  <2>4. Grounded'
    BY <1>4, <2>2, GroundedKept DEF AdjustAppend
  <2> QED
    BY <1>4, <2>2, <2>3, <2>4 DEF AdjustAppend, TypeOK, StockInvariant
<1> QED
    BY <1>1, <1>2, <1>3, <1>4

(* Replacing one stock record by one whose counters agree. *)
LEMMA StockReplaced ==
    ASSUME TypeInv,
           \/ UNCHANGED stock
           \/ \E s \in Skus, r \in StockRecord :
                 /\ r.reserved <= r.onHand
                 /\ stock' = [stock EXCEPT ![s] = r]
    PROVE  stock' \in [Skus -> StockRecord] /\ StockInvariant'
BY DEF TypeInv, TypeOK, StockInvariant

(* What giving units back, and selling them, does to the counters. *)
LEMMA Returned ==
    ASSUME TypeInv, NEW s \in Skus, NEW q \in Nat, stock[s].reserved >= q
    PROVE  /\ [stock[s] EXCEPT !.reserved = @ - q] \in StockRecord
           /\ [stock[s] EXCEPT !.reserved = @ - q].reserved
                 <= [stock[s] EXCEPT !.reserved = @ - q].onHand
           /\ Committed(stock[s], q) \in StockRecord
           /\ Committed(stock[s], q).reserved <= Committed(stock[s], q).onHand
<1> DEFINE r == stock[s]
<1>1. r \in StockRecord /\ r.reserved <= r.onHand /\ q <= r.reserved
    BY DEF TypeInv, TypeOK, StockInvariant, StockRecord
<1> HIDE DEF r
<1>2. /\ r.onHand \in Nat /\ r.reserved \in Nat /\ r.sold \in Nat
      /\ r.onHand - q \in Nat /\ r.reserved - q \in Nat /\ r.sold + q \in Nat
      /\ r.reserved - q <= r.onHand - q /\ r.reserved - q <= r.onHand
    BY <1>1 DEF StockRecord
<1>3. /\ [r EXCEPT !.reserved = @ - q] \in StockRecord
      /\ [r EXCEPT !.reserved = @ - q].reserved
            <= [r EXCEPT !.reserved = @ - q].onHand
    BY <1>1, <1>2 DEF StockRecord
<1>4. /\ Committed(r, q) \in StockRecord
      /\ Committed(r, q).reserved <= Committed(r, q).onHand
    BY <1>1, <1>2 DEF StockRecord, Committed
<1> QED
    BY <1>3, <1>4 DEF r

(* A step of reserve() leaves a request that closes nothing. *)
LEMMA ReserveGoesOn ==
    ASSUME TypeInv, NEW c \in Clients, req[c].pc \in ReservePcs,
           Finish(c) \/ \E pc \in ReservePcs : Goto(c, pc)
    PROVE  /\ req' \in [Clients -> Request]
           /\ req'[c].pc \notin ClosePcs
           /\ \A d \in Clients \ {c} : req'[d] = req[d]
           /\ SweepsOnlySweep'
<1> USE DEF TypeInv
<1>1. CASE Finish(c)
    BY <1>1, FinishType DEF ReservePcs, ClosePcs
<1>2. ASSUME NEW pc \in ReservePcs, Goto(c, pc)
      PROVE  /\ req' \in [Clients -> Request]
             /\ req'[c].pc = pc
             /\ \A d \in Clients \ {c} : req'[d] = req[d]
             /\ SweepsOnlySweep'
    BY <1>2, GotoType
<1> QED
    BY <1>1, <1>2 DEF ReservePcs, ClosePcs

(* reserve() *)
LEMMA ReserveType ==
    ASSUME TypeInv, NEW c \in Clients,
           \/ ReserveStock(c) \/ ReserveCreate(c) \/ ReserveUndo(c)
           \/ ReserveReplay(c) \/ ReserveAppend(c)
    PROVE  TypeInv'
<1> USE DEF TypeInv
<1>1. req[c].pc \in ReservePcs
    BY DEF ReserveStock, ReserveCreate, ReserveUndo, ReserveReplay,
           ReserveAppend, At, ReservePcs
<1>2. /\ req[c].sku \in Skus /\ req[c].key \in Keys
      /\ req[c].qty \in Quantities /\ req[c].qty \in Nat
  <2>1. req[c] \in ReserveRequest
    BY <1>1, RequestShape
  <2>2. \A q \in Quantities : q \in Nat
    BY QuantityAssumption
  <2> QED
    BY <2>1, <2>2 DEF ReserveRequest
<1>3. Finish(c) \/ \E pc \in ReservePcs : Goto(c, pc)
    BY DEF ReserveStock, ReserveCreate, ReserveUndo, ReserveReplay,
           ReserveAppend, ReservePcs
<1>4. /\ req' \in [Clients -> Request]
      /\ req'[c].pc \notin ClosePcs
      /\ \A d \in Clients \ {c} : req'[d] = req[d]
      /\ SweepsOnlySweep'
    BY <1>1, <1>3, ReserveGoesOn
<1>5. /\ reservations' \in [Keys -> {NoReservation} \cup Reservation]
      /\ \A k \in Keys : reservations[k] \in Reservation =>
                            reservations'[k] \in Reservation
  <2> DEFINE made == [status |-> "active", sku |-> req[c].sku, qty |-> req[c].qty]
  <2>1. made \in Reservation
    BY <1>2 DEF Reservation, Statuses
  <2>2. \/ UNCHANGED reservations
        \/ reservations' = [reservations EXCEPT ![req[c].key] = made]
    BY DEF ReserveStock, ReserveCreate, ReserveUndo, ReserveReplay, ReserveAppend
  <2> HIDE DEF made
  <2> QED
    BY <2>1, <2>2 DEF TypeOK
<1>6. stock' \in [Skus -> StockRecord] /\ StockInvariant'
  <2>1. CASE ReserveStock(c)
    BY <1>2, <2>1 DEF ReserveStock, Reservable, TypeOK, StockInvariant, StockRecord
  <2>2. CASE ReserveUndo(c)
    BY <1>2, <2>2 DEF ReserveUndo, Returnable, TypeOK, StockInvariant, StockRecord
  <2>3. CASE UNCHANGED stock
    BY <2>3 DEF TypeOK, StockInvariant
  <2> QED
    BY <2>1, <2>2, <2>3 DEF ReserveCreate, ReserveReplay, ReserveAppend
<1>7. /\ due' \subseteq Keys /\ posted' \subseteq MovementKeys
      /\ received' \in [Skus -> Int] /\ stranded' \in [Skus -> Nat]
      /\ failures' \in 0 .. MaxFailures
  <2>1. <<"reserve", req[c].key>> \in MovementKeys
    BY <1>2 DEF MovementKeys, MovementKey
  <2>2. /\ UNCHANGED <<due, received, stranded, failures>>
        /\ posted' \in {posted, posted \cup {<<"reserve", req[c].key>>}}
    BY DEF ReserveStock, ReserveCreate, ReserveUndo, ReserveReplay, ReserveAppend
  <2> QED
    BY <2>1, <2>2 DEF TypeOK
<1>8. Grounded'
    BY <1>4, <1>5, GroundedKept
<1> QED
    BY <1>4, <1>5, <1>6, <1>7, <1>8 DEF TypeOK

(* A step of release() or confirm() leaves a request that has ended or     *)
(* goes on with the same reservation.                                      *)
LEMMA CloseGoesOn ==
    ASSUME TypeInv, NEW c \in Clients, req[c].pc \in ClosePcs,
           Finish(c) \/ \E pc \in ClosePcs : Goto(c, pc)
    PROVE  /\ req' \in [Clients -> Request]
           /\ req'[c].pc \in ClosePcs => req'[c].key = req[c].key
           /\ \A d \in Clients \ {c} : req'[d] = req[d]
           /\ SweepsOnlySweep'
<1> USE DEF TypeInv
<1>1. CASE Finish(c)
    BY <1>1, FinishType DEF ClosePcs
<1>2. ASSUME NEW pc \in ClosePcs, Goto(c, pc)
      PROVE  /\ req' \in [Clients -> Request]
             /\ req'[c].key = req[c].key
             /\ \A d \in Clients \ {c} : req'[d] = req[d]
             /\ SweepsOnlySweep'
  <2>1. /\ req' \in [Clients -> Request]
        /\ req'[c] = [req[c] EXCEPT !.pc = pc]
        /\ \A d \in Clients \ {c} : req'[d] = req[d]
        /\ SweepsOnlySweep'
    BY <1>2, GotoType
  <2>2. req[c] \in CloseRequest
    BY RequestShape
  <2> QED
    BY <2>1, <2>2 DEF CloseRequest
<1> QED
    BY <1>1, <1>2

(* release() and confirm() *)
LEMMA CloseType ==
    ASSUME TypeInv, NEW c \in Clients,
           \/ ReleaseTransition(c) \/ ReleaseStock(c) \/ ReleaseAppend(c)
           \/ ConfirmTransition(c) \/ ConfirmStock(c) \/ ConfirmAppend(c)
    PROVE  TypeInv'
<1> USE DEF TypeInv
<1>1. req[c].pc \in ClosePcs
    BY DEF ReleaseTransition, ReleaseStock, ReleaseAppend, ConfirmTransition,
           ConfirmStock, ConfirmAppend, At, ClosePcs
<1>2. /\ req[c].key \in Keys /\ reservations[req[c].key] \in Reservation
      /\ reservations[req[c].key].sku \in Skus
      /\ reservations[req[c].key].qty \in Nat
  <2>1. req[c].key \in Keys
    BY <1>1, RequestShape DEF CloseRequest
  <2>2. reservations[req[c].key] \in Reservation
    BY <1>1 DEF Grounded
  <2>3. \A q \in Quantities : q \in Nat
    BY QuantityAssumption
  <2> QED
    BY <2>1, <2>2, <2>3 DEF Reservation
<1>3. Finish(c) \/ \E pc \in ClosePcs : Goto(c, pc)
    BY DEF ReleaseTransition, ReleaseStock, ReleaseAppend, ConfirmTransition,
           ConfirmStock, ConfirmAppend, Transition, AppendClosing, ClosePcs
<1>4. /\ req' \in [Clients -> Request]
      /\ req'[c].pc \in ClosePcs => req'[c].key = req[c].key
      /\ \A d \in Clients \ {c} : req'[d] = req[d]
      /\ SweepsOnlySweep'
    BY <1>1, <1>3, CloseGoesOn
<1>5. /\ reservations' \in [Keys -> {NoReservation} \cup Reservation]
      /\ \A k \in Keys : reservations[k] \in Reservation =>
                            reservations'[k] \in Reservation
  <2>1. \/ UNCHANGED reservations
        \/ \E to \in Terminal :
              reservations' = [reservations EXCEPT ![req[c].key].status = to]
    BY DEF ReleaseTransition, ReleaseStock, ReleaseAppend, ConfirmTransition,
           ConfirmStock, ConfirmAppend, Transition, AppendClosing, Target, Terminal
  <2>2. ASSUME NEW to \in Terminal
        PROVE  [reservations[req[c].key] EXCEPT !.status = to] \in Reservation
    BY <1>2 DEF Reservation, Statuses
  <2> QED
    BY <1>2, <2>1, <2>2 DEF TypeOK
<1>6. stock' \in [Skus -> StockRecord] /\ StockInvariant'
  <2> DEFINE s == reservations[req[c].key].sku
             q == reservations[req[c].key].qty
  <2>1. CASE ReleaseStock(c)
    <3>1. \/ UNCHANGED stock
          \/ /\ stock[s].reserved >= q
             /\ stock' = [stock EXCEPT ![s] = [stock[s] EXCEPT !.reserved = @ - q]]
      BY <2>1 DEF ReleaseStock, Returnable
    <3> QED
      BY <1>2, <3>1, StockReplaced, Returned
  <2>2. CASE ConfirmStock(c)
    <3>1. \/ UNCHANGED stock
          \/ /\ stock[s].reserved >= q
             /\ stock' = [stock EXCEPT ![s] = Committed(stock[s], q)]
      BY <2>2 DEF ConfirmStock, Returnable
    <3> QED
      BY <1>2, <3>1, StockReplaced, Returned
  <2>3. CASE UNCHANGED stock
    BY <2>3 DEF TypeOK, StockInvariant
  <2> QED
    BY <2>1, <2>2, <2>3
    DEF ReleaseTransition, ReleaseAppend, ConfirmTransition, ConfirmAppend,
        Transition, AppendClosing
<1>7. /\ due' \subseteq Keys /\ posted' \subseteq MovementKeys
      /\ received' \in [Skus -> Int] /\ stranded' \in [Skus -> Nat]
      /\ failures' \in 0 .. MaxFailures
  <2>1. \A t \in Terminal : <<t, req[c].key>> \in MovementKeys
    BY <1>2 DEF MovementKeys, MovementKey
  <2>2. /\ UNCHANGED <<due, received, stranded, failures>>
        /\ posted' = posted \/ \E t \in Terminal : posted' = posted \cup {<<t, req[c].key>>}
    BY DEF ReleaseTransition, ReleaseStock, ReleaseAppend, ConfirmTransition,
           ConfirmStock, ConfirmAppend, Transition, AppendClosing, MovementType,
           Terminal
  <2> QED
    BY <2>1, <2>2 DEF TypeOK
<1>8. Grounded'
    BY <1>2, <1>4, <1>5, GroundedKept
<1> QED
    BY <1>4, <1>5, <1>6, <1>7, <1>8 DEF TypeOK

(* expireReservations() *)
LEMMA SweepType ==
    ASSUME TypeInv, NEW c \in Clients,
           (c \in Sweeps /\ SweepStart(c)) \/ SweepNext(c)
    PROVE  TypeInv'
<1> USE DEF TypeInv
<1>1. UNCHANGED <<stock, reservations, due, posted, received, stranded, failures>>
    BY DEF SweepStart, SweepNext
<1>2. PICK r \in Request :
         /\ Become(c, r)
         /\ r.pc \in {"idle", "sweep"} \cup ClosePcs
         /\ r.pc \in ClosePcs => reservations[r.key] \in Reservation
  <2>1. CASE SweepStart(c)
    <3>1. PICK batch \in SUBSET Keys : Become(c, Resume(batch))
      BY <2>1 DEF SweepStart, DueActive, TypeOK
    <3>2. /\ Resume(batch) \in Request
          /\ Resume(batch).pc \in {"idle", "sweep"}
      BY ResumeShape
    <3>3. Resume(batch).pc \notin ClosePcs
      BY <3>2 DEF ClosePcs
    <3> HIDE DEF Resume
    <3> QED
      BY <3>1, <3>2, <3>3
  <2>2. CASE SweepNext(c)
    <3>1. req[c] \in SweepRequest
      BY <2>2, RequestShape DEF SweepNext, At
    <3>2. PICK k \in req[c].batch :
             Become(c, IF reservations[k].status = "active"
                       THEN [pc |-> "release_transition", key |-> k,
                             batch |-> req[c].batch \ {k}]
                       ELSE Resume(req[c].batch \ {k}))
      BY <2>2 DEF SweepNext
    <3>3. k \in Keys /\ req[c].batch \ {k} \in SUBSET Keys
      BY <3>1 DEF SweepRequest
    <3> DEFINE rest == req[c].batch \ {k}
    <3>4. CASE reservations[k].status = "active"
      <4> DEFINE r == [pc |-> "release_transition", key |-> k, batch |-> rest]
      <4>1. r \in Request
        BY <3>3 DEF Request, CloseRequest, ClosePcs
      <4>2. reservations[k] \in Reservation
        BY <3>3, <3>4 DEF TypeOK, NoReservation
      <4>3. r.pc \in ClosePcs /\ r.key = k
        BY DEF ClosePcs
      <4>4. Become(c, r)
        BY <3>2, <3>4
      <4> HIDE DEF r
      <4> QED
        BY <4>1, <4>2, <4>3, <4>4
    <3>5. CASE reservations[k].status # "active"
      <4>1. /\ Resume(rest) \in Request
            /\ Resume(rest).pc \in {"idle", "sweep"}
        BY <3>3, ResumeShape
      <4>2. Resume(rest).pc \notin ClosePcs
        BY <4>1 DEF ClosePcs
      <4>3. Become(c, Resume(rest))
        BY <3>2, <3>5
      <4> HIDE DEF Resume
      <4> QED
        BY <4>1, <4>2, <4>3
    <3> QED
      BY <3>4, <3>5
  <2> QED
    BY <2>1, <2>2
<1>3. /\ req' \in [Clients -> Request]
      /\ req'[c] = r
      /\ \A d \in Clients \ {c} : req'[d] = req[d]
      /\ SweepsOnlySweep'
    BY <1>2, BecomeType DEF SweepPcs
<1>4. Grounded'
    BY <1>1, <1>2, <1>3, GroundedKept
<1> QED
    BY <1>1, <1>3, <1>4 DEF TypeOK, StockInvariant

(* What a reservation or a request holds is a quantity. *)
LEMMA HeldType ==
    ASSUME TypeInv, NEW s \in Skus
    PROVE  /\ \A k \in Keys : HeldByReservation(s, k) \in 0 .. MaxQuantity
           /\ \A c \in Clients : HeldByRequest(s, c) \in 0 .. MaxQuantity
<1> USE DEF TypeInv
<1>1. 0 \in 0 .. MaxQuantity /\ \A q \in Quantities : q \in 0 .. MaxQuantity
    BY QuantityAssumption
<1>2. ASSUME NEW k \in Keys
      PROVE  HeldByReservation(s, k) \in 0 .. MaxQuantity
  <2>1. reservations[k] \in Reservation \/ reservations[k].status # "active"
    BY DEF TypeOK, NoReservation
  <2> QED
    BY <1>1, <2>1 DEF HeldByReservation, Reservation
<1>3. ASSUME NEW c \in Clients
      PROVE  HeldByRequest(s, c) \in 0 .. MaxQuantity
  <2>1. CASE req[c].pc \in {"reserve_create", "reserve_undo"}
    <3>1. req[c] \in ReserveRequest
      BY <2>1, RequestShape DEF ReservePcs
    <3> QED
      BY <1>1, <2>1, <3>1 DEF HeldByRequest, ReserveRequest
  <2>2. CASE req[c].pc \in {"release_stock", "confirm_stock"}
    <3>1. reservations[req[c].key] \in Reservation
      BY <2>2 DEF Grounded, ClosePcs
    <3> QED
      BY <1>1, <2>2, <3>1 DEF HeldByRequest, Reservation
  <2>3. CASE req[c].pc \notin {"reserve_create", "reserve_undo",
                               "release_stock", "confirm_stock"}
    BY <1>1, <2>3 DEF HeldByRequest
  <2> QED
    BY <2>1, <2>2, <2>3
<1> QED
    BY <1>2, <1>3

(* Rejected calls and crashes *)
LEMMA BreaksType ==
    ASSUME TypeInv, NEW c \in Clients, Breaks(c)
    PROVE  TypeInv'
<1> USE DEF TypeInv
<1>1. UNCHANGED <<stock, reservations, due, posted, received>>
    BY DEF Breaks, CreateThrows, SweepItemThrows, CallThrows, Crash, Fails
<1>2. failures' \in 0 .. MaxFailures
    BY ProcessAssumption
    DEF Breaks, CreateThrows, SweepItemThrows, CallThrows, Crash, Fails, TypeOK
<1>3. stranded' \in [Skus -> Nat]
  <2>1. \A s \in Skus : stranded[s] + HeldByRequest(s, c) \in Nat
    BY HeldType, QuantityAssumption DEF TypeOK
  <2>2. UNCHANGED stranded \/ Strand(c)
    BY DEF Breaks, CreateThrows, SweepItemThrows, CallThrows, Crash
  <2> QED
    BY <2>1, <2>2 DEF Strand, TypeOK
<1>4. /\ req' \in [Clients -> Request]
      /\ req'[c].pc \notin ClosePcs
      /\ \A d \in Clients \ {c} : req'[d] = req[d]
      /\ SweepsOnlySweep'
  <2>1. CASE CreateThrows(c)
    <3>1. req[c].pc \in ReservePcs /\ \E pc \in ReservePcs : Goto(c, pc)
      BY <2>1 DEF CreateThrows, At, ReservePcs
    <3> QED
      BY <3>1, ReserveGoesOn
  <2>2. CASE SweepItemThrows(c)
    <3>1. req[c] \in SweepRequest
      BY <2>2, RequestShape DEF SweepItemThrows, At
    <3>2. PICK batch \in SUBSET Keys : Become(c, Resume(batch))
      BY <2>2, <3>1 DEF SweepItemThrows, SweepRequest
    <3>3. /\ Resume(batch) \in Request
          /\ Resume(batch).pc \in {"idle", "sweep"}
      BY ResumeShape
    <3> HIDE DEF Resume
    <3> QED
      BY <3>2, <3>3, BecomeType DEF SweepPcs, ClosePcs
  <2>3. CASE CallThrows(c)
    BY <2>3, FinishType DEF CallThrows, ClosePcs
  <2>4. CASE Crash(c)
    <3>1. Become(c, Idle)
      BY <2>4 DEF Crash
    <3>2. Idle.pc \in SweepPcs /\ Idle.pc \notin ClosePcs
      BY IdleShape DEF SweepPcs, ClosePcs
    <3> HIDE DEF Idle
    <3> QED
      BY <3>1, <3>2, IdleShape, BecomeType
  <2> QED
    BY <2>1, <2>2, <2>3, <2>4 DEF Breaks
<1>5. Grounded'
    BY <1>1, <1>4, GroundedKept
<1> QED
    BY <1>1, <1>2, <1>3, <1>4, <1>5 DEF TypeOK, StockInvariant

-----------------------------------------------------------------------------
(* TypeInv holds initially ... *)
LEMMA InitType == Init => TypeInv
<1> SUFFICES ASSUME Init PROVE TypeInv
    OBVIOUS
<1>1. \A c \in Clients : req[c] = Idle /\ req[c].pc = "idle"
    BY DEF Init, Idle
<1>2. Grounded /\ SweepsOnlySweep
    BY <1>1 DEF Grounded, SweepsOnlySweep, SweepPcs, ClosePcs, Clients
<1>3. /\ stock \in [Skus -> StockRecord] /\ StockInvariant
      /\ received \in [Skus -> Int] /\ stranded \in [Skus -> Nat]
    BY DEF Init, NoStock, StockRecord, StockInvariant
<1>4. /\ reservations \in [Keys -> {NoReservation} \cup Reservation]
      /\ due \subseteq Keys /\ posted \subseteq MovementKeys
      /\ failures \in 0 .. MaxFailures
    BY ProcessAssumption DEF Init
<1>5. req \in [Clients -> Request]
    BY DEF Init, Request
<1> QED
    BY <1>2, <1>3, <1>4, <1>5 DEF TypeInv, TypeOK

(* ... and every step keeps it. *)
LEMMA NextType == TypeInv /\ [Next]_vars => TypeInv'
<1> SUFFICES ASSUME TypeInv, [Next]_vars PROVE TypeInv'
    OBVIOUS
<1>1. ASSUME NEW c \in Requests, Arrives(c) PROVE TypeInv'
    BY <1>1, ArrivesType
<1>2. ASSUME NEW c \in Sweeps, SweepStart(c) PROVE TypeInv'
    BY <1>2, SweepType DEF Clients
<1>3. ASSUME NEW c \in Clients, Continues(c) PROVE TypeInv'
    BY <1>3, RecordType, ReserveType, CloseType, SweepType DEF Continues
<1>4. ASSUME NEW c \in Clients, Breaks(c) PROVE TypeInv'
    BY <1>4, BreaksType
<1>5. ASSUME NEW k \in Keys, Expire(k) PROVE TypeInv'
    BY <1>5 DEF Expire, TypeInv, TypeOK, StockInvariant, Grounded, SweepsOnlySweep
<1>6. CASE UNCHANGED vars
    BY <1>6 DEF vars, TypeInv, TypeOK, StockInvariant, Grounded, SweepsOnlySweep
<1> QED
    BY <1>1, <1>2, <1>3, <1>4, <1>5, <1>6 DEF Next

THEOREM TypeInvariance == Spec => []TypeInv
<1> QED
    BY InitType, NextType, PTL DEF Spec

(* The collections and the requests in flight keep their types, whatever   *)
(* the numbers of SKUs, keys, requests and sweeps.                         *)
THEOREM TypeCorrect == Spec => []TypeOK
<1>1. TypeInv => TypeOK
    BY DEF TypeInv
<1> QED
    BY <1>1, TypeInvariance, PTL

(* No unit is promised that is not on hand: reserve(), adjust(), release() *)
(* and confirm() never oversell, whatever interleaves or fails.            *)
THEOREM NoOversell == Spec => []StockInvariant
<1>1. TypeInv => StockInvariant
    BY DEF TypeInv
<1> QED
    BY <1>1, TypeInvariance, PTL

(* Only the insert and the transition out of active write reservations. *)
LEMMA FateKept == TypeInv /\ [Next]_vars => KeepsFate
<1> SUFFICES ASSUME TypeInv, [Next]_vars PROVE KeepsFate
    OBVIOUS
<1>1. \/ UNCHANGED reservations
      \/ \E k \in Keys : /\ reservations[k] = NoReservation
                         /\ \A j \in Keys \ {k} : reservations'[j] = reservations[j]
      \/ \E k \in Keys, to \in Terminal :
            /\ reservations[k].status = "active"
            /\ reservations' = [reservations EXCEPT ![k].status = to]
  <2>1. CASE \E c \in Clients : ReserveCreate(c)
    <3>1. PICK c \in Clients : ReserveCreate(c)
      BY <2>1
    <3>2. req[c].key \in Keys
      BY <3>1, RequestShape DEF ReserveCreate, At, ReservePcs, TypeInv, ReserveRequest
    <3> QED
      BY <3>1, <3>2 DEF ReserveCreate, TypeInv, TypeOK
  <2>2. CASE \E c \in Clients : ReleaseTransition(c) \/ ConfirmTransition(c)
    <3>1. PICK c \in Clients : ReleaseTransition(c) \/ ConfirmTransition(c)
      BY <2>2
    <3>2. req[c].key \in Keys
      BY <3>1, RequestShape
      DEF ReleaseTransition, ConfirmTransition, At, ClosePcs, TypeInv, CloseRequest
    <3> QED
      BY <3>1, <3>2
      DEF ReleaseTransition, ConfirmTransition, Transition, Transitionable,
          Target, Terminal
  <2>3. CASE UNCHANGED reservations
    BY <2>3
  <2>4. ASSUME NEW c \in Clients, Continues(c)
        PROVE  \/ UNCHANGED reservations \/ ReserveCreate(c)
               \/ ReleaseTransition(c) \/ ConfirmTransition(c)
    BY <2>4
    DEF Continues, EnsureCreate, EnsureAppend, AdjustApply, AdjustAppend,
        ReserveStock, ReserveUndo, ReserveReplay, ReserveAppend, ReleaseStock,
        ReleaseAppend, ConfirmStock, ConfirmAppend, AppendClosing, SweepNext
  <2>5. ASSUME NEW c \in Clients, Arrives(c) \/ SweepStart(c) \/ Breaks(c)
        PROVE  UNCHANGED reservations
    BY <2>5
    DEF Arrives, EnsureStart, AdjustStart, ReserveStart, ReleaseStart,
        ConfirmStart, CloseStart, SweepStart, Breaks, CreateThrows,
        SweepItemThrows, CallThrows, Crash, Fails
  <2> QED
    BY <2>1, <2>2, <2>3, <2>4, <2>5 DEF Next, Expire, vars, Clients
<1>2. \A k \in Keys : \/ reservations[k] = NoReservation
                      \/ reservations[k] \in Reservation
    BY DEF TypeInv, TypeOK
<1>3. NoReservation.status \notin Terminal /\ "active" \notin Terminal
    BY DEF NoReservation, Terminal
<1> SUFFICES ASSUME NEW j \in Keys
             PROVE  /\ reservations[j] # NoReservation =>
                          /\ reservations'[j].sku = reservations[j].sku
                          /\ reservations'[j].qty = reservations[j].qty
                    /\ reservations[j].status \in Terminal =>
                          reservations'[j] = reservations[j]
    BY DEF KeepsFate
<1>4. CASE reservations'[j] = reservations[j]
    BY <1>4
<1>5. CASE reservations[j] = NoReservation
    BY <1>3, <1>5
<1>6. ASSUME NEW to \in Terminal, reservations[j] \in Reservation,
             reservations[j].status = "active",
             reservations'[j] = [reservations[j] EXCEPT !.status = to]
      PROVE  /\ reservations'[j].sku = reservations[j].sku
             /\ reservations'[j].qty = reservations[j].qty
    BY <1>6 DEF Reservation
<1>7. \/ reservations'[j] = reservations[j]
      \/ reservations[j] = NoReservation
      \/ /\ reservations[j].status = "active"
         /\ \E to \in Terminal :
               reservations'[j] = [reservations[j] EXCEPT !.status = to]
    BY <1>1 DEF TypeInv, TypeOK
<1> QED
    BY <1>2, <1>3, <1>4, <1>5, <1>6, <1>7

(* Terminal states of a reservation are final, and its SKU and quantity    *)
(* never change.                                                           *)
THEOREM TerminalStaysFinal == Spec => TerminalIsFinal
<1> QED
    BY FateKept, TypeInvariance, PTL DEF Spec, TerminalIsFinal

-----------------------------------------------------------------------------
(***************************************************************************)
(* Every reserved unit is accounted for.                                   *)
(*                                                                         *)
(* The stock record and the reservation are updated by separate calls, so  *)
(* the counter agrees with the reservations only when the requests between *)
(* two calls are counted too. With them it always does: a step moves units *)
(* from one holder to another, or changes the counter by what one holder   *)
(* gains or loses. What a holder still has to give back can then always be *)
(* given back.                                                             *)
(***************************************************************************)

Holders == Keys \cup Clients

(* There are no reserved units of a SKU without a stock record. *)
Unlisted == \A s \in Skus : ~ stock[s].exists => stock[s].reserved = 0

Balance(s) == stock[s].reserved = Tally(Custody(s), MaxQuantity) + stranded[s]

(* The inductive invariant. *)
CustodyInv == TypeInv /\ Unlisted /\ ReservedIsHeld

-----------------------------------------------------------------------------
LEMMA HoldersFinite == IsFiniteSet(Holders)
<1>1. IsFiniteSet(Clients)
    BY ProcessAssumption, FS_Union DEF Clients
<1> QED
    BY <1>1, ProcessAssumption, FS_Union DEF Holders

(* What custody is made of. *)
CustodyShaped ==
    \A s \in Skus :
        /\ Custody(s) \in [Holders -> 0 .. MaxQuantity]
        /\ \A k \in Keys : Custody(s)[k] = HeldByReservation(s, k)
        /\ \A c \in Clients : Custody(s)[c] = HeldByRequest(s, c)

LEMMA CustodyHasShape == TypeInv => CustodyShaped
<1> SUFFICES ASSUME TypeInv, NEW s \in Skus
             PROVE  /\ Custody(s) \in [Holders -> 0 .. MaxQuantity]
                    /\ \A k \in Keys : Custody(s)[k] = HeldByReservation(s, k)
                    /\ \A c \in Clients : Custody(s)[c] = HeldByRequest(s, c)
    BY DEF CustodyShaped
<1>1. /\ \A k \in Keys : HeldByReservation(s, k) \in 0 .. MaxQuantity
      /\ \A c \in Clients : HeldByRequest(s, c) \in 0 .. MaxQuantity
    BY HeldType
<1>2. \A c \in Clients : c \notin Keys
    BY ProcessAssumption
<1> QED
    BY <1>1, <1>2 DEF Custody, Holders

LEMMA CustodyShapeNext ==
    ASSUME TypeInv, TypeInv', NEW s \in Skus
    PROVE  /\ Custody(s) \in [Holders -> 0 .. MaxQuantity]
           /\ Custody(s)' \in [Holders -> 0 .. MaxQuantity]
           /\ \A k \in Keys : /\ Custody(s)[k] = HeldByReservation(s, k)
                               /\ Custody(s)'[k] = HeldByReservation(s, k)'
           /\ \A c \in Clients : /\ Custody(s)[c] = HeldByRequest(s, c)
                                  /\ Custody(s)'[c] = HeldByRequest(s, c)'
<1>1. CustodyShaped
    BY CustodyHasShape
<1>2. CustodyShaped'
    BY CustodyHasShape, PTL
<1> QED
    BY <1>1, <1>2 DEF CustodyShaped

(* Nobody's holdings change. *)
LEMMA BalanceKept ==
    ASSUME TypeInv, TypeInv', NEW s \in Skus, Balance(s),
           \A k \in Keys : HeldByReservation(s, k)' = HeldByReservation(s, k),
           \A c \in Clients : HeldByRequest(s, c)' = HeldByRequest(s, c),
           stock'[s].reserved = stock[s].reserved,
           stranded'[s] = stranded[s]
    PROVE  Balance(s)'
<1>1. Custody(s)' = Custody(s)
  <2>1. \A h \in Holders : Custody(s)'[h] = Custody(s)[h]
    BY CustodyShapeNext DEF Holders
  <2>2. Custody(s) \in [Holders -> 0 .. MaxQuantity]
    BY CustodyShapeNext
  <2>3. Custody(s)' \in [Holders -> 0 .. MaxQuantity]
    BY CustodyShapeNext
  <2> QED
    BY <2>1, <2>2, <2>3
<1> QED
    BY <1>1 DEF Balance

(* One request gains or loses units. *)
LEMMA BalanceUpdate ==
    ASSUME TypeInv, TypeInv', NEW s \in Skus, Balance(s), NEW c \in Clients,
           \A k \in Keys : HeldByReservation(s, k)' = HeldByReservation(s, k),
           \A d \in Clients \ {c} : HeldByRequest(s, d)' = HeldByRequest(s, d),
           stock'[s].reserved + HeldByRequest(s, c) + stranded[s]
              = stock[s].reserved + HeldByRequest(s, c)' + stranded'[s]
    PROVE  Balance(s)'
<1> DEFINE f == Custody(s)
           g == Custody(s)'
<1>1. f \in [Holders -> 0 .. MaxQuantity] /\ f[c] = HeldByRequest(s, c)
    BY CustodyShapeNext
<1>2. g \in [Holders -> 0 .. MaxQuantity] /\ g[c] = HeldByRequest(s, c)'
    BY CustodyShapeNext
<1>3. c \in Holders /\ \A h \in Holders \ {c} : g[h] = f[h]
    BY CustodyShapeNext DEF Holders
<1>4. MaxQuantity \in Nat
    BY QuantityAssumption
<1>5. stock[s].reserved \in Nat /\ stranded[s] \in Nat
    BY DEF TypeInv, TypeOK, StockRecord
<1>6. stock'[s].reserved \in Nat /\ stranded'[s] \in Nat
    BY DEF TypeInv, TypeOK, StockRecord
<1>7. stock[s].reserved = Tally(f, MaxQuantity) + stranded[s]
    BY DEF Balance
<1> HIDE DEF f, g
<1>8. Tally(g, MaxQuantity) = Tally(f, MaxQuantity) - f[c] + g[c]
    BY <1>1, <1>2, <1>3, <1>4, HoldersFinite, TallyUpdate
<1>9. /\ Tally(f, MaxQuantity) \in Nat /\ Tally(g, MaxQuantity) \in Nat
      /\ f[c] \in Nat /\ g[c] \in Nat
    BY <1>1, <1>2, <1>3, <1>4, HoldersFinite, TallyType
<1>10. stock'[s].reserved = Tally(g, MaxQuantity) + stranded'[s]
    BY <1>1, <1>2, <1>5, <1>6, <1>7, <1>8, <1>9
<1> QED
    BY <1>10 DEF Balance, g

(* Units move between a reservation and a request. *)
LEMMA BalanceMove ==
    ASSUME TypeInv, TypeInv', NEW s \in Skus, Balance(s),
           NEW c \in Clients, NEW k \in Keys,
           \A j \in Keys \ {k} : HeldByReservation(s, j)' = HeldByReservation(s, j),
           \A d \in Clients \ {c} : HeldByRequest(s, d)' = HeldByRequest(s, d),
           HeldByReservation(s, k)' + HeldByRequest(s, c)'
              = HeldByReservation(s, k) + HeldByRequest(s, c),
           stock'[s].reserved = stock[s].reserved,
           stranded'[s] = stranded[s]
    PROVE  Balance(s)'
<1> DEFINE f == Custody(s)
           g == Custody(s)'
<1>1. /\ f \in [Holders -> 0 .. MaxQuantity]
      /\ f[c] = HeldByRequest(s, c) /\ f[k] = HeldByReservation(s, k)
    BY CustodyShapeNext
<1>2. /\ g \in [Holders -> 0 .. MaxQuantity]
      /\ g[c] = HeldByRequest(s, c)' /\ g[k] = HeldByReservation(s, k)'
    BY CustodyShapeNext
<1>3. /\ c \in Holders /\ k \in Holders /\ c # k
      /\ \A h \in Holders \ {k, c} : g[h] = f[h]
    BY CustodyShapeNext, ProcessAssumption DEF Holders
<1>4. MaxQuantity \in Nat
    BY QuantityAssumption
<1>5. stock[s].reserved = Tally(f, MaxQuantity) + stranded[s]
    BY DEF Balance
<1> HIDE DEF f, g
<1>6. g[k] + g[c] = f[k] + f[c]
    BY <1>1, <1>2
<1>7. Tally(g, MaxQuantity) = Tally(f, MaxQuantity)
    BY <1>1, <1>2, <1>3, <1>4, <1>6, HoldersFinite, TallyMove
<1>8. stock'[s].reserved = Tally(g, MaxQuantity) + stranded'[s]
    BY <1>5, <1>7
<1> QED
    BY <1>8 DEF Balance, g

-----------------------------------------------------------------------------
(* Reservations keep their SKU and quantity. *)
Faithful ==
    \A k \in Keys : reservations[k] \in Reservation =>
                       /\ reservations'[k].sku = reservations[k].sku
                       /\ reservations'[k].qty = reservations[k].qty

(* What a request holds depends on its own record, and on the SKU and      *)
(* quantity of its reservation.                                            *)
LEMMA HeldKept ==
    ASSUME TypeInv, Faithful, NEW s \in Skus, NEW d \in Clients,
           req'[d] = req[d]
    PROVE  HeldByRequest(s, d)' = HeldByRequest(s, d)
<1>1. CASE req[d].pc \in {"release_stock", "confirm_stock"}
  <2>1. req[d].pc \in ClosePcs
    BY <1>1 DEF ClosePcs
  <2>2. req[d].key \in Keys /\ reservations[req[d].key] \in Reservation
    BY <2>1, RequestShape DEF TypeInv, Grounded, CloseRequest
  <2>3. /\ reservations'[req[d].key].sku = reservations[req[d].key].sku
        /\ reservations'[req[d].key].qty = reservations[req[d].key].qty
    BY <2>2 DEF Faithful
  <2> QED
    BY <1>1, <2>3 DEF HeldByRequest
<1>2. CASE req[d].pc \notin {"release_stock", "confirm_stock"}
    BY <1>2 DEF HeldByRequest
<1> QED
    BY <1>1, <1>2

(* Requests that are not moving units hold none. *)
HandsOn == {"reserve_create", "reserve_undo", "release_stock", "confirm_stock"}

LEMMA HeldByNone ==
    ASSUME NEW s \in Skus, NEW c \in Clients, req[c].pc \notin HandsOn
    PROVE  HeldByRequest(s, c) = 0
BY DEF HeldByRequest, HandsOn

LEMMA HeldByNoneNext ==
    ASSUME NEW s \in Skus, NEW c \in Clients, req'[c].pc \notin HandsOn
    PROVE  HeldByRequest(s, c)' = 0
BY DEF HeldByRequest, HandsOn

(* What a request holds can be given back. *)
LEMMA HeldIsReturnable ==
    ASSUME CustodyInv, NEW s \in Skus, NEW c \in Clients,
           HeldByRequest(s, c) \in Nat \ {0}
    PROVE  Returnable(s, HeldByRequest(s, c))
<1> USE DEF CustodyInv
<1>1. /\ Custody(s) \in [Holders -> 0 .. MaxQuantity]
      /\ Custody(s)[c] = HeldByRequest(s, c)
    BY CustodyHasShape DEF CustodyShaped
<1>2. c \in Holders /\ MaxQuantity \in Nat
    BY QuantityAssumption DEF Holders
<1>3. /\ Custody(s)[c] <= Tally(Custody(s), MaxQuantity)
      /\ Tally(Custody(s), MaxQuantity) \in Nat
    BY <1>1, <1>2, HoldersFinite, TallyBound, TallyType
<1>4. stock[s].reserved = Tally(Custody(s), MaxQuantity) + stranded[s]
    BY DEF ReservedIsHeld
<1>5. stock[s].reserved \in Nat /\ stranded[s] \in Nat
    BY DEF TypeInv, TypeOK, StockRecord
<1>6. stock[s].reserved >= HeldByRequest(s, c)
    BY <1>1, <1>3, <1>4, <1>5
<1>7. stock[s].exists \in BOOLEAN
    BY DEF TypeInv, TypeOK, StockRecord
<1>8. stock[s].exists
    BY <1>5, <1>6, <1>7 DEF Unlisted
<1> QED
    BY <1>6, <1>8 DEF Returnable

-----------------------------------------------------------------------------
(***************************************************************************)
(* The actions                                                             *)
(***************************************************************************)

(* A step of a request that moves no units. *)
LEMMA IdleStep ==
    ASSUME TypeInv, TypeInv', ReservedIsHeld, NEW c \in Clients,
           UNCHANGED <<reservations, stranded>>,
           \A s \in Skus : stock'[s].reserved = stock[s].reserved,
           req[c].pc \notin HandsOn, req'[c].pc \notin HandsOn,
           \A d \in Clients \ {c} : req'[d] = req[d]
    PROVE  ReservedIsHeld'
<1> SUFFICES ASSUME NEW s \in Skus PROVE Balance(s)'
    BY DEF ReservedIsHeld, Balance
<1>1. \A d \in Clients \ {c} : HeldByRequest(s, d)' = HeldByRequest(s, d)
    BY HeldKept DEF Faithful
<1>2. HeldByRequest(s, c)' = HeldByRequest(s, c)
    BY HeldByNone, HeldByNoneNext
<1>3. \A k \in Keys : HeldByReservation(s, k)' = HeldByReservation(s, k)
    BY DEF HeldByReservation
<1>4. Balance(s)
    BY DEF ReservedIsHeld, Balance
<1> QED
    BY <1>1, <1>2, <1>3, <1>4, BalanceKept

(* Requests that arrive hold nothing yet. *)
LEMMA ArrivesCustody ==
    ASSUME CustodyInv, TypeInv', NEW c \in Requests, Arrives(c)
    PROVE  CustodyInv'
<1> USE DEF CustodyInv
<1>1. c \in Clients /\ req \in [Clients -> Request]
    BY DEF Clients, TypeInv, TypeOK
<1>2. UNCHANGED <<stock, reservations, stranded>> /\ req[c].pc \notin HandsOn
    BY DEF Arrives, EnsureStart, AdjustStart, ReserveStart, ReleaseStart,
           ConfirmStart, CloseStart, At, HandsOn
<1>3. \E r : Become(c, r) /\ r.pc \notin HandsOn
  <2>1. ASSUME NEW s \in Skus, NEW n \in Openings, EnsureStart(c, s, n)
        PROVE  \E r : Become(c, r) /\ r.pc \notin HandsOn
    BY <2>1 DEF EnsureStart, HandsOn
  <2>2. ASSUME NEW s \in Skus, NEW d \in Deltas, NEW a \in AdjustKeys \cup {NoKey},
               AdjustStart(c, s, d, a)
        PROVE  \E r : Become(c, r) /\ r.pc \notin HandsOn
    BY <2>2 DEF AdjustStart, HandsOn
  <2>3. ASSUME NEW s \in Skus, NEW k \in Keys, NEW q \in Quantities,
               ReserveStart(c, s, k, q)
        PROVE  \E r : Become(c, r) /\ r.pc \notin HandsOn
    BY <2>3 DEF ReserveStart, HandsOn
  <2>4. ASSUME NEW k \in Keys, ReleaseStart(c, k) \/ ConfirmStart(c, k)
        PROVE  \E r : Become(c, r) /\ r.pc \notin HandsOn
    BY <2>4 DEF ReleaseStart, ConfirmStart, CloseStart, HandsOn
  <2> QED
    BY <2>1, <2>2, <2>3, <2>4 DEF Arrives
<1>4. req'[c].pc \notin HandsOn /\ \A d \in Clients \ {c} : req'[d] = req[d]
    BY <1>1, <1>3 DEF Become
<1>5. ReservedIsHeld'
    BY <1>1, <1>2, <1>4, IdleStep
<1> QED
    BY <1>2, <1>5 DEF Unlisted

(* Steps that write stock records and ledger entries but move no units. *)
LEMMA RecordCustody ==
    ASSUME CustodyInv, TypeInv', NEW c \in Clients,
           \/ EnsureCreate(c) \/ EnsureAppend(c) \/ AdjustApply(c) \/ AdjustAppend(c)
           \/ ReserveReplay(c) \/ ReserveAppend(c)
           \/ ReleaseAppend(c) \/ ConfirmAppend(c)
    PROVE  CustodyInv'
<1> USE DEF CustodyInv
<1>1. UNCHANGED <<reservations, stranded>>
    BY DEF EnsureCreate, EnsureAppend, AdjustApply, AdjustAppend, ReserveReplay,
           ReserveAppend, ReleaseAppend, ConfirmAppend, AppendClosing
<1>2. req[c].pc \notin HandsOn /\ req[c].pc # "idle"
    BY DEF EnsureCreate, EnsureAppend, AdjustApply, AdjustAppend, ReserveReplay,
           ReserveAppend, ReleaseAppend, ConfirmAppend, At, HandsOn
<1>3. req'[c].pc \notin HandsOn /\ \A d \in Clients \ {c} : req'[d] = req[d]
  <2>1. CASE Finish(c)
    BY <1>2, <2>1, FinishType DEF TypeInv, HandsOn
  <2>2. CASE EnsureCreate(c) /\ Goto(c, "ensure_append")
    <3>1. /\ req'[c].pc = "ensure_append"
          /\ \A d \in Clients \ {c} : req'[d] = req[d]
      BY <2>2, GotoType, Zenon DEF EnsureCreate, At, TypeInv
    <3> QED
      BY <3>1 DEF HandsOn
  <2>3. CASE AdjustApply(c) /\ Goto(c, "adjust_append")
    <3>1. /\ req'[c].pc = "adjust_append"
          /\ \A d \in Clients \ {c} : req'[d] = req[d]
      BY <2>3, GotoType, Zenon DEF AdjustApply, At, TypeInv
    <3> QED
      BY <3>1 DEF HandsOn
  <2> QED
    BY <2>1, <2>2, <2>3
    DEF EnsureCreate, EnsureAppend, AdjustApply, AdjustAppend, ReserveReplay,
        ReserveAppend, ReleaseAppend, ConfirmAppend, AppendClosing
<1>4. Unlisted' /\ \A s \in Skus : stock'[s].reserved = stock[s].reserved
  <2>1. CASE EnsureCreate(c)
    <3>1. \/ UNCHANGED stock
          \/ /\ ~ stock[req[c].sku].exists
             /\ \E r : /\ r.exists /\ r.reserved = 0
                       /\ stock' = [stock EXCEPT ![req[c].sku] = r]
      BY <2>1 DEF EnsureCreate
    <3> QED
      BY <3>1 DEF Unlisted, TypeInv, TypeOK
  <2>2. CASE AdjustApply(c)
    <3>1. \A s \in Skus :
             stock'[s] = stock[s] \/ \E n : stock'[s] = [stock[s] EXCEPT !.onHand = n]
      BY <2>2 DEF AdjustApply, TypeInv, TypeOK
    <3>2. \A s \in Skus : stock[s] \in StockRecord
      BY DEF TypeInv, TypeOK
    <3>3. \A s \in Skus : /\ stock'[s].exists = stock[s].exists
                          /\ stock'[s].reserved = stock[s].reserved
      BY <3>1, <3>2 DEF StockRecord
    <3> QED
      BY <3>3 DEF Unlisted
  <2>3. CASE UNCHANGED stock
    BY <2>3 DEF Unlisted
  <2> QED
    BY <2>1, <2>2, <2>3
    DEF EnsureAppend, AdjustAppend, ReserveReplay, ReserveAppend, ReleaseAppend,
        ConfirmAppend, AppendClosing
<1>5. ReservedIsHeld'
    BY <1>1, <1>2, <1>3, <1>4, IdleStep
<1> QED
    BY <1>4, <1>5

(* The sweep picks reservations and holds nothing between two of them. *)
LEMMA SweepCustody ==
    ASSUME CustodyInv, TypeInv', NEW c \in Clients,
           SweepStart(c) \/ SweepNext(c) \/ SweepItemThrows(c)
    PROVE  CustodyInv'
<1> USE DEF CustodyInv
<1>1. UNCHANGED <<stock, reservations, stranded>> /\ req[c].pc \notin HandsOn
    BY DEF SweepStart, SweepNext, SweepItemThrows, Fails, At, HandsOn
<1>2. \E r : Become(c, r) /\ r.pc \notin HandsOn
  <2>1. \A batch : Resume(batch).pc \notin HandsOn
    BY DEF Resume, Idle, HandsOn
  <2>2. \A k, batch : [pc |-> "release_transition", key |-> k,
                       batch |-> batch].pc \notin HandsOn
    BY DEF HandsOn
  <2> HIDE DEF Resume, HandsOn
  <2> QED
    BY <2>1, <2>2 DEF SweepStart, SweepNext, SweepItemThrows
<1>3. req'[c].pc \notin HandsOn /\ \A d \in Clients \ {c} : req'[d] = req[d]
    BY <1>2 DEF Become, TypeInv, TypeOK
<1>4. ReservedIsHeld'
    BY <1>1, <1>3, IdleStep
<1> QED
    BY <1>1, <1>4 DEF Unlisted

(* A request gains or loses units of SKU t, and the counter with it. *)
LEMMA UnitsStep ==
    ASSUME CustodyInv, TypeInv', NEW c \in Clients, NEW t \in Skus,
           NEW r,
           UNCHANGED <<reservations, stranded>>,
           \A d \in Clients \ {c} : req'[d] = req[d],
           \A s \in Skus \ {t} : HeldByRequest(s, c)' = HeldByRequest(s, c),
           stock' = [stock EXCEPT ![t] = r], r.exists,
           r.reserved + HeldByRequest(t, c)
              = stock[t].reserved + HeldByRequest(t, c)'
    PROVE  CustodyInv'
<1> USE DEF CustodyInv
<1>1. /\ \A s \in Skus \ {t} : stock'[s] = stock[s]
      /\ stock'[t] = r
    BY DEF TypeInv, TypeOK
<1>2. Unlisted'
    BY <1>1 DEF Unlisted
<1>3. ASSUME NEW s \in Skus PROVE Balance(s)'
  <2>1. \A d \in Clients \ {c} : HeldByRequest(s, d)' = HeldByRequest(s, d)
    BY HeldKept DEF Faithful
  <2>2. \A k \in Keys : HeldByReservation(s, k)' = HeldByReservation(s, k)
    BY DEF HeldByReservation
  <2>3. /\ HeldByRequest(s, c) \in Nat /\ HeldByRequest(s, c)' \in Nat
        /\ stock[s].reserved \in Nat /\ stranded[s] \in Nat
        /\ stock'[s].reserved \in Nat
    <3>1. HeldByRequest(s, c) \in 0 .. MaxQuantity
      BY HeldType
    <3>2. Custody(s)' \in [Holders -> 0 .. MaxQuantity]
          /\ Custody(s)'[c] = HeldByRequest(s, c)'
      BY CustodyShapeNext
    <3>3. HeldByRequest(s, c)' \in 0 .. MaxQuantity
      BY <3>2 DEF Holders
    <3> QED
      BY <3>1, <3>3, QuantityAssumption DEF TypeInv, TypeOK, StockRecord
  <2>4. stock'[s].reserved + HeldByRequest(s, c) + stranded[s]
           = stock[s].reserved + HeldByRequest(s, c)' + stranded'[s]
    <3>1. CASE s = t
      BY <1>1, <2>3, <3>1
    <3>2. CASE s # t
      BY <1>1, <2>3, <3>2
    <3> QED
      BY <3>1, <3>2
  <2>5. Balance(s)
    BY DEF ReservedIsHeld, Balance
  <2> QED
    BY <2>1, <2>2, <2>4, <2>5, BalanceUpdate
<1> QED
    BY <1>2, <1>3 DEF ReservedIsHeld, Balance

(* reserve() takes units before there is a reservation, and gives them     *)
(* back when there will be none.                                           *)
LEMMA ReserveUnits ==
    ASSUME CustodyInv, TypeInv', NEW c \in Clients, ReserveStock(c) \/ ReserveUndo(c)
    PROVE  CustodyInv'
<1> USE DEF CustodyInv
<1>1. PICK t \in Skus, q \in Nat \ {0} :
         /\ req[c].sku = t /\ req[c].qty = q
         /\ req[c].pc \in ReservePcs /\ req[c].pc # "idle"
  <2>1. req[c].pc \in ReservePcs /\ req[c].pc # "idle"
    BY DEF ReserveStock, ReserveUndo, At, ReservePcs
  <2>2. req[c] \in ReserveRequest
    BY <2>1, RequestShape DEF TypeInv
  <2>3. \A n \in Quantities : n \in Nat \ {0}
    BY QuantityAssumption
  <2> QED
    BY <2>1, <2>2, <2>3 DEF ReserveRequest
<1>2. UNCHANGED <<reservations, stranded>>
    BY DEF ReserveStock, ReserveUndo
<1>3. CASE ReserveStock(c) /\ Reservable(t, q)
  <2>1. Goto(c, "reserve_create") /\ req[c].pc \notin HandsOn
    BY <1>1, <1>3 DEF ReserveStock, At, HandsOn
  <2>2. /\ req'[c] = [req[c] EXCEPT !.pc = "reserve_create"]
        /\ req'[c].pc = "reserve_create"
        /\ \A d \in Clients \ {c} : req'[d] = req[d]
    <3>1. "reserve_create" \in ReservePcs
      BY DEF ReservePcs
    <3> QED
      BY <1>1, <2>1, <3>1, GotoType, Zenon DEF TypeInv
  <2>3. /\ \A s \in Skus : HeldByRequest(s, c) = 0
        /\ \A s \in Skus \ {t} : HeldByRequest(s, c)' = 0
        /\ HeldByRequest(t, c)' = q
    <3>1. req[c] \in ReserveRequest
      BY <1>1, RequestShape DEF TypeInv
    <3>2. req'[c].sku = t /\ req'[c].qty = q
      BY <1>1, <2>2, <3>1 DEF ReserveRequest
    <3> QED
      BY <1>1, <2>1, <2>2, <3>2, HeldByNone DEF HeldByRequest
  <2>4. /\ stock[t].exists
        /\ stock' = [stock EXCEPT ![t] = [stock[t] EXCEPT !.reserved = @ + q]]
    BY <1>1, <1>3 DEF ReserveStock, Reservable
  <2>5. stock[t] \in StockRecord
    BY <1>1 DEF TypeInv, TypeOK
  <2> DEFINE r == [stock[t] EXCEPT !.reserved = @ + q]
  <2>6. r.exists /\ r.reserved + 0 = stock[t].reserved + q
    BY <1>1, <2>4, <2>5 DEF StockRecord
  <2>7. r.reserved + HeldByRequest(t, c) = stock[t].reserved + HeldByRequest(t, c)'
    BY <1>1, <2>3, <2>6
  <2>8. \A s \in Skus \ {t} : HeldByRequest(s, c)' = HeldByRequest(s, c)
    BY <2>3
  <2>9. r.exists /\ stock' = [stock EXCEPT ![t] = r]
    BY <2>4, <2>6
  <2> HIDE DEF r
  <2> QED
    BY <1>1, <1>2, <2>2, <2>7, <2>8, <2>9, UnitsStep
<1>4. CASE ReserveStock(c) /\ ~ Reservable(t, q)
  <2>1. Finish(c) /\ UNCHANGED stock /\ req[c].pc \notin HandsOn
    BY <1>1, <1>4 DEF ReserveStock, At, HandsOn
  <2>2. req'[c].pc \notin HandsOn /\ \A d \in Clients \ {c} : req'[d] = req[d]
    BY <1>1, <2>1, FinishType DEF TypeInv, HandsOn
  <2> QED
    BY <1>2, <2>1, <2>2, IdleStep DEF Unlisted
<1>5. CASE ReserveUndo(c)
  <2>1. Finish(c) /\ req[c].pc = "reserve_undo"
    BY <1>1, <1>5 DEF ReserveUndo, At
  <2>2. req'[c].pc \notin HandsOn /\ \A d \in Clients \ {c} : req'[d] = req[d]
    BY <1>1, <2>1, FinishType DEF TypeInv, HandsOn
  <2>3. /\ \A s \in Skus \ {t} : HeldByRequest(s, c) = 0
        /\ HeldByRequest(t, c) = q
        /\ \A s \in Skus : HeldByRequest(s, c)' = 0
    BY <1>1, <2>1, <2>2, HeldByNoneNext DEF HeldByRequest
  <2>4. Returnable(t, q)
    BY <1>1, <2>3, HeldIsReturnable
  <2>5. /\ stock[t].exists
        /\ stock' = [stock EXCEPT ![t] = [stock[t] EXCEPT !.reserved = @ - q]]
    BY <1>1, <1>5, <2>4 DEF ReserveUndo, Returnable
  <2>6. stock[t] \in StockRecord
    BY <1>1 DEF TypeInv, TypeOK
  <2> DEFINE r == [stock[t] EXCEPT !.reserved = @ - q]
  <2>7. r.exists /\ r.reserved + q = stock[t].reserved + 0
    BY <1>1, <2>5, <2>6 DEF StockRecord
  <2>8. r.reserved + HeldByRequest(t, c) = stock[t].reserved + HeldByRequest(t, c)'
    BY <1>1, <2>3, <2>7
  <2>9. \A s \in Skus \ {t} : HeldByRequest(s, c)' = HeldByRequest(s, c)
    BY <2>3
  <2>10. r.exists /\ stock' = [stock EXCEPT ![t] = r]
    BY <2>5, <2>7
  <2> HIDE DEF r
  <2> QED
    BY <1>1, <1>2, <2>2, <2>8, <2>9, <2>10, UnitsStep
<1> QED
    BY <1>3, <1>4, <1>5

(* release() and confirm() take the units of the reservation they closed. *)
LEMMA CloseUnits ==
    ASSUME CustodyInv, TypeInv', NEW c \in Clients, ReleaseStock(c) \/ ConfirmStock(c)
    PROVE  CustodyInv'
<1> USE DEF CustodyInv
<1>1. req[c].pc \in {"release_stock", "confirm_stock"} /\ req[c].pc \in ClosePcs
    BY DEF ReleaseStock, ConfirmStock, At, ClosePcs
<1>2. PICK t \in Skus, q \in Nat \ {0} :
         reservations[req[c].key].sku = t /\ reservations[req[c].key].qty = q
  <2>1. reservations[req[c].key] \in Reservation
    BY <1>1 DEF TypeInv, Grounded
  <2>2. \A n \in Quantities : n \in Nat \ {0}
    BY QuantityAssumption
  <2> QED
    BY <2>1, <2>2 DEF Reservation
<1>3. UNCHANGED <<reservations, stranded>>
    BY DEF ReleaseStock, ConfirmStock
<1>4. /\ \A s \in Skus \ {t} : HeldByRequest(s, c) = 0
      /\ HeldByRequest(t, c) = q
    BY <1>1, <1>2 DEF HeldByRequest
<1>5. Returnable(t, q)
    BY <1>2, <1>4, HeldIsReturnable
<1>6. req'[c].pc \notin HandsOn /\ \A d \in Clients \ {c} : req'[d] = req[d]
  <2>1. \E pc \in {"release_append", "confirm_append"} : Goto(c, pc)
    BY <1>2, <1>5 DEF ReleaseStock, ConfirmStock
  <2>2. \A pc \in {"release_append", "confirm_append"} : pc \in ClosePcs
    BY DEF ClosePcs
  <2>3. PICK pc \in {"release_append", "confirm_append"} : Goto(c, pc)
    BY <2>1
  <2>4. req'[c].pc = pc /\ \A d \in Clients \ {c} : req'[d] = req[d]
    BY <1>1, <2>2, <2>3, GotoType, Zenon DEF TypeInv
  <2> QED
    BY <2>4 DEF HandsOn
<1>7. \A s \in Skus : HeldByRequest(s, c)' = 0
    BY <1>6, HeldByNoneNext
<1>8. stock[t].exists /\ stock[t] \in StockRecord
    BY <1>2, <1>5 DEF Returnable, TypeInv, TypeOK
<1>9. PICK r : /\ stock' = [stock EXCEPT ![t] = r]
               /\ r.exists /\ r.reserved + q = stock[t].reserved + 0
  <2>1. \/ stock' = [stock EXCEPT ![t] = [stock[t] EXCEPT !.reserved = @ - q]]
        \/ stock' = [stock EXCEPT ![t] = Committed(stock[t], q)]
    BY <1>2, <1>5 DEF ReleaseStock, ConfirmStock
  <2>2. /\ [stock[t] EXCEPT !.reserved = @ - q].exists
        /\ [stock[t] EXCEPT !.reserved = @ - q].reserved + q = stock[t].reserved + 0
    BY <1>2, <1>8 DEF StockRecord
  <2>3. /\ Committed(stock[t], q).exists
        /\ Committed(stock[t], q).reserved + q = stock[t].reserved + 0
    BY <1>2, <1>8 DEF StockRecord, Committed
  <2> QED
    BY <2>1, <2>2, <2>3
<1>10. r.reserved + HeldByRequest(t, c) = stock[t].reserved + HeldByRequest(t, c)'
    BY <1>2, <1>4, <1>7, <1>9
<1>11. \A s \in Skus \ {t} : HeldByRequest(s, c)' = HeldByRequest(s, c)
    BY <1>4, <1>7
<1> QED
    BY <1>2, <1>3, <1>6, <1>9, <1>10, <1>11, UnitsStep

(* The insert gives the units to the reservation; when it fails, because   *)
(* of the unique index or otherwise, the request keeps them for the undo.  *)
LEMMA CreateCustody ==
    ASSUME CustodyInv, TypeInv', NEW c \in Clients, ReserveCreate(c) \/ CreateThrows(c)
    PROVE  CustodyInv'
<1> USE DEF CustodyInv
<1>1. req[c].pc = "reserve_create" /\ req[c].pc \in ReservePcs
    BY DEF ReserveCreate, CreateThrows, At, ReservePcs
<1>2. PICK k \in Keys, t \in Skus, q \in Quantities :
         req[c].key = k /\ req[c].sku = t /\ req[c].qty = q
    BY <1>1, RequestShape DEF TypeInv, ReserveRequest
<1>3. UNCHANGED <<stock, stranded>>
    BY DEF ReserveCreate, CreateThrows, Fails
<1>4. PICK pc \in {"reserve_append", "reserve_undo"} :
         /\ Goto(c, pc)
         /\ pc = "reserve_append" =>
               /\ reservations[k] = NoReservation
               /\ reservations' = [reservations EXCEPT ![k] =
                     [status |-> "active", sku |-> t, qty |-> q]]
         /\ pc = "reserve_undo" => UNCHANGED reservations
    BY <1>2 DEF ReserveCreate, CreateThrows, Fails
<1>5. /\ req'[c] = [req[c] EXCEPT !.pc = pc] /\ req'[c].pc = pc
      /\ \A d \in Clients \ {c} : req'[d] = req[d]
  <2>1. pc \in ReservePcs
    BY <1>4 DEF ReservePcs
  <2> QED
    BY <1>1, <1>4, <2>1, GotoType DEF TypeInv
<1>6. req'[c].sku = t /\ req'[c].qty = q
  <2>1. req[c] \in ReserveRequest
    BY <1>1, RequestShape DEF TypeInv
  <2> QED
    BY <1>2, <1>5, <2>1 DEF ReserveRequest
<1>7. Faithful
  <2>1. \/ UNCHANGED reservations
        \/ /\ reservations[k] = NoReservation
           /\ \A j \in Keys \ {k} : reservations'[j] = reservations[j]
    BY <1>2 DEF ReserveCreate, CreateThrows, Fails, TypeInv, TypeOK
  <2>2. NoReservation \notin Reservation
    BY DEF NoReservation, Reservation, Statuses, Terminal
  <2> QED
    BY <2>1, <2>2 DEF Faithful
<1>8. ASSUME NEW s \in Skus PROVE Balance(s)'
  <2>1. \A d \in Clients \ {c} : HeldByRequest(s, d)' = HeldByRequest(s, d)
    BY <1>5, <1>7, HeldKept
  <2>2. HeldByRequest(s, c) = IF t = s THEN q ELSE 0
    BY <1>1, <1>2 DEF HeldByRequest
  <2>3. Balance(s)
    BY DEF ReservedIsHeld, Balance
  <2>4. CASE pc = "reserve_append"
    <3>1. /\ reservations[k] = NoReservation
          /\ reservations' = [reservations EXCEPT ![k] =
                [status |-> "active", sku |-> t, qty |-> q]]
      BY <1>4, <2>4
    <3>2. \A j \in Keys \ {k} :
             HeldByReservation(s, j)' = HeldByReservation(s, j)
      BY <3>1 DEF HeldByReservation, TypeInv, TypeOK
    <3>3. HeldByReservation(s, k) = 0
      BY <3>1 DEF HeldByReservation, NoReservation
    <3>4. HeldByReservation(s, k)' = IF t = s THEN q ELSE 0
      BY <3>1 DEF HeldByReservation, TypeInv, TypeOK
    <3>5. HeldByRequest(s, c)' = 0
      BY <1>5, <2>4, HeldByNoneNext DEF HandsOn
    <3>6. q \in Nat
      BY <1>2, QuantityAssumption
    <3>7. HeldByReservation(s, k)' + HeldByRequest(s, c)'
             = HeldByReservation(s, k) + HeldByRequest(s, c)
      BY <2>2, <3>3, <3>4, <3>5, <3>6
    <3> QED
      BY <1>2, <1>3, <2>1, <2>3, <3>2, <3>7, BalanceMove
  <2>5. CASE pc = "reserve_undo"
    <3>1. UNCHANGED reservations
      BY <1>4, <2>5
    <3>2. HeldByRequest(s, c)' = HeldByRequest(s, c)
      BY <1>5, <1>6, <2>2, <2>5 DEF HeldByRequest
    <3>3. \A j \in Keys : HeldByReservation(s, j)' = HeldByReservation(s, j)
      BY <3>1 DEF HeldByReservation
    <3> QED
      BY <1>3, <2>1, <2>3, <3>2, <3>3, BalanceKept
  <2> QED
    BY <1>4, <2>4, <2>5
<1> QED
    BY <1>3, <1>8 DEF Unlisted, ReservedIsHeld, Balance

(* The transition takes the units from the reservation for the request. *)
LEMMA TransitionCustody ==
    ASSUME CustodyInv, TypeInv', NEW c \in Clients,
           ReleaseTransition(c) \/ ConfirmTransition(c)
    PROVE  CustodyInv'
<1> USE DEF CustodyInv
<1>1. /\ req[c].pc \in {"release_transition", "confirm_transition"}
      /\ req[c].pc \in ClosePcs /\ req[c].pc \notin HandsOn /\ req[c].pc # "idle"
    BY DEF ReleaseTransition, ConfirmTransition, At, ClosePcs, HandsOn
<1>2. PICK k \in Keys : req[c].key = k /\ reservations[k] \in Reservation
  <2>1. req[c].key \in Keys
    BY <1>1, RequestShape DEF TypeInv, CloseRequest
  <2> QED
    BY <1>1, <2>1 DEF TypeInv, Grounded
<1>3. UNCHANGED <<stock, stranded>>
    BY DEF ReleaseTransition, ConfirmTransition, Transition
<1>4. CASE ~ Transitionable(k)
  <2>1. Finish(c) /\ UNCHANGED reservations
    BY <1>2, <1>4 DEF ReleaseTransition, ConfirmTransition, Transition
  <2>2. req'[c].pc \notin HandsOn /\ \A d \in Clients \ {c} : req'[d] = req[d]
    BY <1>1, <2>1, FinishType DEF TypeInv, HandsOn
  <2> QED
    BY <1>1, <1>3, <2>1, <2>2, IdleStep DEF Unlisted
<1>5. CASE Transitionable(k)
  <2>1. PICK pc \in {"release_stock", "confirm_stock"}, to \in Terminal :
           /\ Goto(c, pc)
           /\ reservations' = [reservations EXCEPT ![k].status = to]
    BY <1>2, <1>5
    DEF ReleaseTransition, ConfirmTransition, Transition, Target, Terminal
  <2>2. /\ req'[c] = [req[c] EXCEPT !.pc = pc] /\ req'[c].pc = pc
        /\ \A d \in Clients \ {c} : req'[d] = req[d]
    <3>1. pc \in ClosePcs
      BY <2>1 DEF ClosePcs
    <3> QED
      BY <1>1, <2>1, <3>1, GotoType DEF TypeInv
  <2>3. req'[c].key = k
    <3>1. req[c] \in CloseRequest
      BY <1>1, RequestShape DEF TypeInv
    <3> QED
      BY <1>2, <2>2, <3>1 DEF CloseRequest
  <2>4. /\ reservations'[k] = [reservations[k] EXCEPT !.status = to]
        /\ \A j \in Keys \ {k} : reservations'[j] = reservations[j]
    BY <2>1 DEF TypeInv, TypeOK
  <2>5. /\ reservations[k].status = "active"
        /\ reservations'[k].status = to /\ to # "active"
        /\ reservations'[k].sku = reservations[k].sku
        /\ reservations'[k].qty = reservations[k].qty
    BY <1>2, <1>5, <2>1, <2>4 DEF Transitionable, Reservation, Terminal
  <2>6. Faithful
    BY <2>4, <2>5 DEF Faithful
  <2>7. ASSUME NEW s \in Skus PROVE Balance(s)'
    <3>1. \A d \in Clients \ {c} : HeldByRequest(s, d)' = HeldByRequest(s, d)
      BY <2>2, <2>6, HeldKept
    <3>2. \A j \in Keys \ {k} : HeldByReservation(s, j)' = HeldByReservation(s, j)
      BY <2>4 DEF HeldByReservation
    <3>3. HeldByRequest(s, c) = 0
      BY <1>1, HeldByNone
    <3>4. HeldByReservation(s, k)' = 0
      BY <2>5 DEF HeldByReservation
    <3>5. HeldByRequest(s, c)' = HeldByReservation(s, k)
      BY <2>1, <2>2, <2>3, <2>5 DEF HeldByRequest, HeldByReservation
    <3>6. HeldByReservation(s, k) \in Nat
      BY HeldType, QuantityAssumption
    <3>7. HeldByReservation(s, k)' + HeldByRequest(s, c)'
             = HeldByReservation(s, k) + HeldByRequest(s, c)
      BY <3>3, <3>4, <3>5, <3>6
    <3>8. Balance(s)
      BY DEF ReservedIsHeld, Balance
    <3> QED
      BY <1>3, <3>1, <3>2, <3>7, <3>8, BalanceMove
  <2> QED
    BY <1>3, <2>7 DEF Unlisted, ReservedIsHeld, Balance
<1> QED
    BY <1>4, <1>5

(* A request that dies, or whose call is rejected, strands what it held. *)
LEMMA StrandCustody ==
    ASSUME CustodyInv, TypeInv', NEW c \in Clients, CallThrows(c) \/ Crash(c)
    PROVE  CustodyInv'
<1> USE DEF CustodyInv
<1>1. UNCHANGED <<stock, reservations>> /\ Strand(c)
    BY DEF CallThrows, Crash, Fails
<1>2. req'[c].pc \notin HandsOn /\ \A d \in Clients \ {c} : req'[d] = req[d]
  <2>1. CASE CallThrows(c)
    BY <2>1, FinishType DEF CallThrows, TypeInv, HandsOn
  <2>2. CASE Crash(c)
    BY <2>2 DEF Crash, Become, Idle, HandsOn, TypeInv, TypeOK
  <2> QED
    BY <2>1, <2>2
<1>3. ASSUME NEW s \in Skus PROVE Balance(s)'
  <2>1. \A d \in Clients \ {c} : HeldByRequest(s, d)' = HeldByRequest(s, d)
    BY <1>1, <1>2, HeldKept DEF Faithful
  <2>2. \A k \in Keys : HeldByReservation(s, k)' = HeldByReservation(s, k)
    BY <1>1 DEF HeldByReservation
  <2>3. HeldByRequest(s, c)' = 0
    BY <1>2, HeldByNoneNext
  <2>4. stranded'[s] = stranded[s] + HeldByRequest(s, c)
    BY <1>1 DEF Strand
  <2>5. /\ HeldByRequest(s, c) \in Nat /\ stranded[s] \in Nat
        /\ stock[s].reserved \in Nat
    BY HeldType, QuantityAssumption DEF TypeInv, TypeOK, StockRecord
  <2>6. stock'[s].reserved + HeldByRequest(s, c) + stranded[s]
           = stock[s].reserved + HeldByRequest(s, c)' + stranded'[s]
    BY <1>1, <2>3, <2>4, <2>5
  <2>7. Balance(s)
    BY DEF ReservedIsHeld, Balance
  <2> QED
    BY <2>1, <2>2, <2>6, <2>7, BalanceUpdate
<1> QED
    BY <1>1, <1>3 DEF Unlisted, ReservedIsHeld, Balance

-----------------------------------------------------------------------------
(***************************************************************************)
(* The invariant and what follows from it                                  *)
(***************************************************************************)

LEMMA InitCustody == Init => CustodyInv
<1> SUFFICES ASSUME Init PROVE CustodyInv
    OBVIOUS
<1>1. TypeInv
    BY InitType
<1>2. ASSUME NEW s \in Skus
      PROVE  stock[s].reserved = Tally(Custody(s), MaxQuantity) + stranded[s]
  <2>1. \A c \in Clients : HeldByRequest(s, c) = 0
    BY HeldByNone DEF Init, Idle, HandsOn
  <2>2. \A k \in Keys : HeldByReservation(s, k) = 0
    BY DEF Init, NoReservation, HeldByReservation
  <2>3. /\ Custody(s) \in [Holders -> 0 .. MaxQuantity]
        /\ \A h \in Holders : Custody(s)[h] = 0
    BY <1>1, <2>1, <2>2, CustodyHasShape DEF CustodyShaped, Holders
  <2>4. Tally(Custody(s), MaxQuantity) = 0
    BY <2>3, QuantityAssumption, TallyZero
  <2> QED
    BY <2>4 DEF Init, NoStock
<1>3. Unlisted
    BY DEF Init, NoStock, Unlisted
<1> QED
    BY <1>1, <1>2, <1>3 DEF CustodyInv, ReservedIsHeld

LEMMA NextCustody == CustodyInv /\ [Next]_vars => CustodyInv'
<1> SUFFICES ASSUME CustodyInv, [Next]_vars PROVE CustodyInv'
    OBVIOUS
<1>0. TypeInv'
    BY NextType DEF CustodyInv
<1>1. ASSUME NEW c \in Requests, Arrives(c) PROVE CustodyInv'
    BY <1>0, <1>1, ArrivesCustody
<1>2. ASSUME NEW c \in Sweeps, SweepStart(c) PROVE CustodyInv'
    BY <1>0, <1>2, SweepCustody DEF Clients
<1>3. ASSUME NEW c \in Clients, Continues(c) PROVE CustodyInv'
    BY <1>0, <1>3, RecordCustody, ReserveUnits, CreateCustody, TransitionCustody,
       CloseUnits, SweepCustody DEF Continues
<1>4. ASSUME NEW c \in Clients, Breaks(c) PROVE CustodyInv'
    BY <1>0, <1>4, CreateCustody, SweepCustody, StrandCustody DEF Breaks
<1>5. CASE UNCHANGED <<stock, reservations, req, stranded>>
  <2>1. ASSUME NEW s \in Skus PROVE Balance(s)'
    <3>1. \A k \in Keys : HeldByReservation(s, k)' = HeldByReservation(s, k)
      BY <1>5 DEF HeldByReservation
    <3>2. \A c \in Clients : HeldByRequest(s, c)' = HeldByRequest(s, c)
      BY <1>5 DEF HeldByRequest
    <3>3. Balance(s)
      BY DEF CustodyInv, ReservedIsHeld, Balance
    <3> QED
      BY <1>0, <1>5, <3>1, <3>2, <3>3, BalanceKept DEF CustodyInv
  <2> QED
    BY <1>0, <1>5, <2>1 DEF CustodyInv, Unlisted, ReservedIsHeld, Balance
<1> QED
    BY <1>1, <1>2, <1>3, <1>4, <1>5 DEF Next, Expire, vars

THEOREM CustodyInvariance == Spec => []CustodyInv
<1> QED
    BY InitCustody, NextCustody, PTL DEF Spec

(* Every reserved unit belongs to an active reservation, to the request    *)
(* that is moving it, or was stranded by a failure: reserve(), release(),  *)
(* confirm() and the sweep neither lose a unit nor give one back twice.    *)
THEOREM ReservedAccounted == Spec => []ReservedIsHeld
<1>1. CustodyInv => ReservedIsHeld
    BY DEF CustodyInv
<1> QED
    BY <1>1, CustodyInvariance, PTL

(* releaseStock and commitStock always find the units of the reservation   *)
(* that was closed before them.                                            *)
THEOREM ClosingNeverFails == Spec => []ClosedFindsItsUnits
<1>1. \A n \in Quantities : n \in Nat \ {0}
    BY QuantityAssumption
<1>2. CustodyInv => ClosedFindsItsUnits
  <2> SUFFICES ASSUME CustodyInv, NEW c \in Clients,
                      req[c].pc \in {"release_stock", "confirm_stock"}
               PROVE  Returnable(reservations[req[c].key].sku,
                                 reservations[req[c].key].qty)
    BY DEF ClosedFindsItsUnits
  <2>1. PICK t \in Skus, q \in Nat \ {0} :
           reservations[req[c].key].sku = t /\ reservations[req[c].key].qty = q
    <3>1. reservations[req[c].key] \in Reservation
      BY DEF CustodyInv, TypeInv, Grounded, ClosePcs
    <3> QED
      BY <1>1, <3>1 DEF Reservation
  <2>2. HeldByRequest(t, c) = q
    BY <2>1 DEF HeldByRequest
  <2> QED
    BY <2>1, <2>2, HeldIsReturnable
<1> QED
    BY <1>2, CustodyInvariance, PTL

=============================================================================
