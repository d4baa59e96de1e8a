-------------------------------- MODULE Cart --------------------------------
(***************************************************************************)
(* One customer's cart as CartService, MongoCartRepository and the         *)
(* idempotency middleware keep it (src/src/modules/cart).  The cart is one *)
(* document; one action is one awaited call on it or on Redis.             *)
(*                                                                         *)
(* The catalog is only read: whether a SKU can be bought is decided before *)
(* a request comes here.  A key is given to adds only, as the other        *)
(* requests carry a version or may be repeated.  markConverted() is the    *)
(* hook of a later order module; nothing calls it in this commit.          *)
(***************************************************************************)
EXTENDS Integers, FiniteSets

CONSTANTS
    Clients,        \* slots for concurrent requests
    Skus, NoSku,
    MaxQuantity,    \* CART_MAX_QTY
    MaxLines,       \* CART_MAX_LINES
    Quantities,     \* those asked for
    MaxCalls,       \* bound: requests
    MaxFailures     \* bound: rejected calls, crashes and lapses, of the cart
                    \* and of the key

CartAssumption ==
    /\ IsFiniteSet(Clients) /\ NoSku \notin Skus
    /\ MaxLines \in Nat /\ MaxQuantity \in Nat
    /\ Quantities \subseteq 1..MaxQuantity
    /\ MaxCalls \in Nat /\ MaxFailures \in Nat

VARIABLES
    cart,           \* the document
    record,         \* an answer is stored under the idempotency key
    order,          \* the requests in flight
    calls, failures,        \* for the bounds
    tangled,        \* a line was written while its overflow was being undone,
                    \* or the undoing was cut short
    applied,        \* times that an add with the key took effect
    forgotten,      \* an answer to an add with the key was lost or has
                    \* lapsed, and none is stored since
    overtaken       \* adds with the key whose look-up failed or could not find
                    \* the answer of an earlier one

counts == <<calls, failures>>
ghosts == <<tangled, applied, forgotten, overtaken>>
vars == <<cart, record, order, counts, ghosts>>

-----------------------------------------------------------------------------
Line == [id: 1..MaxCalls, sku: Skus, quantity: Nat]
NoCart == [present |-> FALSE, status |-> "active", version |-> 0, lines |-> {}]
CartRecord == [present: BOOLEAN, status: {"active", "converted"}, version: Nat,
               lines: SUBSET Line]

NoVersion == -1     \* any version will do
NoLine == 0

(* id: the line to make or to change; quantity: the one asked for, or to   *)
(* go back to.                                                             *)
Idle == [pc |-> "idle", op |-> "none", sku |-> NoSku,
         quantity |-> 0, version |-> NoVersion, id |-> NoLine, keyed |-> FALSE]

Steps == {"idle", "lookup", "read", "insert", "revive", "merge", "undo",
          "push", "find_line", "set", "pull", "empty", "reread", "store"}

Orders == [pc: Steps, op: {"none", "get", "add", "update", "remove", "clear"},
           sku: Skus \cup {NoSku}, quantity: Nat, version: Nat \cup {NoVersion},
           id: 0..MaxCalls, keyed: BOOLEAN]

Init ==
    /\ cart = NoCart /\ record = FALSE
    /\ order = [c \in Clients |-> Idle]
    /\ calls = 0 /\ failures = 0
    /\ tangled = FALSE /\ forgotten = FALSE
    /\ applied = 0 /\ overtaken = 0

At(c, pc) == order[c].pc = pc
Goto(c, pc) == order' = [order EXCEPT ![c].pc = pc]
Finish(c) == order' = [order EXCEPT ![c] = Idle]

(* The answer goes out before the middleware stores it.                    *)
Answer(c) == IF order[c].keyed THEN Goto(c, "store") ELSE Finish(c)

Arrive(c, r) ==
    /\ At(c, "idle") /\ calls < MaxCalls
    /\ calls' = calls + 1
    /\ order' = [order EXCEPT ![c] = r]
    /\ UNCHANGED <<cart, record, failures, ghosts>>

(* A write of the cart that moves its version on.                          *)
Write(lines) ==
    cart' = [cart EXCEPT !.lines = lines, !.version = @ + 1]

(* The document that the filter of a conditional update matches.           *)
Matches(c) ==
    /\ cart.present /\ cart.status = "active"
    /\ order[c].version \in {NoVersion, cart.version}

LineOf(id) == {l \in cart.lines : l.id = id}
LineFor(sku) == {l \in cart.lines : l.sku = sku}

(* The versions a request may expect: none, or the one the client saw.     *)
Expected == {NoVersion, cart.version}

-----------------------------------------------------------------------------
(***************************************************************************)
(* getOrCreate(), of which getCart() consists.                             *)
(***************************************************************************)

GetCart(c) == Arrive(c, [Idle EXCEPT !.op = "get", !.pc = "read"])

(* An add goes on; for the others the cart is the answer.                  *)
AfterCart(c) == IF order[c].op = "add" THEN Goto(c, "merge") ELSE Answer(c)

ReadCart(c) ==
    /\ At(c, "read")
    /\ CASE ~cart.present -> Goto(c, "insert")
         [] cart.present /\ cart.status # "active" -> Goto(c, "revive")
         [] OTHER -> AfterCart(c)
    /\ UNCHANGED <<cart, record, counts, ghosts>>

(* The unique index on userId refuses the second of two.                   *)
Insert(c) ==
    /\ At(c, "insert")
    /\ cart' = IF cart.present THEN cart ELSE [NoCart EXCEPT !.present = TRUE]
    /\ AfterCart(c)
    /\ UNCHANGED <<record, counts, ghosts>>

Revive(c) ==
    /\ At(c, "revive")
    /\ cart' = IF cart.present /\ cart.status # "active"
               THEN [cart EXCEPT !.status = "active", !.version = @ + 1]
               ELSE cart
    /\ AfterCart(c)
    /\ UNCHANGED <<record, counts, ghosts>>

-----------------------------------------------------------------------------
(***************************************************************************)
(* addItem().  The Faulty... operators here and below are variants with a  *)
(* fault seeded, against which the properties are tried; nothing else uses *)
(* them.                                                                   *)
(***************************************************************************)

AddItem(c) ==
    \E s \in Skus, q \in Quantities, v \in Expected, k \in BOOLEAN :
        Arrive(c, [Idle EXCEPT !.op = "add", !.sku = s, !.quantity = q,
                       !.version = v, !.id = calls + 1, !.keyed = k,
                       !.pc = IF k THEN "lookup" ELSE "read"])

(* Other adds with the key that have looked it up and not stored their     *)
(* answer yet.                                                             *)
Rivals(c) == {d \in Clients \ {c} : order[d].keyed /\ ~At(d, "lookup")}

(* An add goes on without an answer; known: one is stored that it has not  *)
(* seen.                                                                   *)
GoesOn(c, known) ==
    /\ Goto(c, "read")
    /\ overtaken' = IF known \/ Rivals(c) # {} \/ forgotten
                    THEN overtaken + 1 ELSE overtaken

(* replayIfDuplicate(): the answer stored under the key is given again; if *)
(* it was to another request, the add is refused.                          *)
Lookup(c) ==
    /\ At(c, "lookup")
    /\ IF record THEN Finish(c) /\ UNCHANGED overtaken ELSE GoesOn(c, FALSE)
    /\ UNCHANGED <<cart, record, counts, tangled, applied, forgotten>>

(* Redis is away or rejects the GET: as if nothing were stored.            *)
LookupFails(c) ==
    /\ At(c, "lookup") /\ failures < MaxFailures
    /\ failures' = failures + 1
    /\ GoesOn(c, record)
    /\ UNCHANGED <<cart, record, calls, tangled, applied, forgotten>>

Applies(c) == applied' = IF order[c].keyed THEN applied + 1 ELSE applied

(* Another request is about to undo its overflow of one of these lines.    *)
BeingUndone(lines) ==
    \E d \in Clients, l \in lines : At(d, "undo") /\ order[d].id = l.id

Touches(lines) == tangled' = (tangled \/ BeingUndone(lines))

FaultyMerge(c) ==
    LET lines == LineFor(order[c].sku)
        total == [l \in lines |-> l.quantity + order[c].quantity]
    IN /\ At(c, "merge")
       /\ IF Matches(c) /\ lines # {}
          THEN /\ Write({IF l \in lines THEN [l EXCEPT !.quantity = total[l]]
                         ELSE l : l \in cart.lines})
               /\ Touches(lines) /\ Applies(c) /\ Answer(c)
          ELSE Goto(c, "push") /\ UNCHANGED <<cart, tangled, applied>>
       /\ UNCHANGED <<record, counts, forgotten, overtaken>>

(* The quantity of the line of the SKU goes up; if it is now too large,    *)
(* the next update puts it back and the add is refused.                    *)
Merge(c) ==
    LET lines == LineFor(order[c].sku)
        total == [l \in lines |-> l.quantity + order[c].quantity]
        over == {l \in lines : total[l] > MaxQuantity}
    IN /\ At(c, "merge")
       /\ IF Matches(c) /\ lines # {}
          THEN /\ Write({IF l \in lines THEN [l EXCEPT !.quantity = total[l]]
                         ELSE l : l \in cart.lines})
               /\ Touches(lines)
               /\ IF over = {} THEN Applies(c) /\ Answer(c)
                  ELSE /\ \E l \in over :
                             order' = [order EXCEPT ![c].pc = "undo",
                                          ![c].id = l.id,
                                          ![c].quantity = l.quantity]
                       /\ UNCHANGED applied
          ELSE Goto(c, "push") /\ UNCHANGED <<cart, tangled, applied>>
       /\ UNCHANGED <<record, counts, forgotten, overtaken>>

(* Whatever the version and the status are by now.                         *)
Undo(c) ==
    LET lines == LineOf(order[c].id)
    IN /\ At(c, "undo")
       /\ IF lines # {}
          THEN Write({IF l \in lines THEN [l EXCEPT !.quantity = order[c].quantity]
                      ELSE l : l \in cart.lines})
          ELSE UNCHANGED cart
       /\ Touches({l \in lines : \E d \in Clients \ {c} :
                                    At(d, "undo") /\ order[d].id = l.id})
       /\ Answer(c)
       /\ UNCHANGED <<record, counts, applied, forgotten, overtaken>>

NewLine(c) ==
    [id |-> order[c].id, sku |-> order[c].sku, quantity |-> order[c].quantity]

(* items.50, the line after the last one allowed, must not exist.  If no   *)
(* document matches, another read only tells which error it is.            *)
Push(c) ==
    /\ At(c, "push")
    /\ IF /\ Matches(c) /\ LineFor(order[c].sku) = {}
          /\ Cardinality(cart.lines) <= MaxLines
       THEN Write(cart.lines \cup {NewLine(c)}) /\ Applies(c)
       ELSE UNCHANGED <<cart, applied>>
    /\ Answer(c)
    /\ UNCHANGED <<record, counts, tangled, forgotten, overtaken>>

FaultyStore(c) ==
    /\ At(c, "store")
    /\ Finish(c)
    /\ UNCHANGED <<cart, record, counts, ghosts>>

(* storeIdempotencyResponse(): every answer below 500, errors too.         *)
Store(c) ==
    /\ At(c, "store")
    /\ record' = TRUE /\ forgotten' = FALSE
    /\ Finish(c)
    /\ UNCHANGED <<cart, counts, tangled, applied, overtaken>>

-----------------------------------------------------------------------------
(***************************************************************************)
(* updateItem(), removeItem(), clearCart() and markConverted()             *)
(***************************************************************************)

UpdateItem(c) ==
    \E l \in cart.lines, q \in Quantities :
        Arrive(c, [Idle EXCEPT !.op = "update", !.pc = "find_line", !.id = l.id,
                               !.quantity = q, !.version = cart.version])

FindLine(c) ==
    /\ At(c, "find_line")
    /\ IF cart.present /\ LineOf(order[c].id) # {} THEN Goto(c, "set")
       ELSE Answer(c)
    /\ UNCHANGED <<cart, record, counts, ghosts>>

SetQuantity(c) ==
    LET lines == LineOf(order[c].id)
    IN /\ At(c, "set")
       /\ IF Matches(c) /\ lines # {}
          THEN /\ Write({IF l \in lines THEN [l EXCEPT !.quantity = order[c].quantity]
                         ELSE l : l \in cart.lines})
               /\ Touches(lines)
          ELSE UNCHANGED <<cart, tangled>>
       /\ Answer(c)
       /\ UNCHANGED <<record, counts, applied, forgotten, overtaken>>

RemoveItem(c) ==
    \E l \in cart.lines, v \in Expected :
        Arrive(c, [Idle EXCEPT !.op = "remove", !.pc = "pull", !.id = l.id,
                               !.version = v])

ClearCart(c) ==
    \E v \in Expected :
        Arrive(c, [Idle EXCEPT !.op = "clear", !.pc = "empty", !.version = v])

Pull(c) ==
    LET lines == LineOf(order[c].id)
    IN /\ At(c, "pull")
       /\ IF Matches(c) /\ lines # {}
          THEN Write(cart.lines \ lines) /\ Answer(c)
          ELSE Goto(c, "reread") /\ UNCHANGED cart
       /\ UNCHANGED <<record, counts, ghosts>>

Empty(c) ==
    /\ At(c, "empty")
    /\ IF Matches(c) THEN Write({}) /\ Answer(c)
       ELSE Goto(c, "reread") /\ UNCHANGED cart
    /\ UNCHANGED <<record, counts, ghosts>>

(* A cart that is not there is made; else the request is refused.          *)
Reread(c) ==
    /\ At(c, "reread")
    /\ IF cart.present THEN Answer(c) ELSE Goto(c, "read")
    /\ UNCHANGED <<cart, record, counts, ghosts>>

MarkConverted ==
    /\ cart.present /\ cart.status = "active" /\ calls < MaxCalls
    /\ calls' = calls + 1
    /\ cart' = [cart EXCEPT !.status = "converted", !.version = @ + 1]
    /\ UNCHANGED <<record, order, failures, ghosts>>

-----------------------------------------------------------------------------
(* The TTL index deletes the cart CART_TTL_DAYS after it was made or       *)
(* revived, in use or not.                                                 *)
Lapse ==
    /\ cart.present /\ failures < MaxFailures
    /\ failures' = failures + 1
    /\ cart' = NoCart
    /\ UNCHANGED <<record, order, calls, ghosts>>

(* The answer is kept for 24 hours.                                        *)
RecordLapses ==
    /\ record /\ failures < MaxFailures
    /\ failures' = failures + 1
    /\ record' = FALSE /\ forgotten' = TRUE
    /\ UNCHANGED <<cart, order, calls, tangled, applied, overtaken>>

(* A rejected call, or the end of the process.  A store that Redis does    *)
(* not take is skipped, and nobody hears of it.                            *)
Dies(c) ==
    /\ ~At(c, "idle") /\ failures < MaxFailures
    /\ failures' = failures + 1
    /\ tangled' = (tangled \/ At(c, "undo"))
    /\ forgotten' = (forgotten \/ At(c, "store"))
    /\ Finish(c)
    /\ UNCHANGED <<cart, record, calls, applied, overtaken>>

Arrives(c) ==
    GetCart(c) \/ AddItem(c) \/ UpdateItem(c) \/ RemoveItem(c) \/ ClearCart(c)

Continues(c) ==
    \/ ReadCart(c) \/ Insert(c) \/ Revive(c) \/ Lookup(c) \/ LookupFails(c)
    \/ Merge(c) \/ Undo(c) \/ Push(c) \/ Store(c)
    \/ FindLine(c) \/ SetQuantity(c) \/ Pull(c) \/ Empty(c) \/ Reread(c)

Next ==
    \/ \E c \in Clients : Arrives(c) \/ Continues(c) \/ Dies(c)
    \/ MarkConverted \/ Lapse \/ RecordLapses

Spec == Init /\ [][Next]_vars

-----------------------------------------------------------------------------
(***************************************************************************)
(* Properties                                                              *)
(***************************************************************************)

TypeOK ==
    /\ cart \in CartRecord /\ record \in BOOLEAN
    /\ order \in [Clients -> Orders]
    /\ calls \in 0..MaxCalls /\ failures \in 0..MaxFailures
    /\ tangled \in BOOLEAN /\ forgotten \in BOOLEAN
    /\ applied \in Nat /\ overtaken \in Nat

(* Concurrent adds never make two lines of one SKU, nor more lines than    *)
(* one over the maximum: the filter of the push allows that one            *)
(* (addOrMergeItem()).                                                     *)
LinesDistinct ==
    /\ \A l, m \in cart.lines : l.sku = m.sku => l = m
    /\ Cardinality(cart.lines) <= MaxLines + 1

(* A line over the maximum quantity is about to be put back, unless        *)
(* another request wrote the line meanwhile or the undoing was cut short   *)
(* (addOrMergeItem()).                                                     *)
ExcessIsExcused ==
    \A l \in cart.lines :
        l.quantity > MaxQuantity => tangled \/ BeingUndone({l})

(* An add with the idempotency key takes effect once, and once more only   *)
(* for each repetition that could not know of it: its own look-up failed,  *)
(* or it was sent before the answer of an earlier one was stored, or after *)
(* that answer was lost or had lapsed (idempotencyMiddleware()).  That the *)
(* key protects nothing while Redis is away is meant.                      *)
KeyAppliesOnce == applied <= 1 + overtaken

=============================================================================
