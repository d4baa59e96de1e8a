--------------------------- MODULE CatalogProofs ---------------------------
(***************************************************************************)
(* The safety properties of Catalog, for any collections, any number of    *)
(* admins and shoppers, and any initial databases that are in order.       *)
(*                                                                         *)
(* What the proofs need to know of a call in flight is what it asks for,   *)
(* which steps its operation takes, and that what it has looked up is      *)
(* still there (CallOK).  Each of the three properties is inductive on top *)
(* of that; the one about references also needs what each check has        *)
(* established, which stays true as long as no other admin is at work.     *)
(***************************************************************************)
EXTENDS Catalog, WellFoundedInduction, TLAPS

-----------------------------------------------------------------------------
(* The calls of admins.                                                    *)

ProductOps == {"create", "update", "publish", "unpublish", "archive"}
VariantOps == {"create_variant", "update_variant", "remove_variant"}
TaxonOps == {"create_taxon", "rename", "archive_taxon"}

CallPcs == {"category", "brand", "slug", "insert", "count", "write", "sku",
            "insert_variant", "write_variant", "product", "delete",
            "prices", "price_version", "set_price", "taxon_slug",
            "insert_taxon", "children", "references", "write_taxon",
            "keys", "del"}

(* What is left of the patterns to be invalidated.                         *)
Todos == {<<>>, <<Products, {"search"}>>, <<{"taxonomy"}, {"search"}>>,
          <<{"search"}>>}

(* What is asked for differs from one operation to another: see Given.     *)
CallsFor(input) ==
    [pc: CallPcs, op: ProductOps \cup VariantOps \cup TaxonOps,
     id: Products \cup Variants \cup Taxa, product: Products \cup {{}},
     input: {input}, doc: Nat, version: Nat, price: Prices \cup {None},
     todo: Todos, found: SUBSET Pages]

(* Which operations take which steps.                                      *)
OnPath(r) ==
    /\ r.pc \in {"category", "brand"} => r.op \in {"create", "update"}
    /\ r.pc \in {"slug", "insert"} => r.op = "create"
    /\ r.pc = "count" => r.op = "publish"
    /\ r.pc = "write" => r.op \in ProductOps \ {"create"}
    /\ r.pc \in {"sku", "insert_variant"} => r.op = "create_variant"
    /\ r.pc = "write_variant" => r.op = "update_variant"
    /\ r.pc \in {"product", "delete"} => r.op = "remove_variant"
    /\ r.pc \in RefreshSteps => r.op \in VariantOps
    /\ r.pc \in {"taxon_slug", "insert_taxon"} => r.op = "create_taxon"
    /\ r.pc \in {"children", "references"} => r.op = "archive_taxon"
    /\ r.pc = "children" => r.id \in Categories
    /\ r.pc = "write_taxon" => r.op \in {"rename", "archive_taxon"}

(* What the operations are given.                                          *)
Given(r) ==
    /\ r.op \in ProductOps => r.id \in Products /\ r.input \subseteq Taxa
    /\ r.op \in VariantOps => r.id \in Variants /\ r.product \in Products
    /\ r.op = "create_variant" => r.input \in Prices
    /\ r.op = "update_variant" => r.input \in Changes
    /\ r.op \in TaxonOps => r.id \in Taxa
    /\ r.op = "create_taxon" =>
          /\ r.input \in Categories \cup {Top}
          /\ r.input # Top => r.id \in Categories

ToDo(r) ==
    /\ r.pc \in RefreshSteps => r.todo = <<Products, {"search"}>>
    /\ r.pc \notin RefreshSteps \cup {"keys", "del"} => r.todo = <<>>
    /\ r.pc = "keys" => r.todo # <<>>
    /\ r.pc # "del" => r.found = {}

(* What has been looked up is still there.                                 *)
Looked(r) ==
    /\ r.op \in ProductOps \ {"create"} => Exists(products[r.id])
    /\ r.op \in {"publish", "unpublish", "archive"} =>
          products[r.id].status # "archived"
    /\ r.op \in VariantOps => Exists(products[r.product])
    /\ r.op \in {"rename", "archive_taxon"} => Exists(taxa[r.id])
    /\ r.op \in {"update_variant", "remove_variant"} /\ Finds(r) =>
          variants[r.id].product = r.product

(* The variant was inserted before the call arrived.                       *)
Earlier(r) == r.op \in {"update_variant", "remove_variant"} => r.doc < calls

Seen(r) == Looked(r) /\ Earlier(r)

Form(r) == r \in CallsFor(r.input) /\ OnPath(r) /\ Given(r) /\ ToDo(r)

CallOK(r) == Form(r) /\ Seen(r)

ReadOK(r) ==
    /\ r = [pc |-> r.pc, page |-> r.page, first |-> r.first]
    /\ r.pc \in {"first", "second", "set"} /\ r.page \in Pages

(* A variant is of a product there is, and was inserted before now; brands *)
(* are top-level.                                                          *)
VariantsOK ==
    \A v \in Variants : Exists(variants[v]) =>
        variants[v].id <= calls /\ Exists(products[variants[v].product])

BrandsOK == \A b \in Brands : Exists(taxa[b]) => taxa[b].parent = Top

CountsOK ==
    /\ calls \in 0..MaxCalls /\ failures \in 0..MaxFailures
    /\ excused \subseteq Pages /\ mispriced \subseteq Products
    /\ overlapped \in BOOLEAN

DbOK ==
    /\ products \in [Products -> {Absent} \cup ProductRecord]
    /\ variants \in [Variants -> {Absent} \cup VariantRecord]
    /\ taxa \in [Taxa -> {Absent} \cup TaxonRecord]
    /\ VariantsOK /\ BrandsOK

TypeInv ==
    /\ DbOK /\ CountsOK
    /\ DOMAIN cache = Pages /\ DOMAIN req = Clients
    /\ \A c \in Admins : req[c] = Idle \/ CallOK(req[c])
    /\ \A c \in Shoppers : req[c] = Idle \/ ReadOK(req[c])

(* What the checks of r have found.                                        *)
Checked(r) ==
    /\ r.pc = "brand" => r.input \cap Categories \subseteq ActiveTaxa
    /\ r.pc \in {"slug", "insert"} => r.input \subseteq ActiveTaxa
    /\ r.pc = "write" /\ r.op = "update" => r.input \subseteq ActiveTaxa
    /\ r.pc \in {"taxon_slug", "insert_taxon"} =>
          r.input = Top \/ r.input \in ActiveTaxa
    /\ r.pc \in {"references", "write_taxon"} /\ r.op = "archive_taxon"
          => \A u \in ActiveTaxa : taxa[u].parent # r.id
    /\ r.pc = "write_taxon" /\ r.op = "archive_taxon" => References(r.id) = {}

(* One admin at a time.                                                    *)
OneAtWork == \A c, d \in Admins : Busy(c) /\ Busy(d) => c = d

Solo ==
    LiveReferences /\ OneAtWork /\ \A c \in Admins : Busy(c) => Checked(req[c])

ReferencesInv == TypeInv /\ (overlapped \/ Solo)

-----------------------------------------------------------------------------
(* The values of the model.                                                *)

LEMMA RecordsExist ==
    /\ \A d \in ProductRecord \cup VariantRecord \cup TaxonRecord : Exists(d)
    /\ \A d \in ProductRecord : d.status \in {"draft", "published", "archived"}
    /\ \A d \in VariantRecord : d.status \in {"active", "discontinued"}
    /\ \A d \in TaxonRecord : d.status \in {"active", "archived"}
    /\ ~ Exists(Absent) /\ Absent.status = "absent"
BY DEF ProductRecord, VariantRecord, TaxonRecord, Exists, Absent

LEMMA CallFields ==
    ASSUME NEW pc, NEW op, NEW id, NEW product, NEW input
    PROVE  Call(pc, op, id, product, input) \in
              [pc: {pc}, op: {op}, id: {id}, product: {product},
               input: {input}, doc: {0}, version: {0}, price: {None},
               todo: {<<>>}, found: {{}}]
BY DEF Call, NoCall

LEMMA FormNotIdle == \A r : Form(r) => r # Idle
BY DEF Form, CallsFor, CallPcs, Idle

(* minPrice is a price, or none.                                           *)
LEMMA LowestPriceType ==
    ASSUME DbOK, NEW p
    PROVE  LowestPrice(p) \in Prices \cup {None}
<1>1. CASE ActiveVariants(p) = {}
    BY <1>1 DEF LowestPrice
<1>2. CASE ActiveVariants(p) # {}
    <2> DEFINE S == {variants[v].price : v \in ActiveVariants(p)}
    <2>1. S \subseteq Prices /\ S # {}
        BY <1>2, RecordsExist DEF DbOK, ActiveVariants, VariantRecord
    <2>2. S \subseteq Nat
        BY <2>1, CatalogAssumption
    <2>3. PICK x \in S : \A y \in S : ~ (<<y, x>> \in OpToRel(<, Nat))
        <3> HIDE DEF S
        <3> QED
            BY <2>1, <2>2, NatLessThanWellFounded, WFMin
    <2>4. \A y \in S : x <= y
        <3>1. ASSUME NEW y \in S, ~ (x <= y) PROVE FALSE
            <4>1. x \in Nat /\ y \in Nat /\ y < x
                BY <2>2, <3>1
            <4>2. <<y, x>> \in OpToRel(<, Nat)
                BY <4>1 DEF OpToRel
            <4> QED
                BY <2>3, <3>1, <4>2
        <3> QED
            BY <3>1
    <2>5. Min(S) \in S
        BY <2>4 DEF Min
    <2> QED
        BY <1>2, <2>1, <2>5 DEF LowestPrice
<1> QED
    BY <1>1, <1>2

-----------------------------------------------------------------------------
(* Steps.  What a call has seen stays there, whatever the others do: only  *)
(* variants are removed, and a new one has an id of its own.               *)

Grows ==
    /\ \A p \in Products : Exists(products[p]) =>
          /\ Exists(products'[p])
          /\ products[p].status # "archived" => products'[p].status # "archived"
    /\ \A t \in Taxa : Exists(taxa[t]) => Exists(taxa'[t])
    /\ \A v \in Variants : Exists(variants'[v]) =>
          \/ /\ Exists(variants[v])
             /\ variants'[v].id = variants[v].id
             /\ variants'[v].product = variants[v].product
          \/ variants'[v].id = calls
    /\ calls' >= calls

LEMMA SeenKept ==
    ASSUME CountsOK, CountsOK', Grows, NEW d \in Admins,
           CallOK(req[d]),
           req'[d].op = req[d].op, req'[d].id = req[d].id,
           req'[d].product = req[d].product, req'[d].doc = req[d].doc
    PROVE  Seen(req[d])'
<1> DEFINE r == req[d]
<1>1. Form(r) /\ Seen(r) /\ r.doc \in Nat /\ calls \in Nat /\ calls' \in Nat
    BY DEF CallOK, Form, CallsFor, CountsOK
<1>2. r.op \in ProductOps => r.id \in Products
    BY <1>1 DEF Form, Given
<1>3. r.op \in VariantOps => r.id \in Variants /\ r.product \in Products
    BY <1>1 DEF Form, Given
<1>4. r.op \in TaxonOps => r.id \in Taxa
    BY <1>1 DEF Form, Given
<1>5. r.op \in ProductOps \ {"create"} => Exists(products'[r.id])
    BY <1>1, <1>2 DEF Seen, Looked, Grows
<1>6. r.op \in {"publish", "unpublish", "archive"} =>
          products'[r.id].status # "archived"
    BY <1>1, <1>2 DEF Seen, Looked, Grows, ProductOps
<1>7. r.op \in VariantOps => Exists(products'[r.product])
    BY <1>1, <1>3 DEF Seen, Looked, Grows
<1>8. r.op \in {"rename", "archive_taxon"} => Exists(taxa'[r.id])
    BY <1>1, <1>4 DEF Seen, Looked, Grows, TaxonOps
<1>9. ASSUME r.op \in {"update_variant", "remove_variant"}
      PROVE  /\ r.doc < calls'
             /\ Exists(variants'[r.id]) /\ variants'[r.id].id = r.doc
                => variants'[r.id].product = r.product
    <2>1. /\ r.id \in Variants /\ r.doc < calls
          /\ Finds(r) => variants[r.id].product = r.product
        BY <1>1, <1>3, <1>9 DEF Seen, Looked, Earlier, VariantOps
    <2> QED
        BY <1>1, <2>1 DEF Grows, Finds
<1> QED
    BY <1>1, <1>5, <1>6, <1>7, <1>8, <1>9 DEF Seen, Looked, Earlier, Finds

(* A step of c leaves the other requests alone.                            *)
LEMMA AdminMoves ==
    ASSUME TypeInv, NEW c \in Admins, NEW r, Become(c, r), Grows,
           DbOK', CountsOK', DOMAIN cache' = Pages,
           r = Idle \/ CallOK(req[c])'
    PROVE  TypeInv'
<1>1. DOMAIN req' = Clients /\ \A d \in Clients \ {c} : req'[d] = req[d]
    BY DEF TypeInv, Become
<1>2. req'[c] = r
    BY DEF TypeInv, Become, Clients
<1>3. ASSUME NEW d \in Admins PROVE (req[d] = Idle \/ CallOK(req[d]))'
    <2>1. CASE d = c
        BY <1>2, <2>1
    <2>2. CASE d # c
        <3>1. req'[d] = req[d] /\ (req[d] = Idle \/ CallOK(req[d]))
            BY <1>1, <2>2 DEF TypeInv, Clients
        <3>2. CASE CallOK(req[d])
            <4>1. Seen(req[d])'
                BY <3>1, <3>2, SeenKept DEF TypeInv
            <4> QED
                BY <3>1, <3>2, <4>1 DEF CallOK
        <3> QED
            BY <3>1, <3>2
    <2> QED
        BY <2>1, <2>2
<1>4. ASSUME NEW d \in Shoppers PROVE (req[d] = Idle \/ ReadOK(req[d]))'
    BY <1>1, CatalogAssumption DEF TypeInv, Clients, ReadOK
<1> QED
    BY <1>1, <1>3, <1>4 DEF TypeInv

LEMMA SameDb ==
    ASSUME DbOK, CountsOK, UNCHANGED <<db, calls>>
    PROVE  DbOK' /\ Grows
BY DEF DbOK, CountsOK, VariantsOK, BrandsOK, Grows, Exists, db

LEMMA SameDbMoreCalls ==
    ASSUME DbOK, CountsOK, UNCHANGED db, calls' = calls + 1
    PROVE  DbOK' /\ Grows
<1>1. calls \in Nat /\ calls <= calls'
    BY DEF CountsOK
<1>2. VariantsOK'
    BY <1>1, RecordsExist DEF DbOK, VariantsOK, VariantRecord, Exists, db
<1>3. Grows
    BY <1>1 DEF Grows, Exists, db
<1> QED
    BY <1>2, <1>3 DEF DbOK, BrandsOK, db, Exists

(* A step that only reads.                                                 *)
LEMMA ReadsMoves ==
    ASSUME TypeInv, NEW c \in Admins, Reads, NEW r, Become(c, r),
           r = Idle \/ (Form(r) /\ Seen(r))
    PROVE  TypeInv'
<1>1. DbOK' /\ Grows
    BY SameDb DEF TypeInv, Reads, counts
<1>2. CountsOK' /\ DOMAIN cache' = Pages
    BY DEF TypeInv, Reads, counts, ghosts, CountsOK
<1>3. req'[c] = r
    BY DEF TypeInv, Become, Clients
<1>4. r = Idle \/ CallOK(req[c])'
    <2>1. CASE r = Idle
        BY <2>1
    <2>2. CASE Form(r) /\ Seen(r)
        BY <1>3, <2>2 DEF CallOK, Seen, Looked, Earlier, Finds,
               Exists, Reads, db, counts
    <2> QED
        BY <2>1, <2>2
<1> QED
    BY <1>1, <1>2, <1>4, AdminMoves

-----------------------------------------------------------------------------
(* Calls arrive.                                                           *)

LEMMA Arrival ==
    ASSUME TypeInv, NEW c \in Admins, NEW r, Arrive(c, r),
           Form(r), Looked(r),
           r.op \in {"update_variant", "remove_variant"} => r.doc <= calls
    PROVE  TypeInv'
<1>1. DbOK' /\ Grows
    BY SameDbMoreCalls DEF TypeInv, Arrive
<1>2. CountsOK' /\ DOMAIN cache' = Pages
    <2>1. overlapped' = (overlapped \/ \E a \in Admins : Busy(a))
        BY DEF Arrive
    <2>2. overlapped' = TRUE \/ overlapped' = FALSE
        BY <2>1, Zenon
    <2>3. /\ cache' = cache /\ failures' = failures /\ excused' = excused
          /\ mispriced' = mispriced /\ calls' = calls + 1 /\ calls < MaxCalls
        BY DEF Arrive
    <2> QED
        <3>1. CountsOK /\ DOMAIN cache = Pages
            BY DEF TypeInv
        <3>2. calls' \in 0 .. MaxCalls
            BY <2>3, <3>1, CatalogAssumption DEF CountsOK
        <3>3. /\ failures' \in 0 .. MaxFailures
              /\ excused' \subseteq Pages /\ mispriced' \subseteq Products
            BY <2>3, <3>1 DEF CountsOK
        <3>4. overlapped' \in BOOLEAN
            BY <2>2
        <3>5. DOMAIN cache' = Pages
            BY <2>3, <3>1
        <3> QED
            BY <3>2, <3>3, <3>4, <3>5 DEF CountsOK
<1>3. req'[c] = r /\ Become(c, r)
    BY DEF TypeInv, Arrive, Become, Clients
<1>4. Earlier(r)'
    BY DEF Arrive, TypeInv, CountsOK, Earlier, Form, CallsFor
<1>5. Looked(r)'
    BY DEF Looked, Finds, Exists, Arrive, db
<1>6. CallOK(req[c])'
    BY <1>3, <1>4, <1>5 DEF CallOK, Seen, Looked, Earlier, Finds, Exists
<1> QED
    BY <1>1, <1>2, <1>3, <1>6, AdminMoves

LEMMA CreateProductType ==
    ASSUME TypeInv, NEW c \in Admins, CreateProduct(c) PROVE TypeInv'
<1>1. PICK p \in Products, ts \in Placements :
          Arrive(c, Call("category", "create", p, p, ts))
    BY DEF CreateProduct
<1> DEFINE r == Call("category", "create", p, p, ts)
<1>2. r \in [pc: {"category"}, op: {"create"}, id: {p}, product: {p},
             input: {ts}, doc: {0}, version: {0}, price: {None},
             todo: {<<>>}, found: {{}}]
    BY CallFields
<1>3. ts \subseteq Taxa
    BY DEF Placements, Taxa
<1> HIDE DEF r
<1>4. r \in CallsFor(r.input)
    BY <1>2 DEF CallsFor, CallPcs, ProductOps, Todos
<1>5. OnPath(r) /\ Given(r) /\ ToDo(r) /\ Looked(r)
    BY <1>2, <1>3 DEF OnPath, Given, ToDo, Looked, ProductOps, VariantOps,
       TaxonOps, RefreshSteps
<1> QED
    BY <1>1, <1>2, <1>4, <1>5, Arrival DEF r, Form

LEMMA UpdateProductType ==
    ASSUME TypeInv, NEW c \in Admins, UpdateProduct(c) PROVE TypeInv'
<1>1. PICK p \in Products, ts \in Moves :
          /\ Exists(products[p])
          /\ Arrive(c, [Call(IF ts = {} THEN "write" ELSE "category",
                             "update", p, p, ts)
                        EXCEPT !.version = products[p].version])
    BY DEF UpdateProduct
<1> DEFINE pc == IF ts = {} THEN "write" ELSE "category"
           q == Call(pc, "update", p, p, ts)
           r == [q EXCEPT !.version = products[p].version]
<1>2. q \in [pc: {pc}, op: {"update"}, id: {p}, product: {p},
             input: {ts}, doc: {0}, version: {0}, price: {None},
             todo: {<<>>}, found: {{}}]
    BY CallFields
<1>3. ts \subseteq Taxa /\ products[p].version \in Nat
    BY <1>1 DEF Moves, Placements, Taxa, TypeInv, DbOK, ProductRecord, Exists
<1>4. Arrive(c, r)
    BY <1>1
<1> HIDE DEF q
<1>5. r \in [pc: {pc}, op: {"update"}, id: {p}, product: {p},
             input: {ts}, doc: {0}, version: Nat, price: {None},
             todo: {<<>>}, found: {{}}]
    BY <1>2, <1>3
<1> HIDE DEF r
<1>6. r \in CallsFor(r.input)
    BY <1>5 DEF CallsFor, CallPcs, ProductOps, Todos
<1>7. OnPath(r) /\ Given(r) /\ ToDo(r) /\ Looked(r)
    BY <1>1, <1>3, <1>5 DEF OnPath, Given, ToDo, Looked, ProductOps,
       VariantOps, TaxonOps, RefreshSteps
<1> QED
    BY <1>4, <1>5, <1>6, <1>7, Arrival DEF Form

LEMMA ChangeStatusType ==
    ASSUME TypeInv, NEW c \in Admins, ChangeStatus(c) PROVE TypeInv'
<1>1. PICK p \in Products, op \in {"publish", "unpublish", "archive"} :
          /\ Exists(products[p]) /\ op \in Transitions(products[p].status)
          /\ Arrive(c, [Call(IF op = "publish" THEN "count" ELSE "write",
                             op, p, p, {})
                        EXCEPT !.version = products[p].version])
    BY DEF ChangeStatus
<1> DEFINE pc == IF op = "publish" THEN "count" ELSE "write"
           q == Call(pc, op, p, p, {})
           r == [q EXCEPT !.version = products[p].version]
<1>2. q \in [pc: {pc}, op: {op}, id: {p}, product: {p},
             input: {{}}, doc: {0}, version: {0}, price: {None},
             todo: {<<>>}, found: {{}}]
    BY CallFields
<1>3. products[p].version \in Nat /\ products[p].status # "archived"
    BY <1>1 DEF TypeInv, DbOK, ProductRecord, Exists, Transitions
<1>4. Arrive(c, r)
    BY <1>1
<1> HIDE DEF q
<1>5. r \in [pc: {pc}, op: {op}, id: {p}, product: {p},
             input: {{}}, doc: {0}, version: Nat, price: {None},
             todo: {<<>>}, found: {{}}]
    BY <1>2, <1>3
<1> HIDE DEF r
<1>6. r \in CallsFor(r.input)
    BY <1>5 DEF CallsFor, CallPcs, ProductOps, Todos
<1>7. OnPath(r) /\ Given(r) /\ ToDo(r) /\ Looked(r)
    BY <1>1, <1>3, <1>5 DEF OnPath, Given, ToDo, Looked, ProductOps,
       VariantOps, TaxonOps, RefreshSteps
<1> QED
    BY <1>4, <1>5, <1>6, <1>7, Arrival DEF Form

LEMMA CreateVariantType ==
    ASSUME TypeInv, NEW c \in Admins, CreateVariant(c) PROVE TypeInv'
<1>1. PICK v \in Variants, p \in Products, price \in Prices :
          /\ Exists(products[p])
          /\ Arrive(c, Call("sku", "create_variant", v, p, price))
    BY DEF CreateVariant
<1> DEFINE r == Call("sku", "create_variant", v, p, price)
<1>2. r \in [pc: {"sku"}, op: {"create_variant"}, id: {v}, product: {p},
             input: {price}, doc: {0}, version: {0}, price: {None},
             todo: {<<>>}, found: {{}}]
    BY CallFields
<1> HIDE DEF r
<1>3. r \in CallsFor(r.input)
    BY <1>2 DEF CallsFor, CallPcs, VariantOps, Todos
<1>4. OnPath(r) /\ Given(r) /\ ToDo(r) /\ Looked(r)
    BY <1>1, <1>2 DEF OnPath, Given, ToDo, Looked, ProductOps, VariantOps,
       TaxonOps, RefreshSteps
<1> QED
    BY <1>1, <1>2, <1>3, <1>4, Arrival DEF r, Form

LEMMA UpdateVariantType ==
    ASSUME TypeInv, NEW c \in Admins, UpdateVariant(c) PROVE TypeInv'
<1>1. PICK v \in Variants, input \in Changes :
          /\ Exists(variants[v])
          /\ Arrive(c, [Call("write_variant", "update_variant", v,
                             variants[v].product, input)
                        EXCEPT !.doc = variants[v].id,
                               !.version = variants[v].version])
    BY DEF UpdateVariant
<1> DEFINE p == variants[v].product
           q == Call("write_variant", "update_variant", v, p, input)
           r == [q EXCEPT !.doc = variants[v].id,
                          !.version = variants[v].version]
<1>2. q \in [pc: {"write_variant"}, op: {"update_variant"}, id: {v},
             product: {p}, input: {input}, doc: {0}, version: {0},
             price: {None}, todo: {<<>>}, found: {{}}]
    BY CallFields
<1>3. /\ variants[v].version \in Nat /\ variants[v].id \in Nat
      /\ variants[v].id <= calls /\ p \in Products /\ Exists(products[p])
    BY <1>1 DEF TypeInv, DbOK, VariantRecord, VariantsOK, Exists
<1>4. Arrive(c, r)
    BY <1>1
<1> HIDE DEF q
<1>5. r \in [pc: {"write_variant"}, op: {"update_variant"}, id: {v},
             product: {p}, input: {input}, doc: {variants[v].id},
             version: Nat, price: {None}, todo: {<<>>}, found: {{}}]
    BY <1>2, <1>3
<1> HIDE DEF r
<1>6. r \in CallsFor(r.input)
    BY <1>3, <1>5 DEF CallsFor, CallPcs, VariantOps, Todos
<1>7. OnPath(r) /\ Given(r) /\ ToDo(r) /\ Looked(r)
    BY <1>1, <1>3, <1>5 DEF OnPath, Given, ToDo, Looked, ProductOps,
       VariantOps, TaxonOps, RefreshSteps
<1> QED
    BY <1>3, <1>4, <1>5, <1>6, <1>7, Arrival DEF Form

LEMMA RemoveVariantType ==
    ASSUME TypeInv, NEW c \in Admins, RemoveVariant(c) PROVE TypeInv'
<1>1. PICK v \in Variants :
          /\ Exists(variants[v])
          /\ Arrive(c, [Call("product", "remove_variant", v,
                             variants[v].product, {})
                        EXCEPT !.doc = variants[v].id])
    BY DEF RemoveVariant
<1> DEFINE p == variants[v].product
           q == Call("product", "remove_variant", v, p, {})
           r == [q EXCEPT !.doc = variants[v].id]
<1>2. q \in [pc: {"product"}, op: {"remove_variant"}, id: {v},
             product: {p}, input: {{}}, doc: {0}, version: {0},
             price: {None}, todo: {<<>>}, found: {{}}]
    BY CallFields
<1>3. /\ variants[v].id \in Nat /\ variants[v].id <= calls
      /\ p \in Products /\ Exists(products[p])
    BY <1>1 DEF TypeInv, DbOK, VariantRecord, VariantsOK, Exists
<1>4. Arrive(c, r)
    BY <1>1
<1> HIDE DEF q
<1>5. r \in [pc: {"product"}, op: {"remove_variant"}, id: {v},
             product: {p}, input: {{}}, doc: {variants[v].id},
             version: {0}, price: {None}, todo: {<<>>}, found: {{}}]
    BY <1>2, <1>3
<1> HIDE DEF r
<1>6. r \in CallsFor(r.input)
    BY <1>3, <1>5 DEF CallsFor, CallPcs, VariantOps, Todos
<1>7. OnPath(r) /\ Given(r) /\ ToDo(r) /\ Looked(r)
    BY <1>1, <1>3, <1>5 DEF OnPath, Given, ToDo, Looked, ProductOps,
       VariantOps, TaxonOps, RefreshSteps
<1> QED
    BY <1>3, <1>4, <1>5, <1>6, <1>7, Arrival DEF Form

(* All three calls about categories and brands.                            *)
LEMMA TaxonCallType ==
    ASSUME TypeInv, NEW c \in Admins,
           CreateTaxon(c) \/ UpdateTaxon(c) \/ ArchiveTaxon(c)
    PROVE  TypeInv'
<1>1. PICK t \in Taxa, pc \in {"taxon_slug", "write_taxon", "children",
                               "references"},
           op \in TaxonOps, input \in Categories \cup {Top, {}} :
          /\ Arrive(c, Call(pc, op, t, {}, input))
          /\ op = "create_taxon" =>
                /\ pc = "taxon_slug" /\ input \in Categories \cup {Top}
                /\ input # Top => t \in Categories
          /\ op = "rename" => pc = "write_taxon" /\ Exists(taxa[t])
          /\ op = "archive_taxon" =>
                /\ pc \in {"children", "references"} /\ Exists(taxa[t])
                /\ pc = "children" => t \in Categories
    <2>1. CASE CreateTaxon(c)
        BY <2>1, Zenon DEF CreateTaxon, TaxonOps
    <2>2. CASE UpdateTaxon(c)
        BY <2>2, Zenon DEF UpdateTaxon, TaxonOps
    <2>3. CASE ArchiveTaxon(c)
        BY <2>3, Zenon DEF ArchiveTaxon, TaxonOps
    <2> QED
        BY <2>1, <2>2, <2>3
<1> DEFINE r == Call(pc, op, t, {}, input)
<1>2. r \in [pc: {pc}, op: {op}, id: {t}, product: {{}},
             input: {input}, doc: {0}, version: {0}, price: {None},
             todo: {<<>>}, found: {{}}]
    BY CallFields
<1> HIDE DEF r
<1>3. r \in CallsFor(r.input)
    BY <1>2 DEF CallsFor, CallPcs, TaxonOps, Todos
<1>4. OnPath(r) /\ Given(r) /\ ToDo(r) /\ Looked(r)
    BY <1>1, <1>2 DEF OnPath, Given, ToDo, Looked, ProductOps, VariantOps,
       TaxonOps, RefreshSteps
<1> QED
    BY <1>1, <1>2, <1>3, <1>4, Arrival DEF r, Form, TaxonOps

-----------------------------------------------------------------------------
(* Calls look things up.                                                   *)

LEMMA AtCall ==
    ASSUME TypeInv, NEW c \in Admins, req[c].pc # "idle"
    PROVE  CallOK(req[c])
BY DEF TypeInv, Idle

LEMMA GoOnType ==
    ASSUME TypeInv, NEW c \in Admins, CallOK(req[c]), Reads,
           NEW pc \in CallPcs \ ({"keys", "del"} \cup RefreshSteps),
           req[c].pc \notin {"keys", "del"} \cup RefreshSteps,
           OnPath([req[c] EXCEPT !.pc = pc]), Finish(c) \/ Goto(c, pc)
    PROVE  TypeInv'
<1> DEFINE r == [req[c] EXCEPT !.pc = pc]
<1>1. CASE Become(c, Idle)
    BY <1>1, ReadsMoves
<1>2. CASE Become(c, r)
    <2>1. r \in CallsFor(r.input)
        BY DEF CallOK, Form, CallsFor
    <2>2. Given(r) /\ ToDo(r)
        BY DEF CallOK, Form, CallsFor, Given, ToDo, RefreshSteps, CallPcs
    <2>3. Seen(r)
        BY DEF CallOK, Form, CallsFor, Seen, Looked, Earlier, Finds
    <2> QED
        BY <1>2, <2>1, <2>2, <2>3, ReadsMoves DEF Form
<1> QED
    BY <1>1, <1>2 DEF Goto, Finish

(* The checks a call makes before it writes.                               *)
Checks(c) ==
    \/ CheckCategory(c) \/ CheckBrand(c) \/ CheckSlug(c)
    \/ CountActive(c) \/ CheckSku(c) \/ CheckUnpublished(c)
    \/ CheckTaxonSlug(c) \/ CheckChildren(c) \/ CheckReferences(c)

LEMMA ChecksType ==
    ASSUME TypeInv, NEW c \in Admins, Checks(c) PROVE TypeInv'
<1>1. /\ CallOK(req[c]) /\ Reads
      /\ req[c].pc \notin {"keys", "del"} \cup RefreshSteps
    BY AtCall DEF Checks, CheckCategory, CheckBrand, CheckSlug, CountActive,
       CheckSku, CheckUnpublished, CheckTaxonSlug, CheckChildren,
       CheckReferences, At,
       RefreshSteps
<1>2. req[c] \in CallsFor(req[c].input) /\ OnPath(req[c]) /\ Given(req[c])
    BY <1>1 DEF CallOK, Form
<1>3. PICK pc \in CallPcs \ ({"keys", "del"} \cup RefreshSteps) :
          OnPath([req[c] EXCEPT !.pc = pc]) /\ (Finish(c) \/ Goto(c, pc))
    <2>1. CASE CheckCategory(c)
        <3>1. OnPath([req[c] EXCEPT !.pc = "brand"])
            BY <1>2, <2>1 DEF CheckCategory, At, OnPath, CallsFor, RefreshSteps
        <3>2. "brand" \in CallPcs \ ({"keys", "del"} \cup RefreshSteps)
            BY DEF CallPcs, RefreshSteps
        <3> QED
            BY <2>1, <3>1, <3>2 DEF CheckCategory, GoOnIf
    <2>2. CASE CheckBrand(c)
        <3> DEFINE to == IF req[c].op = "create" THEN "slug" ELSE "write"
        <3>1. OnPath([req[c] EXCEPT !.pc = to])
            BY <1>2, <2>2 DEF CheckBrand, At, OnPath, CallsFor, RefreshSteps,
               ProductOps
        <3>2. to \in CallPcs \ ({"keys", "del"} \cup RefreshSteps)
            BY DEF CallPcs, RefreshSteps
        <3> QED
            BY <2>2, <3>1, <3>2 DEF CheckBrand, GoOnIf
    <2>3. CASE CheckSlug(c)
        <3>1. OnPath([req[c] EXCEPT !.pc = "insert"])
            BY <1>2, <2>3 DEF CheckSlug, At, OnPath, CallsFor, RefreshSteps
        <3>2. "insert" \in CallPcs \ ({"keys", "del"} \cup RefreshSteps)
            BY DEF CallPcs, RefreshSteps
        <3> QED
            BY <2>3, <3>1, <3>2 DEF CheckSlug, GoOnIf
    <2>4. CASE CountActive(c)
        <3>1. OnPath([req[c] EXCEPT !.pc = "write"])
            BY <1>2, <2>4 DEF CountActive, At, OnPath, CallsFor, RefreshSteps,
               ProductOps
        <3>2. "write" \in CallPcs \ ({"keys", "del"} \cup RefreshSteps)
            BY DEF CallPcs, RefreshSteps
        <3> QED
            BY <2>4, <3>1, <3>2 DEF CountActive, GoOnIf
    <2>5. CASE CheckSku(c)
        <3>1. OnPath([req[c] EXCEPT !.pc = "insert_variant"])
            BY <1>2, <2>5 DEF CheckSku, At, OnPath, CallsFor, RefreshSteps
        <3>2. "insert_variant" \in CallPcs \ ({"keys", "del"} \cup RefreshSteps)
            BY DEF CallPcs, RefreshSteps
        <3> QED
            BY <2>5, <3>1, <3>2 DEF CheckSku, GoOnIf
    <2>6. CASE CheckUnpublished(c)
        <3>1. OnPath([req[c] EXCEPT !.pc = "delete"])
            BY <1>2, <2>6 DEF CheckUnpublished, At, OnPath, CallsFor,
               RefreshSteps
        <3>2. "delete" \in CallPcs \ ({"keys", "del"} \cup RefreshSteps)
            BY DEF CallPcs, RefreshSteps
        <3> QED
            BY <2>6, <3>1, <3>2 DEF CheckUnpublished, GoOnIf
    <2>7. CASE CheckTaxonSlug(c)
        <3>1. OnPath([req[c] EXCEPT !.pc = "insert_taxon"])
            BY <1>2, <2>7 DEF CheckTaxonSlug, At, OnPath, CallsFor,
               RefreshSteps
        <3>2. "insert_taxon" \in CallPcs \ ({"keys", "del"} \cup RefreshSteps)
            BY DEF CallPcs, RefreshSteps
        <3> QED
            BY <2>7, <3>1, <3>2 DEF CheckTaxonSlug, GoOnIf
    <2>8. CASE CheckChildren(c)
        <3>1. OnPath([req[c] EXCEPT !.pc = "references"])
            BY <1>2, <2>8 DEF CheckChildren, At, OnPath, CallsFor, RefreshSteps
        <3>2. "references" \in CallPcs \ ({"keys", "del"} \cup RefreshSteps)
            BY DEF CallPcs, RefreshSteps
        <3> QED
            BY <2>8, <3>1, <3>2 DEF CheckChildren, GoOnIf
    <2>9. CASE CheckReferences(c)
        <3>1. OnPath([req[c] EXCEPT !.pc = "write_taxon"])
            BY <1>2, <2>9 DEF CheckReferences, At, OnPath, CallsFor,
               RefreshSteps
        <3>2. "write_taxon" \in CallPcs \ ({"keys", "del"} \cup RefreshSteps)
            BY DEF CallPcs, RefreshSteps
        <3> QED
            BY <2>9, <3>1, <3>2 DEF CheckReferences, GoOnIf
    <2> QED
        BY <2>1, <2>2, <2>3, <2>4, <2>5, <2>6, <2>7, <2>8, <2>9 DEF Checks
<1> QED
    BY <1>1, <1>3, GoOnType

LEMMA PriceReadsType ==
    ASSUME TypeInv, NEW c \in Admins, ReadPrices(c) \/ ReadPriceVersion(c)
    PROVE  TypeInv'
<1>1. CallOK(req[c]) /\ req[c].pc \in RefreshSteps /\ Reads
    BY AtCall DEF ReadPrices, ReadPriceVersion, At, RefreshSteps
<1>2. /\ req[c] \in CallsFor(req[c].input) /\ OnPath(req[c]) /\ Given(req[c])
      /\ ToDo(req[c]) /\ Seen(req[c])
    BY <1>1 DEF CallOK, Form
<1>3. /\ req[c].op \in VariantOps /\ req[c].product \in Products
      /\ products[req[c].product] \in ProductRecord
    BY <1>1, <1>2, RecordsExist DEF OnPath, Given, Seen, Looked, Exists,
       TypeInv, DbOK
<1>4. PICK price \in Prices \cup {None}, version \in Nat, pc \in RefreshSteps :
          Become(c, [req[c] EXCEPT !.price = price, !.version = version,
                                   !.pc = pc])
    <2>1. CASE ReadPrices(c)
        <3> DEFINE p == LowestPrice(req[c].product)
                   to == IF ActiveVariants(req[c].product) = {}
                         THEN "set_price" ELSE "price_version"
        <3>1. p \in Prices \cup {None}
            BY LowestPriceType DEF TypeInv
        <3>2. to \in RefreshSteps
            BY DEF RefreshSteps
        <3>3. Become(c, [req[c] EXCEPT !.price = p, !.pc = to])
            BY <2>1 DEF ReadPrices
        <3> HIDE DEF p, to
        <3>4. [req[c] EXCEPT !.price = p, !.pc = to] =
              [req[c] EXCEPT !.price = p, !.version = req[c].version, !.pc = to]
            BY <1>2 DEF CallsFor
        <3> QED
            BY <1>2, <3>1, <3>2, <3>3, <3>4 DEF CallsFor
    <2>2. CASE ReadPriceVersion(c)
        <3> DEFINE v == products[req[c].product].version
        <3>1. v \in Nat /\ "set_price" \in RefreshSteps
            BY <1>3 DEF ProductRecord, RefreshSteps
        <3>2. Become(c, [req[c] EXCEPT !.version = v, !.pc = "set_price"])
            BY <2>2 DEF ReadPriceVersion
        <3> HIDE DEF v
        <3>3. [req[c] EXCEPT !.version = v, !.pc = "set_price"] =
              [req[c] EXCEPT !.price = req[c].price, !.version = v,
                             !.pc = "set_price"]
            BY <1>2 DEF CallsFor
        <3> QED
            BY <1>2, <3>1, <3>2, <3>3 DEF CallsFor
    <2> QED
        BY <2>1, <2>2
<1> DEFINE r == [req[c] EXCEPT !.price = price, !.version = version, !.pc = pc]
<1>5. r \in CallsFor(r.input)
    BY <1>2 DEF CallsFor, RefreshSteps, CallPcs
<1>6. OnPath(r) /\ Given(r) /\ ToDo(r) /\ Seen(r)
    BY <1>1, <1>2, <1>3 DEF CallsFor, RefreshSteps, OnPath, Given, ToDo, Seen,
       Looked, Earlier, Finds
<1> QED
    BY <1>1, <1>4, <1>5, <1>6, ReadsMoves DEF Form

-----------------------------------------------------------------------------
(* Calls write, and refresh minPrice.                                      *)

(* What a call does after a write.                                         *)
Onward(r) ==
    {Idle, [r EXCEPT !.pc = "keys", !.todo = ProductPages],
     [r EXCEPT !.pc = "keys", !.todo = TaxonomyPages]}
    \cup {[r EXCEPT !.pc = "prices", !.todo = ProductPages] :
             x \in {y \in {1} : r.op \in VariantOps}}

LEMMA OnwardForm ==
    ASSUME NEW r, Form(r), r.pc # "del", NEW q \in Onward(r), q # Idle
    PROVE  /\ Form(q) /\ q.op = r.op /\ q.id = r.id /\ q.product = r.product
           /\ q.doc = r.doc
<1>1. r \in CallsFor(r.input)
    BY DEF Form
<1>2. ASSUME NEW todo \in {ProductPages, TaxonomyPages},
             q = [r EXCEPT !.pc = "keys", !.todo = todo]
      PROVE  Form(q)
    <2>1. todo \in Todos /\ todo # <<>>
        BY DEF Todos, ProductPages, TaxonomyPages
    <2>2. q \in CallsFor(q.input)
        BY <1>1, <1>2, <2>1 DEF CallsFor, CallPcs
    <2>3. OnPath(q) /\ Given(q) /\ ToDo(q)
        BY <1>1, <1>2, <2>1 DEF Form, CallsFor, OnPath, Given, ToDo,
           RefreshSteps
    <2> QED
        BY <2>2, <2>3 DEF Form
<1>3. ASSUME r.op \in VariantOps,
             q = [r EXCEPT !.pc = "prices", !.todo = ProductPages]
      PROVE  Form(q)
    <2>1. ProductPages \in Todos
        BY DEF Todos, ProductPages
    <2>2. q \in CallsFor(q.input)
        BY <1>1, <1>3, <2>1 DEF CallsFor, CallPcs
    <2>3. OnPath(q) /\ Given(q) /\ ToDo(q)
        BY <1>1, <1>3, <2>1 DEF Form, CallsFor, OnPath, Given, ToDo,
           RefreshSteps, ProductPages
    <2> QED
        BY <2>2, <2>3 DEF Form
<1>4. /\ q.op = r.op /\ q.id = r.id /\ q.product = r.product /\ q.doc = r.doc
    BY <1>1 DEF Onward, CallsFor
<1> QED
    BY <1>2, <1>3, <1>4 DEF Onward

(* A step that writes the database.                                        *)
LEMMA WriteMoves ==
    ASSUME TypeInv, NEW c \in Admins, CallOK(req[c]), req[c].pc # "del",
           Grows, DbOK', Writes, mispriced' \subseteq Products,
           NEW q \in Onward(req[c]), Become(c, q)
    PROVE  TypeInv'
<1>1. CountsOK' /\ DOMAIN cache' = Pages
    BY DEF TypeInv, CountsOK, Writes, counts
<1>2. req'[c] = q
    BY DEF TypeInv, Become, Clients
<1>3. q = Idle \/ CallOK(req[c])'
    <2>1. CASE q # Idle
        <3>1. Form(q) /\ q.op = req[c].op /\ q.id = req[c].id
              /\ q.product = req[c].product /\ q.doc = req[c].doc
            BY <2>1, OnwardForm DEF CallOK
        <3>2. Seen(req[c])'
            BY <1>1, <1>2, <3>1, SeenKept DEF TypeInv
        <3> QED
            BY <1>2, <3>1, <3>2 DEF CallOK
    <2> QED
        BY <2>1
<1> QED
    BY <1>1, <1>3, AdminMoves

LEMMA ProductWrites ==
    ASSUME TypeInv, NEW p \in Products, NEW d \in ProductRecord,
           products' = [products EXCEPT ![p] = d], UNCHANGED <<variants, taxa>>,
           calls' = calls,
           products[p] # Absent /\ products[p].status # "archived" =>
              d.status # "archived"
    PROVE  DbOK' /\ Grows
<1>1. products' \in [Products -> {Absent} \cup ProductRecord]
    BY DEF TypeInv, DbOK
<1>2. \A x \in Products : products'[x] = products[x] \/ products'[x] = d
    BY DEF TypeInv, DbOK
<1>3. Exists(d)
    BY RecordsExist
<1>4. \A x \in Products : Exists(products[x]) => Exists(products'[x])
    BY <1>2, <1>3
<1>5. \A x \in Products :
          Exists(products[x]) /\ products[x].status # "archived" =>
              products'[x].status # "archived"
    BY DEF TypeInv, DbOK, Exists
<1>6. VariantsOK'
    BY <1>4 DEF TypeInv, DbOK, VariantsOK, Exists, VariantRecord
<1>7. calls \in Nat
    BY DEF TypeInv, CountsOK
<1>8. Grows
    BY <1>4, <1>5, <1>7 DEF Grows, Exists
<1> QED
    BY <1>1, <1>6, <1>8 DEF TypeInv, DbOK, BrandsOK, Exists

LEMMA InsertProductType ==
    ASSUME TypeInv, NEW c \in Admins, InsertProduct(c) PROVE TypeInv'
<1> DEFINE r == req[c]
<1>1. CallOK(r) /\ r.pc = "insert" /\ Writes /\ mispriced' = mispriced
    BY AtCall DEF InsertProduct, At
<1>2. r.id \in Products /\ r.input \subseteq Taxa
    BY <1>1 DEF CallOK, Form, OnPath, Given, ProductOps
<1>3. DbOK' /\ Grows
    <2>1. CASE Exists(products[r.id])
        BY <1>1, <2>1, SameDb DEF TypeInv, InsertProduct, db, Writes, counts
    <2>2. CASE ~ Exists(products[r.id])
        <3>1. [NewProduct EXCEPT !.taxa = r.input] \in ProductRecord
            BY <1>2 DEF NewProduct, ProductRecord
        <3> QED
            BY <1>1, <1>2, <2>2, <3>1, ProductWrites
               DEF InsertProduct, Exists, Writes, counts
    <2> QED
        BY <2>1, <2>2
<1>4. Idle \in Onward(r) /\ Become(c, Idle)
    BY DEF Onward, InsertProduct, Finish
<1> QED
    BY <1>1, <1>3, <1>4, WriteMoves DEF TypeInv, CountsOK

LEMMA WriteProductType ==
    ASSUME TypeInv, NEW c \in Admins, WriteProduct(c) PROVE TypeInv'
<1> DEFINE r == req[c]
           d == Written(products[r.id], r)
<1>1. CallOK(r) /\ r.pc = "write" /\ Writes /\ mispriced' = mispriced
    BY AtCall DEF WriteProduct, At
<1>2. /\ r.id \in Products /\ r.input \subseteq Taxa /\ r.version \in Nat
      /\ r.op \in ProductOps \ {"create"} /\ Exists(products[r.id])
    BY <1>1 DEF CallOK, Form, OnPath, Given, Seen, Looked, CallsFor, ProductOps
<1>3. products[r.id] \in ProductRecord
    BY <1>2 DEF TypeInv, DbOK, Exists
<1>4. /\ d \in ProductRecord
      /\ products[r.id].status # "archived" => d.status # "archived"
    <2> DEFINE doc == products[r.id]
               ts == Moved(doc.taxa, r.input)
               n == r.version + 1
    <2>1. n \in Nat /\ doc \in ProductRecord
        BY <1>2, <1>3
    <2>2. CASE r.op = "update"
        <3>1. d = [doc EXCEPT !.taxa = ts, !.version = n]
            BY <2>2 DEF Written
        <3>2. ts \subseteq Taxa
            BY <1>2, <2>1 DEF ProductRecord, Moved
        <3> HIDE DEF d, n, ts
        <3> QED
            BY <2>1, <3>1, <3>2 DEF ProductRecord
    <2>3. CASE r.op = "publish"
        <3>1. d = [doc EXCEPT !.status = "published", !.version = n]
            BY <2>3 DEF Written
        <3> HIDE DEF d, doc, n
        <3> QED
            BY <2>1, <3>1 DEF ProductRecord
    <2>4. CASE r.op = "unpublish"
        <3>1. d = [doc EXCEPT !.status = "draft", !.version = n]
            BY <2>4 DEF Written
        <3> HIDE DEF d, doc, n
        <3> QED
            BY <2>1, <3>1 DEF ProductRecord
    <2>5. CASE r.op = "archive"
        <3>1. d = [doc EXCEPT !.deleted = TRUE, !.version = n]
            BY <2>5 DEF Written
        <3> HIDE DEF d, n
        <3> QED
            BY <2>1, <3>1 DEF ProductRecord
    <2> QED
        BY <1>2, <2>2, <2>3, <2>4, <2>5 DEF ProductOps
<1>5. products' = [products EXCEPT ![r.id] = d]
    BY DEF WriteProduct
<1> HIDE DEF d
<1>6. DbOK' /\ Grows
    BY <1>1, <1>2, <1>4, <1>5, ProductWrites DEF WriteProduct, Writes, counts
<1>7. PICK q \in Onward(r) : Become(c, q)
    BY DEF WriteProduct, AfterProduct, Flush, Onward
<1> QED
    BY <1>1, <1>6, <1>7, WriteMoves DEF TypeInv, CountsOK

(* No variant refers to a product that is not there, and a new one takes   *)
(* the count of calls as its id.                                           *)
LEMMA VariantWrites ==
    ASSUME TypeInv, NEW v \in Variants, NEW d \in {Absent} \cup VariantRecord,
           variants' = [variants EXCEPT ![v] = d], UNCHANGED <<products, taxa>>,
           calls' = calls,
           Exists(d) =>
              \/ /\ Exists(variants[v])
                 /\ d.id = variants[v].id /\ d.product = variants[v].product
              \/ d.id = calls /\ Exists(products[d.product])
    PROVE  DbOK' /\ Grows
<1>1. variants' \in [Variants -> {Absent} \cup VariantRecord]
    BY DEF TypeInv, DbOK
<1>2. \A x \in Variants : x # v => variants'[x] = variants[x]
    BY DEF TypeInv, DbOK
<1>3. variants'[v] = d /\ calls \in Nat
    BY DEF TypeInv, DbOK, CountsOK
<1>4. VariantsOK'
    <2> SUFFICES ASSUME NEW x \in Variants, Exists(variants'[x])
                 PROVE  /\ variants'[x].id <= calls
                        /\ Exists(products[variants'[x].product])
        BY DEF VariantsOK, Exists
    <2>1. VariantsOK
        BY DEF TypeInv, DbOK
    <2>2. CASE x = v
        BY <1>3, <2>1, <2>2 DEF VariantsOK
    <2>3. CASE x # v
        BY <1>2, <2>1, <2>3 DEF VariantsOK
    <2> QED
        BY <2>2, <2>3
<1>5. \A x \in Variants : Exists(variants'[x]) =>
          \/ /\ Exists(variants[x])
             /\ variants'[x].id = variants[x].id
             /\ variants'[x].product = variants[x].product
          \/ variants'[x].id = calls
    BY <1>2, <1>3
<1>6. Grows
    BY <1>3, <1>5 DEF Grows, Exists
<1> QED
    BY <1>1, <1>4, <1>6 DEF TypeInv, DbOK, BrandsOK, Exists

LEMMA InsertVariantType ==
    ASSUME TypeInv, NEW c \in Admins, InsertVariant(c) PROVE TypeInv'
<1> DEFINE r == req[c]
           d == [NewVariant EXCEPT !.id = calls, !.price = r.input,
                                   !.product = r.product]
<1>1. /\ CallOK(r) /\ r.pc = "insert_variant" /\ Writes
      /\ UNCHANGED <<products, taxa, mispriced>>
    BY AtCall DEF InsertVariant, At
<1>2. /\ r.id \in Variants /\ r.input \in Prices /\ r.product \in Products
      /\ r.op \in VariantOps /\ Exists(products[r.product]) /\ calls \in Nat
    BY <1>1 DEF CallOK, Form, OnPath, Given, Seen, Looked, VariantOps, TypeInv,
       CountsOK
<1>3. CASE Exists(variants[r.id])
    <2>1. UNCHANGED variants /\ Become(c, Idle)
        BY <1>3 DEF InsertVariant, Finish
    <2>2. DbOK' /\ Grows
        BY <1>1, <2>1, SameDb DEF TypeInv, db, Writes, counts
    <2> QED
        BY <1>1, <2>1, <2>2, WriteMoves DEF TypeInv, CountsOK, Onward
<1>4. CASE ~ Exists(variants[r.id])
    <2>1. d \in VariantRecord /\ d.id = calls /\ d.product = r.product
        BY <1>2 DEF NewVariant, VariantRecord
    <2>2. variants' = [variants EXCEPT ![r.id] = d] /\ Reprice(c)
        BY <1>4 DEF InsertVariant
    <2> HIDE DEF d
    <2>3. DbOK' /\ Grows
        BY <1>1, <1>2, <2>1, <2>2, VariantWrites DEF Writes, counts
    <2>4. PICK q \in Onward(r) : Become(c, q)
        BY <1>2, <2>2 DEF Reprice, Onward
    <2> QED
        BY <1>1, <2>3, <2>4, WriteMoves DEF TypeInv, CountsOK
<1> QED
    BY <1>3, <1>4

LEMMA RevisedType ==
    ASSUME NEW doc \in VariantRecord, NEW r, r.version \in Nat,
           r.input \in Changes
    PROVE  /\ Revised(doc, r) \in VariantRecord
           /\ Revised(doc, r).id = doc.id
           /\ Revised(doc, r).product = doc.product
<1> DEFINE price == IF r.input.price = None THEN doc.price ELSE r.input.price
           status == IF r.input.status = "kept" THEN doc.status
                     ELSE r.input.status
           n == r.version + 1
           d == [doc EXCEPT !.version = n, !.price = price, !.status = status]
<1>1. price \in Prices /\ status \in {"active", "discontinued"} /\ n \in Nat
    BY DEF Changes, VariantRecord
<1>2. Revised(doc, r) = d
    BY DEF Revised
<1> HIDE DEF price, status, n
<1>3. d \in VariantRecord /\ d.id = doc.id /\ d.product = doc.product
    BY <1>1 DEF VariantRecord
<1> QED
    BY <1>2, <1>3

LEMMA WriteVariantType ==
    ASSUME TypeInv, NEW c \in Admins, WriteVariant(c) PROVE TypeInv'
<1> DEFINE r == req[c]
           d == IF Finds(r) THEN Revised(variants[r.id], r) ELSE variants[r.id]
<1>1. /\ CallOK(r) /\ r.pc = "write_variant" /\ Writes /\ Reprice(c)
      /\ UNCHANGED <<products, taxa, mispriced>>
    BY AtCall DEF WriteVariant, At
<1>2. /\ r.id \in Variants /\ r.input \in Changes /\ r.version \in Nat
      /\ r.op \in VariantOps
    BY <1>1 DEF CallOK, Form, OnPath, Given, CallsFor, VariantOps
<1>3. /\ d \in {Absent} \cup VariantRecord
      /\ Exists(d) => /\ Exists(variants[r.id]) /\ d.id = variants[r.id].id
                      /\ d.product = variants[r.id].product
    BY <1>2, RevisedType DEF Finds, Exists, TypeInv, DbOK
<1>4. variants' = [variants EXCEPT ![r.id] = d]
    BY DEF WriteVariant
<1> HIDE DEF d
<1>5. DbOK' /\ Grows
    BY <1>1, <1>2, <1>3, <1>4, VariantWrites DEF Writes, counts
<1>6. PICK q \in Onward(r) : Become(c, q)
    BY <1>1, <1>2 DEF Reprice, Onward
<1> QED
    BY <1>1, <1>5, <1>6, WriteMoves DEF TypeInv, CountsOK

LEMMA DeleteVariantType ==
    ASSUME TypeInv, NEW c \in Admins, DeleteVariant(c) PROVE TypeInv'
<1> DEFINE r == req[c]
           d == IF Finds(r) THEN Absent ELSE variants[r.id]
<1>1. /\ CallOK(r) /\ r.pc = "delete" /\ Writes /\ Reprice(c)
      /\ UNCHANGED <<products, taxa, mispriced>>
    BY AtCall DEF DeleteVariant, At
<1>2. r.id \in Variants /\ r.op \in VariantOps
    BY <1>1 DEF CallOK, Form, OnPath, Given, VariantOps
<1>3. /\ d \in {Absent} \cup VariantRecord
      /\ Exists(d) => /\ Exists(variants[r.id]) /\ d.id = variants[r.id].id
                      /\ d.product = variants[r.id].product
    BY <1>2 DEF Exists, TypeInv, DbOK
<1>4. variants' = [variants EXCEPT ![r.id] = d]
    BY DEF DeleteVariant
<1> HIDE DEF d
<1>5. DbOK' /\ Grows
    BY <1>1, <1>2, <1>3, <1>4, VariantWrites DEF Writes, counts
<1>6. PICK q \in Onward(r) : Become(c, q)
    BY <1>1, <1>2 DEF Reprice, Onward
<1> QED
    BY <1>1, <1>5, <1>6, WriteMoves DEF TypeInv, CountsOK

LEMMA SetMinPriceType ==
    ASSUME TypeInv, NEW c \in Admins, SetMinPrice(c) PROVE TypeInv'
<1> DEFINE r == req[c]
           p == r.product
           doc == products[p]
           n == IF r.price = None THEN doc.version ELSE r.version + 1
           d == [doc EXCEPT !.minPrice = r.price, !.version = n]
<1>1. /\ CallOK(r) /\ r.pc = "set_price" /\ Writes
      /\ UNCHANGED <<variants, taxa>> /\ Flush(c, ProductPages)
    BY AtCall DEF SetMinPrice, At
<1>2. /\ p \in Products /\ Exists(doc) /\ r.version \in Nat
      /\ r.price \in Prices \cup {None}
    BY <1>1 DEF CallOK, Form, OnPath, Given, Seen, Looked, CallsFor,
       VariantOps, RefreshSteps
<1>3. doc \in ProductRecord
    BY <1>2 DEF TypeInv, DbOK, Exists
<1>4. n \in Nat
    BY <1>2, <1>3 DEF ProductRecord
<1>5. products' = [products EXCEPT ![p] = d]
    BY <1>2 DEF SetMinPrice, TypeInv, DbOK
<1> HIDE DEF n
<1>6. d \in ProductRecord /\ d.status = doc.status
    BY <1>2, <1>3, <1>4 DEF ProductRecord
<1> HIDE DEF d
<1>7. DbOK' /\ Grows
    BY <1>1, <1>2, <1>5, <1>6, ProductWrites DEF Writes, counts
<1>8. PICK q \in Onward(r) : Become(c, q)
    BY <1>1 DEF Flush, Onward
<1>9. mispriced' \subseteq Products
    BY <1>2 DEF SetMinPrice, TypeInv, CountsOK
<1> QED
    BY <1>1, <1>7, <1>8, <1>9, WriteMoves

LEMMA TaxonWrites ==
    ASSUME TypeInv, NEW t \in Taxa, NEW d \in TaxonRecord,
           taxa' = [taxa EXCEPT ![t] = d], UNCHANGED <<products, variants>>,
           calls' = calls, t \in Brands => d.parent = Top
    PROVE  DbOK' /\ Grows
<1>1. taxa' \in [Taxa -> {Absent} \cup TaxonRecord]
    BY DEF TypeInv, DbOK
<1>2. \A u \in Taxa : (u # t => taxa'[u] = taxa[u]) /\ (u = t => taxa'[u] = d)
    BY DEF TypeInv, DbOK
<1>3. BrandsOK'
    BY <1>2 DEF TypeInv, DbOK, BrandsOK, Taxa, Exists
<1>4. \A u \in Taxa : Exists(taxa[u]) => Exists(taxa'[u])
    BY <1>2, RecordsExist
<1>5. Grows
    BY <1>4 DEF Grows, Exists, TypeInv, CountsOK
<1> QED
    BY <1>1, <1>3, <1>5 DEF TypeInv, DbOK, VariantsOK, Exists

LEMMA InsertTaxonType ==
    ASSUME TypeInv, NEW c \in Admins, InsertTaxon(c) PROVE TypeInv'
<1> DEFINE r == req[c]
           d == [NewTaxon EXCEPT !.parent = r.input]
<1>1. /\ CallOK(r) /\ r.pc = "insert_taxon" /\ Writes
      /\ UNCHANGED <<products, variants, mispriced>>
    BY AtCall DEF InsertTaxon, At
<1>2. /\ r.id \in Taxa /\ r.input \in Categories \cup {Top}
      /\ r.input # Top => r.id \in Categories
    BY <1>1 DEF CallOK, Form, OnPath, Given, TaxonOps
<1>3. CASE Exists(taxa[r.id])
    <2>1. UNCHANGED taxa /\ Become(c, Idle)
        BY <1>3 DEF InsertTaxon, Finish
    <2>2. DbOK' /\ Grows
        BY <1>1, <2>1, SameDb DEF TypeInv, db, Writes, counts
    <2> QED
        BY <1>1, <2>1, <2>2, WriteMoves DEF TypeInv, CountsOK, Onward
<1>4. CASE ~ Exists(taxa[r.id])
    <2>1. d \in TaxonRecord /\ (r.id \in Brands => d.parent = Top)
        BY <1>2, CatalogAssumption DEF NewTaxon, TaxonRecord
    <2>2. taxa' = [taxa EXCEPT ![r.id] = d] /\ Flush(c, TaxonomyPages)
        BY <1>4 DEF InsertTaxon
    <2> HIDE DEF d
    <2>3. DbOK' /\ Grows
        BY <1>1, <1>2, <2>1, <2>2, TaxonWrites DEF Writes, counts
    <2>4. PICK q \in Onward(r) : Become(c, q)
        BY <2>2 DEF Flush, Onward
    <2> QED
        BY <1>1, <2>3, <2>4, WriteMoves DEF TypeInv, CountsOK
<1> QED
    BY <1>3, <1>4

LEMMA WriteTaxonType ==
    ASSUME TypeInv, NEW c \in Admins, WriteTaxon(c) PROVE TypeInv'
<1> DEFINE r == req[c]
           doc == taxa[r.id]
           d == Amended(doc, r)
<1>1. /\ CallOK(r) /\ r.pc = "write_taxon" /\ Writes /\ Flush(c, TaxonomyPages)
      /\ UNCHANGED <<products, variants, mispriced>>
    BY AtCall DEF WriteTaxon, At
<1>2. r.id \in Taxa /\ Exists(doc)
    BY <1>1 DEF CallOK, Form, OnPath, Given, Seen, Looked, TaxonOps
<1>3. doc \in TaxonRecord
    BY <1>2 DEF TypeInv, DbOK, Exists
<1>4. d \in TaxonRecord /\ d.parent = doc.parent
    <2> DEFINE n == doc.name + 1
    <2>1. doc \in TaxonRecord /\ n \in Nat
        BY <1>3 DEF TaxonRecord
    <2> HIDE DEF doc, n
    <2>2. /\ [doc EXCEPT !.name = n] \in TaxonRecord
          /\ [doc EXCEPT !.name = n].parent = doc.parent
          /\ [doc EXCEPT !.status = "archived"] \in TaxonRecord
          /\ [doc EXCEPT !.status = "archived"].parent = doc.parent
        BY <2>1 DEF TaxonRecord
    <2> QED
        BY <2>2 DEF Amended, n, doc
<1>5. taxa' = [taxa EXCEPT ![r.id] = d]
    BY <1>2 DEF WriteTaxon, TypeInv, DbOK
<1>6. r.id \in Brands => d.parent = Top
    BY <1>2, <1>4 DEF TypeInv, DbOK, BrandsOK
<1> HIDE DEF d
<1>7. DbOK' /\ Grows
    BY <1>1, <1>2, <1>4, <1>5, <1>6, TaxonWrites DEF Writes, counts
<1>8. PICK q \in Onward(r) : Become(c, q)
    BY <1>1 DEF Flush, Onward
<1> QED
    BY <1>1, <1>7, <1>8, WriteMoves DEF TypeInv, CountsOK

-----------------------------------------------------------------------------
(* The cache.                                                              *)

(* The pages among the patterns of todo.                                   *)
InTodo(page, todo) == \E i \in DOMAIN todo : page \in todo[i]

LEMMA ToFlushIs ==
    ASSUME NEW c \in Admins, Busy(c), NEW page
    PROVE  page \in ToFlush(c) <=>
              InTodo(page, req[c].todo) \/ page \in req[c].found
BY DEF ToFlush, InTodo

LEMMA OneLeft ==
    ASSUME NEW todo, \A i \in DOMAIN todo : i = 1, 1 \in DOMAIN todo,
           todo[1] = {"search"}
    PROVE  \A page : InTodo(page, todo) <=> page = "search"
BY DEF InTodo

LEMMA TodoParts ==
    ASSUME NEW todo \in Todos, todo # <<>>
    PROVE  /\ Head(todo) \subseteq Pages /\ Tail(todo) \in Todos
           /\ \A page : InTodo(page, todo) <=>
                 page \in Head(todo) \/ InTodo(page, Tail(todo))
<1>1. CASE todo = <<Products, {"search"}>>
    <2>1. Head(todo) = Products /\ Tail(todo) = <<{"search"}>>
        BY <1>1
    <2>2. \A page : InTodo(page, todo) <=> page \in Products \/ page = "search"
        <3>1. /\ \A i \in DOMAIN todo : i = 1 \/ i = 2
              /\ 1 \in DOMAIN todo /\ 2 \in DOMAIN todo
              /\ todo[1] = Products /\ todo[2] = {"search"}
            BY <1>1
        <3> QED
            BY <3>1 DEF InTodo
    <2> DEFINE rest == Tail(todo)
    <2>3. \A page : InTodo(page, rest) <=> page = "search"
        <3>1. rest = <<{"search"}>>
            BY <2>1
        <3> HIDE DEF rest
        <3>2. /\ \A i \in DOMAIN rest : i = 1
              /\ 1 \in DOMAIN rest /\ rest[1] = {"search"}
            BY <3>1
        <3> QED
            BY <3>2, OneLeft
    <2>4. Head(todo) \subseteq Pages /\ Tail(todo) \in Todos
        BY <2>1 DEF Todos, Pages
    <2>5. \A page : page \in Head(todo) <=> page \in Products
        BY <2>1
    <2> QED
        BY <2>2, <2>3, <2>4, <2>5
<1>2. CASE todo = <<{"taxonomy"}, {"search"}>>
    <2>1. Head(todo) = {"taxonomy"} /\ Tail(todo) = <<{"search"}>>
        BY <1>2
    <2>2. \A page : InTodo(page, todo) <=> page = "taxonomy" \/ page = "search"
        <3>1. /\ \A i \in DOMAIN todo : i = 1 \/ i = 2
              /\ 1 \in DOMAIN todo /\ 2 \in DOMAIN todo
              /\ todo[1] = {"taxonomy"} /\ todo[2] = {"search"}
            BY <1>2
        <3> QED
            BY <3>1 DEF InTodo
    <2> DEFINE rest == Tail(todo)
    <2>3. \A page : InTodo(page, rest) <=> page = "search"
        <3>1. rest = <<{"search"}>>
            BY <2>1
        <3> HIDE DEF rest
        <3>2. /\ \A i \in DOMAIN rest : i = 1
              /\ 1 \in DOMAIN rest /\ rest[1] = {"search"}
            BY <3>1
        <3> QED
            BY <3>2, OneLeft
    <2>4. Head(todo) \subseteq Pages /\ Tail(todo) \in Todos
        BY <2>1 DEF Todos, Pages
    <2>5. \A page : page \in Head(todo) <=> page = "taxonomy"
        BY <2>1
    <2> QED
        BY <2>2, <2>3, <2>4, <2>5
<1>3. CASE todo = <<{"search"}>>
    <2>1. Head(todo) = {"search"} /\ Tail(todo) = <<>>
        BY <1>3
    <2>2. \A page : InTodo(page, todo) <=> page = "search"
        BY <1>3 DEF InTodo
    <2>3. \A page : ~ InTodo(page, Tail(todo))
        BY <2>1 DEF InTodo
    <2>4. Head(todo) \subseteq Pages /\ Tail(todo) \in Todos
        BY <2>1 DEF Todos, Pages
    <2>5. \A page : page \in Head(todo) <=> page = "search"
        BY <2>1
    <2> QED
        BY <2>2, <2>3, <2>4, <2>5
<1> QED
    BY <1>1, <1>2, <1>3 DEF Todos

(* A call goes on through its invalidations.                               *)
LEMMA FlushMoves ==
    ASSUME TypeInv, NEW c \in Admins, CallOK(req[c]), UNCHANGED <<db, calls>>,
           CountsOK', DOMAIN cache' = Pages,
           NEW pc \in {"keys", "del"}, NEW todo \in Todos,
           NEW found \in SUBSET Pages,
           pc = "keys" => todo # <<>> /\ found = {},
           Become(c, [req[c] EXCEPT !.pc = pc, !.todo = todo, !.found = found])
    PROVE  TypeInv'
<1> DEFINE r == req[c]
           q == [r EXCEPT !.pc = pc, !.todo = todo, !.found = found]
<1>1. DbOK' /\ Grows
    BY SameDb DEF TypeInv
<1>2. r \in CallsFor(r.input) /\ Given(r)
    BY DEF CallOK, Form
<1>3. q \in CallsFor(q.input)
    BY <1>2 DEF CallsFor, CallPcs
<1>4. OnPath(q) /\ Given(q) /\ ToDo(q)
    BY <1>2 DEF CallsFor, OnPath, Given, ToDo, RefreshSteps
<1>5. q.op = r.op /\ q.id = r.id /\ q.product = r.product /\ q.doc = r.doc
    BY <1>2 DEF CallsFor
<1>6. Form(q)
    BY <1>3, <1>4 DEF Form
<1>7. req'[c] = q
    BY DEF TypeInv, Become, Clients
<1> HIDE DEF q
<1>8. Seen(req[c])'
    BY <1>1, <1>5, <1>7, SeenKept DEF TypeInv
<1>9. CallOK(req[c])'
    BY <1>6, <1>7, <1>8 DEF CallOK
<1> QED
    BY <1>1, <1>9, AdminMoves DEF q

LEMMA Leaves ==
    ASSUME TypeInv, NEW c \in Admins, UNCHANGED <<db, calls>>, CountsOK',
           DOMAIN cache' = Pages, Finish(c)
    PROVE  TypeInv'
BY SameDb, AdminMoves DEF TypeInv, Finish

LEMMA KeysType ==
    ASSUME TypeInv, NEW c \in Admins, Keys(c) PROVE TypeInv'
<1> DEFINE r == req[c]
           found == {page \in Head(r.todo) : IsCached(page)}
           rest == Tail(r.todo)
<1>1. CallOK(r) /\ r.pc = "keys" /\ Reads
    BY AtCall DEF Keys, At
<1>2. /\ r \in CallsFor(r.input) /\ r.todo \in Todos /\ r.todo # <<>>
      /\ r.found = {}
    BY <1>1 DEF CallOK, Form, ToDo, CallsFor
<1>3. rest \in Todos /\ found \subseteq Pages
    BY <1>2, TodoParts
<1>4. CountsOK' /\ DOMAIN cache' = Pages /\ UNCHANGED <<db, calls>>
    BY <1>1 DEF Reads, TypeInv, CountsOK, counts, ghosts
<1>5. CASE found # {}
    <2>1. Become(c, [r EXCEPT !.pc = "del", !.found = found, !.todo = rest])
        BY <1>5 DEF Keys
    <2> HIDE DEF found, rest
    <2>2. [r EXCEPT !.pc = "del", !.found = found, !.todo = rest] =
          [r EXCEPT !.pc = "del", !.todo = rest, !.found = found]
        BY <1>2 DEF CallsFor
    <2> QED
        BY <1>1, <1>3, <1>4, <2>1, <2>2, FlushMoves
<1>6. CASE found = {} /\ rest = <<>>
    <2>1. Finish(c)
        BY <1>6 DEF Keys
    <2> QED
        BY <1>4, <2>1, Leaves
<1>7. CASE found = {} /\ rest # <<>>
    <2>1. Become(c, [r EXCEPT !.todo = rest])
        BY <1>7 DEF Keys
    <2>2. [r EXCEPT !.todo = rest] =
          [r EXCEPT !.pc = "keys", !.todo = rest, !.found = {}]
        <3> HIDE DEF rest
        <3> QED
            BY <1>1, <1>2 DEF CallsFor
    <2> QED
        BY <1>1, <1>3, <1>4, <1>7, <2>1, <2>2, FlushMoves
<1> QED
    BY <1>5, <1>6, <1>7

LEMMA DelType ==
    ASSUME TypeInv, NEW c \in Admins, Del(c) PROVE TypeInv'
<1> DEFINE r == req[c]
<1>1. CallOK(r) /\ r.pc = "del"
    BY AtCall DEF Del, At
<1>2. r \in CallsFor(r.input) /\ r.todo \in Todos
    BY <1>1 DEF CallOK, Form, CallsFor
<1>3. CountsOK' /\ DOMAIN cache' = Pages /\ UNCHANGED <<db, calls>>
    BY DEF Del, TypeInv, CountsOK, counts
<1>4. CASE r.todo = <<>>
    BY <1>3, <1>4, Leaves DEF Del
<1>5. CASE r.todo # <<>>
    <2>1. Become(c, [r EXCEPT !.pc = "keys", !.found = {}])
        BY <1>5 DEF Del
    <2>2. [r EXCEPT !.pc = "keys", !.found = {}] =
          [r EXCEPT !.pc = "keys", !.todo = r.todo, !.found = {}]
        BY <1>2 DEF CallsFor
    <2> QED
        BY <1>1, <1>2, <1>3, <1>5, <2>1, <2>2, FlushMoves
<1> QED
    BY <1>4, <1>5

LEMMA FlushFailsType ==
    ASSUME TypeInv, NEW c \in Admins, FlushFails(c) PROVE TypeInv'
<1> DEFINE r == req[c]
           now == IF At(c, "del") THEN r.found ELSE Head(r.todo)
           rest == IF At(c, "del") THEN r.todo ELSE Tail(r.todo)
<1>1. CallOK(r) /\ r.pc \in {"keys", "del"}
    BY AtCall DEF FlushFails, At
<1>2. /\ r \in CallsFor(r.input) /\ r.todo \in Todos /\ r.found \subseteq Pages
      /\ r.pc = "keys" => r.todo # <<>>
    BY <1>1 DEF CallOK, Form, CallsFor, ToDo
<1>3. rest \in Todos /\ now \subseteq Pages
    BY <1>1, <1>2, TodoParts DEF At
<1>4. /\ excused' = excused \cup now
      /\ IF rest = <<>> THEN Finish(c)
         ELSE Become(c, [r EXCEPT !.pc = "keys", !.todo = rest, !.found = {}])
    BY DEF FlushFails
<1>5. /\ failures < MaxFailures /\ failures' = failures + 1
      /\ UNCHANGED <<db, cache, calls, mispriced, overlapped>>
    BY DEF FlushFails
<1> HIDE DEF now, rest
<1>6. CountsOK' /\ DOMAIN cache' = Pages
    BY <1>3, <1>4, <1>5, CatalogAssumption DEF TypeInv, CountsOK
<1>7. CASE rest = <<>>
    <2>1. Finish(c) /\ UNCHANGED <<db, calls>>
        BY <1>4, <1>5, <1>7
    <2> QED
        BY <1>6, <2>1, Leaves
<1>8. CASE rest # <<>>
    <2>1. /\ Become(c, [r EXCEPT !.pc = "keys", !.todo = rest, !.found = {}])
          /\ UNCHANGED <<db, calls>>
        BY <1>4, <1>5, <1>8
    <2>2. "keys" \in {"keys", "del"} /\ {} \in SUBSET Pages
        OBVIOUS
    <2> HIDE DEF r
    <2> QED
        BY <1>1, <1>3, <1>6, <1>8, <2>1, <2>2, FlushMoves DEF r
<1> QED
    BY <1>7, <1>8

LEMMA ToFlushPages ==
    ASSUME TypeInv, NEW c \in Admins
    PROVE  ToFlush(c) \subseteq Pages
<1>1. CASE ~ Busy(c)
    BY <1>1 DEF ToFlush
<1>2. CASE Busy(c)
    <2>1. req[c].todo \in Todos /\ req[c].found \subseteq Pages
        BY <1>2 DEF TypeInv, Busy, CallOK, Form, CallsFor
    <2>2. \A page : InTodo(page, req[c].todo) => page \in Pages
        BY <2>1 DEF Todos, Pages, InTodo
    <2> QED
        BY <1>2, <2>1, <2>2, ToFlushIs
<1> QED
    BY <1>1, <1>2

LEMMA DiesType ==
    ASSUME TypeInv, NEW c \in Admins, Dies(c) PROVE TypeInv'
<1>1. CallOK(req[c])
    BY DEF Dies, Busy, TypeInv
<1>2. req[c].pc \in RefreshSteps => req[c].product \in Products
    BY <1>1 DEF CallOK, Form, OnPath, Given
<1>3. mispriced' \subseteq Products
    BY <1>2 DEF Dies, TypeInv, CountsOK
<1>4. excused' \subseteq Pages
    BY ToFlushPages DEF Dies, TypeInv, CountsOK
<1>5. /\ failures < MaxFailures /\ failures' = failures + 1 /\ Finish(c)
      /\ UNCHANGED <<db, cache, calls, overlapped>>
    BY DEF Dies
<1>6. CountsOK' /\ DOMAIN cache' = Pages
    BY <1>3, <1>4, <1>5, CatalogAssumption DEF TypeInv, CountsOK
<1> QED
    BY <1>5, <1>6, Leaves

-----------------------------------------------------------------------------
(* Shoppers read pages; keys expire.                                       *)

(* No admin moves.                                                         *)
LEMMA OthersStay ==
    ASSUME TypeInv, DbOK', Grows, CountsOK', DOMAIN cache' = Pages,
           DOMAIN req' = Clients, \A d \in Admins : req'[d] = req[d],
           \A d \in Shoppers : (req[d] = Idle \/ ReadOK(req[d]))'
    PROVE  TypeInv'
<1>1. ASSUME NEW d \in Admins PROVE (req[d] = Idle \/ CallOK(req[d]))'
    <2>1. CASE req[d] = Idle
        BY <2>1
    <2>2. CASE CallOK(req[d])
        <3>1. Seen(req[d])'
            BY <2>2, SeenKept DEF TypeInv
        <3> QED
            BY <2>2, <3>1 DEF CallOK
    <2> QED
        BY <2>1, <2>2 DEF TypeInv
<1> QED
    BY <1>1 DEF TypeInv

LEMMA ShopperMoves ==
    ASSUME TypeInv, NEW c \in Shoppers, NEW r, Become(c, r), DbOK', Grows,
           CountsOK', DOMAIN cache' = Pages, r = Idle \/ ReadOK(r)
    PROVE  TypeInv'
<1>1. /\ DOMAIN req' = Clients /\ req'[c] = r
      /\ \A d \in Clients \ {c} : req'[d] = req[d]
    BY DEF TypeInv, Become, Clients
<1>2. \A d \in Admins : req'[d] = req[d]
    BY <1>1, CatalogAssumption DEF Clients
<1>3. ASSUME NEW d \in Shoppers PROVE (req[d] = Idle \/ ReadOK(req[d]))'
    <2>1. CASE d = c
        BY <1>1, <2>1
    <2>2. CASE d # c
        BY <1>1, <2>2 DEF TypeInv, Clients
    <2> QED
        BY <2>1, <2>2
<1> QED
    BY <1>1, <1>2, <1>3, OthersStay

LEMMA AtRead ==
    ASSUME TypeInv, NEW c \in Shoppers, req[c].pc # "idle"
    PROVE  ReadOK(req[c])
BY DEF TypeInv, Idle

LEMMA ReadGoesOn ==
    ASSUME NEW r, ReadOK(r), NEW pc \in {"second", "set"}, NEW f
    PROVE  ReadOK([r EXCEPT !.pc = pc, !.first = f])
<1>1. r \in [pc: {r.pc}, page: {r.page}, first: {r.first}]
    BY DEF ReadOK
<1> DEFINE q == [r EXCEPT !.pc = pc, !.first = f]
<1>2. q \in [pc: {pc}, page: {r.page}, first: {f}]
    BY <1>1
<1> HIDE DEF q
<1>3. q = [pc |-> q.pc, page |-> q.page, first |-> q.first]
    BY <1>2
<1>4. q.pc = pc /\ q.page = r.page
    BY <1>2
<1>5. ReadOK(q)
    BY <1>3, <1>4, Zenon DEF ReadOK
<1> QED
    BY <1>5 DEF q

LEMMA GetPageType ==
    ASSUME TypeInv, NEW c \in Shoppers, GetPage(c) PROVE TypeInv'
<1>1. PICK page \in Pages :
          /\ Become(c, [NoRead EXCEPT !.page = page])
          /\ calls < MaxCalls /\ calls' = calls + 1
          /\ \/ UNCHANGED failures
             \/ failures < MaxFailures /\ failures' = failures + 1
          /\ UNCHANGED <<db, cache, ghosts>>
    BY DEF GetPage
<1>2. ReadOK([NoRead EXCEPT !.page = page])
    BY DEF NoRead, ReadOK
<1>3. DbOK' /\ Grows
    BY <1>1, SameDbMoreCalls DEF TypeInv
<1>4. CountsOK' /\ DOMAIN cache' = Pages
    BY <1>1, CatalogAssumption DEF TypeInv, CountsOK, ghosts
<1> QED
    BY <1>1, <1>2, <1>3, <1>4, ShopperMoves

LEMMA ServesType ==
    ASSUME TypeInv, NEW c \in Shoppers, Serves(c) PROVE TypeInv'
<1>1. ReadOK(req[c]) /\ UNCHANGED <<db, counts, mispriced, overlapped>>
    BY AtRead DEF Serves, ReadFirst, ReadSecond, SetPage, Reads, ghosts, At
<1>2. DbOK' /\ Grows
    BY <1>1, SameDb DEF TypeInv, counts
<1>3. excused' \subseteq Pages /\ DOMAIN cache' = Pages
    BY <1>1 DEF Serves, ReadFirst, ReadSecond, SetPage, Reads, ghosts, TypeInv,
       CountsOK, ReadOK
<1>4. CountsOK'
    BY <1>1, <1>3 DEF TypeInv, CountsOK, counts
<1>5. PICK r : Become(c, r) /\ (r = Idle \/ ReadOK(r))
    <2>1. CASE ReadFirst(c)
        <3> DEFINE f == FirstPart(req[c].page)
        <3>1. \/ Become(c, [req[c] EXCEPT !.pc = "second", !.first = f])
              \/ Become(c, Idle)
            BY <2>1 DEF ReadFirst, Finish
        <3> HIDE DEF f
        <3>2. ReadOK([req[c] EXCEPT !.pc = "second", !.first = f])
            BY <1>1, ReadGoesOn
        <3> QED
            BY <3>1, <3>2
    <2>2. CASE ReadSecond(c)
        <3> DEFINE f == Page(req[c].page, req[c].first)
        <3>1. Become(c, [req[c] EXCEPT !.pc = "set", !.first = f])
            BY <2>2 DEF ReadSecond
        <3> HIDE DEF f
        <3>2. ReadOK([req[c] EXCEPT !.pc = "set", !.first = f])
            BY <1>1, ReadGoesOn
        <3> QED
            BY <3>1, <3>2
    <2>3. CASE SetPage(c)
        BY <2>3 DEF SetPage, Finish
    <2> QED
        BY <2>1, <2>2, <2>3 DEF Serves
<1> QED
    BY <1>2, <1>3, <1>4, <1>5, ShopperMoves

LEMMA ExpireType ==
    ASSUME TypeInv, NEW page \in Pages, Expire(page) PROVE TypeInv'
<1>1. DbOK' /\ Grows
    BY SameDb DEF TypeInv, Expire, counts
<1>2. CountsOK' /\ DOMAIN cache' = Pages /\ UNCHANGED req
    BY DEF Expire, TypeInv, CountsOK, counts
<1> QED
    BY <1>1, <1>2, OthersStay DEF TypeInv, ReadOK

LEMMA StutterType == TypeInv /\ UNCHANGED vars => TypeInv'
<1> SUFFICES ASSUME TypeInv, UNCHANGED vars PROVE TypeInv'
    OBVIOUS
<1>1. DbOK' /\ Grows
    BY SameDb DEF TypeInv, vars, counts
<1>2. CountsOK' /\ UNCHANGED <<cache, req>>
    BY DEF TypeInv, CountsOK, vars, counts, ghosts
<1> QED
    BY <1>1, <1>2, OthersStay DEF TypeInv, ReadOK

LEMMA InitType == Init => TypeInv
<1> SUFFICES ASSUME Init PROVE TypeInv
    OBVIOUS
<1>1. PICK seed \in Seeds : /\ products = seed.products
                            /\ variants = seed.variants /\ taxa = seed.taxa
    BY DEF Init
<1>2. DbOK
    <2>1. Settled(seed)
        BY CatalogAssumption
    <2>2. VariantsOK /\ BrandsOK
        BY DEF Init, Orderly, VariantsOK, BrandsOK
    <2> QED
        BY <1>1, <2>1, <2>2 DEF Settled, DbOK
<1>3. CountsOK
    <2>1. /\ calls = 0 /\ failures = 0 /\ excused = {} /\ mispriced = {}
          /\ overlapped = FALSE
        BY DEF Init
    <2>2. overlapped \in BOOLEAN
        BY <2>1
    <2>3. calls \in 0 .. MaxCalls /\ failures \in 0 .. MaxFailures
        BY <2>1, CatalogAssumption
    <2> QED
        BY <2>1, <2>2, <2>3 DEF CountsOK
<1>4. DOMAIN cache = Pages /\ DOMAIN req = Clients
    BY DEF Init
<1>5. \A c \in Clients : req[c] = Idle
    BY DEF Init
<1> QED
    BY <1>2, <1>3, <1>4, <1>5 DEF TypeInv, Clients

LEMMA NextType == TypeInv /\ [Next]_vars => TypeInv'
<1> SUFFICES ASSUME TypeInv, [Next]_vars PROVE TypeInv'
    OBVIOUS
<1>1. ASSUME NEW c \in Admins, Arrives(c) PROVE TypeInv'
    BY <1>1, CreateProductType, UpdateProductType, ChangeStatusType,
       CreateVariantType, UpdateVariantType, RemoveVariantType, TaxonCallType
       DEF Arrives
<1>2. ASSUME NEW c \in Admins, Continues(c) PROVE TypeInv'
    BY <1>2, ChecksType, InsertProductType, WriteProductType,
       InsertVariantType, WriteVariantType, DeleteVariantType, PriceReadsType,
       SetMinPriceType, InsertTaxonType, WriteTaxonType, KeysType, DelType
       DEF Continues, Checks
<1>3. ASSUME NEW c \in Admins, FlushFails(c) \/ Dies(c) PROVE TypeInv'
    BY <1>3, FlushFailsType, DiesType
<1>4. ASSUME NEW c \in Shoppers, GetPage(c) \/ Serves(c) PROVE TypeInv'
    BY <1>4, GetPageType, ServesType
<1> QED
    BY <1>1, <1>2, <1>3, <1>4, ExpireType, StutterType DEF Next

LEMMA TypeInvImplies == TypeInv => TypeOK
<1> SUFFICES ASSUME TypeInv PROVE TypeOK
    OBVIOUS
<1>1. Settled([products |-> products, variants |-> variants, taxa |-> taxa])
    BY DEF TypeInv, DbOK, Settled
<1>2. ASSUME NEW c \in Clients PROVE RequestOK(c)
    <2>1. CASE c \in Shoppers
        BY <2>1 DEF TypeInv, RequestOK, ReadOK
    <2>2. CASE c \notin Shoppers
        <3>1. c \in Admins
            BY <2>2 DEF Clients
        <3> QED
            BY <2>2, <3>1, ToFlushPages DEF TypeInv, RequestOK, CallOK, Form,
               CallsFor
    <2> QED
        BY <2>1, <2>2
<1> QED
    BY <1>1, <1>2 DEF TypeInv, TypeOK, CountsOK

(* Every variable keeps its type: in particular the documents keep theirs  *)
(* under unconditional writes of what was read several steps earlier.      *)
THEOREM TypeCorrect == Spec => []TypeOK
BY InitType, NextType, TypeInvImplies, PTL DEF Spec
-----------------------------------------------------------------------------
(* What the pages show, and what a write can change of it.                 *)

ProductBody(p) ==
    IF IsPubliclyVisible(p) THEN <<products[p], Offers(p)>> ELSE <<>>

Roots == Names({t \in ActiveTaxa : taxa[t].parent = Top})
Subcategories == Names({t \in ActiveTaxa : taxa[t].parent \in DOMAIN Roots})

SearchNames(p) == Names(products[p].taxa \cap ActiveTaxa)

SearchBody ==
    <<[p \in Listed |-> products[p]],
      [p \in Listed |-> <<Offers(p), SearchNames(p)>>]>>

LEMMA Bodies ==
    /\ \A p \in Products : Truth(p).body = ProductBody(p)
    /\ Truth("taxonomy").body = <<Roots, Subcategories>>
    /\ Truth("search").body = SearchBody
<1>1. ASSUME NEW p \in Products PROVE Truth(p).body = ProductBody(p)
    <2>1. p # "search" /\ p # "taxonomy"
        BY CatalogAssumption
    <2>2. FirstPart(p) = products[p] /\ \A f : SecondPart(p, f) = Offers(p)
        BY <2>1 DEF FirstPart, SecondPart
    <2>3. IsShown(p) <=> IsPubliclyVisible(p)
        BY DEF IsShown
    <2>4. Page(p, FirstPart(p)).body = <<products[p], Offers(p)>>
        BY <2>2 DEF Page
    <2> QED
        BY <2>3, <2>4 DEF Truth, NoPage, ProductBody
<1>2. Truth("taxonomy").body = <<Roots, Subcategories>>
    <2>1. IsShown("taxonomy")
        BY CatalogAssumption DEF IsShown
    <2>2. FirstPart("taxonomy") = Roots
        BY DEF FirstPart, Roots
    <2>3. SecondPart("taxonomy", Roots) = Subcategories
        BY DEF SecondPart, Subcategories
    <2> QED
        BY <2>1, <2>2, <2>3 DEF Truth, Page
<1>3. Truth("search").body = SearchBody
    <2> DEFINE f == FirstPart("search")
    <2>1. IsShown("search")
        BY CatalogAssumption DEF IsShown
    <2>2. f = [p \in Listed |-> products[p]]
        BY DEF FirstPart
    <2>3. SecondPart("search", f) =
          [p \in DOMAIN f |-> <<Offers(p), Names(f[p].taxa \cap ActiveTaxa)>>]
        BY DEF SecondPart
    <2>4. DOMAIN f = Listed /\ \A p \in Listed : f[p] = products[p]
        BY <2>2
    <2>5. SecondPart("search", f) =
          [p \in Listed |-> <<Offers(p), SearchNames(p)>>]
        <3> HIDE DEF f
        <3> QED
            BY <2>3, <2>4 DEF SearchNames
    <2> QED
        BY <2>1, <2>2, <2>5 DEF Truth, Page, SearchBody
<1> QED
    BY <1>1, <1>2, <1>3

(* Nothing of the pages of products depends on categories and brands.      *)
LEMMA ProductBodyKept ==
    ASSUME UNCHANGED variants, NEW p \in Products, products'[p] = products[p]
    PROVE  ProductBody(p)' = ProductBody(p)
<1>1. ActiveVariants(p)' = ActiveVariants(p)
    BY DEF ActiveVariants, Exists
<1>2. Offers(p)' = Offers(p)
    BY <1>1 DEF Offers
<1> QED
    BY <1>2 DEF ProductBody, IsPubliclyVisible

LEMMA NamesKept ==
    ASSUME UNCHANGED taxa, NEW S PROVE Names(S)' = Names(S)
BY DEF Names

(* Nothing of the page of categories and brands depends on products.       *)
LEMMA TaxonomyBodyKept ==
    ASSUME UNCHANGED taxa
    PROVE  Roots' = Roots /\ Subcategories' = Subcategories
<1>1. ActiveTaxa' = ActiveTaxa
    BY DEF ActiveTaxa
<1>2. {t \in ActiveTaxa : taxa[t].parent = Top}' =
      {t \in ActiveTaxa : taxa[t].parent = Top}
    BY <1>1
<1>3. Roots' = Roots
    BY <1>2 DEF Roots, Names
<1>4. {t \in ActiveTaxa : taxa[t].parent \in DOMAIN Roots}' =
      {t \in ActiveTaxa : taxa[t].parent \in DOMAIN Roots}
    BY <1>1, <1>3
<1> QED
    BY <1>3, <1>4 DEF Subcategories, Names

LEMMA SearchBodyKept ==
    ASSUME UNCHANGED db
    PROVE  SearchBody' = SearchBody
<1>1. Listed' = Listed /\ ActiveTaxa' = ActiveTaxa
    BY DEF db, Listed, IsPubliclyVisible, ActiveTaxa
<1>2. \A p : ActiveVariants(p)' = ActiveVariants(p)
    BY DEF db, ActiveVariants, Exists
<1>3. \A p : Offers(p)' = Offers(p)
    BY <1>2 DEF Offers, db
<1>4. \A p : SearchNames(p)' = SearchNames(p)
    BY <1>1 DEF SearchNames, Names, db
<1>5. [p \in Listed |-> products[p]]' = [p \in Listed |-> products[p]]
    BY <1>1 DEF db
<1>6. [p \in Listed |-> <<Offers(p), SearchNames(p)>>]' =
      [p \in Listed |-> <<Offers(p), SearchNames(p)>>]
    BY <1>1, <1>3, <1>4
<1> QED
    BY <1>5, <1>6 DEF SearchBody

LEMMA BodiesNext ==
    /\ (\A p \in Products : Truth(p).body = ProductBody(p))'
    /\ (Truth("taxonomy").body = <<Roots, Subcategories>>)'
    /\ (Truth("search").body = SearchBody)'
BY Bodies, PTL

(* A change of products or variants shows on their pages and in searches,  *)
(* one of categories or brands on the page of those and in searches.       *)
LEMMA BodiesKept ==
    /\ UNCHANGED db =>
          \A page \in Pages : Truth(page)'.body = Truth(page).body
    /\ UNCHANGED taxa => Truth("taxonomy")'.body = Truth("taxonomy").body
    /\ UNCHANGED <<products, variants>> =>
          \A p \in Products : Truth(p)'.body = Truth(p).body
<1>1. ASSUME UNCHANGED taxa
      PROVE  Truth("taxonomy")'.body = Truth("taxonomy").body
    BY BodiesNext, <1>1, Bodies, TaxonomyBodyKept
<1>2. ASSUME UNCHANGED <<products, variants>>
      PROVE  \A p \in Products : Truth(p)'.body = Truth(p).body
    BY BodiesNext, <1>2, Bodies, ProductBodyKept
<1>3. ASSUME UNCHANGED db
      PROVE  \A page \in Pages : Truth(page)'.body = Truth(page).body
    <2>1. Truth("search")'.body = Truth("search").body
        BY BodiesNext, <1>3, Bodies, SearchBodyKept
    <2> QED
        BY <1>1, <1>2, <1>3, <2>1 DEF db, Pages
<1> QED
    BY <1>1, <1>2, <1>3
-----------------------------------------------------------------------------
(* A cached page that is out of date is accounted for.                     *)

(* As StaleIsExcused says of one page: without a look at the calls in      *)
(* flight, and with one.                                                   *)
Told(page) ==
    \/ IsCached(page) => cache[page].body = Truth(page).body
    \/ page \in excused

Accounted(c, page) == Told(page) \/ page \in ToFlush(c)

LEMMA ToFlushStays ==
    ASSUME NEW d \in Admins, req'[d] = req[d]
    PROVE  ToFlush(d)' = ToFlush(d)
BY DEF ToFlush, Busy

(* What a step of c has to see to.                                         *)
LEMMA AdminAccounts ==
    ASSUME TypeInv, StaleIsExcused, NEW c \in Admins, NEW r, Become(c, r),
           \A page \in Pages : Accounted(c, page) => Accounted(c, page)'
    PROVE  StaleIsExcused'
<1> SUFFICES ASSUME NEW page \in Pages,
                    (IsCached(page) /\ cache[page].body # Truth(page).body)',
                    page \notin excused'
             PROVE  \E d \in Admins : page \in ToFlush(d)'
    BY DEF StaleIsExcused
<1>1. ~ Told(page)'
    BY DEF Told
<1>2. CASE \E d \in Admins \ {c} : page \in ToFlush(d)
    <2>1. PICK d \in Admins \ {c} : page \in ToFlush(d)
        BY <1>2
    <2>2. req'[d] = req[d]
        BY DEF Become, TypeInv, Clients
    <2> QED
        BY <2>1, <2>2, ToFlushStays
<1>3. CASE ~ \E d \in Admins \ {c} : page \in ToFlush(d)
    <2>1. Accounted(c, page)
        BY <1>3 DEF StaleIsExcused, Accounted, Told
    <2> QED
        BY <1>1, <2>1 DEF Accounted
<1> QED
    BY <1>2, <1>3

LEMMA OthersAccount ==
    ASSUME StaleIsExcused, \A d \in Admins : req'[d] = req[d],
           \A page \in Pages : Told(page) => Told(page)'
    PROVE  StaleIsExcused'
<1> SUFFICES ASSUME NEW page \in Pages,
                    (IsCached(page) /\ cache[page].body # Truth(page).body)',
                    page \notin excused'
             PROVE  \E d \in Admins : page \in ToFlush(d)'
    BY DEF StaleIsExcused
<1>1. ~ Told(page)
    BY DEF Told
<1>2. PICK d \in Admins : page \in ToFlush(d)
    BY <1>1 DEF StaleIsExcused, Told
<1> QED
    BY <1>2, ToFlushStays

LEMMA ToldStays ==
    ASSUME UNCHANGED <<db, cache, excused>>, NEW page \in Pages, Told(page)
    PROVE  Told(page)'
<1>1. Truth(page)'.body = Truth(page).body
    BY BodiesKept
<1> QED
    BY <1>1 DEF Told, IsCached

(* What the call of c has left to drop, by its request.                    *)
LEMMA ToFlushNext ==
    ASSUME TypeInv, NEW c \in Admins, NEW r, Become(c, r), r # Idle, NEW page
    PROVE  page \in ToFlush(c)' <=> InTodo(page, r.todo) \/ page \in r.found
<1>1. req'[c] = r
    BY DEF TypeInv, Become, Clients
<1>2. ToFlush(c)' = (UNION {r.todo[i] : i \in DOMAIN r.todo}) \cup r.found
    BY <1>1 DEF ToFlush, Busy
<1> QED
    BY <1>2 DEF InTodo

LEMMA NothingInTodo == \A page : ~ InTodo(page, <<>>)
BY DEF InTodo

LEMMA PagesInTodo ==
    /\ \A page : InTodo(page, ProductPages) <=>
                     page \in Products \/ page = "search"
    /\ \A page : InTodo(page, TaxonomyPages) <=>
                     page = "taxonomy" \/ page = "search"
<1>1. ASSUME NEW page
      PROVE  InTodo(page, ProductPages) <=>
                 page \in Products \/ page = "search"
    <2> DEFINE todo == ProductPages
    <2>1. /\ \A i \in DOMAIN todo : i = 1 \/ i = 2
          /\ 1 \in DOMAIN todo /\ 2 \in DOMAIN todo
          /\ todo[1] = Products /\ todo[2] = {"search"}
        BY DEF ProductPages
    <2> HIDE DEF todo
    <2>2. InTodo(page, todo) <=> page \in Products \/ page = "search"
        BY <2>1 DEF InTodo
    <2> QED
        BY <2>2 DEF todo
<1>2. ASSUME NEW page
      PROVE  InTodo(page, TaxonomyPages) <=>
                 page = "taxonomy" \/ page = "search"
    <2> DEFINE todo == TaxonomyPages
    <2>1. /\ \A i \in DOMAIN todo : i = 1 \/ i = 2
          /\ 1 \in DOMAIN todo /\ 2 \in DOMAIN todo
          /\ todo[1] = {"taxonomy"} /\ todo[2] = {"search"}
        BY DEF TaxonomyPages
    <2> HIDE DEF todo
    <2>2. InTodo(page, todo) <=> page = "taxonomy" \/ page = "search"
        BY <2>1 DEF InTodo
    <2> QED
        BY <2>2 DEF todo
<1> QED
    BY <1>1, <1>2

(* Before it has written, a call has nothing to drop.                      *)
LEMMA NothingToFlush ==
    ASSUME NEW c \in Admins,
           \/ ~ Busy(c)
           \/ /\ CallOK(req[c])
              /\ req[c].pc \notin {"keys", "del"} \cup RefreshSteps
    PROVE  ToFlush(c) = {}
<1>1. CASE ~ Busy(c)
    BY <1>1 DEF ToFlush
<1>2. CASE Busy(c)
    <2>1. req[c].todo = <<>> /\ req[c].found = {}
        BY <1>2 DEF CallOK, Form, ToDo
    <2> QED
        BY <1>2, <2>1, ToFlushIs, NothingInTodo
<1> QED
    BY <1>1, <1>2

(* Steps that change neither database nor cache.                           *)
LEMMA QuietAccounts ==
    ASSUME TypeInv, StaleIsExcused, NEW c \in Admins, NEW r, Become(c, r),
           UNCHANGED <<db, cache, excused>>,
           \/ ToFlush(c) = {}
           \/ /\ Busy(c) /\ r # Idle /\ r.todo = req[c].todo
              /\ r.found = req[c].found
    PROVE  StaleIsExcused'
<1>1. ASSUME NEW page \in Pages, page \in ToFlush(c)
      PROVE  page \in ToFlush(c)'
    BY <1>1, ToFlushIs, ToFlushNext
<1> QED
    BY <1>1, ToldStays, AdminAccounts DEF Accounted

LEMMA ArrivesArrive ==
    ASSUME NEW c \in Admins, Arrives(c)
    PROVE  \E r : Arrive(c, r)
<1>1. CASE CreateProduct(c)
    BY <1>1 DEF CreateProduct
<1>2. CASE UpdateProduct(c)
    BY <1>2 DEF UpdateProduct
<1>3. CASE ChangeStatus(c)
    BY <1>3 DEF ChangeStatus
<1>4. CASE CreateVariant(c)
    BY <1>4 DEF CreateVariant
<1>5. CASE UpdateVariant(c)
    BY <1>5 DEF UpdateVariant
<1>6. CASE RemoveVariant(c)
    BY <1>6 DEF RemoveVariant
<1>7. CASE CreateTaxon(c)
    BY <1>7 DEF CreateTaxon
<1>8. CASE UpdateTaxon(c)
    BY <1>8 DEF UpdateTaxon
<1>9. CASE ArchiveTaxon(c)
    BY <1>9 DEF ArchiveTaxon
<1> QED
    BY <1>1, <1>2, <1>3, <1>4, <1>5, <1>6, <1>7, <1>8, <1>9 DEF Arrives

LEMMA ArrivesAccounts ==
    ASSUME TypeInv, StaleIsExcused, NEW c \in Admins, Arrives(c)
    PROVE  StaleIsExcused'
<1>1. PICK r : Arrive(c, r)
    BY ArrivesArrive
<1>2. ToFlush(c) = {} /\ Become(c, r) /\ UNCHANGED <<db, cache, excused>>
    BY <1>1, NothingToFlush DEF Arrive
<1> QED
    BY <1>2, QuietAccounts

LEMMA ChecksAccount ==
    ASSUME TypeInv, StaleIsExcused, NEW c \in Admins, Checks(c)
    PROVE  StaleIsExcused'
<1>1. /\ CallOK(req[c]) /\ Reads
      /\ req[c].pc \notin {"keys", "del"} \cup RefreshSteps
    BY AtCall DEF Checks, CheckCategory, CheckBrand, CheckSlug, CountActive,
       CheckSku, CheckUnpublished, CheckTaxonSlug, CheckChildren,
       CheckReferences, At, RefreshSteps
<1>2. PICK r : Become(c, r)
    BY DEF Checks, CheckCategory, CheckBrand, CheckSlug, CountActive,
       CheckSku, CheckUnpublished, CheckTaxonSlug, CheckChildren,
       CheckReferences, GoOnIf, Goto, Finish
<1>3. ToFlush(c) = {} /\ UNCHANGED <<db, cache, excused>>
    BY <1>1, NothingToFlush DEF Reads, ghosts
<1> QED
    BY <1>2, <1>3, QuietAccounts

LEMMA PriceReadsGoOn ==
    ASSUME TypeInv, NEW c \in Admins, ReadPrices(c) \/ ReadPriceVersion(c)
    PROVE  \E r : /\ Become(c, r) /\ r # Idle /\ r.pc \in RefreshSteps
                  /\ r.todo = req[c].todo /\ r.found = req[c].found
                  /\ r.product = req[c].product
<1>1. req[c] \in CallsFor(req[c].input)
    BY AtCall DEF ReadPrices, ReadPriceVersion, At, CallOK, Form
<1>2. CASE ReadPrices(c)
    <2> DEFINE p == LowestPrice(req[c].product)
               to == IF ActiveVariants(req[c].product) = {}
                     THEN "set_price" ELSE "price_version"
               r == [req[c] EXCEPT !.price = p, !.pc = to]
    <2>1. Become(c, r) /\ to # "idle" /\ to \in RefreshSteps
        BY <1>2 DEF ReadPrices, RefreshSteps
    <2> HIDE DEF p, to
    <2>2. /\ r.todo = req[c].todo /\ r.found = req[c].found /\ r.pc = to
          /\ r.product = req[c].product
        BY <1>1 DEF CallsFor
    <2> QED
        BY <2>1, <2>2 DEF Idle
<1>3. CASE ReadPriceVersion(c)
    <2> DEFINE v == products[req[c].product].version
               r == [req[c] EXCEPT !.version = v, !.pc = "set_price"]
    <2>1. Become(c, r)
        BY <1>3 DEF ReadPriceVersion
    <2> HIDE DEF v
    <2>2. /\ r.todo = req[c].todo /\ r.found = req[c].found
          /\ r.pc = "set_price" /\ r.product = req[c].product
        BY <1>1 DEF CallsFor
    <2> QED
        BY <2>1, <2>2 DEF Idle, RefreshSteps
<1> QED
    BY <1>2, <1>3

LEMMA PriceReadsAccount ==
    ASSUME TypeInv, StaleIsExcused, NEW c \in Admins,
           ReadPrices(c) \/ ReadPriceVersion(c)
    PROVE  StaleIsExcused'
<1>1. CallOK(req[c]) /\ Reads /\ Busy(c)
    BY AtCall, FormNotIdle DEF ReadPrices, ReadPriceVersion, At, Busy, CallOK
<1>2. PICK r : /\ Become(c, r) /\ r # Idle /\ r.todo = req[c].todo
               /\ r.found = req[c].found
    BY PriceReadsGoOn
<1> QED
    BY <1>1, <1>2, QuietAccounts DEF Reads, ghosts
(* A call that goes on to drop what its write changed.                     *)
LEMMA WriteAccounts ==
    ASSUME TypeInv, StaleIsExcused, NEW c \in Admins, CallOK(req[c]),
           req[c].pc \notin {"keys", "del"}, NEW r, Become(c, r), r # Idle,
           UNCHANGED <<cache, excused>>,
           \/ UNCHANGED taxa /\ r.todo = ProductPages
           \/ /\ UNCHANGED <<products, variants>> /\ r.todo = TaxonomyPages
              /\ req[c].pc \notin RefreshSteps
    PROVE  StaleIsExcused'
<1> SUFFICES ASSUME NEW page \in Pages, Accounted(c, page)
             PROVE  Accounted(c, page)'
    BY AdminAccounts
<1>1. Busy(c) /\ ToDo(req[c])
    BY FormNotIdle DEF Busy, CallOK, Form
<1>2. Truth(page)'.body = Truth(page).body /\ Told(page) => Told(page)'
    BY DEF Told, IsCached
<1>3. CASE r.todo = ProductPages /\ UNCHANGED taxa
    <2>1. page # "taxonomy" => page \in ToFlush(c)'
        BY <1>3, ToFlushNext, PagesInTodo DEF Pages
    <2>2. CASE page = "taxonomy"
        <3>1. Told(page) => Told(page)'
            BY <1>2, <1>3, <2>2, BodiesKept
        <3>2. page \notin ToFlush(c)
            <4>1. CASE req[c].pc \in RefreshSteps
                <5>1. req[c].todo = ProductPages /\ req[c].found = {}
                    BY <1>1, <4>1 DEF ToDo, RefreshSteps, ProductPages
                <5> QED
                    BY <1>1, <2>2, <5>1, ToFlushIs, PagesInTodo,
                       CatalogAssumption
            <4>2. CASE req[c].pc \notin RefreshSteps
                BY <4>2, NothingToFlush
            <4> QED
                BY <4>1, <4>2
        <3> QED
            BY <3>1, <3>2 DEF Accounted
    <2> QED
        BY <2>1, <2>2 DEF Accounted
<1>4. CASE /\ r.todo = TaxonomyPages /\ UNCHANGED <<products, variants>>
           /\ req[c].pc \notin RefreshSteps
    <2>1. page \in {"taxonomy", "search"} => page \in ToFlush(c)'
        BY <1>4, ToFlushNext, PagesInTodo
    <2>2. CASE page \in Products
        <3>1. Told(page) => Told(page)'
            BY <1>2, <1>4, <2>2, BodiesKept
        <3>2. page \notin ToFlush(c)
            BY <1>4, NothingToFlush
        <3> QED
            BY <3>1, <3>2 DEF Accounted
    <2> QED
        BY <2>1, <2>2 DEF Accounted, Pages
<1> QED
    BY <1>3, <1>4

(* A new product is a draft, and on no page.                               *)
LEMMA DraftUnseen ==
    ASSUME NEW p \in Products, NEW d, d.status = "draft",
           UNCHANGED <<variants, taxa>>, DbOK, ~ Exists(products[p]),
           products' = [products EXCEPT ![p] = d],
           NEW page \in Pages
    PROVE  Truth(page)'.body = Truth(page).body
<1>1. /\ (\A q \in Products : Truth(q).body = ProductBody(q))'
      /\ (Truth("search").body = SearchBody)'
    BY BodiesNext
<1>2. /\ products'[p] = d
      /\ \A q \in Products \ {p} : products'[q] = products[q]
      /\ products[p].status = "absent"
    BY RecordsExist DEF DbOK, Exists
<1>3. Listed' = Listed /\ \A q \in Listed : products'[q] = products[q]
    BY <1>2 DEF Listed, IsPubliclyVisible
<1>4. CASE page \in Products
    <2>1. ProductBody(page)' = ProductBody(page)
        <3>1. CASE page = p
            BY <1>2, <3>1 DEF ProductBody, IsPubliclyVisible
        <3>2. CASE page # p
            BY <1>2, <1>4, <3>2, ProductBodyKept
        <3> QED
            BY <3>1, <3>2
    <2> QED
        BY <1>1, <1>4, <2>1, Bodies
<1>5. CASE page = "search"
    <2>1. ActiveTaxa' = ActiveTaxa
        BY DEF ActiveTaxa
    <2>2. \A q : ActiveVariants(q)' = ActiveVariants(q)
        BY DEF ActiveVariants, Exists
    <2>3. \A q : Offers(q)' = Offers(q)
        BY <2>2 DEF Offers
    <2>4. \A q \in Listed : SearchNames(q)' = SearchNames(q)
        BY <1>3, <2>1 DEF SearchNames, Names
    <2>5. [q \in Listed |-> products[q]]' = [q \in Listed |-> products[q]]
        BY <1>3
    <2>6. [q \in Listed |-> <<Offers(q), SearchNames(q)>>]' =
          [q \in Listed |-> <<Offers(q), SearchNames(q)>>]
        BY <1>3, <2>3, <2>4
    <2>7. SearchBody' = SearchBody
        BY <2>5, <2>6 DEF SearchBody
    <2> QED
        BY <1>1, <1>5, <2>7, Bodies
<1>6. CASE page = "taxonomy"
    BY <1>6, BodiesKept
<1> QED
    BY <1>4, <1>5, <1>6 DEF Pages

LEMMA InsertProductAccounts ==
    ASSUME TypeInv, StaleIsExcused, NEW c \in Admins, InsertProduct(c)
    PROVE  StaleIsExcused'
<1> DEFINE r == req[c]
           d == [NewProduct EXCEPT !.taxa = r.input]
<1>1. /\ CallOK(r) /\ r.pc = "insert" /\ UNCHANGED <<cache, excused>>
      /\ Become(c, Idle) /\ UNCHANGED <<variants, taxa>>
    BY AtCall DEF InsertProduct, At, Writes, Finish
<1>2. ToFlush(c) = {} /\ r.id \in Products
    BY <1>1, NothingToFlush DEF RefreshSteps, CallOK, Form, OnPath, Given,
       ProductOps
<1>3. CASE Exists(products[r.id])
    <2>1. UNCHANGED <<db, cache, excused>>
        BY <1>1, <1>3 DEF InsertProduct, db
    <2> QED
        BY <1>1, <1>2, <2>1, QuietAccounts
<1>4. CASE ~ Exists(products[r.id])
    <2>1. products' = [products EXCEPT ![r.id] = d]
        BY <1>4 DEF InsertProduct
    <2>2. d.status = "draft"
        BY DEF NewProduct
    <2> HIDE DEF d
    <2>3. \A page \in Pages : Truth(page)'.body = Truth(page).body
        BY <1>1, <1>2, <1>4, <2>1, <2>2, DraftUnseen DEF TypeInv
    <2>4. \A page \in Pages : Accounted(c, page) => Accounted(c, page)'
        BY <1>1, <1>2, <2>3 DEF Accounted, Told, IsCached
    <2> QED
        BY <1>1, <2>4, AdminAccounts
<1> QED
    BY <1>3, <1>4

LEMMA WritesAccount ==
    ASSUME TypeInv, StaleIsExcused, NEW c \in Admins,
           \/ WriteProduct(c) \/ InsertVariant(c) \/ WriteVariant(c)
           \/ DeleteVariant(c) \/ SetMinPrice(c) \/ InsertTaxon(c)
           \/ WriteTaxon(c)
    PROVE  StaleIsExcused'
<1> DEFINE r == req[c]
           Onto(pc, todo) == [r EXCEPT !.pc = pc, !.todo = todo]
<1>1. /\ CallOK(r) /\ UNCHANGED <<cache, excused>>
      /\ r.pc \notin {"keys", "del"}
    BY AtCall DEF WriteProduct, InsertVariant, WriteVariant, DeleteVariant,
       SetMinPrice, InsertTaxon, WriteTaxon, At, Writes
<1>2. ASSUME NEW pc, NEW todo, pc # "idle"
      PROVE  Onto(pc, todo) # Idle /\ Onto(pc, todo).todo = todo
    BY <1>1 DEF CallOK, Form, CallsFor, Idle
<1>3. ASSUME UNCHANGED taxa, NEW pc \in {"keys", "prices"},
             Become(c, Onto(pc, ProductPages))
      PROVE  StaleIsExcused'
    <2>1. /\ Onto(pc, ProductPages) # Idle
          /\ Onto(pc, ProductPages).todo = ProductPages
        BY <1>2
    <2> HIDE DEF Onto
    <2> QED
        BY <1>1, <1>3, <2>1, WriteAccounts
<1>4. ASSUME UNCHANGED <<products, variants>>, r.pc \notin RefreshSteps,
             Become(c, Onto("keys", TaxonomyPages))
      PROVE  StaleIsExcused'
    <2>1. /\ Onto("keys", TaxonomyPages) # Idle
          /\ Onto("keys", TaxonomyPages).todo = TaxonomyPages
        BY <1>2
    <2> HIDE DEF Onto
    <2> QED
        BY <1>1, <1>4, <2>1, WriteAccounts
<1>5. ASSUME UNCHANGED db, Finish(c), r.pc \notin RefreshSteps
      PROVE  StaleIsExcused'
    <2>1. ToFlush(c) = {} /\ Become(c, Idle) /\ UNCHANGED <<db, cache, excused>>
        BY <1>1, <1>5, NothingToFlush DEF Finish
    <2> QED
        BY <2>1, QuietAccounts
<1>6. CASE WriteProduct(c)
    BY <1>3, <1>6 DEF WriteProduct, AfterProduct, Flush
<1>7. CASE InsertVariant(c)
    <2>1. CASE Exists(variants[r.id])
        BY <1>5, <1>7, <2>1 DEF InsertVariant, db, At, RefreshSteps
    <2>2. CASE ~ Exists(variants[r.id])
        BY <1>3, <1>7, <2>2 DEF InsertVariant, Reprice
    <2> QED
        BY <2>1, <2>2
<1>8. CASE WriteVariant(c)
    BY <1>3, <1>8 DEF WriteVariant, Reprice
<1>9. CASE DeleteVariant(c)
    BY <1>3, <1>9 DEF DeleteVariant, Reprice
<1>10. CASE SetMinPrice(c)
    BY <1>3, <1>10 DEF SetMinPrice, Flush
<1>11. CASE InsertTaxon(c)
    <2>1. CASE Exists(taxa[r.id])
        BY <1>5, <1>11, <2>1 DEF InsertTaxon, db, At, RefreshSteps
    <2>2. CASE ~ Exists(taxa[r.id])
        BY <1>4, <1>11, <2>2 DEF InsertTaxon, Flush, At, RefreshSteps
    <2> QED
        BY <2>1, <2>2
<1>12. CASE WriteTaxon(c)
    BY <1>4, <1>12 DEF WriteTaxon, Flush, At, RefreshSteps
<1> QED
    BY <1>6, <1>7, <1>8, <1>9, <1>10, <1>11, <1>12
(* KEYS finds every page of the pattern that is cached.                    *)
LEMMA KeysAccounts ==
    ASSUME TypeInv, StaleIsExcused, NEW c \in Admins, Keys(c)
    PROVE  StaleIsExcused'
<1> DEFINE r == req[c]
           found == {page \in Head(r.todo) : IsCached(page)}
           rest == Tail(r.todo)
<1>1. CallOK(r) /\ r.pc = "keys" /\ UNCHANGED <<db, cache, excused>>
    BY AtCall DEF Keys, At, Reads, ghosts
<1>2. /\ r \in CallsFor(r.input) /\ r.todo \in Todos /\ r.todo # <<>>
      /\ r.found = {} /\ Busy(c)
    BY <1>1, FormNotIdle DEF CallOK, Form, ToDo, CallsFor, Busy
<1>3. \A page : page \in ToFlush(c) <=>
                    page \in Head(r.todo) \/ InTodo(page, rest)
    BY <1>2, ToFlushIs, TodoParts
<1>4. \A page \in Pages \ found : page \in Head(r.todo) => Told(page)'
    BY <1>1 DEF Told, IsCached
<1>5. PICK q : /\ Become(c, q)
               /\ \A page \in found : page \in ToFlush(c)'
               /\ \A page : InTodo(page, rest) => page \in ToFlush(c)'
    <2>1. CASE found # {}
        <3> DEFINE q == [r EXCEPT !.pc = "del", !.found = found, !.todo = rest]
        <3>1. Become(c, q)
            BY <2>1 DEF Keys
        <3> HIDE DEF found, rest
        <3>2. q.found = found /\ q.todo = rest /\ q # Idle
            BY <1>2 DEF CallsFor, Idle
        <3> QED
            BY <3>1, <3>2, ToFlushNext
    <2>2. CASE found = {} /\ rest = <<>>
        <3>1. Become(c, Idle)
            BY <2>2 DEF Keys, Finish
        <3> QED
            BY <2>2, <3>1, NothingInTodo
    <2>3. CASE found = {} /\ rest # <<>>
        <3> DEFINE q == [r EXCEPT !.todo = rest]
        <3>1. Become(c, q)
            BY <2>3 DEF Keys
        <3> HIDE DEF rest
        <3>2. q.todo = rest /\ q # Idle
            BY <1>1, <1>2 DEF CallsFor, Idle
        <3> QED
            BY <2>3, <3>1, <3>2, ToFlushNext
    <2> QED
        BY <2>1, <2>2, <2>3
<1> HIDE DEF found, rest
<1>6. ASSUME NEW page \in Pages, Accounted(c, page)
      PROVE  Accounted(c, page)'
    BY <1>1, <1>3, <1>4, <1>5, <1>6, ToldStays DEF Accounted
<1> QED
    BY <1>5, <1>6, AdminAccounts

LEMMA DelAccounts ==
    ASSUME TypeInv, StaleIsExcused, NEW c \in Admins, Del(c)
    PROVE  StaleIsExcused'
<1> DEFINE r == req[c]
<1>1. /\ CallOK(r) /\ UNCHANGED db /\ excused' = excused \ r.found
      /\ cache' = [page \in Pages |->
                      IF page \in r.found THEN NoPage ELSE cache[page]]
    BY AtCall DEF Del, At
<1>2. r \in CallsFor(r.input) /\ Busy(c)
    BY <1>1, FormNotIdle DEF CallOK, Form, Busy
<1>3. PICK q : /\ Become(c, q)
               /\ \A page : InTodo(page, r.todo) => page \in ToFlush(c)'
    <2>1. CASE r.todo = <<>>
        <3>1. Become(c, Idle)
            BY <2>1 DEF Del, Finish
        <3> QED
            BY <2>1, <3>1, NothingInTodo
    <2>2. CASE r.todo # <<>>
        <3> DEFINE q == [r EXCEPT !.pc = "keys", !.found = {}]
        <3>1. Become(c, q)
            BY <2>2 DEF Del
        <3>2. q.todo = r.todo /\ q # Idle
            BY <1>2 DEF CallsFor, Idle
        <3> HIDE DEF q
        <3> QED
            BY <3>1, <3>2, ToFlushNext
    <2> QED
        BY <2>1, <2>2
<1>4. ASSUME NEW page \in Pages, Accounted(c, page)
      PROVE  Accounted(c, page)'
    <2>1. Truth(page)'.body = Truth(page).body
        BY <1>1, BodiesKept
    <2>2. CASE page \in r.found
        BY <1>1, <2>2 DEF Accounted, Told, IsCached
    <2>3. CASE page \notin r.found
        <3>1. /\ cache'[page] = cache[page]
              /\ page \in excused => page \in excused'
            BY <1>1, <2>3
        <3>2. Told(page) => Told(page)'
            BY <2>1, <3>1 DEF Told, IsCached
        <3>3. page \in ToFlush(c) => page \in ToFlush(c)'
            BY <1>2, <1>3, <2>3, ToFlushIs
        <3> QED
            BY <1>4, <3>2, <3>3 DEF Accounted
    <2> QED
        BY <2>2, <2>3
<1> QED
    BY <1>3, <1>4, AdminAccounts

(* What an invalidation that fails was to drop is excused.                 *)
LEMMA FlushFailsAccounts ==
    ASSUME TypeInv, StaleIsExcused, NEW c \in Admins, FlushFails(c)
    PROVE  StaleIsExcused'
<1> DEFINE r == req[c]
           now == IF At(c, "del") THEN r.found ELSE Head(r.todo)
           rest == IF At(c, "del") THEN r.todo ELSE Tail(r.todo)
<1>1. CallOK(r) /\ r.pc \in {"keys", "del"} /\ UNCHANGED <<db, cache>>
    BY AtCall DEF FlushFails, At
<1>2. /\ r \in CallsFor(r.input) /\ r.todo \in Todos /\ Busy(c)
      /\ r.pc = "keys" => r.todo # <<>> /\ r.found = {}
    BY <1>1, FormNotIdle DEF CallOK, Form, ToDo, CallsFor, Busy
<1>3. \A page : page \in ToFlush(c) => page \in now \/ InTodo(page, rest)
    BY <1>1, <1>2, ToFlushIs, TodoParts DEF At
<1>4. /\ excused' = excused \cup now
      /\ IF rest = <<>> THEN Finish(c)
         ELSE Become(c, [r EXCEPT !.pc = "keys", !.todo = rest, !.found = {}])
    BY DEF FlushFails
<1> HIDE DEF now, rest
<1>5. PICK q : /\ Become(c, q)
               /\ \A page : InTodo(page, rest) => page \in ToFlush(c)'
    <2>1. CASE rest = <<>>
        <3>1. Become(c, Idle)
            BY <1>4, <2>1 DEF Finish
        <3> QED
            BY <2>1, <3>1, NothingInTodo
    <2>2. CASE rest # <<>>
        <3> DEFINE q == [r EXCEPT !.pc = "keys", !.todo = rest, !.found = {}]
        <3>1. Become(c, q)
            BY <1>4, <2>2
        <3>2. q.todo = rest /\ q # Idle
            BY <1>2 DEF CallsFor, Idle
        <3> HIDE DEF q
        <3> QED
            BY <3>1, <3>2, ToFlushNext
    <2> QED
        BY <2>1, <2>2
<1>6. ASSUME NEW page \in Pages, Accounted(c, page)
      PROVE  Accounted(c, page)'
    <2>1. Truth(page)'.body = Truth(page).body
        BY <1>1, BodiesKept DEF db
    <2>2. Told(page) => Told(page)'
        BY <1>1, <1>4, <2>1 DEF Told, IsCached
    <2>3. page \in now => Told(page)'
        BY <1>4 DEF Told
    <2> QED
        BY <1>3, <1>5, <1>6, <2>2, <2>3 DEF Accounted
<1> QED
    BY <1>5, <1>6, AdminAccounts

LEMMA DiesAccounts ==
    ASSUME TypeInv, StaleIsExcused, NEW c \in Admins, Dies(c)
    PROVE  StaleIsExcused'
<1>1. /\ Become(c, Idle) /\ excused' = excused \cup ToFlush(c)
      /\ UNCHANGED <<db, cache>>
    BY DEF Dies, Finish
<1>2. ASSUME NEW page \in Pages, Accounted(c, page)
      PROVE  Accounted(c, page)'
    <2>1. Truth(page)'.body = Truth(page).body
        BY <1>1, BodiesKept DEF db
    <2> QED
        BY <1>1, <1>2, <2>1 DEF Accounted, Told, IsCached
<1> QED
    BY <1>1, <1>2, AdminAccounts

(* A page read before a change and cached after it is excused.             *)
LEMMA ShoppersAccount ==
    ASSUME TypeInv, StaleIsExcused, NEW c \in Shoppers,
           GetPage(c) \/ Serves(c)
    PROVE  StaleIsExcused'
<1>1. UNCHANGED db /\ \E r : Become(c, r)
    BY DEF GetPage, Serves, ReadFirst, ReadSecond, SetPage, Reads, Finish
<1>2. \A d \in Admins : req'[d] = req[d]
    BY <1>1, CatalogAssumption DEF Become, TypeInv, Clients
<1>3. ASSUME NEW page \in Pages, Told(page) PROVE Told(page)'
    <2>1. Truth(page)'.body = Truth(page).body
        BY <1>1, BodiesKept
    <2>2. CASE UNCHANGED <<cache, excused>>
        BY <1>3, <2>1, <2>2 DEF Told, IsCached
    <2>3. CASE SetPage(c)
        <3> DEFINE mine == req[c].page
                   told == req[c].first
        <3>1. /\ cache' = [cache EXCEPT ![mine] = told]
              /\ excused' = IF told.body = Truth(mine).body
                            THEN excused \ {mine} ELSE excused \cup {mine}
              /\ DOMAIN cache = Pages
            BY <2>3 DEF SetPage, TypeInv
        <3> HIDE DEF mine, told
        <3>2. CASE page = mine
            BY <2>1, <3>1, <3>2 DEF Told, IsCached
        <3>3. CASE page # mine
            BY <1>3, <2>1, <3>1, <3>3 DEF Told, IsCached
        <3> QED
            BY <3>2, <3>3
    <2> QED
        BY <2>2, <2>3 DEF GetPage, Serves, ReadFirst, ReadSecond, Reads, ghosts
<1> QED
    BY <1>2, <1>3, OthersAccount

LEMMA ExpireAccounts ==
    ASSUME TypeInv, StaleIsExcused, NEW old \in Pages, Expire(old)
    PROVE  StaleIsExcused'
<1>1. /\ cache' = [cache EXCEPT ![old] = NoPage] /\ excused' = excused \ {old}
      /\ UNCHANGED <<db, req>> /\ DOMAIN cache = Pages
    BY DEF Expire, TypeInv
<1>2. ASSUME NEW page \in Pages, Told(page) PROVE Told(page)'
    <2>1. Truth(page)'.body = Truth(page).body
        BY <1>1, BodiesKept
    <2> QED
        BY <1>1, <1>2, <2>1 DEF Told, IsCached
<1> QED
    BY <1>1, <1>2, OthersAccount

LEMMA StaleInit == Init => StaleIsExcused
<1> SUFFICES ASSUME Init, NEW page \in Pages, IsCached(page)
             PROVE  cache[page].body = Truth(page).body
    BY DEF StaleIsExcused
<1>1. PICK warm \in Pages :
          cache \in {[p \in Pages |-> NoPage],
                     [p \in Pages |-> IF p = warm THEN Truth(p) ELSE NoPage]}
    BY DEF Init
<1> QED
    BY <1>1 DEF IsCached

LEMMA StaleNext ==
    TypeInv /\ StaleIsExcused /\ [Next]_vars => StaleIsExcused'
<1> SUFFICES ASSUME TypeInv, StaleIsExcused, [Next]_vars
             PROVE  StaleIsExcused'
    OBVIOUS
<1>1. ASSUME NEW c \in Admins, Continues(c) PROVE StaleIsExcused'
    BY <1>1, ChecksAccount, InsertProductAccounts, WritesAccount,
       PriceReadsAccount, KeysAccounts, DelAccounts DEF Continues, Checks
<1>2. ASSUME NEW c \in Admins, Arrives(c) \/ FlushFails(c) \/ Dies(c)
      PROVE  StaleIsExcused'
    BY <1>2, ArrivesAccounts, FlushFailsAccounts, DiesAccounts
<1>3. CASE UNCHANGED vars
    <2>1. UNCHANGED <<db, cache, excused, req>>
        BY <1>3 DEF vars, ghosts
    <2> QED
        BY <2>1, ToldStays, OthersAccount
<1> QED
    BY <1>1, <1>2, <1>3, ShoppersAccount, ExpireAccounts DEF Next

(* A cached page that differs from the catalog is going to be dropped by a *)
(* call in flight, or was read before a change and cached after it, or its *)
(* invalidation failed: no operation forgets one of the pages it changes.  *)
THEOREM StaleExcused == Spec => []StaleIsExcused
BY InitType, NextType, StaleInit, StaleNext, PTL DEF Spec
-----------------------------------------------------------------------------
(* A minPrice that is wrong is accounted for.                              *)

PriceTold(p) == (Exists(products[p]) => PriceIsRight(p)) \/ p \in mispriced

PriceAccounted(c, p) == PriceTold(p) \/ WillReprice(c, p)

LEMMA AdminPrices ==
    ASSUME TypeInv, MinPriceIsExplained, NEW c \in Admins, NEW r, Become(c, r),
           \A p \in Products : PriceAccounted(c, p) => PriceAccounted(c, p)'
    PROVE  MinPriceIsExplained'
<1> SUFFICES ASSUME NEW p \in Products, ~ PriceTold(p)'
             PROVE  \E d \in Admins : WillReprice(d, p)'
    BY DEF MinPriceIsExplained, PriceTold
<1>1. CASE \E d \in Admins \ {c} : WillReprice(d, p)
    <2>1. PICK d \in Admins \ {c} : WillReprice(d, p)
        BY <1>1
    <2>2. req'[d] = req[d]
        BY DEF Become, TypeInv, Clients
    <2> QED
        BY <2>1, <2>2 DEF WillReprice, Busy
<1>2. CASE ~ \E d \in Admins \ {c} : WillReprice(d, p)
    <2>1. PriceAccounted(c, p)
        BY <1>2 DEF MinPriceIsExplained, PriceAccounted, PriceTold
    <2> QED
        BY <2>1 DEF PriceAccounted
<1> QED
    BY <1>1, <1>2

(* The lowest price of a product is that of its own variants.              *)
LEMMA LowestPriceKept ==
    ASSUME NEW p,
           \A v \in Variants :
               \/ variants'[v] = variants[v]
               \/ /\ ~ (Exists(variants[v]) /\ variants[v].product = p)
                  /\ ~ (Exists(variants'[v]) /\ variants'[v].product = p)
    PROVE  LowestPrice(p)' = LowestPrice(p)
<1>1. /\ ActiveVariants(p)' = ActiveVariants(p)
      /\ \A v \in ActiveVariants(p) : variants'[v] = variants[v]
    BY DEF ActiveVariants, Exists
<1>2. {variants[v].price : v \in ActiveVariants(p)}' =
      {variants[v].price : v \in ActiveVariants(p)}
    BY <1>1
<1> QED
    BY <1>1, <1>2 DEF LowestPrice

LEMMA PriceToldStays ==
    ASSUME UNCHANGED <<variants, mispriced>>, NEW p \in Products,
           Exists(products'[p]) =>
               /\ Exists(products[p])
               /\ products'[p].minPrice = products[p].minPrice,
           PriceTold(p)
    PROVE  PriceTold(p)'
<1>1. LowestPrice(p)' = LowestPrice(p)
    BY LowestPriceKept
<1> QED
    BY <1>1 DEF PriceTold, PriceIsRight, Exists

(* Steps of calls that are not about to refresh minPrice and change no     *)
(* variant and no minPrice.                                                *)
LEMMA QuietPrices ==
    ASSUME TypeInv, MinPriceIsExplained, NEW c \in Admins, NEW r, Become(c, r),
           UNCHANGED <<products, variants, mispriced>>,
           \/ ~ Busy(c)
           \/ req[c].pc \notin RefreshSteps
           \/ /\ r # Idle /\ r.pc \in RefreshSteps
              /\ r.product = req[c].product
    PROVE  MinPriceIsExplained'
<1>1. req'[c] = r
    BY DEF TypeInv, Become, Clients
<1>2. ASSUME NEW p \in Products, PriceAccounted(c, p)
      PROVE  PriceAccounted(c, p)'
    <2>1. PriceTold(p) => PriceTold(p)'
        BY PriceToldStays
    <2>2. WillReprice(c, p) => WillReprice(c, p)'
        BY <1>1 DEF WillReprice, Busy
    <2> QED
        BY <1>2, <2>1, <2>2 DEF PriceAccounted
<1> QED
    BY <1>2, AdminPrices

LEMMA ArrivesPrices ==
    ASSUME TypeInv, MinPriceIsExplained, NEW c \in Admins, Arrives(c)
    PROVE  MinPriceIsExplained'
<1>1. PICK r : Arrive(c, r)
    BY ArrivesArrive
<1> QED
    BY <1>1, QuietPrices DEF Arrive, db

LEMMA ReadsPrices ==
    ASSUME TypeInv, MinPriceIsExplained, NEW c \in Admins,
           Checks(c) \/ ReadPrices(c) \/ ReadPriceVersion(c)
    PROVE  MinPriceIsExplained'
<1>1. CASE Checks(c)
    <2>1. /\ UNCHANGED <<products, variants, mispriced>>
          /\ req[c].pc \notin RefreshSteps
        BY <1>1 DEF Checks, CheckCategory, CheckBrand, CheckSlug, CountActive,
           CheckSku, CheckUnpublished, CheckTaxonSlug, CheckChildren,
           CheckReferences, At, Reads, db, ghosts, RefreshSteps
    <2>2. PICK r : Become(c, r)
        BY <1>1 DEF Checks, CheckCategory, CheckBrand, CheckSlug, CountActive,
           CheckSku, CheckUnpublished, CheckTaxonSlug, CheckChildren,
           CheckReferences, GoOnIf, Goto, Finish
    <2> QED
        BY <2>1, <2>2, QuietPrices
<1>2. CASE ReadPrices(c) \/ ReadPriceVersion(c)
    <2>1. PICK r : Become(c, r) /\ r # Idle /\ r.pc \in RefreshSteps
                   /\ r.product = req[c].product
        BY <1>2, PriceReadsGoOn
    <2>2. UNCHANGED <<products, variants, mispriced>>
        BY <1>2 DEF ReadPrices, ReadPriceVersion, Reads, db, ghosts
    <2> QED
        BY <2>1, <2>2, QuietPrices
<1> QED
    BY <1>1, <1>2

(* A new product has no variants yet.                                      *)
LEMMA InsertProductPrices ==
    ASSUME TypeInv, MinPriceIsExplained, NEW c \in Admins, InsertProduct(c)
    PROVE  MinPriceIsExplained'
<1> DEFINE d == [NewProduct EXCEPT !.taxa = req[c].input]
<1>1. /\ CallOK(req[c]) /\ req[c].pc = "insert" /\ Become(c, Idle)
      /\ UNCHANGED <<variants, mispriced>>
    BY AtCall DEF InsertProduct, At, Finish
<1>2. PICK p \in Products : p = req[c].id
    BY <1>1 DEF CallOK, Form, OnPath, Given, ProductOps
<1>3. req[c].pc \notin RefreshSteps
    BY <1>1 DEF RefreshSteps
<1>4. CASE Exists(products[p])
    <2>1. UNCHANGED products
        BY <1>2, <1>4 DEF InsertProduct
    <2> QED
        BY <1>1, <1>3, <2>1, QuietPrices
<1>5. CASE ~ Exists(products[p])
    <2>1. products' = [products EXCEPT ![p] = d]
        BY <1>2, <1>5 DEF InsertProduct
    <2>2. d.minPrice = None
        BY DEF NewProduct
    <2> HIDE DEF d
    <2>3. LowestPrice(p)' = None
        <3>1. \A v \in Variants : Exists(variants[v]) => variants[v].product # p
            BY <1>5 DEF TypeInv, DbOK, VariantsOK
        <3>2. ActiveVariants(p)' = {}
            BY <1>1, <3>1 DEF ActiveVariants, Exists
        <3> QED
            BY <3>2 DEF LowestPrice
    <2>4. products'[p].minPrice = None
        BY <2>1, <2>2 DEF TypeInv, DbOK
    <2>5. PriceTold(p)'
        BY <2>3, <2>4 DEF PriceTold, PriceIsRight
    <2>6. ASSUME NEW q \in Products, q # p, PriceTold(q) PROVE PriceTold(q)'
        BY <1>1, <2>1, <2>6, PriceToldStays DEF TypeInv, DbOK
    <2>7. ASSUME NEW q \in Products, PriceAccounted(c, q)
          PROVE  PriceAccounted(c, q)'
        BY <1>3, <2>5, <2>6, <2>7 DEF PriceAccounted, WillReprice
    <2> QED
        BY <1>1, <2>7, AdminPrices
<1> QED
    BY <1>4, <1>5

LEMMA WriteProductPrices ==
    ASSUME TypeInv, MinPriceIsExplained, NEW c \in Admins, WriteProduct(c)
    PROVE  MinPriceIsExplained'
<1> DEFINE r == req[c]
           doc == products[r.id]
           d == Written(doc, r)
<1>1. /\ CallOK(r) /\ r.pc = "write" /\ UNCHANGED <<variants, mispriced>>
      /\ Become(c, [r EXCEPT !.pc = "keys", !.todo = ProductPages])
    BY AtCall DEF WriteProduct, At, AfterProduct, Flush
<1>2. /\ r.id \in Products /\ Exists(doc) /\ r.op \in ProductOps \ {"create"}
    BY <1>1 DEF CallOK, Form, OnPath, Given, Seen, Looked, ProductOps
<1>3. doc \in ProductRecord
    BY <1>2 DEF TypeInv, DbOK, Exists
<1>4. d.minPrice = doc.minPrice
    BY <1>2, <1>3 DEF Written, ProductOps, ProductRecord
<1>5. products' = [products EXCEPT ![r.id] = d]
    BY <1>2 DEF WriteProduct, TypeInv, DbOK
<1> HIDE DEF d
<1>6. ASSUME NEW p \in Products, PriceTold(p) PROVE PriceTold(p)'
    BY <1>1, <1>2, <1>4, <1>5, <1>6, PriceToldStays DEF TypeInv, DbOK
<1>7. \A p : ~ WillReprice(c, p)
    BY <1>1 DEF WillReprice, RefreshSteps
<1> QED
    BY <1>1, <1>6, <1>7, AdminPrices DEF PriceAccounted

(* A change of a variant changes the lowest price of its product alone.    *)
LEMMA VariantPrices ==
    ASSUME TypeInv, MinPriceIsExplained, NEW c \in Admins, CallOK(req[c]),
           req[c].op \in VariantOps, req[c].pc \notin RefreshSteps,
           NEW d, variants' = [variants EXCEPT ![req[c].id] = d],
           \/ d = variants[req[c].id]
           \/ /\ Exists(variants[req[c].id]) =>
                    variants[req[c].id].product = req[c].product
              /\ Exists(d) => d.product = req[c].product,
           UNCHANGED <<products, mispriced>>, Reprice(c)
    PROVE  MinPriceIsExplained'
<1> DEFINE r == req[c]
           q == [r EXCEPT !.pc = "prices", !.todo = ProductPages]
<1>1. Become(c, q)
    BY DEF Reprice
<1>2. req'[c] = q
    BY <1>1 DEF TypeInv, Become, Clients
<1>3. r \in CallsFor(r.input) /\ r.id \in Variants
    BY DEF CallOK, Form, Given
<1>4. q.pc = "prices" /\ q.product = r.product /\ q # Idle
    BY <1>3 DEF CallsFor, Idle
<1> HIDE DEF q
<1>5. ASSUME NEW p \in Products, p # r.product, PriceTold(p)
      PROVE  PriceTold(p)'
    <2>1. LowestPrice(p)' = LowestPrice(p)
        <3>1. \A v \in Variants : v # r.id => variants'[v] = variants[v]
            BY DEF TypeInv, DbOK
        <3>2. variants'[r.id] = d
            BY <1>3 DEF TypeInv, DbOK
        <3> QED
            BY <1>5, <3>1, <3>2, LowestPriceKept
    <2> QED
        BY <1>5, <2>1 DEF PriceTold, PriceIsRight
<1>6. ASSUME NEW p \in Products, PriceAccounted(c, p)
      PROVE  PriceAccounted(c, p)'
    <2>1. CASE p = r.product
        BY <1>2, <1>4, <2>1 DEF PriceAccounted, WillReprice, Busy, RefreshSteps
    <2>2. CASE p # r.product
        BY <1>5, <1>6, <2>2 DEF PriceAccounted, WillReprice
    <2> QED
        BY <2>1, <2>2
<1> QED
    BY <1>1, <1>6, AdminPrices

LEMMA VariantWritesPrices ==
    ASSUME TypeInv, MinPriceIsExplained, NEW c \in Admins,
           InsertVariant(c) \/ WriteVariant(c) \/ DeleteVariant(c)
    PROVE  MinPriceIsExplained'
<1> DEFINE r == req[c]
<1>1. /\ CallOK(r) /\ r.pc \in {"insert_variant", "write_variant", "delete"}
      /\ UNCHANGED <<products, mispriced>>
    BY AtCall DEF InsertVariant, WriteVariant, DeleteVariant, At
<1>2. /\ r.op \in VariantOps /\ r.pc \notin RefreshSteps
      /\ r.id \in Variants
    BY <1>1 DEF CallOK, Form, OnPath, Given, VariantOps, RefreshSteps
<1>3. CASE InsertVariant(c)
    <2>1. CASE Exists(variants[r.id])
        <3>1. UNCHANGED variants /\ Become(c, Idle)
            BY <1>3, <2>1 DEF InsertVariant, Finish
        <3> QED
            BY <1>1, <1>2, <3>1, QuietPrices
    <2>2. CASE ~ Exists(variants[r.id])
        <3> DEFINE d == [NewVariant EXCEPT !.id = calls, !.price = r.input,
                                           !.product = r.product]
        <3>1. variants' = [variants EXCEPT ![r.id] = d] /\ Reprice(c)
            BY <1>3, <2>2 DEF InsertVariant
        <3>2. d.product = r.product
            BY DEF NewVariant
        <3> HIDE DEF d
        <3> QED
            BY <1>1, <1>2, <2>2, <3>1, <3>2, VariantPrices
    <2> QED
        BY <2>1, <2>2
<1>4. CASE WriteVariant(c)
    <2> DEFINE d == IF Finds(r) THEN Revised(variants[r.id], r)
                    ELSE variants[r.id]
    <2>1. variants' = [variants EXCEPT ![r.id] = d] /\ Reprice(c)
        BY <1>4 DEF WriteVariant
    <2>2. ASSUME Finds(r)
          PROVE  /\ variants[r.id].product = r.product
                 /\ Revised(variants[r.id], r).product = r.product
        <3>1. r.input \in Changes /\ r.version \in Nat
              /\ variants[r.id].product = r.product
            BY <1>1, <1>4, <2>2 DEF WriteVariant, At, CallOK, Form, OnPath,
               Given, CallsFor, Seen, Looked
        <3>2. variants[r.id] \in VariantRecord
            BY <1>2, <2>2 DEF Finds, Exists, TypeInv, DbOK
        <3> QED
            BY <3>1, <3>2, RevisedType
    <2>3. \/ d = variants[r.id]
          \/ variants[r.id].product = r.product /\ d.product = r.product
        BY <2>2
    <2> HIDE DEF d
    <2> QED
        BY <1>1, <1>2, <2>1, <2>3, VariantPrices
<1>5. CASE DeleteVariant(c)
    <2> DEFINE d == IF Finds(r) THEN Absent ELSE variants[r.id]
    <2>1. variants' = [variants EXCEPT ![r.id] = d] /\ Reprice(c)
        BY <1>5 DEF DeleteVariant
    <2>2. Finds(r) => variants[r.id].product = r.product
        BY <1>1, <1>5 DEF DeleteVariant, At, CallOK, Form, OnPath, Seen, Looked
    <2>3. \/ d = variants[r.id]
          \/ variants[r.id].product = r.product /\ ~ Exists(d)
        BY <2>2, RecordsExist
    <2> HIDE DEF d
    <2> QED
        BY <1>1, <1>2, <2>1, <2>3, VariantPrices
<1> QED
    BY <1>3, <1>4, <1>5

LEMMA SetMinPricePrices ==
    ASSUME TypeInv, MinPriceIsExplained, NEW c \in Admins, SetMinPrice(c)
    PROVE  MinPriceIsExplained'
<1>1. /\ CallOK(req[c]) /\ req[c].pc = "set_price" /\ UNCHANGED variants
      /\ Become(c, [req[c] EXCEPT !.pc = "keys", !.todo = ProductPages])
    BY AtCall DEF SetMinPrice, At, Flush
<1>2. PICK p \in Products : p = req[c].product
    BY <1>1 DEF CallOK, Form, OnPath, Given, RefreshSteps
<1> DEFINE doc == products[p]
           price == req[c].price
           n == IF price = None THEN doc.version ELSE req[c].version + 1
           d == [doc EXCEPT !.minPrice = price, !.version = n]
<1>3. doc \in ProductRecord
    BY <1>1, <1>2 DEF TypeInv, DbOK, Exists, CallOK, Form, OnPath, Seen,
       Looked, RefreshSteps
<1>4. /\ products' = [products EXCEPT ![p] = d]
      /\ mispriced' = IF price = LowestPrice(p) THEN mispriced \ {p}
                      ELSE mispriced \cup {p}
    BY <1>2 DEF SetMinPrice, TypeInv, DbOK
<1> HIDE DEF n
<1>5. d.minPrice = price
    BY <1>3 DEF ProductRecord
<1> HIDE DEF d, price
<1>6. \A x : LowestPrice(x)' = LowestPrice(x)
    BY <1>1, LowestPriceKept
<1>7. products'[p] = d
    BY <1>4 DEF TypeInv, DbOK
<1>8. PriceTold(p)'
    BY <1>4, <1>5, <1>6, <1>7 DEF PriceTold, PriceIsRight
<1>9. ASSUME NEW x \in Products, x # p, PriceTold(x) PROVE PriceTold(x)'
    <2>1. /\ products'[x] = products[x]
          /\ x \in mispriced' <=> x \in mispriced
        BY <1>4, <1>9 DEF TypeInv, DbOK
    <2> QED
        BY <1>6, <1>9, <2>1 DEF PriceTold, PriceIsRight
<1>10. ASSUME NEW x \in Products, PriceAccounted(c, x)
       PROVE  PriceAccounted(c, x)'
    BY <1>2, <1>8, <1>9, <1>10 DEF PriceAccounted, WillReprice
<1> QED
    BY <1>1, <1>10, AdminPrices

LEMMA TaxonomyPrices ==
    ASSUME TypeInv, MinPriceIsExplained, NEW c \in Admins,
           InsertTaxon(c) \/ WriteTaxon(c)
    PROVE  MinPriceIsExplained'
<1>1. /\ UNCHANGED <<products, variants, mispriced>>
      /\ req[c].pc \notin RefreshSteps
    BY DEF InsertTaxon, WriteTaxon, At, RefreshSteps
<1>2. PICK r : Become(c, r)
    BY DEF InsertTaxon, WriteTaxon, Flush, Finish
<1> QED
    BY <1>1, <1>2, QuietPrices

LEMMA FlushPrices ==
    ASSUME TypeInv, MinPriceIsExplained, NEW c \in Admins,
           Keys(c) \/ Del(c) \/ FlushFails(c)
    PROVE  MinPriceIsExplained'
<1>1. /\ UNCHANGED <<products, variants, mispriced>>
      /\ req[c].pc \notin RefreshSteps
    BY DEF Keys, Del, FlushFails, At, RefreshSteps, Reads, db, ghosts
<1>2. PICK r : Become(c, r)
    BY DEF Keys, Del, FlushFails, Finish
<1> QED
    BY <1>1, <1>2, QuietPrices

(* A call that ends before its refresh leaves the product mispriced.       *)
LEMMA DiesPrices ==
    ASSUME TypeInv, MinPriceIsExplained, NEW c \in Admins, Dies(c)
    PROVE  MinPriceIsExplained'
<1>1. /\ Become(c, Idle) /\ UNCHANGED <<products, variants>>
      /\ mispriced' = IF req[c].pc \in RefreshSteps
                      THEN mispriced \cup {req[c].product} ELSE mispriced
    BY DEF Dies, Finish, db
<1>2. \A p : LowestPrice(p)' = LowestPrice(p)
    BY <1>1, LowestPriceKept
<1>3. ASSUME NEW p \in Products, PriceAccounted(c, p)
      PROVE  PriceAccounted(c, p)'
    BY <1>1, <1>2, <1>3 DEF PriceAccounted, PriceTold, PriceIsRight,
       WillReprice, Exists
<1> QED
    BY <1>1, <1>3, AdminPrices

LEMMA OthersPrices ==
    ASSUME MinPriceIsExplained, \A d \in Admins : req'[d] = req[d],
           UNCHANGED <<products, variants, mispriced>>
    PROVE  MinPriceIsExplained'
<1>1. \A p : LowestPrice(p)' = LowestPrice(p)
    BY LowestPriceKept
<1> QED
    BY <1>1 DEF MinPriceIsExplained, PriceIsRight, WillReprice, Busy, Exists

LEMMA PricesInit == Init => MinPriceIsExplained
BY DEF Init, Orderly, MinPriceIsExplained

LEMMA PricesNext ==
    TypeInv /\ MinPriceIsExplained /\ [Next]_vars => MinPriceIsExplained'
<1> SUFFICES ASSUME TypeInv, MinPriceIsExplained, [Next]_vars
             PROVE  MinPriceIsExplained'
    OBVIOUS
<1>1. ASSUME NEW c \in Admins, Continues(c) PROVE MinPriceIsExplained'
    BY <1>1, ReadsPrices, InsertProductPrices, WriteProductPrices,
       VariantWritesPrices, SetMinPricePrices, TaxonomyPrices, FlushPrices
       DEF Continues, Checks
<1>2. ASSUME NEW c \in Admins, Arrives(c) \/ FlushFails(c) \/ Dies(c)
      PROVE  MinPriceIsExplained'
    BY <1>2, ArrivesPrices, FlushPrices, DiesPrices
<1>3. CASE \/ \E c \in Shoppers : GetPage(c) \/ Serves(c)
           \/ \E page \in Pages : Expire(page)
           \/ UNCHANGED vars
    <2>1. UNCHANGED <<products, variants, mispriced>>
        BY <1>3 DEF GetPage, Serves, ReadFirst, ReadSecond, SetPage, Expire,
           Reads, vars, db, ghosts
    <2>2. \A d \in Admins : req'[d] = req[d]
        BY <1>3, CatalogAssumption DEF GetPage, Serves, ReadFirst, ReadSecond,
           SetPage, Expire, Finish, Become, vars, TypeInv, Clients
    <2> QED
        BY <2>1, <2>2, OthersPrices
<1> QED
    BY <1>1, <1>2, <1>3 DEF Next

(* A minPrice other than the lowest price of the active variants is going  *)
(* to be refreshed, or two refreshes crossed, or one never happened: no    *)
(* call changes a variant of one product and refreshes another, although   *)
(* the variant it names may have been removed and its SKU taken again.     *)
THEOREM MinPriceExplained == Spec => []MinPriceIsExplained
BY InitType, NextType, PricesInit, PricesNext, PTL DEF Spec
-----------------------------------------------------------------------------
(* References, as long as admins work one at a time.                       *)

(* What nothing has to be known about.                                     *)
Unchecked(r) ==
    \/ r = Idle
    \/ r.pc \in {"category", "count", "sku", "insert_variant",
                 "write_variant", "product", "delete", "keys", "del"}
                \cup RefreshSteps

LEMMA UncheckedIs == \A r : Unchecked(r) => r = Idle \/ Checked(r)
BY DEF Unchecked, Checked, RefreshSteps

LEMMA SameReferences ==
    ASSUME UNCHANGED <<products, taxa>>
    PROVE  /\ ActiveTaxa' = ActiveTaxa
           /\ \A t : References(t)' = References(t)
           /\ LiveReferences => LiveReferences'
<1>1. ActiveTaxa' = ActiveTaxa /\ \A t : References(t)' = References(t)
    BY DEF ActiveTaxa, References
<1> QED
    BY <1>1 DEF LiveReferences

LEMMA SameChecks ==
    ASSUME UNCHANGED <<products, taxa>>, NEW r, Checked(r)
    PROVE  Checked(r)'
BY SameReferences DEF Checked

(* The only call at work takes a step.                                     *)
LEMMA SoloMoves ==
    ASSUME TypeInv, Solo, NEW c \in Admins, Busy(c), NEW r, Become(c, r),
           LiveReferences', r = Idle \/ Checked(r)'
    PROVE  Solo'
<1>1. /\ req'[c] = r
      /\ \A d \in Admins \ {c} : req'[d] = req[d] /\ req[d] = Idle
    BY DEF Solo, OneAtWork, Busy, TypeInv, Become, Clients
<1>2. OneAtWork'
    BY <1>1 DEF OneAtWork, Busy
<1>3. ASSUME NEW d \in Admins, Busy(d)' PROVE Checked(req[d])'
    <2>1. d = c /\ req'[d] = r /\ r # Idle
        BY <1>1, <1>3 DEF Busy
    <2>2. Checked(r)'
        BY <2>1
    <2> QED
        BY <2>1, <2>2 DEF Checked
<1> QED
    BY <1>2, <1>3 DEF Solo

LEMMA SoloQuiet ==
    ASSUME TypeInv, Solo, NEW c \in Admins, Busy(c), NEW r, Become(c, r),
           UNCHANGED <<products, taxa>>, Unchecked(r) \/ Checked(r)
    PROVE  Solo'
<1>1. LiveReferences'
    BY SameReferences DEF Solo
<1>2. r = Idle \/ Checked(r)'
    BY UncheckedIs, SameChecks
<1> QED
    BY <1>1, <1>2, SoloMoves

(* A call arrives at a time when there is no other.                        *)
LEMMA SoloArrival ==
    ASSUME TypeInv, Solo, NEW c \in Admins, NEW r, Arrive(c, r),
           \A d \in Admins : ~ Busy(d), Unchecked(r) \/ Checked(r)
    PROVE  Solo'
<1>1. /\ req'[c] = r
      /\ \A d \in Admins \ {c} : req'[d] = req[d] /\ req[d] = Idle
    BY DEF Busy, TypeInv, Arrive, Become, Clients
<1>2. LiveReferences' /\ (r = Idle \/ Checked(r)')
    BY UncheckedIs, SameReferences, SameChecks DEF Solo, Arrive, db
<1>3. OneAtWork'
    BY <1>1 DEF OneAtWork, Busy
<1>4. ASSUME NEW d \in Admins, Busy(d)' PROVE Checked(req[d])'
    <2>1. d = c /\ req'[d] = r /\ r # Idle
        BY <1>1, <1>4 DEF Busy
    <2>2. Checked(r)'
        BY <1>2, <2>1
    <2> QED
        BY <2>1, <2>2 DEF Checked
<1> QED
    BY <1>2, <1>3, <1>4 DEF Solo

(* The fields of a call that arrives.                                      *)
LEMMA CallIs ==
    ASSUME NEW pc, NEW op, NEW id, NEW product, NEW input, NEW version, NEW doc
    PROVE  LET q == Call(pc, op, id, product, input) IN
           /\ q.pc = pc /\ q.op = op /\ q.id = id /\ q.input = input
           /\ [q EXCEPT !.version = version].pc = pc
           /\ [q EXCEPT !.version = version].op = op
           /\ [q EXCEPT !.version = version].input = input
           /\ [q EXCEPT !.doc = doc].pc = pc
           /\ [q EXCEPT !.doc = doc, !.version = version].pc = pc
BY DEF Call, NoCall

LEMMA ArrivesSolo ==
    ASSUME TypeInv, Solo, NEW c \in Admins, Arrives(c),
           \A d \in Admins : ~ Busy(d)
    PROVE  Solo'
<1>1. CASE CreateProduct(c)
    <2>1. PICK p \in Products, ts \in Placements :
              Arrive(c, Call("category", "create", p, p, ts))
        BY <1>1 DEF CreateProduct
    <2>2. Unchecked(Call("category", "create", p, p, ts))
        BY CallIs DEF Unchecked
    <2> QED
        BY <2>1, <2>2, SoloArrival
<1>2. CASE UpdateProduct(c)
    <2>1. PICK p \in Products, ts \in Moves :
              Arrive(c, [Call(IF ts = {} THEN "write" ELSE "category",
                              "update", p, p, ts)
                         EXCEPT !.version = products[p].version])
        BY <1>2 DEF UpdateProduct
    <2> DEFINE pc == IF ts = {} THEN "write" ELSE "category"
               v == products[p].version
               q == [Call(pc, "update", p, p, ts) EXCEPT !.version = v]
    <2>2. Arrive(c, q)
        BY <2>1
    <2>3. (pc = "write" /\ ts = {}) \/ pc = "category"
        OBVIOUS
    <2> HIDE DEF pc, v
    <2>4. q.pc = pc /\ q.op = "update" /\ q.input = ts
        BY CallIs
    <2> HIDE DEF q
    <2>5. Unchecked(q) \/ Checked(q)
        BY <2>3, <2>4 DEF Unchecked, Checked
    <2> QED
        BY <2>2, <2>5, SoloArrival
<1>3. CASE ChangeStatus(c)
    <2>1. PICK p \in Products, op \in {"publish", "unpublish", "archive"} :
              Arrive(c, [Call(IF op = "publish" THEN "count" ELSE "write",
                              op, p, p, {})
                         EXCEPT !.version = products[p].version])
        BY <1>3 DEF ChangeStatus
    <2> DEFINE pc == IF op = "publish" THEN "count" ELSE "write"
               v == products[p].version
               q == [Call(pc, op, p, p, {}) EXCEPT !.version = v]
    <2>2. Arrive(c, q) /\ pc \in {"count", "write"}
        BY <2>1
    <2> HIDE DEF pc, v
    <2>3. q.pc = pc /\ q.op = op
        BY CallIs
    <2> HIDE DEF q
    <2>4. Unchecked(q) \/ Checked(q)
        BY <2>2, <2>3 DEF Unchecked, Checked
    <2> QED
        BY <2>2, <2>4, SoloArrival
<1>4. CASE CreateVariant(c)
    <2>1. PICK v \in Variants, p \in Products, price \in Prices :
              Arrive(c, Call("sku", "create_variant", v, p, price))
        BY <1>4 DEF CreateVariant
    <2>2. Unchecked(Call("sku", "create_variant", v, p, price))
        BY CallIs DEF Unchecked
    <2> QED
        BY <2>1, <2>2, SoloArrival
<1>5. CASE UpdateVariant(c)
    <2>1. PICK v \in Variants, input \in Changes :
              Arrive(c, [Call("write_variant", "update_variant", v,
                              variants[v].product, input)
                         EXCEPT !.doc = variants[v].id,
                                !.version = variants[v].version])
        BY <1>5 DEF UpdateVariant
    <2> DEFINE q == [Call("write_variant", "update_variant", v,
                          variants[v].product, input)
                     EXCEPT !.doc = variants[v].id,
                            !.version = variants[v].version]
    <2>2. q.pc = "write_variant"
        BY CallIs
    <2> HIDE DEF q
    <2>3. Unchecked(q)
        BY <2>2 DEF Unchecked
    <2> QED
        BY <2>1, <2>3, SoloArrival DEF q
<1>6. CASE RemoveVariant(c)
    <2>1. PICK v \in Variants :
              Arrive(c, [Call("product", "remove_variant", v,
                              variants[v].product, {})
                         EXCEPT !.doc = variants[v].id])
        BY <1>6 DEF RemoveVariant
    <2> DEFINE q == [Call("product", "remove_variant", v,
                          variants[v].product, {})
                     EXCEPT !.doc = variants[v].id]
    <2>2. q.pc = "product"
        BY CallIs
    <2> HIDE DEF q
    <2>3. Unchecked(q)
        BY <2>2 DEF Unchecked
    <2> QED
        BY <2>1, <2>3, SoloArrival DEF q
<1>7. CASE CreateTaxon(c)
    <2>1. PICK t \in Taxa, parent \in Categories \cup {Top} :
              /\ parent # Top => parent \in ActiveTaxa
              /\ Arrive(c, Call("taxon_slug", "create_taxon", t, {}, parent))
        BY <1>7 DEF CreateTaxon
    <2> DEFINE q == Call("taxon_slug", "create_taxon", t, {}, parent)
    <2>2. q.pc = "taxon_slug" /\ q.op = "create_taxon" /\ q.input = parent
        BY CallIs
    <2> HIDE DEF q
    <2>3. Checked(q)
        BY <2>1, <2>2 DEF Checked
    <2> QED
        BY <2>1, <2>3, SoloArrival DEF q
<1>8. CASE UpdateTaxon(c)
    <2>1. PICK t \in Taxa : Arrive(c, Call("write_taxon", "rename", t, {}, {}))
        BY <1>8 DEF UpdateTaxon
    <2> DEFINE q == Call("write_taxon", "rename", t, {}, {})
    <2>2. q.pc = "write_taxon" /\ q.op = "rename"
        BY CallIs
    <2> HIDE DEF q
    <2>3. Checked(q)
        BY <2>2 DEF Checked
    <2> QED
        BY <2>1, <2>3, SoloArrival DEF q
<1>9. CASE ArchiveTaxon(c)
    <2>1. PICK t \in Taxa :
              Arrive(c, Call(IF t \in Categories THEN "children"
                             ELSE "references", "archive_taxon", t, {}, {}))
        BY <1>9 DEF ArchiveTaxon
    <2> DEFINE pc == IF t \in Categories THEN "children" ELSE "references"
               q == Call(pc, "archive_taxon", t, {}, {})
    <2>2. Arrive(c, q)
        BY <2>1
    <2>3. pc = "children" \/ (pc = "references" /\ t \notin Categories)
        OBVIOUS
    <2> HIDE DEF pc
    <2>4. q.pc = pc /\ q.op = "archive_taxon" /\ q.id = t
        BY CallIs
    <2> HIDE DEF q
    <2>5. ASSUME t \notin Categories, NEW u \in ActiveTaxa
          PROVE  taxa[u].parent # t
        <3>1. taxa[u].parent \in Categories \cup {Top}
            BY RecordsExist DEF ActiveTaxa, TypeInv, DbOK, TaxonRecord
        <3> QED
            BY <2>5, <3>1, CatalogAssumption
    <2>6. Checked(q)
        BY <2>3, <2>4, <2>5 DEF Checked
    <2> QED
        BY <2>2, <2>6, SoloArrival
<1> QED
    BY <1>1, <1>2, <1>3, <1>4, <1>5, <1>6, <1>7, <1>8, <1>9 DEF Arrives
LEMMA ChecksSolo ==
    ASSUME TypeInv, Solo, NEW c \in Admins, Checks(c) PROVE Solo'
<1> DEFINE r == req[c]
           To(pc) == [r EXCEPT !.pc = pc]
<1>1. CallOK(r) /\ Reads
    BY AtCall DEF Checks, CheckCategory, CheckBrand, CheckSlug, CountActive,
       CheckSku, CheckUnpublished, CheckTaxonSlug, CheckChildren,
       CheckReferences, At
<1>2. /\ r \in CallsFor(r.input) /\ Busy(c) /\ Checked(r) /\ OnPath(r)
      /\ Given(r) /\ UNCHANGED <<products, taxa>>
    BY <1>1, FormNotIdle DEF CallOK, Form, Busy, Solo, Reads, db
<1>3. ASSUME Finish(c) PROVE Solo'
    BY <1>2, <1>3, SoloQuiet DEF Finish, Unchecked
<1>4. \A pc : To(pc).pc = pc /\ To(pc).op = r.op /\ To(pc).id = r.id
              /\ To(pc).input = r.input
    BY <1>2 DEF CallsFor
<1>5. ASSUME NEW pc, Goto(c, pc), Unchecked(To(pc)) \/ Checked(To(pc))
      PROVE  Solo'
    <2>1. Become(c, To(pc))
        BY <1>5 DEF Goto
    <2> HIDE DEF To
    <2> QED
        BY <1>2, <1>5, <2>1, SoloQuiet
<1> HIDE DEF To, r
<1>6. CASE CheckCategory(c)
    <2>1. CASE Goto(c, "brand") /\ r.input \cap Categories \subseteq ActiveTaxa
        <3>1. Checked(To("brand"))
            BY <1>4, <2>1 DEF Checked
        <3> QED
            BY <1>5, <2>1, <3>1
    <2> QED
        BY <1>3, <1>6, <2>1 DEF CheckCategory, GoOnIf, r
<1>7. CASE CheckBrand(c)
    <2> DEFINE pc == IF r.op = "create" THEN "slug" ELSE "write"
    <2>1. CASE Goto(c, pc) /\ r.input \cap Brands \subseteq ActiveTaxa
        <3>1. r.pc = "brand"
            BY <1>7 DEF CheckBrand, At, r
        <3>2. r.input \cap Categories \subseteq ActiveTaxa
            BY <1>2, <3>1 DEF Checked
        <3>3. r.input \subseteq Taxa
            BY <1>2, <3>1 DEF OnPath, Given, ProductOps
        <3>4. r.input \subseteq ActiveTaxa
            BY <2>1, <3>2, <3>3 DEF Taxa
        <3>5. pc \in {"slug", "write"}
            OBVIOUS
        <3> HIDE DEF pc
        <3>6. Checked(To(pc))
            BY <1>4, <3>4, <3>5 DEF Checked
        <3> QED
            BY <1>5, <2>1, <3>6
    <2> QED
        BY <1>3, <1>7, <2>1 DEF CheckBrand, GoOnIf, r
<1>8. CASE CheckSlug(c)
    <2>1. CASE Goto(c, "insert")
        <3>1. r.pc = "slug"
            BY <1>8 DEF CheckSlug, At, r
        <3>2. Checked(To("insert"))
            BY <1>2, <1>4, <3>1 DEF Checked
        <3> QED
            BY <1>5, <2>1, <3>2
    <2> QED
        BY <1>3, <1>8, <2>1 DEF CheckSlug, GoOnIf, r
<1>9. CASE CountActive(c)
    <2>1. CASE Goto(c, "write")
        <3>1. r.op = "publish"
            BY <1>2, <1>9 DEF CountActive, At, OnPath, r
        <3>2. Checked(To("write"))
            BY <1>4, <3>1 DEF Checked
        <3> QED
            BY <1>5, <2>1, <3>2
    <2> QED
        BY <1>3, <1>9, <2>1 DEF CountActive, GoOnIf, r
<1>10. CASE CheckSku(c) \/ CheckUnpublished(c)
    <2>1. ASSUME NEW pc \in {"insert_variant", "delete"}, Goto(c, pc)
          PROVE  Solo'
        <3>1. Unchecked(To(pc))
            BY <1>4 DEF Unchecked
        <3> QED
            BY <1>5, <2>1, <3>1
    <2> QED
        BY <1>3, <1>10, <2>1 DEF CheckSku, CheckUnpublished, GoOnIf
<1>11. CASE CheckTaxonSlug(c)
    <2>1. CASE Goto(c, "insert_taxon")
        <3>1. r.pc = "taxon_slug"
            BY <1>11 DEF CheckTaxonSlug, At, r
        <3>2. Checked(To("insert_taxon"))
            BY <1>2, <1>4, <3>1 DEF Checked
        <3> QED
            BY <1>5, <2>1, <3>2
    <2> QED
        BY <1>3, <1>11, <2>1 DEF CheckTaxonSlug, GoOnIf, r
<1>12. CASE CheckChildren(c)
    <2>1. CASE Goto(c, "references") /\ Children(r.id) = {}
        <3>1. r.id \in Categories
            BY <1>2, <1>12 DEF CheckChildren, At, OnPath, r
        <3>2. ASSUME NEW u \in ActiveTaxa PROVE taxa[u].parent # r.id
            <4>1. Exists(taxa[u])
                BY RecordsExist DEF ActiveTaxa, TypeInv, DbOK
            <4>2. CASE u \in Categories
                BY <2>1, <4>1, <4>2 DEF Children
            <4>3. CASE u \in Brands
                <5>1. taxa[u].parent = Top
                    BY <4>1, <4>3 DEF TypeInv, DbOK, BrandsOK
                <5> QED
                    BY <3>1, <5>1, CatalogAssumption DEF Taxa
            <4> QED
                BY <4>2, <4>3 DEF ActiveTaxa, Taxa
        <3>3. Checked(To("references"))
            BY <1>4, <3>2 DEF Checked
        <3> QED
            BY <1>5, <2>1, <3>3
    <2> QED
        BY <1>3, <1>12, <2>1 DEF CheckChildren, GoOnIf, r
<1>13. CASE CheckReferences(c)
    <2>1. CASE Goto(c, "write_taxon") /\ References(r.id) = {}
        <3>1. r.pc = "references"
            BY <1>13 DEF CheckReferences, At, r
        <3>2. Checked(To("write_taxon"))
            BY <1>2, <1>4, <2>1, <3>1 DEF Checked
        <3> QED
            BY <1>5, <2>1, <3>2
    <2> QED
        BY <1>3, <1>13, <2>1 DEF CheckReferences, GoOnIf, r
<1> QED
    BY <1>6, <1>7, <1>8, <1>9, <1>10, <1>11, <1>12, <1>13 DEF Checks

(* A product written gets references that are live or that it had.         *)
LEMMA ProductReferences ==
    ASSUME LiveReferences, UNCHANGED taxa, NEW p \in Products, NEW d,
           products' = [products EXCEPT ![p] = d],
           products \in [Products -> {Absent} \cup ProductRecord],
           \/ d.taxa \subseteq ActiveTaxa
           \/ /\ d.taxa = products[p].taxa
              /\ products[p].status \in {"draft", "published"}
           \/ /\ d.taxa \subseteq ActiveTaxa \cup products[p].taxa
              /\ d.status = products[p].status
    PROVE  LiveReferences'
<1>1. ActiveTaxa' = ActiveTaxa
    BY DEF ActiveTaxa
<1>2. products'[p] = d /\ \A q \in Products \ {p} : products'[q] = products[q]
    OBVIOUS
<1>3. ASSUME NEW q \in Products, products'[q].status \in {"draft", "published"}
      PROVE  products'[q].taxa \subseteq ActiveTaxa
    BY <1>2, <1>3 DEF LiveReferences
<1> QED
    BY <1>1, <1>3 DEF LiveReferences

LEMMA ProductsSolo ==
    ASSUME TypeInv, Solo, NEW c \in Admins,
           InsertProduct(c) \/ WriteProduct(c) \/ SetMinPrice(c)
    PROVE  Solo'
<1> DEFINE r == req[c]
<1>1. CallOK(r) /\ UNCHANGED taxa
    BY AtCall DEF InsertProduct, WriteProduct, SetMinPrice, At
<1>2. /\ r \in CallsFor(r.input) /\ Busy(c) /\ Checked(r) /\ OnPath(r)
      /\ Given(r) /\ Looked(r)
    BY <1>1, FormNotIdle DEF CallOK, Form, Seen, Busy, Solo
<1>3. /\ LiveReferences
      /\ products \in [Products -> {Absent} \cup ProductRecord]
    BY DEF Solo, TypeInv, DbOK
<1>4. PICK q : Become(c, q) /\ Unchecked(q)
    <2>1. CASE InsertProduct(c)
        BY <2>1 DEF InsertProduct, Finish, Unchecked
    <2>2. CASE WriteProduct(c) \/ SetMinPrice(c)
        <3> DEFINE q == [r EXCEPT !.pc = "keys", !.todo = ProductPages]
        <3>1. Become(c, q)
            BY <2>2 DEF WriteProduct, SetMinPrice, AfterProduct, Flush
        <3>2. q.pc = "keys"
            BY <1>2 DEF CallsFor
        <3> HIDE DEF q
        <3> QED
            BY <3>1, <3>2 DEF Unchecked
    <2> QED
        BY <2>1, <2>2
<1>5. LiveReferences'
    <2>1. CASE InsertProduct(c)
        <3> DEFINE d == [NewProduct EXCEPT !.taxa = r.input]
        <3>1. r.id \in Products /\ r.input \subseteq ActiveTaxa
            BY <1>2, <2>1 DEF InsertProduct, At, OnPath, Given, ProductOps,
               Checked
        <3>2. CASE Exists(products[r.id])
            BY <1>1, <1>3, <2>1, <3>2, SameReferences DEF InsertProduct
        <3>3. CASE ~ Exists(products[r.id])
            <4>1. products' = [products EXCEPT ![r.id] = d]
                BY <2>1, <3>3 DEF InsertProduct
            <4>2. d.taxa = r.input
                BY DEF NewProduct
            <4> HIDE DEF d
            <4> QED
                BY <1>1, <1>3, <3>1, <4>1, <4>2, ProductReferences
        <3> QED
            BY <3>2, <3>3
    <2>2. CASE WriteProduct(c)
        <3> DEFINE doc == products[r.id]
                   d == Written(doc, r)
        <3>1. /\ r.pc = "write" /\ r.id \in Products
              /\ r.op \in {"update", "publish", "unpublish", "archive"}
            BY <1>2, <2>2 DEF WriteProduct, At, OnPath, Given, ProductOps
        <3>2. /\ Exists(doc)
              /\ r.op # "update" => doc.status # "archived"
              /\ r.op = "update" => r.input \subseteq ActiveTaxa
            BY <1>2, <3>1 DEF Looked, ProductOps, Checked
        <3>3. doc \in ProductRecord
            BY <1>3, <3>1, <3>2 DEF Exists
        <3>4. products' = [products EXCEPT ![r.id] = d]
            BY <1>3, <2>2, <3>1 DEF WriteProduct
        <3>5. /\ r.op = "update" =>
                    /\ d.taxa \subseteq r.input \cup doc.taxa
                    /\ d.status = doc.status
              /\ r.op # "update" => d.taxa = doc.taxa
            BY <3>1, <3>3 DEF Written, Moved, ProductRecord
        <3>6. doc.status \in {"draft", "published", "archived"}
            BY <3>3 DEF ProductRecord
        <3> HIDE DEF d
        <3>7. \/ d.taxa \subseteq ActiveTaxa
              \/ d.taxa = doc.taxa /\ doc.status \in {"draft", "published"}
              \/ /\ d.taxa \subseteq ActiveTaxa \cup doc.taxa
                 /\ d.status = doc.status
            BY <3>1, <3>2, <3>5, <3>6
        <3> QED
            BY <1>1, <1>3, <3>1, <3>4, <3>7, ProductReferences
    <2>3. CASE SetMinPrice(c)
        <3> DEFINE doc == products[r.product]
                   n == IF r.price = None THEN doc.version ELSE r.version + 1
                   d == [doc EXCEPT !.minPrice = r.price, !.version = n]
        <3>1. r.product \in Products /\ Exists(doc)
            BY <1>2, <2>3 DEF SetMinPrice, At, OnPath, Given, Looked,
               RefreshSteps
        <3>2. doc \in ProductRecord
            BY <1>3, <3>1 DEF Exists
        <3>3. products' = [products EXCEPT ![r.product] = d]
            BY <1>3, <2>3, <3>1 DEF SetMinPrice
        <3> HIDE DEF n
        <3>4. d.taxa = doc.taxa /\ d.status = doc.status
            BY <3>2 DEF ProductRecord
        <3> HIDE DEF d
        <3> QED
            BY <1>1, <1>3, <3>1, <3>3, <3>4, ProductReferences
    <2> QED
        BY <2>1, <2>2, <2>3
<1>6. q = Idle \/ Checked(q)'
    BY <1>4 DEF Unchecked, Checked, RefreshSteps
<1> QED
    BY <1>2, <1>4, <1>5, <1>6, SoloMoves

LEMMA TaxaSolo ==
    ASSUME TypeInv, Solo, NEW c \in Admins, InsertTaxon(c) \/ WriteTaxon(c)
    PROVE  Solo'
<1> DEFINE r == req[c]
<1>1. CallOK(r) /\ UNCHANGED products
    BY AtCall DEF InsertTaxon, WriteTaxon, At
<1>2. /\ r \in CallsFor(r.input) /\ Busy(c) /\ Checked(r) /\ OnPath(r)
      /\ Given(r) /\ Looked(r) /\ LiveReferences
    BY <1>1, FormNotIdle DEF CallOK, Form, Seen, Busy, Solo
<1>3. r.id \in Taxa
    BY <1>2 DEF InsertTaxon, WriteTaxon, At, OnPath, Given, TaxonOps
<1>4. PICK q : Become(c, q) /\ Unchecked(q)
    <2> DEFINE q == [r EXCEPT !.pc = "keys", !.todo = TaxonomyPages]
    <2>1. Become(c, q) \/ Become(c, Idle)
        BY DEF InsertTaxon, WriteTaxon, Flush, Finish
    <2>2. q.pc = "keys"
        BY <1>2 DEF CallsFor
    <2> HIDE DEF q
    <2> QED
        BY <2>1, <2>2 DEF Unchecked
<1>5. LiveReferences'
    <2>1. CASE InsertTaxon(c)
        <3> DEFINE d == [NewTaxon EXCEPT !.parent = r.input]
        <3>1. r.input = Top \/ r.input \in ActiveTaxa
            BY <1>2, <2>1 DEF InsertTaxon, At, Checked
        <3>2. CASE Exists(taxa[r.id])
            BY <1>1, <1>2, <2>1, <3>2, SameReferences DEF InsertTaxon
        <3>3. CASE ~ Exists(taxa[r.id])
            <4>1. taxa' = [taxa EXCEPT ![r.id] = d]
                BY <2>1, <3>3 DEF InsertTaxon
            <4>2. d.parent = r.input /\ d.status = "active"
                BY DEF NewTaxon
            <4> HIDE DEF d
            <4>3. /\ taxa'[r.id] = d
                  /\ \A t \in Taxa \ {r.id} : taxa'[t] = taxa[t]
                BY <1>3, <4>1 DEF TypeInv, DbOK
            <4>4. ActiveTaxa' = ActiveTaxa \cup {r.id}
                BY <1>3, <4>2, <4>3 DEF ActiveTaxa
            <4>5. ASSUME NEW t \in ActiveTaxa', taxa'[t].parent # Top
                  PROVE  taxa'[t].parent \in ActiveTaxa'
                <5>1. CASE t = r.id
                    BY <3>1, <4>2, <4>3, <4>4, <4>5, <5>1
                <5>2. CASE t # r.id
                    <6>1. t \in ActiveTaxa /\ taxa'[t] = taxa[t]
                        BY <4>3, <4>4, <5>2 DEF ActiveTaxa
                    <6> QED
                        BY <1>2, <4>4, <4>5, <6>1 DEF LiveReferences
                <5> QED
                    BY <5>1, <5>2
            <4> QED
                BY <1>1, <1>2, <4>4, <4>5 DEF LiveReferences
        <3> QED
            BY <3>2, <3>3
    <2>2. CASE WriteTaxon(c)
        <3> DEFINE doc == taxa[r.id]
                   d == Amended(doc, r)
        <3>1. r.pc = "write_taxon" /\ r.op \in {"rename", "archive_taxon"}
            BY <1>2, <2>2 DEF WriteTaxon, At, OnPath
        <3>2. doc \in TaxonRecord
            BY <1>2, <1>3, <3>1 DEF Looked, Exists, TypeInv, DbOK
        <3>3. taxa' = [taxa EXCEPT ![r.id] = d]
            BY <1>3, <2>2 DEF WriteTaxon, TypeInv, DbOK
        <3>4. /\ r.op = "rename" => d.status = doc.status
              /\ r.op # "rename" => d.status = "archived"
              /\ d.parent = doc.parent
            <4> DEFINE n == doc.name + 1
            <4> HIDE DEF n
            <4>1. /\ [doc EXCEPT !.name = n].status = doc.status
                  /\ [doc EXCEPT !.name = n].parent = doc.parent
                  /\ [doc EXCEPT !.status = "archived"].status = "archived"
                  /\ [doc EXCEPT !.status = "archived"].parent = doc.parent
                BY <3>2 DEF TaxonRecord
            <4> QED
                BY <4>1 DEF Amended, n
        <3> HIDE DEF d
        <3>5. /\ taxa'[r.id] = d
              /\ \A t \in Taxa \ {r.id} : taxa'[t] = taxa[t]
            BY <1>3, <3>3 DEF TypeInv, DbOK
        <3>6. \A t \in Taxa : taxa'[t].parent = taxa[t].parent
            BY <3>4, <3>5
        <3>7. CASE r.op = "rename"
            <4>1. ActiveTaxa' = ActiveTaxa
                BY <3>4, <3>5, <3>7 DEF ActiveTaxa
            <4> QED
                BY <1>1, <1>2, <3>6, <4>1 DEF LiveReferences, ActiveTaxa
        <3>8. CASE r.op = "archive_taxon"
            <4>1. ActiveTaxa' = ActiveTaxa \ {r.id}
                BY <1>3, <3>4, <3>5, <3>8 DEF ActiveTaxa
            <4>2. /\ References(r.id) = {}
                  /\ \A u \in ActiveTaxa : taxa[u].parent # r.id
                BY <1>2, <3>1, <3>8 DEF Checked
            <4>3. ASSUME NEW p \in Products,
                         products[p].status \in {"draft", "published"}
                  PROVE  products[p].taxa \subseteq ActiveTaxa \ {r.id}
                BY <1>2, <4>2, <4>3 DEF LiveReferences, References
            <4>4. ASSUME NEW t \in ActiveTaxa, taxa[t].parent # Top
                  PROVE  taxa[t].parent \in ActiveTaxa \ {r.id}
                BY <1>2, <4>2, <4>4 DEF LiveReferences
            <4> QED
                BY <1>1, <3>6, <4>1, <4>3, <4>4 DEF LiveReferences, ActiveTaxa
        <3> QED
            BY <3>1, <3>7, <3>8
    <2> QED
        BY <2>1, <2>2
<1>6. q = Idle \/ Checked(q)'
    BY <1>4 DEF Unchecked, Checked, RefreshSteps
<1> QED
    BY <1>2, <1>4, <1>5, <1>6, SoloMoves

(* The other steps neither change products or taxa nor rely on a check.    *)
LEMMA OtherStepsSolo ==
    ASSUME TypeInv, Solo, NEW c \in Admins,
           \/ InsertVariant(c) \/ WriteVariant(c) \/ DeleteVariant(c)
           \/ ReadPrices(c) \/ ReadPriceVersion(c)
           \/ Keys(c) \/ Del(c) \/ FlushFails(c) \/ Dies(c)
    PROVE  Solo'
<1> DEFINE r == req[c]
<1>1. /\ Busy(c) /\ CallOK(r) /\ UNCHANGED <<products, taxa>>
    BY AtCall, FormNotIdle DEF InsertVariant, WriteVariant, DeleteVariant,
       ReadPrices, ReadPriceVersion, Keys, Del, FlushFails, Dies, At, Reads,
       db, CallOK, Busy, TypeInv
<1>2. r \in CallsFor(r.input)
    BY <1>1 DEF CallOK, Form
<1>3. PICK q : Become(c, q) /\ Unchecked(q)
    <2>1. CASE InsertVariant(c) \/ WriteVariant(c) \/ DeleteVariant(c)
        <3> DEFINE q == [r EXCEPT !.pc = "prices", !.todo = ProductPages]
        <3>1. Become(c, q) \/ Become(c, Idle)
            BY <2>1 DEF InsertVariant, WriteVariant, DeleteVariant, Reprice,
               Finish
        <3>2. q.pc = "prices"
            BY <1>2 DEF CallsFor
        <3> HIDE DEF q
        <3> QED
            BY <3>1, <3>2 DEF Unchecked, RefreshSteps
    <2>2. CASE ReadPrices(c) \/ ReadPriceVersion(c)
        <3>1. PICK q : Become(c, q) /\ q.pc \in RefreshSteps
            BY <2>2, PriceReadsGoOn
        <3> QED
            BY <3>1 DEF Unchecked
    <2>3. CASE Keys(c)
        <3> DEFINE found == {page \in Head(r.todo) : IsCached(page)}
                   rest == Tail(r.todo)
                   a == [r EXCEPT !.pc = "del", !.found = found, !.todo = rest]
                   b == [r EXCEPT !.todo = rest]
        <3>1. Become(c, a) \/ Become(c, Idle) \/ Become(c, b)
            BY <2>3 DEF Keys, Finish
        <3> HIDE DEF found, rest
        <3>2. a.pc = "del" /\ b.pc = "keys"
            BY <1>2, <2>3 DEF CallsFor, Keys, At
        <3> HIDE DEF a, b
        <3> QED
            BY <3>1, <3>2 DEF Unchecked
    <2>4. CASE Del(c)
        <3> DEFINE a == [r EXCEPT !.pc = "keys", !.found = {}]
        <3>1. Become(c, a) \/ Become(c, Idle)
            BY <2>4 DEF Del, Finish
        <3>2. a.pc = "keys"
            BY <1>2 DEF CallsFor
        <3> HIDE DEF a
        <3> QED
            BY <3>1, <3>2 DEF Unchecked
    <2>5. CASE FlushFails(c)
        <3> DEFINE rest == IF At(c, "del") THEN r.todo ELSE Tail(r.todo)
                   a == [r EXCEPT !.pc = "keys", !.todo = rest, !.found = {}]
        <3>1. Become(c, a) \/ Become(c, Idle)
            BY <2>5 DEF FlushFails, Finish
        <3> HIDE DEF rest
        <3>2. a.pc = "keys"
            BY <1>2 DEF CallsFor
        <3> HIDE DEF a
        <3> QED
            BY <3>1, <3>2 DEF Unchecked
    <2>6. CASE Dies(c)
        BY <2>6 DEF Dies, Finish, Unchecked
    <2> QED
        BY <2>1, <2>2, <2>3, <2>4, <2>5, <2>6
<1> HIDE DEF r
<1> QED
    BY <1>1, <1>3, SoloQuiet

LEMMA OthersSolo ==
    ASSUME Solo, UNCHANGED <<products, taxa>>,
           \A d \in Admins : req'[d] = req[d]
    PROVE  Solo'
<1>1. LiveReferences' /\ OneAtWork'
    BY SameReferences DEF Solo, OneAtWork, Busy
<1>2. ASSUME NEW d \in Admins, Busy(d)' PROVE Checked(req[d])'
    <2>1. Checked(req[d]) /\ req'[d] = req[d]
        BY <1>2 DEF Solo, Busy
    <2>2. PICK r : r = req[d]
        OBVIOUS
    <2>3. Checked(r)'
        BY <2>1, <2>2, SameChecks
    <2> QED
        BY <2>1, <2>2, <2>3 DEF Checked
<1> QED
    BY <1>1, <1>2 DEF Solo

LEMMA ReferencesInit == Init => ReferencesInv
<1> SUFFICES ASSUME Init PROVE ReferencesInv
    OBVIOUS
<1>1. TypeInv /\ LiveReferences /\ \A c \in Admins : ~ Busy(c)
    BY InitType DEF Init, Orderly, Busy, Clients
<1> QED
    BY <1>1 DEF ReferencesInv, Solo, OneAtWork

LEMMA ReferencesNext == ReferencesInv /\ [Next]_vars => ReferencesInv'
<1> SUFFICES ASSUME ReferencesInv, [Next]_vars PROVE ReferencesInv'
    OBVIOUS
<1>1. TypeInv /\ TypeInv' /\ (overlapped \/ Solo)
    BY NextType DEF ReferencesInv, Solo
<1> SUFFICES overlapped' \/ Solo'
    BY <1>1 DEF ReferencesInv, Solo
<1>2. ASSUME NEW c \in Admins, Arrives(c) PROVE overlapped' \/ Solo'
    <2>1. PICK r : Arrive(c, r)
        BY <1>2, ArrivesArrive
    <2>2. overlapped' = (overlapped \/ \E a \in Admins : Busy(a))
        BY <2>1 DEF Arrive
    <2>3. CASE overlapped \/ \E a \in Admins : Busy(a)
        BY <2>2, <2>3
    <2>4. CASE ~ overlapped /\ \A a \in Admins : ~ Busy(a)
        BY <1>1, <1>2, <2>4, ArrivesSolo
    <2> QED
        BY <2>3, <2>4
<1>3. ASSUME NEW c \in Admins, Continues(c) \/ FlushFails(c) \/ Dies(c)
      PROVE  overlapped' \/ Solo'
    <2>1. overlapped' = overlapped
        BY <1>3 DEF Continues, CheckCategory, CheckBrand, CheckSlug,
           InsertProduct, CountActive, WriteProduct, CheckSku, InsertVariant,
           WriteVariant, CheckUnpublished, DeleteVariant, ReadPrices,
           ReadPriceVersion, SetMinPrice, CheckTaxonSlug, InsertTaxon,
           CheckChildren, CheckReferences, WriteTaxon, Keys, Del, FlushFails,
           Dies, Reads, Writes, ghosts
    <2>2. CASE Solo
        BY <1>1, <1>3, <2>2, ChecksSolo, ProductsSolo, TaxaSolo,
           OtherStepsSolo DEF Continues, Checks
    <2> QED
        BY <1>1, <2>1, <2>2
<1>4. CASE \/ \E c \in Shoppers : GetPage(c) \/ Serves(c)
           \/ \E page \in Pages : Expire(page)
           \/ UNCHANGED vars
    <2>1. UNCHANGED <<products, taxa, overlapped>>
        BY <1>4 DEF GetPage, Serves, ReadFirst, ReadSecond, SetPage, Expire,
           Reads, vars, db, ghosts
    <2>2. \A d \in Admins : req'[d] = req[d]
        BY <1>1, <1>4, CatalogAssumption DEF GetPage, Serves, ReadFirst,
           ReadSecond, SetPage, Expire, Finish, Become, vars, TypeInv, Clients
    <2> QED
        BY <1>1, <2>1, <2>2, OthersSolo
<1> QED
    BY <1>2, <1>3, <1>4 DEF Next

LEMMA ReferencesInvImplies == ReferencesInv => ReferencesLive
BY DEF ReferencesInv, ReferencesLive, Solo

(* As long as no two calls of admins overlap, no product that is not       *)
(* archived refers to an archived category or brand, and no active         *)
(* category lies under an archived one, whichever calls fail or die.       *)
THEOREM ReferencesStayLive == Spec => []ReferencesLive
BY ReferencesInit, ReferencesNext, ReferencesInvImplies, PTL DEF Spec

=============================================================================
