------------------------------ MODULE Catalog ------------------------------
(***************************************************************************)
(* The catalog (src/src/modules/catalog): products, their variants, the    *)
(* categories and brands they refer to, and the Redis cache of the public  *)
(* pages.                                                                  *)
(*                                                                         *)
(* No two collections change together, a check and the write that relies   *)
(* on it are separate calls, and a page is cached by whoever has read it.  *)
(* One action is one awaited call: a Mongo query or update, a Redis KEYS,  *)
(* DEL or SETEX.  Calls that change the catalog come from admins; shoppers *)
(* read pages.                                                             *)
(*                                                                         *)
(* A product is named by its slug, a variant by its SKU and a category or  *)
(* brand by its slug, all of them under unique indexes.  Only a variant is *)
(* ever removed, so that only a SKU can be taken again, by a document with *)
(* another id.  Titles, texts, media and attributes are left out; a name   *)
(* stands for what an update of a category or brand changes.  Versions and *)
(* names count the changes since the run began.  The events a call adds to *)
(* the outbox at its end are left out, as nothing reads them.              *)
(***************************************************************************)
EXTENDS Integers, FiniteSets, Sequences, FiniteSetsExt

CONSTANTS
    Products, Variants,
    Categories, Brands,
    Prices,         \* amounts a variant may cost
    Admins,         \* slots for concurrent calls that change the catalog
    Shoppers,       \* slots for concurrent reads of public pages
    Seeds,          \* databases the run may start from
    MaxCalls,       \* bound: calls of admins and reads of pages
    MaxFailures     \* bound: rejected calls, crashes and Redis outages

Clients == Admins \cup Shoppers
Taxa == Categories \cup Brands

(* The pages cached under product:*, search:* and suggest:*, categories:*  *)
(* and brands:*.                                                           *)
Pages == Products \cup {"search", "taxonomy"}

VARIABLES
    products, variants, taxa,   \* the collections
    cache,          \* the cached pages
    req,            \* the requests in flight
    calls, failures,            \* for the bounds
    excused,        \* pages that may be stale with nobody about to drop them
    mispriced,      \* products whose minPrice may be wrong, likewise
    overlapped      \* two calls of admins have been in flight together

db == <<products, variants, taxa>>
counts == <<calls, failures>>
ghosts == <<excused, mispriced, overlapped>>
vars == <<db, cache, req, counts, ghosts>>

-----------------------------------------------------------------------------
(***************************************************************************)
(* Types                                                                   *)
(***************************************************************************)

None == 0               \* no minPrice
Top == "top"            \* the parent of a top-level category, and of a brand
Absent == [status |-> "absent"]
NoPage == [body |-> <<>>, names |-> <<>>]
Idle == [pc |-> "idle"]

ProductRecord == [status: {"draft", "published", "archived"}, version: Nat,
                  minPrice: Prices \cup {None}, taxa: SUBSET Taxa,
                  deleted: BOOLEAN]
VariantRecord == [id: Nat, status: {"active", "discontinued"}, version: Nat,
                  price: Prices, product: Products]
TaxonRecord == [status: {"active", "archived"}, parent: Categories \cup {Top},
                name: Nat]

NewProduct == [status |-> "draft", version |-> 0, minPrice |-> None,
               taxa |-> {}, deleted |-> FALSE]
NewVariant == [id |-> 0, status |-> "active", version |-> 0, price |-> None,
               product |-> "none"]
NewTaxon == [status |-> "active", parent |-> Top, name |-> 0]

(* input: what the request asks for; doc: the id of the variant it names;  *)
(* version and price: what it has read; todo: the key patterns to be       *)
(* invalidated, once the call has written; found: the keys KEYS returned.  *)
NoCall ==
    [pc |-> "done", op |-> "none", id |-> "none", product |-> "none",
     input |-> {}, doc |-> 0, version |-> 0, price |-> None, todo |-> <<>>,
     found |-> {}]

Call(pc, op, id, product, input) ==
    [NoCall EXCEPT !.pc = pc, !.op = op, !.id = id, !.product = product,
                   !.input = input]

(* A read of a page, and the part of it read so far.                       *)
NoRead == [pc |-> "first", page |-> "none", first |-> NoPage]

Busy(c) == req[c] # Idle
At(c, pc) == req[c].pc = pc
Become(c, r) == req' = [req EXCEPT ![c] = r]
Goto(c, pc) == Become(c, [req[c] EXCEPT !.pc = pc])
Finish(c) == Become(c, Idle)
GoOnIf(c, condition, pc) == IF condition THEN Goto(c, pc) ELSE Finish(c)

-----------------------------------------------------------------------------
(***************************************************************************)
(* What the database says                                                  *)
(***************************************************************************)

Exists(doc) == doc # Absent

IsPubliclyVisible(p) == products[p].status = "published"

ActiveVariants(p) ==
    {v \in Variants : /\ Exists(variants[v])
                      /\ variants[v].product = p
                      /\ variants[v].status = "active"}

LowestPrice(p) ==
    IF ActiveVariants(p) = {} THEN None
    ELSE Min({variants[v].price : v \in ActiveVariants(p)})

PriceIsRight(p) == products[p].minPrice = LowestPrice(p)

Offers(p) == [v \in ActiveVariants(p) |-> variants[v].price]

Names(ts) == [t \in ts |-> taxa[t].name]

ActiveTaxa == {t \in Taxa : taxa[t].status = "active"}
Children(t) == {u \in Categories : Exists(taxa[u]) /\ taxa[u].parent = t}
References(t) ==
    {p \in Products : /\ products[p].status \in {"draft", "published"}
                      /\ t \in products[p].taxa}

(* What is not archived refers to nothing archived.                        *)
LiveReferences ==
    /\ \A p \in Products :
          products[p].status \in {"draft", "published"} =>
              products[p].taxa \subseteq ActiveTaxa
    /\ \A t \in ActiveTaxa :
          taxa[t].parent # Top => taxa[t].parent \in ActiveTaxa

Listed == {p \in Products : IsPubliclyVisible(p)}

(* What a page reads first: the product, the matching products with their  *)
(* prices, or the active top-level categories and the brands.              *)
FirstPart(page) ==
    CASE page = "search" ->
             [p \in Listed |-> products[p]]
      [] page = "taxonomy" ->
             Names({t \in ActiveTaxa : taxa[t].parent = Top})
      [] OTHER -> products[page]

(* What it reads next, for the products or categories it has found.        *)
SecondPart(page, found) ==
    CASE page = "search" ->
             [p \in DOMAIN found |->
                 <<Offers(p), Names(found[p].taxa \cap ActiveTaxa)>>]
      [] page = "taxonomy" ->
             Names({t \in ActiveTaxa : taxa[t].parent \in DOMAIN found})
      [] OTHER -> Offers(page)

IsShown(page) == page \in Products => IsPubliclyVisible(page)

(* The page of one product also shows its category and brand, which is the *)
(* part that updates of those do not invalidate.                           *)
Page(page, found) ==
    [body |-> <<found, SecondPart(page, found)>>,
     names |-> IF page \in Products THEN Names(found.taxa) ELSE <<>>]

(* The page an undisturbed read would build.                               *)
Truth(page) ==
    IF IsShown(page) THEN Page(page, FirstPart(page)) ELSE NoPage

-----------------------------------------------------------------------------
(***************************************************************************)
(* Initial states: a database that calls made one at a time may leave, and *)
(* at most one page cached: nothing relates one page to another.           *)
(***************************************************************************)

Settled(seed) ==
    /\ seed.products \in [Products -> {Absent} \cup ProductRecord]
    /\ seed.variants \in [Variants -> {Absent} \cup VariantRecord]
    /\ seed.taxa \in [Taxa -> {Absent} \cup TaxonRecord]

ASSUME CatalogAssumption ==
    /\ \A seed \in Seeds : Settled(seed)
    /\ Prices \subseteq Nat \ {None}
    /\ Admins \cap Shoppers = {} /\ Categories \cap Brands = {}
    /\ Top \notin Taxa /\ Products \cap {"search", "taxonomy"} = {}
    /\ MaxCalls \in Nat /\ MaxFailures \in Nat

(* The variants are of products there are; brands are top-level.           *)
Orderly ==
    /\ \A v \in Variants : Exists(variants[v]) =>
          variants[v].id = 0 /\ Exists(products[variants[v].product])
    /\ \A b \in Brands : Exists(taxa[b]) => taxa[b].parent = Top
    /\ \A p \in Products : Exists(products[p]) => PriceIsRight(p)
    /\ LiveReferences

Init ==
    /\ \E seed \in Seeds : /\ products = seed.products
                           /\ variants = seed.variants
                           /\ taxa = seed.taxa
    /\ Orderly
    /\ \E warm \in Pages :
          cache \in {[page \in Pages |-> NoPage],
                    [page \in Pages |-> IF page = warm THEN Truth(page)
                                       ELSE NoPage]}
    /\ req = [c \in Clients |-> Idle]
    /\ calls = 0 /\ failures = 0
    /\ excused = {} /\ mispriced = {}
    /\ overlapped = FALSE

(* A call of an admin arrives and becomes r.                               *)
Arrive(c, r) ==
    /\ ~Busy(c) /\ calls < MaxCalls
    /\ Become(c, r)
    /\ calls' = calls + 1
    /\ overlapped' = (overlapped \/ \E a \in Admins : Busy(a))
    /\ UNCHANGED <<db, cache, failures, excused, mispriced>>

(* A step of c that reads.                                                 *)
Reads == UNCHANGED <<db, cache, counts, ghosts>>

(* A step that writes one collection.                                      *)
Writes == UNCHANGED <<cache, counts, excused, overlapped>>

ProductPages == <<Products, {"search"}>>
TaxonomyPages == <<{"taxonomy"}, {"search"}>>

(* The call has written and goes on to invalidate pages.                   *)
Flush(c, pages) == Become(c, [req[c] EXCEPT !.pc = "keys", !.todo = pages])

-----------------------------------------------------------------------------
(***************************************************************************)
(* ProductService.  The Faulty... operators here and below are variants    *)
(* with a fault seeded, against which the properties are tried; nothing    *)
(* else uses them.                                                         *)
(***************************************************************************)

(* What a new product is placed under: one category and perhaps a brand.   *)
(* An update names a category, a brand, both or neither.                   *)
Placements ==
    {{g} : g \in Categories} \cup {{g, b} : g \in Categories, b \in Brands}

Moves == Placements \cup {{b} : b \in Brands} \cup {{}}

CreateProduct(c) ==
    \E p \in Products, ts \in Placements :
        Arrive(c, Call("category", "create", p, p, ts))

(* The client sends the version it has seen; with any other the call is    *)
(* refused.                                                                *)
UpdateProduct(c) ==
    \E p \in Products, ts \in Moves :
        /\ Exists(products[p])
        /\ Arrive(c, [Call(IF ts = {} THEN "write" ELSE "category",
                           "update", p, p, ts)
                      EXCEPT !.version = products[p].version])

CheckCategory(c) ==
    /\ At(c, "category")
    /\ GoOnIf(c, req[c].input \cap Categories \subseteq ActiveTaxa, "brand")
    /\ Reads

CheckBrand(c) ==
    /\ At(c, "brand")
    /\ GoOnIf(c, req[c].input \cap Brands \subseteq ActiveTaxa,
              IF req[c].op = "create" THEN "slug" ELSE "write")
    /\ Reads

CheckSlug(c) ==
    /\ At(c, "slug")
    /\ GoOnIf(c, ~Exists(products[req[c].id]), "insert")
    /\ Reads

(* The unique index refuses a slug taken since.                            *)
InsertProduct(c) ==
    /\ At(c, "insert")
    /\ products' = IF Exists(products[req[c].id]) THEN products
                   ELSE [products EXCEPT ![req[c].id] =
                            [NewProduct EXCEPT !.taxa = req[c].input]]
    /\ Finish(c)
    /\ UNCHANGED <<variants, taxa, mispriced>> /\ Writes

(* requireProduct() and the check of the transition; archived allows none. *)
Transitions(from) ==
    CASE from = "draft" -> {"publish", "archive"}
      [] from = "published" -> {"unpublish", "archive"}
      [] OTHER -> {}

ChangeStatus(c) ==
    \E p \in Products, op \in {"publish", "unpublish", "archive"} :
        /\ Exists(products[p]) /\ op \in Transitions(products[p].status)
        /\ Arrive(c, [Call(IF op = "publish" THEN "count" ELSE "write",
                           op, p, p, {})
                      EXCEPT !.version = products[p].version])

CountActive(c) ==
    /\ At(c, "count")
    /\ GoOnIf(c, ActiveVariants(req[c].id) # {}, "write")
    /\ Reads

(* The category or the brand an update does not name is left alone.        *)
Moved(places, input) ==
    input \cup {t \in places : IF t \in Categories
                               THEN input \cap Categories = {}
                               ELSE input \cap Brands = {}}

(* The product after the write of request r.  The version is the one read, *)
(* plus one, and the write has no condition.  The update of an archiving   *)
(* carries a status, which the repository's list of fields leaves out.     *)
Written(p, r) ==
    CASE r.op = "update" ->
             [p EXCEPT !.taxa = Moved(@, r.input), !.version = r.version + 1]
      [] r.op = "publish" ->
             [p EXCEPT !.status = "published", !.version = r.version + 1]
      [] r.op = "unpublish" ->
             [p EXCEPT !.status = "draft", !.version = r.version + 1]
      [] r.op = "archive" ->
             [p EXCEPT !.deleted = TRUE, !.version = r.version + 1]

FaultyAfterProduct(c) == Finish(c)

AfterProduct(c) == Flush(c, ProductPages)

WriteProduct(c) ==
    /\ At(c, "write")
    /\ products' = [products EXCEPT ![req[c].id] = Written(@, req[c])]
    /\ AfterProduct(c)
    /\ UNCHANGED <<variants, taxa, mispriced>> /\ Writes

-----------------------------------------------------------------------------
(***************************************************************************)
(* VariantService                                                          *)
(***************************************************************************)

FaultyReprice(c) == Flush(c, ProductPages)

(* The call has changed a variant: minPrice is refreshed, then the pages   *)
(* are invalidated.                                                        *)
Reprice(c) == Become(c, [req[c] EXCEPT !.pc = "prices", !.todo = ProductPages])

CreateVariant(c) ==
    \E v \in Variants, p \in Products, price \in Prices :
        /\ Exists(products[p]) /\ products[p].status # "archived"
        /\ Arrive(c, Call("sku", "create_variant", v, p, price))

CheckSku(c) ==
    /\ At(c, "sku")
    /\ GoOnIf(c, ~Exists(variants[req[c].id]), "insert_variant")
    /\ Reads

(* The unique index refuses a SKU taken since.  The id is a new one: no    *)
(* variant with this SKU has been inserted at the same count of calls, as  *)
(* it took another call to remove it.                                      *)
InsertVariant(c) ==
    /\ At(c, "insert_variant")
    /\ IF Exists(variants[req[c].id])
       THEN Finish(c) /\ UNCHANGED variants
       ELSE /\ variants' = [variants EXCEPT ![req[c].id] =
                   [NewVariant EXCEPT !.id = calls, !.price = req[c].input,
                                      !.product = req[c].product]]
            /\ Reprice(c)
    /\ UNCHANGED <<products, taxa, mispriced>> /\ Writes

(* A new price, or a new status; None and "kept" if left out.              *)
Changes == [price: Prices, status: {"kept"}]
           \cup [price: {None}, status: {"active", "discontinued"}]

UpdateVariant(c) ==
    \E v \in Variants, input \in Changes :
        /\ Exists(variants[v])
        /\ Arrive(c, [Call("write_variant", "update_variant", v,
                           variants[v].product, input)
                      EXCEPT !.doc = variants[v].id,
                             !.version = variants[v].version])

(* The variant request r names is still there (findByIdAndUpdate and       *)
(* findByIdAndDelete).                                                     *)
Finds(r) == Exists(variants[r.id]) /\ variants[r.id].id = r.doc

FaultyRevised(doc, r) ==
    [doc EXCEPT !.version = r.version + 1, !.status = r.input.status]

(* The variant after the update of request r: the fields given change.     *)
Revised(doc, r) ==
    [doc EXCEPT !.version = r.version + 1,
                !.price = IF r.input.price = None THEN @ ELSE r.input.price,
                !.status = IF r.input.status = "kept" THEN @ ELSE r.input.status]

(* An update of a variant removed since finds nothing and goes on.         *)
WriteVariant(c) ==
    /\ At(c, "write_variant")
    /\ variants' = [variants EXCEPT ![req[c].id] =
                       IF Finds(req[c]) THEN Revised(@, req[c]) ELSE @]
    /\ Reprice(c)
    /\ UNCHANGED <<products, taxa, mispriced>> /\ Writes

RemoveVariant(c) ==
    \E v \in Variants :
        /\ Exists(variants[v])
        /\ Arrive(c, [Call("product", "remove_variant", v,
                           variants[v].product, {})
                      EXCEPT !.doc = variants[v].id])

CheckUnpublished(c) ==
    /\ At(c, "product")
    /\ GoOnIf(c, products[req[c].product].status # "published", "delete")
    /\ Reads

DeleteVariant(c) ==
    /\ At(c, "delete")
    /\ variants' = [variants EXCEPT ![req[c].id] =
                       IF Finds(req[c]) THEN Absent ELSE @]
    /\ Reprice(c)
    /\ UNCHANGED <<products, taxa, mispriced>> /\ Writes

(* refreshMinPrice()                                                       *)
ReadPrices(c) ==
    /\ At(c, "prices")
    /\ Become(c, [req[c] EXCEPT !.price = LowestPrice(req[c].product),
                                !.pc = IF ActiveVariants(req[c].product) = {}
                                       THEN "set_price" ELSE "price_version"])
    /\ Reads

ReadPriceVersion(c) ==
    /\ At(c, "price_version")
    /\ Become(c, [req[c] EXCEPT !.version = products[req[c].product].version,
                                !.pc = "set_price"])
    /\ Reads

(* clearMinPrice() leaves the version alone.  If a variant has changed     *)
(* since it was read, the price written is wrong until the next refresh.   *)
SetMinPrice(c) ==
    LET p == req[c].product
        cleared == req[c].price = None
    IN /\ At(c, "set_price")
       /\ products' = [products EXCEPT ![p].minPrice = req[c].price,
                          ![p].version = IF cleared THEN @
                                         ELSE req[c].version + 1]
       /\ mispriced' = IF req[c].price = LowestPrice(p)
                       THEN mispriced \ {p} ELSE mispriced \cup {p}
       /\ Flush(c, ProductPages)
       /\ UNCHANGED <<variants, taxa>> /\ Writes

-----------------------------------------------------------------------------
(***************************************************************************)
(* TaxonomyService.  Brands are top-level and have no children.            *)
(***************************************************************************)

(* Only an active top-level category may be a parent.                      *)
CreateTaxon(c) ==
    \E t \in Taxa, parent \in Categories \cup {Top} :
        /\ parent # Top => /\ t \in Categories /\ parent \in ActiveTaxa
                           /\ taxa[parent].parent = Top
        /\ Arrive(c, Call("taxon_slug", "create_taxon", t, {}, parent))

CheckTaxonSlug(c) ==
    /\ At(c, "taxon_slug")
    /\ GoOnIf(c, ~Exists(taxa[req[c].id]), "insert_taxon")
    /\ Reads

InsertTaxon(c) ==
    /\ At(c, "insert_taxon")
    /\ IF Exists(taxa[req[c].id])
       THEN Finish(c) /\ UNCHANGED taxa
       ELSE /\ taxa' = [taxa EXCEPT ![req[c].id] =
                   [NewTaxon EXCEPT !.parent = req[c].input]]
            /\ Flush(c, TaxonomyPages)
    /\ UNCHANGED <<products, variants, mispriced>> /\ Writes

UpdateTaxon(c) ==
    \E t \in Taxa :
        /\ Exists(taxa[t])
        /\ Arrive(c, Call("write_taxon", "rename", t, {}, {}))

(* archiveCategory() and archiveBrand()                                    *)
ArchiveTaxon(c) ==
    \E t \in Taxa :
        /\ Exists(taxa[t])
        /\ Arrive(c, Call(IF t \in Categories THEN "children" ELSE "references",
                          "archive_taxon", t, {}, {}))

CheckChildren(c) ==
    /\ At(c, "children")
    /\ GoOnIf(c, Children(req[c].id) = {}, "references")
    /\ Reads

FaultyCheckReferences(c) ==
    /\ At(c, "references")
    /\ Goto(c, "write_taxon")
    /\ Reads

CheckReferences(c) ==
    /\ At(c, "references")
    /\ GoOnIf(c, References(req[c].id) = {}, "write_taxon")
    /\ Reads

(* The category or brand after the write of request r.                     *)
Amended(doc, r) ==
    IF r.op = "rename" THEN [doc EXCEPT !.name = @ + 1]
    ELSE [doc EXCEPT !.status = "archived"]

WriteTaxon(c) ==
    /\ At(c, "write_taxon")
    /\ taxa' = [taxa EXCEPT ![req[c].id] = Amended(@, req[c])]
    /\ Flush(c, TaxonomyPages)
    /\ UNCHANGED <<products, variants, mispriced>> /\ Writes

-----------------------------------------------------------------------------
(***************************************************************************)
(* The cache: cacheInvalidate() asks for the keys of a pattern and deletes *)
(* what it got; a page read is cached whatever has happened meanwhile, for *)
(* a limited time.                                                         *)
(***************************************************************************)

IsCached(page) == cache[page] # NoPage

(* The pages the call of c has yet to see out of the cache.                *)
ToFlush(c) ==
    IF c \in Admins /\ Busy(c)
    THEN (UNION {req[c].todo[i] : i \in DOMAIN req[c].todo}) \cup req[c].found
    ELSE {}

Keys(c) ==
    LET found == {page \in Head(req[c].todo) : IsCached(page)}
        rest == Tail(req[c].todo)
    IN /\ At(c, "keys")
       /\ IF found # {}
          THEN Become(c, [req[c] EXCEPT !.pc = "del", !.found = found,
                                        !.todo = rest])
          ELSE IF rest = <<>> THEN Finish(c)
               ELSE Become(c, [req[c] EXCEPT !.todo = rest])
       /\ Reads

Del(c) ==
    /\ At(c, "del")
    /\ cache' = [page \in Pages |->
                    IF page \in req[c].found THEN NoPage ELSE cache[page]]
    /\ excused' = excused \ req[c].found
    /\ IF req[c].todo = <<>> THEN Finish(c)
       ELSE Become(c, [req[c] EXCEPT !.pc = "keys", !.found = {}])
    /\ UNCHANGED <<db, counts, mispriced, overlapped>>

(* A shopper asks for a page.  A hit is answered at once; otherwise, or if *)
(* Redis cannot be asked, the page is read from the database.              *)
GetPage(c) ==
    \E page \in Pages :
        /\ ~Busy(c) /\ calls < MaxCalls
        /\ Become(c, [NoRead EXCEPT !.page = page])
        /\ calls' = calls + 1
        /\ \/ ~IsCached(page) /\ UNCHANGED failures
           \/ /\ IsCached(page) /\ failures < MaxFailures
              /\ failures' = failures + 1
        /\ UNCHANGED <<db, cache, ghosts>>

ReadFirst(c) ==
    /\ At(c, "first")
    /\ IF IsShown(req[c].page)
       THEN Become(c, [req[c] EXCEPT !.pc = "second",
                                     !.first = FirstPart(req[c].page)])
       ELSE Finish(c)
    /\ Reads

ReadSecond(c) ==
    /\ At(c, "second")
    /\ Become(c, [req[c] EXCEPT !.pc = "set",
                                !.first = Page(req[c].page, req[c].first)])
    /\ Reads

SetPage(c) ==
    LET page == req[c].page
    IN /\ At(c, "set")
       /\ cache' = [cache EXCEPT ![page] = req[c].first]
       /\ excused' = IF req[c].first.body = Truth(page).body
                     THEN excused \ {page} ELSE excused \cup {page}
       /\ Finish(c)
       /\ UNCHANGED <<db, counts, mispriced, overlapped>>

FaultyExpire(page) ==
    /\ IsCached(page) /\ page = "search"
    /\ cache' = [cache EXCEPT ![page] = NoPage]
    /\ excused' = excused \ {page}
    /\ UNCHANGED <<db, req, counts, mispriced, overlapped>>

(* The time to live of a key has passed.                                   *)
Expire(page) ==
    /\ IsCached(page)
    /\ cache' = [cache EXCEPT ![page] = NoPage]
    /\ excused' = excused \ {page}
    /\ UNCHANGED <<db, req, counts, mispriced, overlapped>>

-----------------------------------------------------------------------------
(***************************************************************************)
(* Failures                                                                *)
(***************************************************************************)

(* Redis refuses an invalidation, or is down; cacheInvalidate() returns.   *)
FlushFails(c) ==
    /\ (At(c, "keys") \/ At(c, "del")) /\ failures < MaxFailures
    /\ failures' = failures + 1
    /\ LET now == IF At(c, "del") THEN req[c].found ELSE Head(req[c].todo)
           rest == IF At(c, "del") THEN req[c].todo ELSE Tail(req[c].todo)
       IN /\ excused' = excused \cup now
          /\ IF rest = <<>> THEN Finish(c)
             ELSE Become(c, [req[c] EXCEPT !.pc = "keys", !.todo = rest,
                                           !.found = {}])
    /\ UNCHANGED <<db, cache, calls, mispriced, overlapped>>

RefreshSteps == {"prices", "price_version", "set_price"}

(* A call to Mongo is rejected, or the process ends; nothing is undone.    *)
(* (A read of a page that ends early leaves nothing behind.)               *)
Dies(c) ==
    /\ Busy(c) /\ failures < MaxFailures
    /\ failures' = failures + 1
    /\ Finish(c)
    /\ excused' = excused \cup ToFlush(c)
    /\ mispriced' = IF req[c].pc \in RefreshSteps
                    THEN mispriced \cup {req[c].product} ELSE mispriced
    /\ UNCHANGED <<db, cache, calls, overlapped>>

-----------------------------------------------------------------------------
Arrives(c) ==
    \/ CreateProduct(c) \/ UpdateProduct(c) \/ ChangeStatus(c)
    \/ CreateVariant(c) \/ UpdateVariant(c) \/ RemoveVariant(c)
    \/ CreateTaxon(c) \/ UpdateTaxon(c) \/ ArchiveTaxon(c)

Continues(c) ==
    \/ CheckCategory(c) \/ CheckBrand(c) \/ CheckSlug(c) \/ InsertProduct(c)
    \/ CountActive(c) \/ WriteProduct(c)
    \/ CheckSku(c) \/ InsertVariant(c) \/ WriteVariant(c)
    \/ CheckUnpublished(c) \/ DeleteVariant(c)
    \/ ReadPrices(c) \/ ReadPriceVersion(c) \/ SetMinPrice(c)
    \/ CheckTaxonSlug(c) \/ InsertTaxon(c) \/ CheckChildren(c)
    \/ CheckReferences(c) \/ WriteTaxon(c)
    \/ Keys(c) \/ Del(c)

Serves(c) == ReadFirst(c) \/ ReadSecond(c) \/ SetPage(c)

Next ==
    \/ \E c \in Admins : Arrives(c) \/ Continues(c) \/ FlushFails(c) \/ Dies(c)
    \/ \E c \in Shoppers : GetPage(c) \/ Serves(c)
    \/ \E page \in Pages : Expire(page)

Spec == Init /\ [][Next]_vars

(* The event loop runs what is ready, and Redis drops what has expired.    *)
FairSpec ==
    /\ Spec
    /\ \A c \in Admins : WF_vars(Continues(c))
    /\ \A c \in Shoppers : WF_vars(Serves(c))
    /\ \A page \in Pages : WF_vars(Expire(page))

-----------------------------------------------------------------------------
(***************************************************************************)
(* Properties                                                              *)
(***************************************************************************)

RequestOK(c) ==
    IF c \in Shoppers
    THEN req[c] = Idle \/ req[c].pc \in {"first", "second", "set"}
    ELSE req[c] = Idle \/ /\ req[c].version \in Nat
                          /\ req[c].price \in Prices \cup {None}
                          /\ ToFlush(c) \subseteq Pages

TypeOK ==
    /\ Settled([products |-> products, variants |-> variants, taxa |-> taxa])
    /\ DOMAIN cache = Pages
    /\ \A c \in Clients : RequestOK(c)
    /\ calls \in 0..MaxCalls /\ failures \in 0..MaxFailures
    /\ excused \subseteq Pages /\ mispriced \subseteq Products
    /\ overlapped \in BOOLEAN

(* The call of c has changed a variant of p and has yet to bring minPrice  *)
(* up to date.                                                             *)
WillReprice(c, p) ==
    Busy(c) /\ req[c].pc \in RefreshSteps /\ req[c].product = p

(* A cached page that differs from the catalog is one that a call in       *)
(* flight is going to drop, or that was read before a change and cached    *)
(* after it, or whose invalidation failed: every write invalidates every   *)
(* page it can be seen on (catalog-cache.ts, and the three invalidations   *)
(* at the end of each operation).                                          *)
StaleIsExcused ==
    \A page \in Pages :
        IsCached(page) /\ cache[page].body # Truth(page).body =>
            \/ page \in excused
            \/ \E c \in Admins : page \in ToFlush(c)

(* A product's minPrice is the lowest price of its active variants unless  *)
(* a call in flight is going to refresh it, or two refreshes crossed, or   *)
(* one never happened (refreshMinPrice of ProductService).                 *)
MinPriceIsExplained ==
    \A p \in Products :
        Exists(products[p]) /\ ~PriceIsRight(p) =>
            \/ p \in mispriced
            \/ \E c \in Admins : WillReprice(c, p)

(* As long as admins work one at a time, whatever fails: no product that   *)
(* is not archived refers to an archived category or brand, and no active  *)
(* category lies under an archived one (the checks of archiveCategory,     *)
(* archiveBrand, createProduct, updateProduct and createCategory).         *)
ReferencesLive == overlapped \/ LiveReferences

(* Once nobody changes the catalog any more, the cached pages come to tell *)
(* the truth, names of categories and brands included, although a stale    *)
(* page may have been cached last (the TTLs of catalog-cache.ts).          *)
CacheHeals ==
    <>[](\A page \in Pages : IsCached(page) => cache[page] = Truth(page))

=============================================================================
