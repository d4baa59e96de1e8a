# Verification of the e-commerce API

TLA+ models of `rest-ecommerce-api`, model-checked with TLC and, where marked, proved with
TLAPS. Source paths below are relative to `src/`.

The service is an Express application. Every request is one asynchronous function; Node
interleaves requests at each `await`. State lives in MongoDB and Redis. Each repository call is
one atomic operation on one document; there are no transactions over several documents, no
in-process locks, and several server processes may run. All the models below have the same
grain: **one action is one awaited call (a Mongo operation, a Redis command), with the code
that runs without yielding until the next one**. A process that dies, or a call that is
rejected, ends a request between two actions. A request that is answered without any change of
state is not an action, unless what it reads matters later.

## Components

| Component | State it keeps | Operations | What is hard | What makes it correct | Status |
| --- | --- | --- | --- | --- | --- |
| inventory (`src/modules/inventory`) | stock records, reservations, movement ledger | ensure, adjust, reserve, release, confirm, expiry sweep | three collections updated one after the other; retries; overlapping sweeps; crash between two updates | no overselling; every reserved unit belongs to someone; terminal states final; ledger explains the stock; due reservations are closed | `Inventory`, `Claims`; proofs |
| checkout (`src/modules/checkout`) | checkouts with reservation references and a version | create, validate, reserve, cancel, update address, expire, complete | a saga over inventory with compensation; version and status conditions; expiry by the caller and by a sweep | no unit stays reserved for a dead checkout; a completed checkout owns its units; one checkout per key | `Checkout`; proofs |
| cart (`src/modules/cart`) | one cart per user, versioned | get or create, add/merge, update, remove, clear, convert | merge or push in separate updates; overflow undone by a second update | limits; one line per SKU; no excess that stays | `Cart`; proofs |
| idempotency middleware (`src/modules/cart/infrastructure/idempotency`) | stored responses in Redis | look up, run, answer, store | check-then-act; the answer precedes the store; Redis away | one effect per key for whoever can find the answer | `Cart`; proofs |
| wishlist (`src/modules/wishlist`) | one list per user | add, remove, list by pages | duplicate check and push; cursors that outlive their item | no duplicates, limit, complete walks | `Wishlist`; proofs |
| catalog (`src/modules/catalog`) | products, variants, categories, brands; cached pages in Redis | create, update, publish, archive, remove; read pages | checks and writes in separate calls; derived `minPrice`; invalidation after the write | stale pages and prices have a reason and go away; references stay live | `Catalog`; proofs |
| outbox (`src/modules/catalog/infrastructure/database/outbox.repository.ts`) | event records | insert; claim, mark | a publisher that dies after claiming | events are delivered | not modelled |
| media (`src/modules/catalog`) | none | sign an upload URL | nothing concurrent | | not modelled |
| auth (`src/modules/auth`) | users, tokens, one-time codes in Redis | register, login, refresh, logout, logout everywhere, reset, change password, codes | refresh and login check before they write; revocation in two collections; attempts counted by separate commands | revoked stays revoked; a refresh token is spent once; bounded sessions and guesses; lockouts end | `Accounts`, `Otp`; proofs. Partly: verification of e-mail addresses is left out |
| sessions (`src/modules/sessions`) | sessions | revoke one, revoke the others | as auth | as auth | `Accounts`; proofs |
| users (`src/modules/users`) | profiles | update, deactivate, change phone | version check without conditional write | updates are lost only by overlap | `Accounts`, `Otp`; proofs |
| rate limiter (`src/infrastructure/redis`) | counters with a lifetime | choose a policy, count a request | several commands per request; Redis away | bounded windows; refusals end | `Limiter`; proofs |
| server lifecycle and configuration (`src/server.ts`, `src/config`) | connections, mounted modules | start, load, serve, shut down | nested try blocks; the order of closing; the forced exit | a failed part takes only its dependents; no store closes under a connection; only a busy socket holds the shutdown | `Lifecycle`; proofs |
| shared kernel, API documents, observability | none | helpers | nothing concurrent | | not modelled |

How they interact. Inventory is called over HTTP and by checkout
(`checkout-inventory.adapter.ts`); catalog calls its bootstrap handler when a variant is
created; carts and wishlists read catalog and availability. The middleware of auth looks at a
token and its session before any protected request, and the rate limiter before all of them.
Events leave through the outbox after the state change; an error in publishing is logged and
ignored, so nothing modelled depends on it.

## Modules

| Module | Role |
| --- | --- |
| `Claims` | what the inventory service promises to its callers, in single steps |
| `Inventory` | the inventory service; implements `Claims` |
| `Checkout` | the checkout saga, built on `Claims` |
| `Tally` | sums of quantities as cardinalities |
| `Catalog`, `Accounts`, `Cart`, `Wishlist`, `Otp`, `Limiter`, `Lifecycle` | one component each |
| `MCInventory`, `MCCheckout`, `MCCatalog`, `MCLimiter` | constants a `.cfg` cannot write (`shutdown_timeout` needs none and runs `Lifecycle` itself) |
| `MCCustomer` | account, cart and wishlist of one customer in one run |
| `MCEdge` | codes, rate limiter and process in one run |
| `InventoryProofs`, `InventoryLedgerProofs`, `CheckoutProofs`, `AccountsProofs`, `CatalogProofs`, `LifecycleProofs` | theorems about one component each |
| `CustomerProofs`, `EdgeProofs` | theorems about the parts of `MCCustomer` and `MCEdge` |

`MCCustomer` and `MCEdge` instantiate components that share no state. The first state chooses one
of them, which then runs alone, so that a run explores the sum of their states and not the
product; nothing is lost, as no step of one is visible to another.

Definitions whose name begins with `Faulty` are variants with a fault seeded, against which the
properties are tried (a merge that does not undo, a push without the duplicate filter, a
revocation left out). No specification uses them.

## Inventory

### State

| Variable | Code |
| --- | --- |
| `stock[s]` | the document of SKU s in `inventories`: `onHand`, `reserved`, `sold`; `exists` says whether it was created |
| `reservations[k]` | the document with idempotency key k in `inventory_reservations` (unique index `uq_reservation_idem`): status, SKU, quantity |
| `due` | keys of reservations whose `expiresAt` has passed. There is no clock: a reservation may fall due at any time |
| `posted` | idempotency keys in `inventory_movements` |
| `received[s]` | sum of the deltas of the `INIT` and `ADJUST` entries of s |
| `req[c]` | the request running in slot c: `pc` names the call it makes next, the other fields are the variables of the method that are still needed |
| `stranded[s]` | history: units that a request held when it failed |
| `failures` | number of failures so far (bound only) |

### Actions

`EnsureStart/Create/Append` are `ensureInventory` and the bootstrap handler;
`AdjustStart/Apply/Append` are `adjust`; `ReserveStart/Stock/Create/Undo/Replay/Append` are
`reserve`; `ReleaseStart/Transition/Stock/Append` are `release`, called by a request or by the
sweep; `ConfirmStart/Transition/Stock/Append` are `confirm`; `SweepStart/SweepNext` are
`expireReservations`. A request that is answered without a change of state (an unknown SKU, a
reservation already closed, a different payload under a used key) is not an action. Reads
are merged with the following code except where the state may change before it is used.

`CallThrows` rejects any awaited call before it had an effect and ends the request;
`CreateThrows` is the same for the insert in `reserve`, which the code compensates;
`SweepItemThrows` and a `CallThrows` inside the sweep are caught by its loop. `Crash` ends a
request where it is. No code resumes a request.

### Properties

| Property | Kind | Says |
| --- | --- | --- |
| `TypeOK` | invariant | types; the counters are natural numbers |
| `StockInvariant` | invariant | `reserved <= onHand`, the part of `satisfiesQuantityInvariants` that needs the conditional updates to be right |
| `ReservedIsHeld` | invariant | every reserved unit belongs to an active reservation, to the request that is moving it, or is in `stranded` |
| `ClosedFindsItsUnits` | invariant | the stock update after a transition never finds too few units |
| `SoldIsConfirmed` | invariant | `sold` is what confirmed reservations took, never twice |
| `LedgerTellsStatus` | invariant | the closing entry is that of the status; one entry per fate; none missing unless somebody is about to write it or something failed |
| `LedgerAccountsForStock` | invariant | `onHand + sold` is the sum of receipts in the ledger |
| `TerminalIsFinal` | action | a closed reservation never changes; SKU and quantity never change |
| `KeepsPromise` | refinement | seen from outside, reservations are made and ended in single steps within the units received: `Inventory` implements `Claims` with `supply = onHand + sold` |
| `DueIsClosed` | liveness | a due reservation is eventually closed |
| `RetryRestoresEntry` | action | an answered retry of `reserve` leaves the entry in the ledger |

### Runs

| Run | Instance | Result |
| --- | --- | --- |
| `inventory_safety` | 1 SKU, 2 reservation keys, 2 request slots, 1 sweep, quantities 1 and 2, opening stock 2, adjustments of -1 with and without a key, one failure | holds |
| `inventory_liveness` | the same without keyed adjustments, quantity 1, opening stock 1, sweep limit 1, one failure, fairness | holds |
| `inventory_adjust_retry` | two adjustments, no failure | `LedgerAccountsForStock` violated |
| `inventory_reserve_retry` | one failure | `RetryRestoresEntry` violated |

Why these bounds are enough to be interesting. Stock of 2 against two reservations of up to 2
units makes requests compete for the last unit, on the same key and on different keys. Two
requests and a sweep give every pair of operations on one reservation, and three parties when
the sweep is between two calls. The negative adjustment competes with reservations for the
same units. One failure anywhere, in any of the three, covers each compensation path; the
safety properties also hold with two failures (2.4 million states). One SKU is
enough because no operation touches two SKUs; the theorems cover any number. `MaxOnHand` bounds
the adjustments, `MaxFailures` the failures; slots are reused, so the number of requests is not
bounded.

Fairness. `FairSpec` assumes that a request that has not failed goes on (Node runs every
callback of a settled promise), and that the sweep endpoint is called again and again, as
`docs/inventory/reservation.md` says of its scheduler. No request is obliged to arrive and
failures are bounded, not fair. `findActiveExpired` takes the oldest reservations first; the
model lets it take any within its limit, so liveness does not rest on the order.

### Where the code and its documents disagree

* `docs/inventory/domain-model.md:24-26` says that `onHand + sold` equals the receipts less
  write-offs "all visible in the movement ledger". `adjust` looks for its key in the ledger
  first and appends last. Two overlapping calls with one key both find nothing, both change
  the stock, and the second entry is ignored as a duplicate (`inventory_adjust_retry`).
* `docs/inventory/failure-handling.md:8` says of a failed movement write that a "retry replays
  reservation and re-inserts movement idempotently". The replay in `reserve` returns before it
  reaches the append (`inventory_reserve_retry`).

## Checkout

`Checkout` models `CheckoutService` with its repository, over the inventory service as `Claims`
describes it. The variables `supply` and `claims` are those of `Claims`; `reserve` and `release`
of the adapter are its actions `Claim` and `End`. Since `Inventory` implements `Claims`, the calls
may be taken as single steps; what the real ones refuse for reasons `Claims` does not see (units
on their way back) is covered by `LineThrows`, which may happen at any time.

| Variable | Code |
| --- | --- |
| `checkouts[id]` | the document of one user and idempotency key: status, version, lines, references |
| `clock[id]` | whether `expiresAt` is ahead, less than a second ahead, or past. The TTL of reservations is the remaining life rounded down to seconds, so they may expire in the closing second |
| `supply`, `claims` | the inventory service, by SKU and by `<checkoutId>:<sku>` |
| `req[c]` | the request in slot c: `version` is the one it compares with, `made` the lines it reserved, `todo` the lines it goes through, `after` what follows `compensate()`, `batch` the copies a sweep still has to visit |

`Create` is `createCheckout`; `ValidateStart`, `MarkFailed` are `validateCheckout`;
`ReserveStart/Begin/Line`, `LineThrows`, `SetRefs`, `MakeReady` are `reserveCheckout`;
`CancelStart/Cancel`, `UpdateStart/Update`, `OrderStart/Complete` are `cancelCheckout`,
`updateAddress` and the completion port; `ExpireStart/Expire` are `requireLive` of a checkout past
its expiry, on which every operation ends; `SweepStart/SweepNext` are `expireCheckouts`;
`Compensate` is one `release` of `compensate`. Revalidation reads the cart and the catalog, which may have
changed at any time, so its outcome is a free choice. Callers may send any expected version.

| Property | Kind | Says |
| --- | --- | --- |
| `TypeOK` | invariant | types |
| `NothingForgotten` | invariant | without failures every active reservation is referenced by its checkout or in the hands of a request |
| `HoldsUntilDue` | invariant | a ready or completed checkout holds all its lines until its last second |
| `CancelledHoldsNothing` | invariant | a cancelled checkout nobody works on holds nothing |
| `FollowsMachine` | action | status changes are those of `ALLOWED_TRANSITIONS`, although two updates compare versions only |
| `DueIsClosed` | liveness | a checkout past its expiry is eventually closed |
| `StockDiesWithCheckout` | invariant | no closed checkout holds units |
| `CompletedKeepsUnits` | invariant | a completed checkout's reservations are not released |

| Run | Instance | Result |
| --- | --- | --- |
| `checkout_saga` | 1 checkout, lines for 2 SKUs, 2 request slots, 1 sweep, address updates at version 0, one failure, fairness as above | holds |
| `checkout_stock` | no failure | `StockDiesWithCheckout` violated |
| `checkout_complete` | no failure | `CompletedKeepsUnits` violated |

One checkout is enough for most questions because checkouts meet only in the supply, and running
out of it is `LineThrows`; the invariants also hold with two checkouts competing for one unit of
one SKU, a sweep of both and one failure (6.1 million states). Two lines make partial
reservation and partial compensation happen. Two requests beside the sweep give every pair of
operations with a third party. `MaxUpdates` bounds address updates, the only operation that can be
repeated; at version 0 it races with the begin of the saga, with validation and with
cancellation. Releases of a checkout's reservations by an administrator through the inventory
routes are not modelled, and nothing in the repository confirms reservations after completion.

Where the code and its documents disagree:

* `docs/checkout/inventory-integration.md:27-28`: "stock can never outlive its checkout". A
  failed validation closes a ready checkout and releases nothing (`checkout_stock`).
* `docs/checkout/concurrency.md:7-8`: "exactly one wins; losers replay or 409", and
  `state-machine.md:25`. An expiry releases first and then transitions, without a version; it may
  lose to `complete` after it has released (`checkout_complete`).

## Catalog

`Catalog` models products, their variants, the categories and brands they refer to, and the
cache of the public pages. Documents are named by their unique keys (slug, SKU). A variant
also has an `id`: one that is removed and created again under its SKU is another document, which
an update or a removal that looked up the older one does not find (`Finds`). Texts, media and
attributes are left out; `name` counts the renames of a category or brand.

| Variable | Code |
| --- | --- |
| `products`, `variants`, `taxa` | the documents: status, version, `minPrice`, category and brand (of which an update may name either, both or neither), `deletedAt`; price, status and product; parent and name |
| `cache[page]` | the entries under `product:*`, `search:*` with `suggest:*`, `categories:*` with `brands:*`: what a read of the database found (`body`), and the names the product page also shows (`names`) |
| `req[c]` | an admin's call or a shopper's read: its next step, what it has read, the key patterns still to be invalidated (`todo`), the keys that KEYS answered (`found`) |
| `excused` | history: pages cached after a change they do not show, or missed by an invalidation that failed |
| `mispriced` | history: products whose `minPrice` was set from variants that had changed, or not set at all |
| `overlapped` | history: two calls of admins have been in flight together |

| Actions | Code |
| --- | --- |
| `CreateProduct`, `CheckCategory/Brand/Slug`, `InsertProduct`; `UpdateProduct`, `ChangeStatus`, `CountActive`, `WriteProduct` | `ProductService`: create, update, publish, unpublish, archive |
| `CreateVariant`, `CheckSku`, `InsertVariant`; `UpdateVariant`, `WriteVariant`; `RemoveVariant`, `CheckUnpublished`, `DeleteVariant` | `VariantService` |
| `ReadPrices`, `ReadPriceVersion`, `SetMinPrice` | `refreshMinPrice` |
| `CreateTaxon`, `CheckTaxonSlug`, `InsertTaxon`; `UpdateTaxon`; `ArchiveTaxon`, `CheckChildren`, `CheckReferences`; `WriteTaxon` | `TaxonomyService`, for categories and brands |
| `Keys`, `Del`, `FlushFails` | `cacheInvalidate` |
| `GetPage`, `ReadFirst`, `ReadSecond`, `SetPage` | a public page: cache, two reads of the database, SETEX |
| `Expire` | the TTL of an entry |
| `Dies` | a rejected call, or the end of the process |

| Property | Kind | Says |
| --- | --- | --- |
| `TypeOK` | invariant | types |
| `StaleIsExcused` | invariant | a cached page that differs from the catalog is one a call in flight will drop, was read before a change and cached after it, or its invalidation failed; nothing else makes a page stale |
| `MinPriceIsExplained` | invariant | `minPrice` is the lowest active price unless a refresh is under way, two of them crossed, or one was cut short |
| `ReferencesLive` | invariant | while admins do not overlap, no live product refers to an archived category or brand and no active category has an archived parent |
| `CacheHeals` | liveness | when changes stop, what is cached comes to tell the truth |

| Run | Instance | Result |
| --- | --- | --- |
| `catalog_pages` | 1 product, 2 variants, 2 categories, 1 brand, 2 prices, 2 admins, 1 shopper, two calls of any kind, one failure; from three databases | holds |

Two calls are the smallest number for which a race exists, and every pair of operations, and
every pair of an operation and a read, is among them. The three databases (nothing but a category
and a brand; a draft with a variant; a published product with one, and a subcategory) make each
operation possible as the first of the two, so that the calls are not spent on reaching an
interesting state. `Init` asks of any database one may add to them that it is in order
(`Orderly`): variants belong to products, brands have no parent, prices are right and references
live. Two variants and two prices let a lowest price move. One page at most is
cached at first, as nothing relates one page to another.

Fairness. `FairSpec` assumes that calls that have not failed go on, and that Redis expires
entries. `CacheHeals` needs nothing of shoppers: a page nobody reads again expires.

## Account, sessions and users

`Accounts` models one account: the user record and the tokens and sessions of its owner.
Accounts share nothing. A *grant* is what one registration, login or refresh makes: an access
token, a refresh token and, for the last two, a session.

| Variable | Code |
| --- | --- |
| `user` | status and version of the record |
| `tokens[<<g, kind>>]` | the token document: `isRevoked` or `isUsed` is `"spent"`, past `expiresAt` is `"lapsed"` |
| `sessions[g]` | the session document |
| `made`, `given` | grants made, and those whose tokens have been answered to the owner |
| `req[c]` | the request in slot c: operation, next step, the grant presented (`grant`), made (`new`) or aimed at (`target`), the version read, and `known`: what had been given when it arrived |
| `condemned` | history: what had been given before a call arrived that has since answered that everything is revoked |
| `rotated` | history: grants whose refresh has been answered |
| `writes`, `overlapped`, `crowded` | history: updates of the profile made; two of them, or two logins or refreshes, have overlapped |

`Register/SaveUser`, `Login/CountSessions`, `Refresh/FindUser/Retire/FindSession/RevokeOld/RevokeOldAccess`
and then `SaveAccess/SaveRefresh/CreateSession` are `register`, `login` and `refreshTokens`.
`Authenticated` and `CheckSession` are the middleware. `FindToken` to `RevokeOwnSession` are
`logout`; `RevokeAllTokens` and `RevokeAllSessions` end `logoutAll`, `changePassword`,
`resetPassword` and, in the other order, `deactivate`; `FindTarget` to `RevokeTargetRefresh` and
`FindCurrent`, `RevokeOthers` are `SessionService`; `ReadUser`, `WriteProfile`, `WriteStatus` are
`UserService`. `Swallowed` is an update whose rejection the code catches, `Dies` any other
rejection or crash, `Lapse` the end of a token's or a session's life.

`isRevoked` and `isUsed` are set by two calls in a row and only read together; they are one
action. The model follows the port `TokenProvider` and its tests, where tokens carry `jti` and
`exp` (see Disagreements).

| Property | Kind | Says |
| --- | --- | --- |
| `CondemnedStayDead` | invariant | what a password change or reset, a logout from everywhere or a deactivation revoked is never good again, whatever refreshes were under way |
| `RotatedOnce` | invariant | after a refresh is answered its token is spent and its session over |
| `SessionsHaveTokens` | invariant | no active session lacks a token |
| `OnlyOverlapExceeds` | invariant | more than `MAX_SESSIONS` sessions only after overlapping logins or refreshes |
| `LostOnlyByOverlap` | invariant | an update of the profile is lost only by overlap |

The first three are about what the owner *held*: a refresh that is under way while the password
changes may well save new tokens afterwards, and the model lets it.

## Cart and idempotency

`Cart` is one customer's cart under `CartService`, `MongoCartRepository` and the idempotency
middleware, with one key.

| Variable | Code |
| --- | --- |
| `cart` | the document: status, version, lines (a line's `id` is the number of the add that made it) |
| `record` | an answer is stored under the idempotency key, and its 24 hours have not passed |
| `order[c]` | the request in slot c: next step, SKU, quantity, expected version, line, whether it carries the key |
| `tangled` | history: a line was written while its overflow was being undone, or the undoing was cut short |
| `applied` | history: how often an add with the key took effect |
| `forgotten` | history: an answer was lost before it was stored or has lapsed, and none is stored since |
| `overtaken` | history: adds with the key that went on although one was stored that their look-up failed to read, or another add was past its look-up, or an answer was forgotten |

`ReadCart/Insert/Revive` are `getOrCreate`; `Lookup` is the middleware's read, `LookupFails` the
same with Redis away or the GET rejected, upon which the add goes on as if nothing were stored;
`Merge/Undo/Push` are `addOrMergeItem`, `Store` is the middleware's write after the answer; `UpdateItem/FindLine/SetQuantity`,
`RemoveItem/Pull`, `ClearCart/Empty` and `Reread` are the other operations; `MarkConverted` is
the hook for orders; `Lapse` is the TTL index of carts, `RecordLapses` the lifetime of a stored
answer. `Dies` before `Store` is also the write that Redis does not take, which the code skips.

The answer of every operation is the view of the cart. `toView` refuses to make one of a cart with
more than `CART_MAX_LINES` lines; the write has then been done, and the refusal (422) is an
answer like any other, stored under the key. A view that cannot be made since the catalog fails
is a request cut short. Neither changes the cart, so the model has no action for them.

| Property | Kind | Says |
| --- | --- | --- |
| `LinesDistinct` (in `NothingTwice`) | invariant | one line per SKU, and at most one line over the maximum |
| `ExcessIsExcused` | invariant | a line over the maximum quantity is about to be put back, unless another request wrote it meanwhile or the undoing was cut short |
| `KeyAppliesOnce` | invariant | an add with the key takes effect once, and once more only for each repetition that could not know: its own look-up failed, or it was sent before the answer of an earlier one was stored, or after that answer was lost or had lapsed |

`KeyAppliesOnce` does not say that the key is always safe. While Redis is away every repetition
runs (`redis-idempotency.ts:30,37-40`), which `docs/cart/failure-handling.md:15` announces: "Idempotency/rate-limit
degrade per existing policy (warn + continue". What it does say is that nothing else makes an add run again,
and that each repetition that could not know adds one effect at most.

## Wishlist

`Wishlist` is one customer's list. `present` and `items` are the document (items are numbered in
the order of `addedAt`), `wish` the requests, `cursor`, `listed` and `steady` a client's walk
through the pages: where it is, what it has seen, what has been on the list all the time.
`Read/Insert` are `getOrCreate`, `AddItem/CheckDuplicate/Push` are `addItem` with the filter of
its push as it is written (`Conflicts`), `RemoveItem/Pull` are `removeItem`, `Ask` and `TurnPage`
are `list`.

`ItemsDistinct` (in `NothingTwice`): no variant twice, no product without variant twice, one item
over the maximum at most. `WalkComplete`: a walk to the last page has shown everything that was
on the list all through it, although the item its cursor names may be removed between two pages.

### Run of the three

| Run | Instance | Result |
| --- | --- | --- |
| `customer` | 2 clients; account: `MAX_SESSIONS` 2, 3 grants, 3 calls, 1 mishap, from no account, no session or one; cart: 3 SKUs, quantities to 2, one line, 3 calls, 1 failure; wishlist: 2 products with a variant, 2 items, pages of 1, 4 calls, 1 mishap | holds (846 thousand states) |

Two slots give every pair of overlapping requests, and the third call what comes after: a
refresh that overlaps a password change and then a use of what either left. The account starts
with one session at most (`MaxLive`), so that one login is enough to reach the limit and two more
calls may overlap at it, or two that overlap pass it. With one line
allowed and three SKUs the cart passes its limit of lines, with quantities 1 and 2 its limit of
quantity; the limits of the code (50 and 200) play the same part. The wishlist takes one call
more: three adds pass its limit, and another request may come between them. Clients and SKUs
are interchangeable (`Symmetry`); the run checks no liveness.

## One-time codes

`Otp` is `RedisOtpService` for one identifier: two keys, each with a lifetime of `otpTtlSeconds`.

| Variable | Code |
| --- | --- |
| `code`, `attempts` | the two keys |
| `expires`, `outlives` | whether the key of the attempts has a lifetime, and whether it ends after that of the code |
| `call[c]` | the request in slot c |
| `spent`, `tries[k]` | history: codes whose acceptance has been answered; guesses compared with code k while it was stored |
| `wiped` | history: the count was dropped under a newer code, or ended between INCR and EXPIRE |
| `orphaned` | history: a call was cut short before the EXPIRE that was to give this count its lifetime, and neither another EXPIRE nor a DEL has come since |

`Generate` (SET NX), `SetAttempts` are `generateOtp`; `Submit` (GET), `GetAttempts`, `Incr`,
`Expire`, `DelCode`, `DelAttempts` are `verifyOtp`, followed by `invalidateOtp` for a phone;
`CodeLapses`, `AttemptsLapse` are the lifetimes; `Dies` cuts a call short.

`SpentOnce`: a code whose acceptance was answered is never stored again. `GuessesBounded`: at
most `maxAttempts` guesses, one more for each other request in flight and for each call cut
short, are compared with one code, unless `wiped`. `LockoutEnds`: attempts at the limit come to
fall, unless this very count was `orphaned`; no other failure is excused.

## Rate limiter

`Limiter` is `rate-limiter.ts` with its middleware for one caller. `count`, `timed` are the
counter of each route and whether it has a lifetime, `redis` says whether the connection is
there, `checks[c]` is the request being checked, `passed` counts what was let through in this
window, `unchecked` the routes let through because Redis was away, `untimed` the routes whose
counter lost the command that was to give it a lifetime. `DefaultPolicies` is
`buildDefaultPolicies`, `PolicyOf` is `resolvePolicy`; `Check` (INCR), `Expire` (EXPIRE NX), `Decide`
(TTL) are `check`; `CheckUnavailable` and `Rejected` are the ways it fails open or closed;
`WindowEnds`, `Loses`, `Reconnects` are Redis. `passed` leaves out a request whose window ended
before it was answered.

`WindowBounded`: no window lets more through on its count than the limit. `RefusalEnds`: a
counter past its limit is dropped, unless the command that was to give this counter its lifetime
failed; failures on another route or of another command are not excused.
`FailClosedHolds`: a route that a `failClosed` policy names is refused while Redis is away
(violated).

## Server lifecycle

`Lifecycle` is `server.ts`. `pc` is the next step of the process; `mounted`, `broken` what has been
loaded and what failed to; `db`, `redis` the stores; `connection[c]` a socket with its request:
`"busy"` while bytes are under way on it, `"quiet"` when none are, `"detached"` once the server has
destroyed it and the handler goes on; `signalled`, `timer`, `code` the shutdown. `ConnectDatabase`, `ConnectRedis`, the `Load...` actions (one per `try` block of
`loadOptionalModuleRoutes`), `Listen` are the start; `Connect`, `Respond`, `FallsQuiet`, `Traffic`, `TimeOut`,
`HandlerEnds`, `LoseStore`, `RegainStore` the service; `Signal`, `ServerCloses`, `CloseRedis`,
`CloseDatabase`, `Finishes`, `ForcedExit`, `Crash` the end.

`FailureContained`: the modules mounted are those none of whose parts is broken. `DrainedFirst`:
no store is closed under an open connection, and exit code 0 leaves none. `ShutdownEnds`: a
process told to stop stops, if no socket is kept busy for ever; neither a handler that never
answers nor a store that does not close can hold it. `ShutdownBounded`: it stops in any case
(violated).

### Runs of the three

| Run | Instance | Result |
| --- | --- | --- |
| `edge` | codes: 2 clients, `maxAttempts` 1, 2 codes, 3 guesses, 1 call cut short; limiter: 2 routes, limits 2 and 1, 4 checks, 1 failure; process: 2 connections, 2 troubles, any parts broken | holds (254 thousand states) |
| `limiter_policies` | the limiter | `FailClosedHolds` violated |
| `shutdown_timeout` | the process, with 2 connections and 1 trouble | `ShutdownBounded` violated |

Two codes are needed for a late DEL to hit a newer one, three guesses for two that pass a limit
of 1 together and one after the count is gone. Four checks pass the limit of 2 and reach the
next window. Two connections let one end while the other stays.

Three guesses are too few to use the one that `GuessesBounded` allows for a call cut short; that
part of the bound rests on the proof.

Fairness. A request that has not failed goes on; Redis drops what has outlived its lifetime; what is
under way on a socket arrives, and a socket that stays quiet times out (`server.setTimeout`, line
74); `server.close` calls back when no socket is left; the forced exit fires when armed. That a
connection ends is not assumed: a client may keep its socket busy, and a handler may never answer.
Closing a store need not end either: that is what the timer is for. Nobody is obliged to send a request or a signal.

No run checks for deadlock: when the bounds are used up or the process has exited, the system
really stops.

## Where the code and its documents disagree, all components

The four found in inventory and checkout are described there. The first two below have runs of
their own; the others are what the models do, or what they assume where that is said.

* `resolvePolicy` (`src/infrastructure/redis/rate-limiter.ts:44`) takes the first policy that
  matches or is `GLOBAL`, and `GLOBAL` comes first: the others never apply, those that
  `docs/users/user-management.md:16,18` calls fail-closed included (`limiter_policies`).
* The timer of the forced exit is armed after `server.close` has called back (`src/server.ts:244`), so
  that it does not cover the wait for connections: a socket that is kept busy holds the shutdown,
  which `docs/graceful-shutdown.md:32,45` says always completes within the timeout
  (`shutdown_timeout`).
* `archiveProduct` sets `deletedAt`, but the repository's list of fields has no status, so the
  product stays a draft or published, and visible (`docs/catalog/lifecycle.md:4`). The model does
  the same (`Written`).
* Users, products and variants compare the version with a record read earlier and write without
  a condition; overlapping updates are lost (`docs/catalog/concurrency.md:3-4`).
* A category or brand is archived on a count taken earlier; a product placed in it meanwhile
  keeps it. `ReferencesLive` holds only for admins that take turns.
* Revoking the other sessions leaves their refresh tokens valid, and so does logout
  (`docs/users/session-management.md:36-41`). A refresh without a live session answers tokens
  without a session, which the middleware refuses.
* A login or refresh under way during a password change or a deactivation leaves valid tokens.
* `JwtTokenProvider` signs without `jwtid` and its `verify` answers neither `exp` nor `jti`, which
  the services read. The models follow the port and its tests.
* A cart of 50 lines takes one more (`docs/cart/domain-model.md:16`), which `toView` then refuses to
  show; a wishlist of 200 items takes one more too: the filters ask whether the element after the
  last is missing. A converted cart is revived, though `:19` calls that state terminal; a cart in
  use is deleted with its TTL.
* The duplicate filter of the wishlist asks for an item of the product and an item of the
  variant, not for one that is both.
* INCR and EXPIRE are two commands: a crash in between leaves a counter without a lifetime, of
  the limiter as of the codes. A lockout carries over to a new code. SET NX keeps the older code
  while the newer one is mailed.
* A handler whose socket has timed out runs on, and stores may be closed under it.
* `autoIndex` is off in production (`src/config/database.ts:37`). The models assume that the
  unique and TTL indexes of the schemas exist.

## Hazards no property covers

* An insert in `reserve` whose acknowledgement is lost is compensated like one that failed
  (`InventoryService.ts:486`). A crash between the insert of a stock record and its `INIT` entry
  leaves the record without an entry (`:210`), and that entry takes its quantity from a later
  read (`:220`). A replay of `reserve` answers whatever status it reads (`:422`).
* A crash after some lines of a checkout were reserved leaves reservations that no reference
  names; `NothingForgotten` excuses failures, and only their own TTL frees them
  (`CheckoutService.ts:273`).
* A handler that outlives its socket (`server.ts:74`) uses stores that may be closed.

## Proofs

The theorems hold for every value of the constants that satisfies the assumptions stated in the
modules: quantities between 1 and `MaxQuantity`, finite sets of slots, keys, lines and
connections, natural numbers as limits and bounds, `MAX_SESSIONS`, `PageSize` and `maxAttempts` at least
1. `Catalog` takes any initial databases that are in order, `Limiter` any list of policies with a
`GLOBAL` one, as `buildDefaultPolicies` returns, and at least one route; `Wishlist` assumes that
there is a product. TLC evaluates the assumptions on each run.

Each of the safety and action properties of the runs that pass, and the refinement, is proved:

| Module | Theorem | States |
| --- | --- | --- |
| `InventoryProofs` | `TypeCorrect` | `Spec => []TypeOK` |
| | `NoOversell` | `Spec => []StockInvariant` |
| | `TerminalStaysFinal` | `Spec => TerminalIsFinal` |
| | `ReservedAccounted` | `Spec => []ReservedIsHeld` |
| | `ClosingNeverFails` | `Spec => []ClosedFindsItsUnits` |
| `InventoryLedgerProofs` | `SoldOnce` | `Spec => []SoldIsConfirmed` |
| | `PromiseKept` | `Spec => KeepsPromise` (the refinement of `Claims`) |
| | `LedgerIsTrue` | `Spec => []LedgerTellsStatus` |
| | `ReceiptsAddUp` | `Spec /\ []AdjustmentsApart => []LedgerAccountsForStock` |
| `CheckoutProofs` | `TypeCorrect` | `Spec => []TypeOK` |
| | `MachineFollowed` | `Spec => FollowsMachine` |
| | `NothingIsForgotten` | `Spec => []NothingForgotten` |
| | `HeldUntilDue` | `Spec => []HoldsUntilDue` |
| | `CancelledIsFree` | `Spec => []CancelledHoldsNothing` |
| `AccountsProofs` | `TypeCorrect` | `Spec => []TypeOK` |
| | `RevokedForGood` | `Spec => []CondemnedStayDead` |
| | `RefreshedOnce` | `Spec => []RotatedOnce` |
| | `SessionsAreComplete` | `Spec => []SessionsHaveTokens` |
| | `VersionCounts` | `Spec => []LostOnlyByOverlap` |
| | `SessionsBounded` | `Spec => []OnlyOverlapExceeds` |
| `CatalogProofs` | `TypeCorrect` | `Spec => []TypeOK` |
| | `StaleExcused` | `Spec => []StaleIsExcused` |
| | `MinPriceExplained` | `Spec => []MinPriceIsExplained` |
| | `ReferencesStayLive` | `Spec => []ReferencesLive` |
| `LifecycleProofs` | `FailuresAreContained` | `Spec => []FailureContained` |
| | `StoresOutliveConnections` | `Spec => []DrainedFirst` |
| `EdgeProofs` | `TypeCorrect` | `EdgeSpec => []EdgeTypeOK` |
| | `CodesAreSpent` | `EdgeSpec => []SpentOnce` |
| | `GuessesStayBounded` | `EdgeSpec => []GuessesBounded` |
| | `WindowsStayBounded` | `EdgeSpec => []WindowBounded` |
| | `FailuresStayContained` | `EdgeSpec => []FailureContained` |
| | `StoresCloseLast` | `EdgeSpec => []DrainedFirst` |
| `CustomerProofs` | `DocumentsTyped` | `CustomerSpec => []CustomerTypeOK` |
| | `ListedOnce` | `CustomerSpec => []NothingTwice` |
| | `ExcessExplained` | `CustomerSpec => []ExcessIsExcused` |
| | `KeyCounts` | `CustomerSpec => []KeyAppliesOnce` |
| | `WalkShowsAll` | `CustomerSpec => []WalkComplete` |

Every proof goes through an inductive invariant. They are stated where they are proved; the ones
below say why the property is not inductive by itself.

### Inventory

`TypeInv`: types and the order of the counters need each other (`onHand` stays natural when units
are sold because `reserved <= onHand`), and two facts about requests: one that closes a
reservation has one to close (`Grounded`), and the slots of the sweep run nothing else
(`SweepsOnlySweep`).

`CustodyInv` adds that a SKU without a stock record has nothing reserved, and `ReservedIsHeld`. The
sum over holders is the cardinality of a set of unit tokens (`Tally`). The lemmas at the head of
the module show that it is a natural number, how it changes with one holder, that moving units
between two holders keeps it, and that no holder has more than the sum. Each action then is of
one of three kinds: nobody's holdings change; one request gains or loses what the counter gains
or loses; units move between a reservation and a request. That no holder has more than the sum
gives `ClosingNeverFails`: whatever a request still has to give back is reserved.

`SoldInv` (in `InventoryLedgerProofs`) says of each SKU that what confirmed reservations took is
what was sold, what confirming requests hold, and at most what is stranded besides. With
`ReservedIsHeld` it gives the fact the refinement needs: per SKU, active and confirmed
reservations together do not exceed `onHand + sold`, also while units are on their way, and so the
insert of a reservation is a `Claim` that is covered. The other steps are an `End`, a `Receive`, or
invisible to a caller (`NextPromise`).

`FateInv` says that a request past the transition knows what the reservation's status is (`Fated`),
and of each key which entries are there or about to be appended. It needs both other results: the
status does not change again, and the request is not turned back on its way to the append.

`ReceiptInv` balances `onHand + sold`, what requests have taken out and not entered, the receipts,
and what they have put in and not entered. The theorem has a hypothesis, `AdjustmentsApart`: no two
requests in flight adjust the stock under one idempotency key. The code does not guarantee it,
and without it the statement is false (`inventory_adjust_retry`); the theorem says that nothing
else is needed, retries of a finished call included.

### Checkout

`TypeInv`: the types, and `VersionsKnown`. `FollowsMachine` is not inductive by itself, since
`markFailed` and `setReservations` look at the version only. `VersionsKnown` says that a request
which may still write with a version knows one at most the current one, and if it is the current
one the checkout is active. Every update makes a new version (`Advances`), so whoever did not make
it knows an older one; that is the argument of `StepKeeps`, from which each action follows.

`StockInv`: what a ready checkout holds was reserved line by line by a request that may since have
been overtaken by a cancellation, an expiry or a sweep. `StockInv` says, of a request in the saga
(`Reserving`), which lines it has made and which are still to do, and that the made ones are held
while the checkout is reserved and its clock early; of whoever releases (`Releasing`), that it has
a reason that lasts: the checkout is past its expiry, or it is closed or its saga is lost
(`Stopped`); that at most one request is in the saga of a checkout (`OneSaga`); that nothing is
held before it begins (`Unbegun`); and that what is held is named by the checkout or in somebody's
hands (`Custody`). Most steps change documents, clocks and claims only in ways that `Settles` lists,
and one lemma shows that those keep the invariant; the steps of the saga itself are proved one by
one.

### Accounts

The proofs rest on one observation: a token or session is made good once, under a number no
answer has named, so that what has been given can only fade (`Fades`). `AccountInv` says of each
request which operation it belongs to (`Role`), that what it is about to give is new and stored in
order (`Fresh`, `Distinct`), that a refresh has retired the old grant before it makes a new one
(`Retired`), and that half of what a revocation covers is dead before the other half (`Halfway`).
Unless two of the requests concerned have been in flight together, the version read is the
current one (`CountInv`), and a request that is to open a session still has room for it
(`RoomInv`).

### Catalog

`TypeInv` says of a call in flight what it asks for, which steps its operation takes, and that what
it has looked up is still there (`CallOK`). That is where documents need their ids: a variant
looked up by one call may be removed by a second and made anew by a third before the first
writes.

On top of it, each property says that every fault has somebody who answers for it. A page is
`Told` if it is true, empty or excused, and `Accounted` for if a call still has to drop it; a write
that changes what a page shows is followed by the invalidation of just that page, which is shown
for every kind of write and of page (the bodies of the pages as functions of the documents, and
what they do not depend on). Likewise `minPrice` (`PriceTold`, `PriceAccounted`), with the refresh
in place of the invalidation. For the references, what each check has found stays true while no
other admin is at work (`Checked`, `OneAtWork`), which gives `ReferencesInv`.

### Codes, limiter and process

`SpentInv`: who has deleted a code does not find it stored again, as each code is generated once.
`GuessInv`: guesses compared with the stored code are in the count, about to be counted, or were
cut short; while the lifetime of the count may end before that of the code, every guess so far is
of a call that has not reached its EXPIRE. Both parts are needed, since the end of a lifetime
drops the count. `PassInv`: the requests let through and those that will be, on the numbers INCR
gave them, are at most the counter and at most the limit; requests of an earlier window do not
count. `LP!ProcessInv` is the invariant of `LifecycleProofs`, instantiated: for every step of the
start, which modules have been decided and which parts are known to be sound (`LoadsInv`); for
every step of the shutdown, that connections are gone before stores (`DrainInv`).

### Cart and wishlist

`LinesInv`: a line over the maximum has a request at `"undo"` that names it, and what an undo puts
back is no excess, unless another wrote the line meanwhile. `KeyInv`: adds with the key that have
taken effect, together with those that will, number at most one more than those overtaken; once one
has taken effect, its answer is stored or forgotten (`Noted`), or a request is about to store one
(`Told`). So whoever goes on after that is counted as overtaken. `ListInv` and `WalkInv`: every item that was on the list all through the walk and comes
after the cursor's has been on a page (items are numbered in the order of their dates, and pages
run from the newest). It speaks of numbers and not of items, so that the removal of the cursor's
own item does not matter.

### What stays with TLC

Liveness is out of the prover's reach: `DueIsClosed` of inventory and of checkout, `CacheHeals`,
`LockoutEnds`, `RefusalEnds` and `ShutdownEnds` are checked by TLC alone. So are the properties that do not
hold (`RetryRestoresEntry`, `StockDiesWithCheckout`, `CompletedKeepsUnits`, `FailClosedHolds`,
`ShutdownBounded`), of which a counterexample is all there is to show. What `Tally` computes is proved
from its definition as a cardinality, since a recursive sum would need induction over data.

## Not modelled

Identifiers, views, validation of the form of inputs, metrics, logs, the snapshots in ledger
entries (`previousOnHand` and the like), events, and the cursors of all lists but the wishlist. An
insert that succeeded although its call was rejected is not modelled: the code would then
compensate a reservation that exists. Clocks are not modelled; a lifetime may end at any time.

* The outbox has no reader in this commit; media signs an upload URL and keeps nothing; Kafka
  (`src/config/kafka.ts`) is never opened.
* Of auth, the verification of e-mail addresses and `lastLoginAt`: nothing reads them back.
* Hashing, the contents of tokens, and the environment (`src/config`) as input.
* The shared kernel, the generator of API documents and observability have no behaviour over
  time.
* Orders and payments are not in the repository: `complete` of a checkout and `markConverted` of a
  cart are modelled as ports that may be called.

Left for later:

* Under which condition the promises hold that the code breaks: `StockDiesWithCheckout` without
  failed validations, `CompletedKeepsUnits` without an expiry that overlaps the completion,
  `RetryRestoresEntry` without failed appends. As for `ReceiptsAddUp`, the theorem would show that
  nothing else is to blame.
* `Covered` for every implementation of `Claims`, and `Checkout` as one of its callers, so that the two
  services are proved together.
* The prices and availability that carts and wishlists read, and the verification of e-mail
  addresses.

## Running

    tlc -config InventorySafety.cfg MCInventory.tla
    tlc -config CheckoutSaga.cfg MCCheckout.tla
    tlc -config CatalogPages.cfg MCCatalog.tla
    tlc -config Customer.cfg MCCustomer.tla
    tlc -config Edge.cfg MCEdge.tla
    tlapm CheckoutProofs.tla

and likewise for the other configurations and proof modules. `PROJECT.json` lists every run with
its module, and the source lines each definition stands for.
