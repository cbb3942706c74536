# Formal models of polyglot-commerce

polyglot-commerce is one e-commerce REST backend written three times - Rust
(axum, sqlx), Go (chi, pgx) and Python (FastAPI, asyncpg) - over PostgreSQL and
an optional Redis, behind one contract (`api/openapi.yaml`). The three servers
send nearly the same SQL statements in nearly the same order. What can go wrong
lies between those statements: several requests, several servers, one database
at READ COMMITTED, and failures at any statement. That is what the modules here
describe. Where the servers differ in control, a constant names the server.

Every definition is translated from the code; `PROJECT.json` ("map") gives the
lines each stands for. A definition models all three servers unless it says
otherwise, and the map names one of the three.

## Inventory

| Component | State | Operations | Interacts with |
|---|---|---|---|
| orders (`orders/repo`, `orders/handlers`, `routers/orders.py`) | `orders`, `order_items` | checkout, cancel, list, get | reads and empties the cart, takes and returns stock; locks product and order rows |
| cart (`cart/*`, `routers/cart.py`) | `cart_items` | add, set, remove, clear, get | reads products; checkout empties it |
| catalogue (`products/*`, `catalog/*`) | `products`, `categories` | list, get, create, update, archive | stock is shared with checkout and cancel; cache |
| product cache (`products/cache.rs`, `catalog/handler.go`) | one Redis key per product | fill on a miss, DEL on update and archive, expiry | follows `products` without a transaction |
| sessions (`auth/*`) | `users`, `user_roles`, `refresh_tokens` | register, login, refresh, logout, me | one family of refresh tokens per session |
| access tokens, permissions (`common/src/auth.rs`, `auth/repo.rs`, `jwt.go`, `security.py`) | the claims inside each token; `user_roles`, `role_permissions` | read permissions, sign, verify, require a permission | carried by each request; outlive what the database says of the session |
| pagination (`pagination.*` and the list handlers) | none; the client keeps a cursor | first page, next page | lists that change meanwhile |
| migrations (`db.go`, `db.py`, `main.rs`) | `schema_migrations`, the schema | migrate at start-up | other servers that start at the same time |
| life cycle (`main.rs`, `http.rs`, `db.rs`, `cmd/server/main.go`) | the process, its listener, the connection pool, the time-out of each request | connect, migrate, serve, time out, shut down | every request in flight; the database |
| errors and validation (`error.rs`, `httpx.go`, `errors.py`) | none | map an error to a status and a body | every handler |
| configuration, routing, telemetry | none | wiring | - |

What is hard in it, with what makes each part correct:

- **Checkout** reads the cart and locks product rows in one SELECT, compares,
  writes, deletes the cart and commits. No oversell, no unit lost or made, the
  price charged is the price in force, the order is the cart. Hard: the row
  locks are taken in no fixed order; `FOR UPDATE OF p` does not lock the cart;
  each statement sees its own snapshot; the read-back after the commit can fail;
  a statement, or the COMMIT, can take effect after its request was answered.
- **Cancel** locks the order, gives each line back and marks the order. Each
  unit returns once. Hard: two cancellations at once, deadlock with checkouts.
- **Cart** edits run in a statement of their own, add in two. Hard: against an
  open checkout of the same user.
- **Sessions**: a refresh token works once; a second use ends the session; a
  logout ends it. Hard: the check is made outside the transaction that acts on
  it, and revocation updates the rows of one snapshot.
- **Cache**: a cached product must not stay behind the row for ever. Hard: fill
  against update, lost DEL, stock changes that do not touch the key.
- **Pagination**: a walk shows every row that was there all the while, once.
  Hard: rows commit in another order than `created_at`, cursors lose precision.
- **Migrations**: every server starts, and each file is applied once. Hard: two
  servers with no lock between them.
- **Access tokens**: a permission that was withdrawn and a session that is over
  stop working in bounded time. Hard: nothing looks at the database when a token
  is presented, and permissions are read, signed and stored in three steps while
  roles change and time passes.
- **Life cycle**: every request is settled, a dropped one gives its connection
  back when its statement is over and not before, and the process ends without
  dropping a request. Hard: time-outs against statements that hang, a full pool,
  a database that is gone, a signal at any moment, and clients that send half a
  request.

`PROJECT.json` lists the hazards one by one, at the line where each bites, with
the properties that watch it.

## Modules

| Module | What it is |
|---|---|
| `OrderBook` | abstract specification: place, cancel and adjust, each in one step |
| `Checkout` | carts, stock and orders, one action per SQL statement |
| `MCCheckout` | one user, two products, three requests for TLC |
| `CheckoutProofs` | types, no oversell, honest answers, one cancellation, and Checkout implements OrderBook |
| `LedgerProofs` | units are conserved, an order is the cart, no standstill of locks |
| `SessionBook` | abstract specification: open, rotate and end a session, each in one step |
| `Sessions` | register, login, refresh, logout, one action per statement |
| `MCSessions` | one person, three or four requests |
| `SessionsProofs` | types, registration, families, revocation, with any concurrency |
| `SerialSessionsProofs` | what holds of a session used by one request at a time |
| `Access` | Sessions with a clock, permissions and the claims of access tokens |
| `MCAccess` | one person, four requests, a clock of four values |
| `AccessProofs` | withdrawn permissions and ended sessions stop in time |
| `Service` | abstract specification: what a server promises to its clients |
| `Server` | a process from start-up to exit, and its pool |
| `MCServer` | three requests on two connections |
| `ServerProofs` | no connection is lost, and the Rust server implements Service |
| `ProductCache` | the read-through cache of one product |
| `MCProductCache` | two readers, two writers |
| `ProductCacheProofs` | why a cached product may be outdated |
| `Pagination` | keyset walks over a changing list |
| `MCPagination` | four rows, pages of one or two |
| `PaginationProofs` | order of the pages; nothing is skipped |

Components meet only in the database, and what one sees of another is an action
of its own module (administrators in `Checkout`, `ChangeStock` in
`ProductCache`, inserts and archivals in `Pagination`, any handler at all in
`Server`). Four modules compose:

- `Checkout` composes orders, carts and the catalogue, which share transactions,
  and instantiates `OrderBook` under its refinement mapping, in which an order is
  named by the request that placed it and the other tables are hidden.
- `Sessions` instantiates `SessionBook`: its tokens are those issued, and its live
  ones those that are neither used nor revoked.
- `Access` extends `Sessions`: each action of `Sessions` occurs in it with the
  clock and the claims added, so that the invariants of `Sessions` carry over
  (`SessionsStillHold`), and so does the refinement.
- `Server` instantiates `Service` under a mapping that hides the pool.

### Checkout

`stock`, `price` and `active` are the rows of `products`; `cart` those of
`cart_items`; `orders` joins `orders` with `order_items`. The variables hold
committed rows. What a transaction has written but not committed follows from
its `pc`, its `lines` (the rows of its SELECT), `written` (those of them whose
item and stock are written) and `doomed` (the cart rows its DELETE found), and
`held` and `want` are the product rows it has locked and waits for. `shared` is
history: whether another request of the user was at the cart while this one was.
PostgreSQL is modelled from how the code uses it: a statement takes
its own snapshot; `FOR UPDATE` and `UPDATE` wait for the holder of a row and
then see the row as the holder left it (and everything else as the snapshot
had it - the reason for `NoUnitOrderedTwice`); a foreign-key check waits for
`FOR UPDATE` only; a cycle of waits is resolved by an error in one of its
sessions.

| Action | Code (Rust) |
|---|---|
| `SelectCart`, `LockRow` | the `SELECT ... FOR UPDATE OF p` (`orders/repo.rs:32`), row after row |
| `CheckStock`, `WriteLine`, `ClearCart`, `CommitCheckout` | the loop that compares, the INSERTs and UPDATEs line by line, the DELETE, COMMIT (`:45-94`) |
| `ReadItems`, `ShowResult` | the read-back for the response |
| `SelectOrder`, `ClaimOrder`, `RestockRow`, `CommitCancel` | cancel (`:158-198`) |
| `CheckActive`, `Upsert` | add_item's two statements (`cart/repo.rs:20-47`) |
| `StartSet`, `SetItem` | set_item (`cart/repo.rs:49-67`) |
| `StartRemove`, `StartClear`, `RemoveLines` | remove_item, clear (`cart/repo.rs:69-84`) |
| `UpdateProduct`, `ArchiveProduct` | administrators |
| `DeadlockAbort`, `Fail` | an aborted transaction, any other failure of a statement: rolled back, 500 |
| `TimeOut`, `RollBackLate` | the answer that does not wait for the database, and the end of the connection it leaves behind (`common/src/http.rs:34`) |

An answer and the end of a connection are two things. `TimeoutLayer` answers 408
and drops the handler; the statement that is on its way is carried out, and a
COMMIT or an autocommit upsert takes effect, whenever it gets its locks. So
`resp` holds the first answer and `pc` follows the connection: a request that is
answered and not yet done is `Abandoned`, and its current statement either takes
effect (its own action: `CommitCheckout`, `Upsert`, ...) or its open transaction
is rolled back (`RollBackLate`). The next statement of an abandoned handler is
never sent: steps that need the handler ask for `At(r, step)`. The roll-back
after a refusal (409) is late in the same way (`Refuse`). `TimeOut` stands as well
for a lost connection to the client or to the database, with 408 for the status.

Cart totals, names and currencies are left out, since nothing decides on them.
The answers of reading routes (`get_cart`, `list_orders`, `get_order`) are not
modelled: they are single SELECTs of committed rows.

Three properties need a word. `Ledger` counts units: the k-th unit of a line is a
pair of its order and k, and what is sold of a product is the set of these pairs
over the confirmed orders. `NoStandstill` is about the waits of one moment
(`WaitsFor`): if a set of requests contains some in flight, and whatever its
members wait for, then one of them need not wait or is on a cycle of product
rows, which PostgreSQL resolves. It is the part of `EveryRequestAnswered` that
needs no fairness: an order, a cart row or a foreign key never closes a cycle.
`OrdersTakeTheCart` is about a checkout that is alone at its cart from its SELECT
to the end of its transaction: no other checkout, add, set, remove or clear of the user is
at the cart then, in progress or abandoned. That a user waits for each answer is
not enough for this, because of the abandoned ones.

### Sessions

`account` is `users`, `token` is `refresh_tokens`; a token, like a session's
family, is named by the request that issued it. `presented` is the token a
refresh or logout carries - any issued one, so that clients may be slow, retry
or use a token again. `victims` holds the rows that the UPDATE of a revocation
found in its snapshot, and waits for those another transaction has locked.
`Impl` selects the two differences: Go discards an error of RevokeFamily in
Refresh and answers 401; Rust and Python answer 500.

`SessionBook` is what a user of one request at a time sees: `Register` and
`Login` open a session with one live token, `Rotate` exchanges the live token for
another, `End` takes it away, and nothing else happens. COMMIT of a registration
and the INSERT of a login open, COMMIT of a refresh rotates, the revocation's
UPDATE ends, and every other statement, failure and answer stutters. That
`presented` is live when the refresh commits, and that a revocation finds one
live token or none, is what makes them one step each; with concurrent requests
neither is true (`sessions_rotated`, `sessions_race`). One request at a time
means one at the database: a client that goes on after a 408 may have two there.

### Access

`now` is the server's clock, `granted` the join of `user_roles` and
`role_permissions`, and `claims` what a request has read and signed for the
token it issues. `withdrawn` and `at` are history: when a user last lost a
permission, when a request began and when a session ended. An access token is
named, like the refresh token it comes with, by the request that issued it.

| Action | Code (Rust) |
|---|---|
| `VerifyRefresh` | `verify_refresh`, then `get_refresh` (`auth/handlers.rs:93-103`) |
| `VerifyLogout`, `IgnoreLogout` | logout with a token that verifies, and with any other (`auth/handlers.rs:117-124`) |
| `ReadPermissions` | `roles` and `permissions` (`auth/repo.rs:68-94`) |
| `Sign` | `issue_access`, `issue_refresh` (`common/src/auth.rs:152-200`) |
| `StoreRefresh` | the INSERT of `issue_session` and the COMMIT around it (`auth/handlers.rs:21-43`) |
| `AssignRoles` | SQL of the operators: the servers have no operation for it |
| `Tick` | time, which no request in flight outlives by more than `Patience` (`TimeoutLayer`) |

`Accepted(t, p)` is the whole check a protected route makes: the token verifies
and its claims grant `p` or the wildcard. A request that times out never hands
the tokens it has signed to its client, even if its INSERT still goes through;
this is why `Patience` bounds the age of what a token says. `Patience` is 30
seconds in Rust. Go has no such time-out and Python one per statement
(`db.py:15`): for them the theorems say what holds if every request is shorter
than some `Patience`.

### Server, Service

`phase` is where the process is, `database` whether PostgreSQL answers, `pc`
where each request is, from the head its client sends, `left` how many connections it may still take, `idle` the
free permits of the pool, and `abandoned` the requests that were dropped while
their connection ran a statement. What a handler does with a connection is the
subject of the other modules; here it takes up to `MaxLeases` one after another.

| Action | Code (Rust) |
|---|---|
| `Connect`, `Migrate` | `db::connect`, `sqlx::migrate!`, `bind` (`db.rs:31-40`, `main.rs:37-38`, `http.rs:48-50`) |
| `Signal`, `Exit` | `shutdown_signal`; `serve` returns when every connection is closed (`http.rs:48-82`) |
| `BeginHead`, `CutHead` | a client connects and sends a head, in part or not at all in time |
| `Arrive`, `AskPool`, `Acquire`, `AcquireFails` | a route, the pool's queue, `test_before_acquire`, `acquire_timeout` |
| `StatementsEnd`, `Reply` | the end of a connection's use, the response |
| `TimeOut`, `HangUp` | `TimeoutLayer` answers 408; hyper drops the handler of a client that is gone |
| `Release` | the dropped connection is free when its statement is over |
| `DatabaseChanges` | PostgreSQL goes or comes back |

`Impl` selects what ends the process: Rust waits for the requests, Go for the
connections in use only, and in Go nothing times a request out. Graceful shutdown
closes connections between requests itself and waits for all others, half-sent
heads included: `TimeoutLayer` starts with the complete head, and `serve` sets no
time for it (Go: `ReadHeaderTimeout`). A request that is completed after
the signal is served. `Service` keeps what a client can see: the door, the callers
it has let in, the requests owed and the requests settled.

### ProductCache, Pagination

One row and one key; one list and one walking client. In `ProductCache`, requests
recur: the place of one that is answered is taken by the next, so reads and
updates go on for ever. `late` and `cause` only record history. In `Pagination` a row's `at` is the time its
transaction began (`DEFAULT now()`), so that rows become visible out of the
order of their `at`; the clients' limits go through each server's clamping
(`ClampToOne` in Rust, `ClampLimit` in Go and Python), and `Cut` is what the
server's cursor keeps of the time. A limit below one would end the walk: a page
without rows has no last row to go on from.

### Definitions marked FAULT

Beside some definitions stands a version with a plausible mistake (a lock
dropped, a statement moved out of its transaction, `<=` for `<`). Spec does not
use it. Put in the place of the right one, it must break the property its
comment names: that is how each property is known to be able to fail.

## Runs

Each passing run is complete: TLC explores every reachable state.

| Run | Instance | Shows |
|---|---|---|
| `checkout_cart` | three requests of one user, each a checkout, a cancellation or a change of the cart; two products, stock 2, quantities 0-2, failures, time-outs, products archived; 764 thousand states up to symmetry | `TypeOK` (no line exceeds the INTEGER column), `Ledger`, `AnswerMatchesEffect`, `OrdersTakeTheCart` |
| `checkout_live` | three checkouts and cancellations at once, administrators, stock and quantities of 1; 287 thousand | `BackstopNeverFires`, `Ledger`, `CancelledOnce`, `NoStandstill`, `ImplementsOrderBook`, `EveryRequestAnswered` |
| `checkout_twice` | two checkouts of one user | violates `NoUnitOrderedTwice` |
| `access` | one person, four requests, one at a time per session, a clock, changes of roles; 2.3 million | `WithdrawnInTime`, `SessionsEndInTime`, `OneLiveToken`, `ReuseEndsSession`, `LogoutEndsSession`, `ImplementsSessionBook` |
| `sessions_overlap` | four concurrent requests, failures; 296 thousand | `FamiliesAreRooted`, `RegisteredOnce`, `KnownTokensRevoked`, `AccountComesWithSession`, `EveryRequestAnswered` |
| `sessions_rotated` | two refreshes with one token | violates `RotatedOnce` |
| `sessions_race` | a reuse while a refresh is under way | violates `ReuseEndsSession` |
| `server` | three requests, two connections, three leases each; 28 thousand | `ConnectionsAccounted`, `ImplementsService`, `EveryRequestAnswered`, `ShutdownCompletes` |
| `server_go` | the same in Go | violates `NoRequestDropped` |
| `product_cache` | two readers and two writers again and again, sales, lost commands; 368 thousand | `OutdatedHasACause`, `EventuallyCurrent` |
| `pages_exact` | four rows, three ticks, limits of -1, 0, 1, 5 and none, clamped to 1 or 2; 462 thousand | `NothingSkipped`, `NewestFirst` |
| `pages_seconds` | three rows, a second of two ticks, Go | violates `NothingSkipped` |

**Bounds.** Two products are the fewest that can be locked in opposite orders,
and two rows of one transaction the fewest that a failure can separate. Three
requests give an order and two cancellations of it, two orders of one cart and a
cancellation, or a checkout, an abandoned upsert and a checkout after it; in the
proofs users and requests are any number. A
request is a slot, and a retry uses another. Quantities up to 2 over a stock of
2 give every relation of demand to stock (short, exact, over), alone and
together. `checkout_live` has quantities and stock of 1, because the refinement
and liveness checks are dearer and cannot use symmetry; the other run covers the
rest of the state. One user is enough for the stock: what two transactions do to
product rows does not depend on whose they are, and with one user they meet at
the cart too. Products are alike, and so are the requests, so `checkout_cart`,
which checks no liveness, takes them up to permutation (`MCSymmetry`).

Session runs need a registration, the refresh whose token is used again, the
reuse, and one request that overlaps: four. `access` has lifetimes of 1 and 2,
requests of at most 1 and a clock that ends at 3, so that each token can expire,
a permission can be withdrawn before, during and after a refresh, and the bound
of `WithdrawnInTime` (2 after the withdrawal) is reached and passed; the leeway
is 0 there and any number in the proofs. `Grant` is the empty set and the
wildcard, which grants the other permission too. Three requests on two
connections (`server`) make one wait while the pool is full, also when an
abandoned statement holds a connection. `MaxLeases` is 3, the most a handler
takes (`add_item`: the query, the upsert and the read-back).

Two readers and two writers let one fill be overtaken while another is not. Four
rows of three times make two rows of one time, a page boundary between them, and
a row that commits late. `MaxQty` bounds a cart line (INTEGER in the schema),
`MaxClock` the clocks of `Access` and `Pagination`.

`CHECK_DEADLOCK FALSE` stands in all configurations but those of `Pagination`:
requests are finite in number, so a behaviour ends when all are answered, or
when the process is off. That the code's own locks do not stop the system for
good is `NoStandstill` and `EveryRequestAnswered`.

**Fairness.** `FairSpec` assumes weak fairness of `Proceed(r)`, the next
statement of a request that a server has accepted: each server runs its handlers
to the end, each on a task, goroutine or coroutine of its own, and PostgreSQL
grants a row when its holder finishes and aborts one session of a deadlock. No
fairness is assumed of arriving requests, of administrators, of failures or of
time-outs. In `ProductCache` the expiry of a key is fair too: SET always carries
EX (`cache.rs:29-32`, `handler.go:50-57`). Expiry alone does not give
`EventuallyCurrent`: the key is filled again and again, and what it is filled
with must be the row of a SELECT of that request. `Server` assumes less: weak fairness
of `TimeOut`, since the timer of `TimeoutLayer` fires whatever the handler does,
and of `Exit`. Statements there may hang for ever, connections need not come
free, the database need not return, and no client need complete its head:
`ShutdownCompletes` names the last case as the exception it is. Nothing is assumed of `Access`, whose
properties are about safety.

### What the violations say

- **One cart, two orders** (`checkout_twice`). The SELECT locks products and not
  `cart_items`. The second of two concurrent checkouts of one user waits for
  the products, then goes on with the cart rows of its old snapshot, which the
  first has deleted and ordered. `README.md:51-52` calls this "atomically".
- **A token used twice** (`sessions_rotated`). `used` is read outside the
  transaction that sets it, and the UPDATE does not test it: two concurrent
  refreshes both get a new session token and no reuse is seen.
- **A session that outlives its revocation** (`sessions_race`). A refresh that
  passed the check before the revocation inserts a live token after it.
- **Requests dropped at shutdown** (`server_go`). `run` does not wait for
  `Shutdown` (`go/cmd/server/main.go:93-105`): `ListenAndServe` returns as soon as
  `Shutdown` has begun, `pool.Close` waits for the connections in use, and the
  process ends with the other requests unanswered. The 15 seconds never count.
- **Skipped rows** (`pages_seconds`). Go writes cursors in whole seconds
  (`orders/handler.go:72`, `catalog/handler.go:99`) while `created_at` has
  microseconds: rows of the same second after the end of a page are on no page.
  Products inserted by one transaction share `created_at`, and all that do not
  fit on the first page are unreachable.

Seen while modelling, without a run of their own:

- **What a 408 means.** It does not say that nothing happened or will. A user who
  waits for every answer can add a line, be told 408, and check out; the upsert
  commits between the SELECT of the checkout and its `DELETE FROM cart_items`,
  which has a newer snapshot (`orders/repo.rs:87`), and the line is deleted
  without being ordered. Likewise a checkout that is answered 408 with its COMMIT
  under way, followed by another, can order the cart twice. `OrdersTakeTheCart` is therefore
  stated for a checkout alone at its cart. Nothing in the
  repository says what a 408 promises; there is no idempotency key.
- A client that connects, sends half a head and stays keeps the Rust process from
  ending after a signal, for as long as it likes (`ShutdownCompletes`).
- The comment at `db.rs:29-30` calls the pool lazy and start-up unblocked by the
  database. `connect(..).await?` opens a connection and the migrations need it: a
  server that starts without its database ends (`Connect`, `Migrate`).
- `decode` accepts a token up to 60 seconds after `exp` (the leeway of
  jsonwebtoken's `Validation`, unchanged in `auth.rs`): `Leeway`.
- A refresh token expires by its JWT only; `expires_at` is stored and
  selected but never compared. A logout with an expired token answers 204 and
  does nothing (`IgnoreLogout`).
- A deadlock of two checkouts is answered 500 (`error.rs:71-81` has no case for
  40P01), which `api/openapi.yaml:288-295` does not list. Nothing retries.
- In Go a failed revocation on reuse is answered 401 as if it had succeeded
  (`auth/handler.go:174`); in all three a failed logout is answered 204.
- A checkout does not look at `status`: an archived product in a cart is sold.
- Checkout and cancel do not delete the cache key, so `get_product` shows old
  stock until the key expires (`EventuallyCurrent` is all that holds of stock).
- `limit=0` means 1 in Rust and 20 in Go and Python.

## Proofs

All theorems are proved by TLAPS from the assumptions on the constants that the
modules state by name (`CheckoutAssumption`, `SessionsAssumption`,
`AccessAssumption`, `ServerAssumption`, `CacheAssumption`,
`PaginationAssumption`), for any number of users, products, requests, rows,
prices, lifetimes, connections and bounds, with or without failures unless the
theorem says so.

- **`CheckoutProofs`.** The invariant `IInv` (in `Checkout`) joins the types with
  ten facts. `BackstopNeverFires` is not inductive: that the quantities
  compared in the loop are covered when the stock is decremented (`EnoughInStock`) needs that
  what was read of a locked row is still what it holds (`SeenIsCurrent`), which
  needs that a checkout has locked exactly its rows (`HoldsWhatItNeeds`), that
  no row has two holders (`RowLocksExclusive`), and that cancellations and
  administrators, too, change only rows that are free or theirs. For cancel,
  `OrderLocksExclusive` and `CancelsConfirmed` say that the order being
  cancelled is still confirmed and its lines are those being given back.
  `TypeCorrect` and `CheckedStockSuffices` follow. `Refinement` maps each action: COMMIT of
  a checkout is `Place`, COMMIT of a cancel is `Cancel`, an administrator's
  statement is `Adjust`, everything else stutters; `SeenIsCurrent` gives the
  prices. `AnswerInv` adds what the statuses tell, by the step each request is at: a request that has not
  committed has no order, and the order of a cancellation that is answered or
  about to be is cancelled and was confirmed until then (`OneCancels`).
  `AnswersTellTheEffect` and `CancelIsOnce` follow; that no two cancellations
  reach their commits is `OrderLocksExclusive`.
- **`LedgerProofs`**, about the same specification.
  `UnitsConserved`: a line of k units adds k pairs to the units sold
  (`CountUnits`), so two states that differ in one order differ by its lines
  (`UnitsOfOrder`), and `IInv` gives that a commit moves just those lines out of
  the stock or back. The units sold are finite at every state although requests
  need not be: a step confirms at most one order.
  `OrderIsTheCart`: requests that are at one cart together know it
  (`MatesShare`), so that the cart of a checkout that is alone is still what it
  selected, and its DELETE finds all of it (`CartKept`). Failures, time-outs and
  late COMMITs are allowed; users and requests are any number.
  `WaitsComeToAnEnd`: whoever waits for an order, a cart row or a foreign key waits for a
  request that holds it and that itself waits, if at all, for a product row or
  to clear its cart, which only a commit can hold up (`HolderState`,
  `DoomedLast`); among requests that wait for product rows a smallest
  closed set is a cycle (`BlockedCycle`), and it is finite since finitely many
  are in flight (`FinitelyMany`).
- **`SessionsProofs`.** `IInv` (in `Sessions`): who has issued a token
  (`NotYetIssued`), what is presented and revoked was issued
  (`PresentedIssued`, `VictimsKept`), and one uncommitted registration per address
  (`AddressTaken`). `RegistrationsExclude`, `FamiliesHold`, `RevocationIsFinal`
  and the action property `AccountsComeWithSessions` follow from it.
- **`SerialSessionsProofs`.** With `Serial`, `SerialInv` says that the requests
  which have a family in hand are one (`OneAtATime`), that what a refresh has
  checked is still so when it commits (`RotatesLive`), that what a revocation has
  found is still the whole family (`FindsFamily`), and that a family is revoked as
  a whole or has one live token. `SessionStaysUsable` needs no more, with any
  failures and on every server. `SessionsEnd` and `ReuseEnds` add `EndedWhole`
  and the absence of failures, since a failed logout is answered 204 too. `sessions_rotated` and
  `sessions_race` show what happens without `Serial`.
  `SessionRefinement` maps each action to a step of `SessionBook` or a stutter.
  `RotatesLive` makes a COMMIT of refresh a `Rotate`, `LiveUnique` and
  `FindsFamily` make a revocation an `End`, and `SignedInKnown` makes the INSERT
  of a login a `Login`.
- **`AccessProofs`.** Two descriptions cover all actions: a step that issues
  nothing (`Quiet`) and a step that stores a token (`Issues`); they preserve the
  invariants of `Sessions`, since each is a step of `Sessions` or leaves it alone.
  `AccessIInv` follows a permission from the database to the token: what is read
  was withdrawn, if at all, after the request began (`ReadInTime`), and no
  request outlives its time-out (`TimesInOrder`), so no token is signed more than
  `Patience` after the withdrawal (`SignedInTime`). `PermissionsEnd` adds the
  lifetime. It needs no serial clients and allows failures.
  `SessionsAreEnded` adds `EndedBefore`, that a session which is over got its last
  token earlier, which follows from `EndedWhole`: a revoked token rotates no more.
  `AccessSessionRefinement` carries the refinement over: every step of `Access`
  is one of `Sessions`, an ignored logout, or leaves the tables alone.
- **`ServerProofs`.** `ConnectionsAccounted` becomes inductive with
  `AbandonedDone` (only a dropped request holds a connection without being in
  progress) and `QuietStart`; the counting is done with the library's facts on
  cardinalities. `Refinement` maps each action, a head begun, cut or completed
  too, to one of `Service` or a stutter,
  for Rust; `NothingDropped` is the invariant that Go violates.
- **`ProductCacheProofs`.** `OutdatedHasACause` becomes inductive with
  `LateReaders`: a reader about to write an outdated row has been overtaken.
- **`PaginationProofs`.** A cursor splits the list: nothing shown is older than
  it (`ShownNotOlder`, true of Go's too, since cutting a time only makes it
  older), and what stayed in the list and was not shown is older
  (`RestIsOlder`, exact cursors only). That a page which is not the last has a row
  to go on from rests on the clamping (`LimitsArePositive`). `PagesGoOn` holds for every server;
  `ExactCursorsSkipNothing` for all but Go, and `pages_seconds` shows why.

Every safety property of a passing run is stated by a theorem. Model-checked only
is liveness (`EveryRequestAnswered` of three modules, `EventuallyCurrent`,
`ShutdownCompletes`), which is out of reach of these provers: they do not reason
about ENABLED. What `NoStandstill` leaves to TLC is that a request which need not
wait goes on, and that this ends.

## Not modelled, and the plan

- **Migrations.** The order of the scripts and their once-only application belong
  to the migrator (sqlx, with an advisory lock). Go and Python have none: two of
  their servers that start on one empty database can run a script twice. That a
  failed migration ends the start-up is in `Server`.
- **Errors and validation**: pure functions. The statuses they give are the
  answers in `Checkout` and `Sessions`, which the map ties to `map_db_status`.
- **Hashing, signatures, issuer and audience**: library calls. A token that was
  not issued is refused; a wrong password is an answer of `FindByEmail`.
- **Configuration, routing, telemetry, categories, search, product text**: no
  state that anything decides on.
- **Totals and currencies.** The 64-bit total of an order wraps in Rust and Go and
  not in Python; a cart may mix currencies and is charged in that of one row.
  Nothing in the repository says what should happen.
- **Crashes.** A panic ends the Rust process (`panic = "abort"` in the release
  profile, so `CatchPanicLayer` has nothing to catch) and SIGKILL any. What is in
  the database afterwards is what `Fail` and `TimeOut` leave: a transaction is
  committed or not.
- **Suspended accounts and e-mail verification**: no code sets them.

What would come next, in this order: two servers that migrate one database; the
statuses of the three servers for every endpoint, compared with each other and
with the contract ("they behave identically", `README.md:77`); totals of 64 bits; an
abstract cache that `ProductCache` implements.
