------------------------------ MODULE Checkout ------------------------------
(***************************************************************************)
(* Carts, stock and orders, as the server changes them: the statements of  *)
(* orders/repo.rs (checkout, cancel), cart/repo.rs and products/repo.rs    *)
(* over one PostgreSQL database at READ COMMITTED.                         *)
(*                                                                         *)
(* The tables hold committed rows only.  A transaction keeps what it has   *)
(* written to itself until COMMIT and holds the locks of the rows it has   *)
(* locked or written, so another session reads the committed row and waits *)
(* to lock or write it.  Every statement takes its own snapshot; a         *)
(* statement that waited for a product row sees that row as the previous   *)
(* holder left it, and everything else as its own snapshot showed it.      *)
(* The Go and Python servers run the same statements in the same order.    *)
(*                                                                         *)
(* A request may be answered before its connection is done: by the time-   *)
(* out of the server, because the connection to the database broke, or     *)
(* (Rust) because a transaction that is dropped is rolled back only when   *)
(* its connection goes back to the pool.  Its handler is gone then, and    *)
(* the statement it was running, a COMMIT too, may still take effect.  pc  *)
(* says where the connection is, resp what has been answered.              *)
(*                                                                         *)
(* A definition whose comment begins with FAULT is a version of the next   *)
(* one with a mistake in it; no behaviour of Spec uses it.  It serves to   *)
(* show that the property it names can tell the mistake.                   *)
(***************************************************************************)
EXTENDS Integers, FiniteSets

CONSTANTS
  User,         \* authenticated users
  Product,      \* product ids; rows are archived, never deleted
  Request,      \* checkout, cancel and cart requests; an order is named
                \* by the request that placed it
  UserOf,       \* the user a request is authenticated as
  NoProduct,    \* no row is being waited for
  MaxQty,       \* largest quantity the INTEGER column of a line holds
  Prices,       \* prices an administrator may set
  StockLevels,  \* stock levels an administrator may set
  Ops,          \* which client and administrator operations occur
  Faults,       \* whether statements may fail
  TimeOuts      \* whether an answer may come before the statement is over

ASSUME CheckoutAssumption ==
  /\ UserOf \in [Request -> User]
  /\ NoProduct \notin Product
  /\ MaxQty \in Nat \ {0}
  /\ Prices \subseteq Nat
  /\ StockLevels \subseteq Nat
  /\ Ops \subseteq {"checkout", "cancel", "add", "edit", "admin", "archive"}
  /\ Faults \in BOOLEAN
  /\ TimeOuts \in BOOLEAN

VARIABLES
  stock, price, active,        \* products
  cart,                        \* cart_items: quantity of each line, 0 if none
  orders,                      \* orders with their order_items
  supply,                      \* history: stock as administrators provided it
  pc, resp,                    \* per request: statement, HTTP status
  lines,                       \* quantities the request works with
  want, held,                  \* product row waited for, product rows locked
  seenStock, seenPrice,        \* product rows as checkout read them
  written,                     \* lines whose item and stock are written
  doomed,                      \* cart lines its uncommitted DELETE removed
  shared,                      \* history: another request of the user was at
                               \* the cart while this one was
  target                       \* order a cancel names

catalogVars == <<stock, price, active, supply>>
txVars == <<lines, want, held, seenStock, seenPrice, written, doomed,
            shared>>
vars == <<catalogVars, cart, orders, pc, resp, txVars, target>>

Quantity == 0..MaxQty
NoLines == [p \in Product |-> 0]
NoOrder == [status |-> "none", lines |-> NoLines, paid |-> NoLines]

Order == [status : {"none", "confirmed", "cancelled"},
          lines  : [Product -> Quantity],
          paid   : [Product -> Nat]]

CheckoutSteps == {"locking", "checking", "writing", "clearing", "committing"}
CancelSteps == {"claiming", "restocking", "marking"}
EditSteps == {"upserting", "setting", "removing"}
Steps == CheckoutSteps \cup CancelSteps \cup EditSteps
           \cup {"idle", "reading", "showing", "done"}

TypeOK ==
  /\ stock \in [Product -> Int]
  /\ price \in [Product -> Nat]
  /\ active \in [Product -> BOOLEAN]
  /\ supply \in [Product -> Int]
  /\ cart \in [User -> [Product -> Quantity]]
  /\ orders \in [Request -> Order]
  /\ pc \in [Request -> Steps]
  /\ resp \in [Request -> {0, 200, 201, 204, 400, 404, 408, 409, 500}]
  /\ lines \in [Request -> [Product -> Quantity]]
  /\ want \in [Request -> Product \cup {NoProduct}]
  /\ held \in [Request -> SUBSET Product]
  /\ seenStock \in [Request -> [Product -> Int]]
  /\ seenPrice \in [Request -> [Product -> Nat]]
  /\ written \in [Request -> SUBSET Product]
  /\ doomed \in [Request -> SUBSET Product]
  /\ shared \in [Request -> BOOLEAN]
  /\ target \in [Request -> Request]

Init ==
  /\ stock \in [Product -> StockLevels]
  /\ price \in [Product -> Prices]
  /\ active = [p \in Product |-> TRUE]
  /\ supply = stock
  /\ cart \in [User -> [Product -> Quantity]]
  /\ orders = [r \in Request |-> NoOrder]
  /\ pc = [r \in Request |-> "idle"]
  /\ resp = [r \in Request |-> 0]
  /\ lines = [r \in Request |-> NoLines]
  /\ want = [r \in Request |-> NoProduct]
  /\ held = [r \in Request |-> {}]
  /\ seenStock = [r \in Request |-> NoLines]
  /\ seenPrice = [r \in Request |-> NoLines]
  /\ written = [r \in Request |-> {}]
  /\ doomed = [r \in Request |-> {}]
  /\ shared = [r \in Request |-> FALSE]
  /\ target = [r \in Request |-> r]

-----------------------------------------------------------------------------
\* Row locks and the lock manager.

InCart(ls) == {p \in Product : ls[p] > 0}

Free(p) == \A r \in Request : p \notin held[r]

\* FOR UPDATE, which a checkout takes, conflicts with the FOR KEY SHARE of a
\* foreign-key check; the lock of an UPDATE that leaves the key alone does not.
ForUpdate(p) == \E q \in Request : p \in held[q] /\ pc[q] \in CheckoutSteps

\* A cart line is locked by the checkout whose uncommitted DELETE removed it.
CartRowFree(u, p) ==
  \A r \in Request : UserOf[r] = u => p \notin doomed[r]

\* FAULT (CancelledOnce): the order is read without FOR UPDATE.
OrderNotLocked(o, r) == o \in Request /\ r \in Request

OrderFree(o, r) ==
  \A q \in Request \ {r} :
    ~(target[q] = o /\ pc[q] \in {"restocking", "marking"})

Blocks(q, r) ==
  /\ q # r
  /\ pc[r] \in {"locking", "restocking"}
  /\ want[r] \in held[q]

\* r is on a cycle of requests each waiting for a row another one holds.
Deadlocked(r) ==
  \E S \in SUBSET Request :
    /\ r \in S
    /\ \A s \in S : \E q \in S : Blocks(q, s)
    /\ \A q \in S : \E s \in S : Blocks(q, s)

\* The transaction is over, by COMMIT or by ROLLBACK: nothing is held.
Release(r) ==
  /\ lines' = [lines EXCEPT ![r] = NoLines]
  /\ want' = [want EXCEPT ![r] = NoProduct]
  /\ held' = [held EXCEPT ![r] = {}]
  /\ seenStock' = [seenStock EXCEPT ![r] = NoLines]
  /\ seenPrice' = [seenPrice EXCEPT ![r] = NoLines]
  /\ written' = [written EXCEPT ![r] = {}]
  /\ doomed' = [doomed EXCEPT ![r] = {}]
  /\ shared' = [shared EXCEPT ![r] = FALSE]

Goto(r, step) == pc' = [pc EXCEPT ![r] = step]

InFlight == {r \in Request : pc[r] \notin {"idle", "done"}}

\* The handler of r is at a step: it has not been answered.
At(r, step) == pc[r] = step /\ resp[r] = 0

\* r has been answered, and its connection is still at work.
Abandoned(r) == r \in InFlight /\ resp[r] # 0

\* The first answer counts.
Answer(r, code) ==
  /\ Goto(r, "done")
  /\ resp' = [resp EXCEPT ![r] = IF @ = 0 THEN code ELSE @]

\* The statement or transaction fails, and with it all it has done.
Rollback(r, code) ==
  /\ Answer(r, code)
  /\ Release(r)
  /\ UNCHANGED <<catalogVars, cart, orders, target>>

\* An early return answers; the open transaction is dropped with the handler.
Refuse(r, code) ==
  /\ resp' = [resp EXCEPT ![r] = code]
  /\ UNCHANGED <<catalogVars, cart, orders, pc, txVars, target>>

\* The effect of r is committed; its handler, if there still is one, goes on.
Committed(r, step) ==
  /\ Goto(r, IF resp[r] = 0 THEN step ELSE "done")
  /\ Release(r)

\* The lock on the awaited row is granted: go on to another row of the
\* statement, in any order since none is asked for, or to the next statement.
Granted(r, next) ==
  LET rest == InCart(lines[r]) \ (held[r] \cup {want[r]})
  IN /\ held' = [held EXCEPT ![r] = @ \cup {want[r]}]
     /\ \/ /\ rest = {}
           /\ want' = [want EXCEPT ![r] = NoProduct]
           /\ Goto(r, next)
        \/ /\ \E p \in rest : want' = [want EXCEPT ![r] = p]
           /\ UNCHANGED pc

\* The requests of the same user that are at the cart.
Mates(r) ==
  {q \in Request \ {r} :
     UserOf[q] = UserOf[r] /\ pc[q] \in CheckoutSteps \cup EditSteps}

\* A request to check out or to change lines ls of the cart gets to work.
Begin(r, ls, step) ==
  /\ lines' = [lines EXCEPT ![r] = ls]
  /\ Goto(r, step)
  /\ shared' = [q \in Request |->
       shared[q] \/ (Mates(r) # {} /\ q \in Mates(r) \cup {r})]

Starts(r, op) == pc[r] = "idle" /\ op \in Ops

-----------------------------------------------------------------------------
\* checkout

\* BEGIN; SELECT ... FROM cart_items JOIN products ... FOR UPDATE OF p.  The
\* quantities are those of the statement's snapshot.
SelectCart(r) ==
  LET ls == cart[UserOf[r]]
  IN /\ Starts(r, "checkout")
     /\ \/ /\ InCart(ls) = {}
           /\ Rollback(r, 400)
        \/ /\ \E p \in InCart(ls) : want' = [want EXCEPT ![r] = p]
           /\ Begin(r, ls, "locking")
           /\ UNCHANGED <<catalogVars, cart, orders, resp, held, seenStock,
                          seenPrice, written, doomed, target>>

\* FAULT (BackstopNeverFires, ImplementsOrderBook): SELECT without FOR UPDATE.
ReadRows(r) ==
  /\ pc[r] = "locking"
  /\ seenStock' = [seenStock EXCEPT ![r] = stock]
  /\ seenPrice' = [seenPrice EXCEPT
       ![r] = [p \in Product |-> IF lines[r][p] > 0 THEN price[p] ELSE 0]]
  /\ want' = [want EXCEPT ![r] = NoProduct]
  /\ Goto(r, "checking")
  /\ UNCHANGED <<catalogVars, cart, orders, resp, lines, held, written, doomed,
                 shared, target>>

\* One product row of the SELECT is locked and read as it now is.
LockRow(r) ==
  LET p == want[r]
  IN /\ pc[r] = "locking"
     /\ Free(p)
     /\ seenStock' = [seenStock EXCEPT ![r][p] = stock[p]]
     /\ seenPrice' = [seenPrice EXCEPT ![r][p] = price[p]]
     /\ Granted(r, "checking")
     /\ UNCHANGED <<catalogVars, cart, orders, resp, lines, written, doomed,
                    shared, target>>

\* FAULT (AnswerMatchesEffect): the order is inserted, and committed on its
\* own, before the loop.
CheckStockLate(r) ==
  /\ At(r, "checking")
  /\ \/ /\ \E p \in InCart(lines[r]) : lines[r][p] > seenStock[r][p]
        /\ orders' = [orders EXCEPT ![r].status = "confirmed"]
        /\ Answer(r, 409)
        /\ Release(r)
        /\ UNCHANGED <<catalogVars, cart, target>>
     \/ /\ \A p \in InCart(lines[r]) : lines[r][p] <= seenStock[r][p]
        /\ Goto(r, "writing")
        /\ UNCHANGED <<catalogVars, cart, orders, resp, txVars, target>>

\* The loop over the rows that compares quantity with stock.
CheckStock(r) ==
  /\ At(r, "checking")
  /\ \/ /\ \E p \in InCart(lines[r]) : lines[r][p] > seenStock[r][p]
        /\ Refuse(r, 409)
     \/ /\ \A p \in InCart(lines[r]) : lines[r][p] <= seenStock[r][p]
        /\ Goto(r, "writing")
        /\ UNCHANGED <<catalogVars, cart, orders, resp, txVars, target>>

\* INSERT the order, then for each line INSERT its item and UPDATE the stock of
\* its product: rows the transaction holds.  CHECK (stock_quantity >= 0)
\* refuses an update below 0.
WriteLine(r) ==
  /\ At(r, "writing")
  /\ \E p \in InCart(lines[r]) \ written[r] :
       \/ /\ stock[p] < lines[r][p]
          /\ Rollback(r, 400)
       \/ /\ stock[p] >= lines[r][p]
          /\ written' = [written EXCEPT ![r] = @ \cup {p}]
          /\ Goto(r, IF InCart(lines[r]) = written[r] \cup {p}
                       THEN "clearing" ELSE "writing")
          /\ UNCHANGED <<catalogVars, cart, orders, resp, lines, want, held,
                         seenStock, seenPrice, doomed, shared, target>>

\* FAULT (OrdersTakeTheCart): the DELETE names one product of the cart.
ClearOneLine(r) ==
  /\ At(r, "clearing")
  /\ \E p \in InCart(cart[UserOf[r]]) : doomed' = [doomed EXCEPT ![r] = {p}]
  /\ Goto(r, "committing")
  /\ UNCHANGED <<catalogVars, cart, orders, resp, lines, want, held, seenStock,
                 seenPrice, written, shared, target>>

\* DELETE FROM cart_items: every line committed by now, with a new snapshot.
ClearCart(r) ==
  LET u == UserOf[r]
  IN /\ At(r, "clearing")
     /\ \A p \in InCart(cart[u]) : CartRowFree(u, p)
     /\ doomed' = [doomed EXCEPT ![r] = InCart(cart[u])]
     /\ Goto(r, "committing")
     /\ UNCHANGED <<catalogVars, cart, orders, resp, lines, want, held,
                    seenStock, seenPrice, written, shared, target>>

Without(ls, gone) == [p \in Product |-> IF p \in gone THEN 0 ELSE ls[p]]

Only(ls, kept) == [p \in Product |-> IF p \in kept THEN ls[p] ELSE 0]

\* COMMIT makes what was written the order, also when nobody waits for it.
CommitCheckout(r) ==
  LET bought == Only(lines[r], written[r])
  IN /\ pc[r] = "committing"
     /\ stock' = [p \in Product |-> stock[p] - bought[p]]
     /\ cart' = [cart EXCEPT ![UserOf[r]] = Without(@, doomed[r])]
     /\ orders' = [orders EXCEPT ![r] = [status |-> "confirmed",
                                         lines  |-> bought,
                                         paid   |-> seenPrice[r]]]
     /\ Committed(r, "reading")
     /\ UNCHANGED <<price, active, supply, resp, target>>

\* The handler reads the order's items back, on a pooled connection of its
\* own, and answers; the read may fail with the order already committed.
ReadItems(r) ==
  /\ At(r, "reading")
  /\ \E code \in IF Faults THEN {201, 500} ELSE {201} : Answer(r, code)
  /\ UNCHANGED <<catalogVars, cart, orders, txVars, target>>

\* cancel, add_item and set_item read back what they committed.
ShowResult(r) ==
  /\ At(r, "showing")
  /\ \E code \in IF Faults THEN {200, 500} ELSE {200} : Answer(r, code)
  /\ UNCHANGED <<catalogVars, cart, orders, txVars, target>>

-----------------------------------------------------------------------------
\* cancel

\* BEGIN; SELECT ... FROM orders WHERE id AND user_id FOR UPDATE.
SelectOrder(r, o) ==
  /\ Starts(r, "cancel")
  /\ \/ /\ orders[o].status = "none" \/ UserOf[o] # UserOf[r]
        /\ Rollback(r, 404)
     \/ /\ orders[o].status # "none" /\ UserOf[o] = UserOf[r]
        /\ target' = [target EXCEPT ![r] = o]
        /\ Goto(r, "claiming")
        /\ UNCHANGED <<catalogVars, cart, orders, resp, txVars>>

\* FAULT (Ledger): the status of the order is not looked at.
ClaimAnyOrder(r) ==
  LET o == target[r]
  IN /\ At(r, "claiming")
     /\ OrderFree(o, r)
     /\ lines' = [lines EXCEPT ![r] = orders[o].lines]
     /\ \E p \in InCart(orders[o].lines) : want' = [want EXCEPT ![r] = p]
     /\ Goto(r, "restocking")
     /\ UNCHANGED <<catalogVars, cart, orders, resp, held, seenStock,
                    seenPrice, written, doomed, shared, target>>

\* The order row is locked and its status read; the items are read next.
ClaimOrder(r) ==
  LET o == target[r]
  IN /\ At(r, "claiming")
     /\ OrderFree(o, r)
     /\ \/ /\ orders[o].status = "cancelled"
           /\ Refuse(r, 409)
        \/ /\ orders[o].status # "cancelled"
           /\ lines' = [lines EXCEPT ![r] = orders[o].lines]
           /\ \E p \in InCart(orders[o].lines) :
                want' = [want EXCEPT ![r] = p]
           /\ Goto(r, "restocking")
           /\ UNCHANGED <<catalogVars, cart, orders, resp, held, seenStock,
                          seenPrice, written, doomed, shared, target>>

\* UPDATE products SET stock_quantity = stock_quantity + quantity, one item.
RestockRow(r) ==
  /\ At(r, "restocking")
  /\ Free(want[r])
  /\ Granted(r, "marking")
  /\ UNCHANGED <<catalogVars, cart, orders, resp, lines, seenStock, seenPrice,
                 written, doomed, shared, target>>

\* UPDATE orders SET status = 'cancelled'; COMMIT.
CommitCancel(r) ==
  /\ pc[r] = "marking"
  /\ stock' = [p \in Product |-> stock[p] + lines[r][p]]
  /\ orders' = [orders EXCEPT ![target[r]].status = "cancelled"]
  /\ Committed(r, "showing")
  /\ UNCHANGED <<price, active, supply, cart, resp, target>>

-----------------------------------------------------------------------------
\* Cart operations.

Line(p, q) == [NoLines EXCEPT ![p] = q]

\* add_item, first statement: is the product active?
CheckActive(r, p, q) ==
  /\ Starts(r, "add")
  /\ \/ /\ ~active[p]
        /\ Rollback(r, 404)
     \/ /\ active[p]
        /\ Begin(r, Line(p, q), "upserting")
        /\ UNCHANGED <<catalogVars, cart, orders, resp, want, held, seenStock,
                       seenPrice, written, doomed, target>>

\* set_item with q > 0, remove_item and clear: one statement for lines ls.
StartEdit(r, ls, step) ==
  /\ Starts(r, "edit")
  /\ Begin(r, ls, step)
  /\ UNCHANGED <<catalogVars, cart, orders, resp, want, held, seenStock,
                 seenPrice, written, doomed, target>>

StartSet(r, p, q) == StartEdit(r, Line(p, q), "setting")
StartRemove(r, p) == StartEdit(r, Line(p, 1), "removing")
StartClear(r) == StartEdit(r, [p \in Product |-> 1], "removing")

\* FAULT (TypeOK): the sum is stored whatever the column holds.
UpsertAnySum(r) ==
  LET u == UserOf[r]
  IN /\ pc[r] = "upserting"
     /\ \A p \in InCart(lines[r]) : CartRowFree(u, p)
     /\ cart' = [cart EXCEPT ![u] = [p \in Product |-> @[p] + lines[r][p]]]
     /\ Committed(r, "showing")
     /\ UNCHANGED <<catalogVars, orders, resp, target>>

\* add_item, second statement: INSERT ... ON CONFLICT DO UPDATE.  A new line
\* needs the foreign-key check's lock on the product row; a sum the column
\* cannot hold is an error.
Upsert(r) ==
  LET u == UserOf[r]
      sum == [p \in Product |-> cart[u][p] + lines[r][p]]
  IN /\ pc[r] = "upserting"
     /\ \A p \in InCart(lines[r]) :
          /\ CartRowFree(u, p)
          /\ cart[u][p] = 0 => ~ForUpdate(p)
     /\ \/ /\ \E p \in Product : sum[p] > MaxQty
           /\ Rollback(r, 500)
        \/ /\ \A p \in Product : sum[p] <= MaxQty
           /\ cart' = [cart EXCEPT ![u] = sum]
           /\ Committed(r, "showing")
           /\ UNCHANGED <<catalogVars, orders, resp, target>>

\* The lines of the cart that an edit finds.
Found(r) == InCart(lines[r]) \cap InCart(cart[UserOf[r]])

\* set_item: UPDATE cart_items; 404 if there is no such line.
SetItem(r) ==
  LET u == UserOf[r]
  IN /\ pc[r] = "setting"
     /\ \A p \in Found(r) : CartRowFree(u, p)
     /\ \/ /\ Found(r) = {}
           /\ Rollback(r, 404)
        \/ /\ Found(r) # {}
           /\ cart' = [cart EXCEPT ![u] =
                [p \in Product |-> IF p \in Found(r) THEN lines[r][p] ELSE @[p]]]
           /\ Committed(r, "showing")
           /\ UNCHANGED <<catalogVars, orders, resp, target>>

\* remove_item, clear: DELETE FROM cart_items, of one product or of all.
RemoveLines(r) ==
  LET u == UserOf[r]
  IN /\ pc[r] = "removing"
     /\ \A p \in Found(r) : CartRowFree(u, p)
     /\ cart' = [cart EXCEPT ![u] = Without(@, Found(r))]
     /\ Answer(r, 204)
     /\ Release(r)
     /\ UNCHANGED <<catalogVars, orders, target>>

-----------------------------------------------------------------------------
\* Waits.

\* The statement of r has to wait for a lock.
Waiting(r) ==
  \/ pc[r] \in {"locking", "restocking"} /\ ~Free(want[r])
  \/ pc[r] = "claiming" /\ ~OrderFree(target[r], r)
  \/ /\ pc[r] = "clearing"
     /\ \E p \in InCart(cart[UserOf[r]]) : ~CartRowFree(UserOf[r], p)
  \/ /\ pc[r] = "upserting"
     /\ \E p \in InCart(lines[r]) :
          \/ ~CartRowFree(UserOf[r], p)
          \/ cart[UserOf[r]][p] = 0 /\ ForUpdate(p)
  \/ /\ pc[r] \in {"setting", "removing"}
     /\ \E p \in Found(r) : ~CartRowFree(UserOf[r], p)

\* q holds a lock that r waits for: of a product row, of an order, of a cart
\* line, or of the product row a new cart line refers to.
WaitsFor(r, q) ==
  \/ Blocks(q, r)
  \/ /\ pc[r] = "claiming" /\ q # r
     /\ target[q] = target[r] /\ pc[q] \in {"restocking", "marking"}
  \/ /\ pc[r] = "clearing" /\ UserOf[q] = UserOf[r]
     /\ doomed[q] \cap InCart(cart[UserOf[r]]) # {}
  \/ /\ pc[r] = "upserting"
     /\ \E p \in InCart(lines[r]) :
          \/ UserOf[q] = UserOf[r] /\ p \in doomed[q]
          \/ /\ cart[UserOf[r]][p] = 0
             /\ p \in held[q] /\ pc[q] \in CheckoutSteps
  \/ /\ pc[r] \in {"setting", "removing"} /\ UserOf[q] = UserOf[r]
     /\ doomed[q] \cap Found(r) # {}

-----------------------------------------------------------------------------
\* Failures, and answers that do not wait for the database.

\* The deadlock detector fails one of the statements on a cycle.
DeadlockAbort(r) ==
  /\ Deadlocked(r)
  /\ Rollback(r, 500)

\* FAULT (Ledger): what was written before the error is committed: the item of
\* one more line than the stock was updated for.
FailAndCommit(r) ==
  /\ Faults
  /\ At(r, "writing")
  /\ \E p \in InCart(lines[r]) \ written[r] :
       orders' = [orders EXCEPT
         ![r] = [status |-> "confirmed",
                 lines  |-> Only(lines[r], written[r] \cup {p}),
                 paid   |-> Only(seenPrice[r], written[r] \cup {p})]]
  /\ stock' = [p \in Product |-> stock[p] - Only(lines[r], written[r])[p]]
  /\ Answer(r, 500)
  /\ Release(r)
  /\ UNCHANGED <<price, active, supply, cart, target>>

\* A statement fails, or the session that runs it ends.
Fail(r) ==
  /\ Faults
  /\ pc[r] \in CheckoutSteps \cup CancelSteps \cup EditSteps
  /\ Rollback(r, 500)

\* The answer comes while the connection is at work: 408 of the time-out, or
\* 500, or none, when the connection to the database or to the client is lost.
\* Of these the model shows the first.
TimeOut(r) ==
  /\ TimeOuts
  /\ r \in InFlight
  /\ resp[r] = 0
  /\ resp' = [resp EXCEPT ![r] = 408]
  /\ UNCHANGED <<catalogVars, cart, orders, pc, txVars, target>>

\* FAULT (EveryRequestAnswered, NoStandstill): the connection is left with its
\* transaction open.
LeaveOpen(r) ==
  /\ Abandoned(r)
  /\ ~Waiting(r)
  /\ Goto(r, "done")
  /\ UNCHANGED <<catalogVars, cart, orders, resp, txVars, target>>

\* The connection of an abandoned request has run its statement and goes back
\* to the pool: a transaction still open is rolled back.
RollBackLate(r) ==
  /\ Abandoned(r)
  /\ ~Waiting(r)
  /\ Goto(r, "done")
  /\ Release(r)
  /\ UNCHANGED <<catalogVars, cart, orders, resp, target>>

-----------------------------------------------------------------------------
\* Catalogue administration: update_product and archive_product, single
\* statements that wait for the product row.  An omitted field keeps its value.

UpdateProduct(p, s, c, a) ==
  /\ Free(p)
  /\ stock' = [stock EXCEPT ![p] = s]
  /\ supply' = [supply EXCEPT ![p] = @ + s - stock[p]]
  /\ price' = [price EXCEPT ![p] = c]
  /\ active' = [active EXCEPT ![p] = a]
  /\ UNCHANGED <<cart, orders, pc, resp, txVars, target>>

ArchiveProduct(p) == UpdateProduct(p, stock[p], price[p], FALSE)

-----------------------------------------------------------------------------
\* One statement of request r, once it is under way.
Proceed(r) ==
  \/ LockRow(r) \/ CheckStock(r) \/ WriteLine(r) \/ ClearCart(r)
  \/ CommitCheckout(r) \/ ReadItems(r)
  \/ ClaimOrder(r) \/ RestockRow(r) \/ CommitCancel(r)
  \/ Upsert(r) \/ SetItem(r) \/ RemoveLines(r) \/ ShowResult(r)
  \/ DeadlockAbort(r) \/ RollBackLate(r)

Arrive(r) ==
  \/ SelectCart(r)
  \/ \E o \in Request : SelectOrder(r, o)
  \/ \E p \in Product, q \in 1..MaxQty : CheckActive(r, p, q) \/ StartSet(r, p, q)
  \/ \E p \in Product : StartRemove(r, p)
  \/ StartClear(r)

Admin(p) ==
  \/ /\ "admin" \in Ops
     /\ \E s \in StockLevels \cup {stock[p]}, c \in Prices \cup {price[p]} :
          UpdateProduct(p, s, c, active[p])
  \/ /\ "archive" \in Ops
     /\ UpdateProduct(p, stock[p], price[p], TRUE) \/ ArchiveProduct(p)

Next ==
  \/ \E r \in Request : Arrive(r) \/ Proceed(r) \/ Fail(r) \/ TimeOut(r)
  \/ \E p \in Product : Admin(p)

\* The server keeps running the requests it has accepted, and the database
\* resolves every deadlock; nothing makes a client or administrator act.
Fairness == \A r \in Request : WF_vars(Proceed(r))

Spec == Init /\ [][Next]_vars
FairSpec == Spec /\ Fairness

-----------------------------------------------------------------------------
\* Properties.

\* The comparison of quantity with stock in the checkout loop is still true
\* when the stock is decremented, whatever other checkouts, cancellations and
\* administrators did in between: the database's CHECK is never what prevents
\* an oversell, and no shopper is told 400 for lack of stock.
BackstopNeverFires ==
  \A r \in Request :
    pc[r] = "writing" => \A p \in Product : lines[r][p] <= stock[p]

\* The units of p in orders that are not cancelled, each known by its order and
\* its number in the line.
UnitsSold(p) ==
  {u \in Request \X (1..MaxQty) :
     orders[u[1]].status = "confirmed" /\ u[2] <= orders[u[1]].lines[p]}

\* Units are conserved: what administrators supplied is in stock or in an
\* order that is not cancelled.  A cancellation restocks once and completely,
\* and no decrement or restock of another transaction is lost.
Ledger ==
  \A p \in Product : stock[p] + Cardinality(UnitsSold(p)) = supply[p]

\* An answer tells what the database holds: 201 an order, 400, 404 and 409
\* none, even when failures interrupt requests at any statement.
AnswerMatchesEffect ==
  \A r \in Request :
    /\ resp[r] = 201 => orders[r].status # "none"
    /\ resp[r] \in {400, 404, 409} => orders[r].status = "none"

\* Of all the requests to cancel one order, one succeeds at most.
CancelledOnce ==
  \A q, r \in Request :
    /\ target[q] = target[r]
    /\ pc[q] = "done" /\ resp[q] = 200 /\ target[q] # q
    /\ pc[r] = "done" /\ resp[r] = 200 /\ target[r] # r
    => q = r /\ orders[target[r]].status = "cancelled"

\* Checkout and cancel, statement by statement, do what OrderBook does in one
\* step: an order takes its units while they are in stock and is charged the
\* prices in force when it commits.
Book == INSTANCE OrderBook WITH OrderId <- Request
ImplementsOrderBook == Book!Spec

Placed(r) == orders[r].status = "none" /\ orders'[r].status = "confirmed"

\* checkout "clears the cart" it orders: every unit of a new order is in the
\* cart until the order commits, and is not ordered again.
NoUnitOrderedTwice ==
  [][\A r \in Request : Placed(r) =>
       \A p \in Product : orders'[r].lines[p] <= cart[UserOf[r]][p]]_vars

\* An order is exactly the cart, and leaves it empty, if no other request of
\* the user was at the cart during the checkout, not even one that was answered
\* long ago: whatever other users, cancellations and administrators do, failures
\* and late COMMITs included.
OrdersTakeTheCart ==
  [][\A r \in Request : Placed(r) /\ ~shared[r] =>
       /\ orders'[r].lines = cart[UserOf[r]]
       /\ cart'[UserOf[r]] = NoLines]_vars

\* Follow from any request what it waits for, what that waits for, and so on:
\* there is a request on the way whose statement need not wait, or a cycle of
\* product rows, which the database resolves.  No mixture of order, cart and
\* product locks is a standstill, and none is left behind by an answer.
NoStandstill ==
  \A S \in SUBSET Request :
    /\ S \cap InFlight # {}
    /\ \A r \in S, q \in Request : WaitsFor(r, q) => q \in S
    => \E r \in S \cap InFlight : ~Waiting(r) \/ Deadlocked(r)

\* Every request that reaches a handler is answered, and its connection comes
\* free: row locks, waits and deadlocks come to an end.
EveryRequestAnswered ==
  \A r \in Request : pc[r] # "idle" ~> pc[r] = "done"

-----------------------------------------------------------------------------
\* The inductive invariant behind BackstopNeverFires and ImplementsOrderBook.

Locked == {"checking", "writing", "clearing", "committing"}

StockNonNegative == \A p \in Product : stock[p] >= 0

\* No product row is locked by two requests.
RowLocksExclusive ==
  \A q, r \in Request : q # r => held[q] \cap held[r] = {}

\* No order row is locked by two requests.
OrderLocksExclusive ==
  \A q, r \in Request :
    /\ pc[q] \in {"restocking", "marking"}
    /\ pc[r] \in {"restocking", "marking"}
    /\ target[q] = target[r]
    => q = r

\* A request that works on product rows holds all rows before the one it waits
\* for, then all of them; any other request holds none.
HoldsWhatItNeeds ==
  \A r \in Request :
    /\ held[r] \subseteq InCart(lines[r])
    /\ pc[r] \in {"locking", "restocking"} =>
         want[r] \in InCart(lines[r]) \ held[r]
    /\ pc[r] \in Locked \cup {"marking"} =>
         held[r] = InCart(lines[r]) /\ held[r] # {}
    /\ pc[r] \notin CheckoutSteps \cup {"restocking", "marking"} =>
         held[r] = {}

\* What a checkout has read of the rows it locked is what they still hold.
SeenIsCurrent ==
  \A r \in Request :
    pc[r] \in CheckoutSteps =>
      \A p \in Product :
        IF p \in held[r]
          THEN seenStock[r][p] = stock[p] /\ seenPrice[r][p] = price[p]
          ELSE seenPrice[r][p] = 0

\* Past the comparison loop, every line is covered by the stock.
EnoughInStock ==
  \A r \in Request :
    pc[r] \in {"writing", "clearing", "committing"} =>
      \A p \in Product : lines[r][p] <= stock[p]

\* Every line is written before the cart is cleared.
AllWritten ==
  \A r \in Request :
    pc[r] \in {"clearing", "committing"} => written[r] = InCart(lines[r])

\* An order exists once its request has committed, and is not empty.
PlacedOnce ==
  \A r \in Request :
    /\ orders[r].status # "none" => pc[r] \in {"reading", "done"}
    /\ orders[r].status # "none" => InCart(orders[r].lines) # {}

\* The request that cancels works on the lines of a confirmed order.
CancelsConfirmed ==
  \A r \in Request :
    /\ pc[r] = "claiming" => orders[target[r]].status # "none"
    /\ pc[r] \in {"restocking", "marking"} =>
         /\ orders[target[r]].status = "confirmed"
         /\ lines[r] = orders[target[r]].lines

\* What Release clears is clear while no checkout runs in the request.
CleanWhenIdle ==
  \A r \in Request :
    pc[r] \notin CheckoutSteps => seenPrice[r] = NoLines

IInv ==
  /\ TypeOK
  /\ StockNonNegative
  /\ RowLocksExclusive
  /\ OrderLocksExclusive
  /\ HoldsWhatItNeeds
  /\ SeenIsCurrent
  /\ EnoughInStock
  /\ AllWritten
  /\ PlacedOnce
  /\ CancelsConfirmed
  /\ CleanWhenIdle

-----------------------------------------------------------------------------
\* What AnswerMatchesEffect and CancelledOnce need besides IInv.

\* An answer given early is a time-out, or a refusal before its roll-back.
\* An order that is read back is there.
AnsweredLast ==
  \A r \in Request :
    /\ resp[r] \notin {0, 408, 409} => pc[r] = "done"
    /\ resp[r] = 409 => pc[r] \in {"checking", "claiming", "done"}
    /\ pc[r] = "reading" => orders[r].status # "none"

\* Only a cancel names an order.
OnlyCancelsTarget ==
  \A r \in Request : pc[r] \in EditSteps \cup {"idle"} => target[r] = r

\* The cancel that has committed.
Cancelled(r) == target[r] # r /\ (pc[r] = "showing" \/ resp[r] = 200)

\* Of each order there is one, and the order shows it.
OneCancels ==
  /\ \A r \in Request : Cancelled(r) => orders[target[r]].status = "cancelled"
  /\ \A q, r \in Request :
       Cancelled(q) /\ Cancelled(r) /\ target[q] = target[r] => q = r

AnswerInv ==
  /\ AnsweredLast
  /\ AnswerMatchesEffect
  /\ OnlyCancelsTarget
  /\ OneCancels

-----------------------------------------------------------------------------
\* What NoStandstill needs besides IInv.

\* Finitely many requests are in flight, however many there may be.
FinitelyMany == IsFiniteSet(InFlight)

\* Only a checkout about to commit has deleted cart lines.
DoomedLast == \A r \in Request : doomed[r] # {} => pc[r] = "committing"

LockInv == FinitelyMany /\ DoomedLast

-----------------------------------------------------------------------------
\* What OrdersTakeTheCart needs besides IInv.

\* Requests that are at one cart together know it.
MatesShare ==
  \A q, r \in Request :
    /\ q # r /\ UserOf[q] = UserOf[r]
    /\ pc[q] \in CheckoutSteps \cup EditSteps
    /\ pc[r] \in CheckoutSteps \cup EditSteps
    => shared[r]

\* The cart of a checkout that is alone at it is the one it selected, and its
\* DELETE got all of it.
CartKept ==
  \A r \in Request : ~shared[r] =>
    /\ pc[r] \in CheckoutSteps => lines[r] = cart[UserOf[r]]
    /\ pc[r] = "committing" => doomed[r] = InCart(cart[UserOf[r]])

CartInv == MatesShare /\ CartKept
=============================================================================
