--------------------------- MODULE CheckoutProofs ---------------------------
(***************************************************************************)
(* Proofs about Checkout for every set of users, products and requests.    *)
(***************************************************************************)
EXTENDS Checkout, TLAPS

\* No lines are lines, and no order is an order.
LEMMA NoLinesType ==
  /\ NoLines \in [Product -> Quantity]
  /\ NoLines \in [Product -> Nat]
  /\ NoLines \in [Product -> Int]
  /\ NoOrder \in Order
<1>1. 0 \in Quantity
  BY CheckoutAssumption DEF Quantity
<1>2. /\ NoLines \in [Product -> Quantity]
      /\ NoLines \in [Product -> Nat]
      /\ NoLines \in [Product -> Int]
  BY <1>1 DEF NoLines
<1>3. QED
  BY <1>2 DEF NoOrder, Order

\* Every request is some user's.
LEMMA UserOfType == \A r \in Request : UserOf[r] \in User
  BY CheckoutAssumption

\* The initial states satisfy the inductive invariant.
LEMMA InitIInv == Init => IInv
<1> SUFFICES ASSUME Init PROVE IInv
  OBVIOUS
<1>1. \A p \in Product : stock[p] \in Nat /\ price[p] \in Nat
  BY CheckoutAssumption DEF Init
<1>2. /\ stock \in [Product -> Int] /\ stock = supply
      /\ price \in [Product -> Nat]
  BY <1>1 DEF Init
<1>3. TypeOK
  BY <1>2, NoLinesType DEF Init, TypeOK, Steps
<1>4. StockNonNegative
  BY <1>1 DEF StockNonNegative
<1>5. RowLocksExclusive /\ OrderLocksExclusive
  BY DEF Init, RowLocksExclusive, OrderLocksExclusive
<1>6. HoldsWhatItNeeds
  BY DEF Init, HoldsWhatItNeeds, Locked, CheckoutSteps
<1>7. SeenIsCurrent /\ EnoughInStock /\ AllWritten
  BY DEF Init, SeenIsCurrent, EnoughInStock, AllWritten, CheckoutSteps
<1>8. PlacedOnce /\ CancelsConfirmed /\ CleanWhenIdle
  BY DEF Init, PlacedOnce, CancelsConfirmed, CleanWhenIdle, NoOrder
<1>9. QED
  BY <1>3, <1>4, <1>5, <1>6, <1>7, <1>8 DEF IInv

\* A request whose transaction is over, whatever it leaves in the cart.
LEMMA ReleasedIInv ==
  ASSUME IInv, NEW r \in Request, NEW step \in {"done", "showing"},
         step = "showing" => pc[r] \notin {"reading", "done"},
         Goto(r, step), Release(r),
         cart' \in [User -> [Product -> Quantity]],
         resp' \in [Request -> {0, 200, 201, 204, 400, 404, 408, 409, 500}],
         UNCHANGED <<catalogVars, orders, target>>
  PROVE  IInv'
<1> USE DEF Goto, Release, catalogVars
<1>1. TypeOK'
  BY NoLinesType DEF IInv, TypeOK, Steps
<1>2. StockNonNegative'
  BY DEF IInv, StockNonNegative
<1>3. RowLocksExclusive'
  BY DEF IInv, TypeOK, RowLocksExclusive
<1>4. OrderLocksExclusive'
  BY DEF IInv, TypeOK, OrderLocksExclusive
<1>5. HoldsWhatItNeeds'
  BY DEF IInv, TypeOK, HoldsWhatItNeeds, Locked, InCart, CheckoutSteps
<1>6. SeenIsCurrent'
  BY DEF IInv, TypeOK, SeenIsCurrent, CheckoutSteps
<1>7. EnoughInStock' /\ AllWritten'
  BY DEF IInv, TypeOK, EnoughInStock, AllWritten
<1>8. PlacedOnce'
  BY DEF IInv, TypeOK, PlacedOnce
<1>9. CancelsConfirmed'
  BY DEF IInv, TypeOK, CancelsConfirmed
<1>10. CleanWhenIdle'
  BY DEF IInv, TypeOK, CleanWhenIdle
<1>11. QED
  BY <1>1, <1>2, <1>3, <1>4, <1>5, <1>6, <1>7, <1>8, <1>9, <1>10 DEF IInv

\* The first answer of a request is kept.
LEMMA AnswerType ==
  ASSUME IInv, NEW r \in Request,
         NEW code \in {200, 201, 204, 400, 404, 408, 409, 500},
         \/ Answer(r, code)
         \/ resp' = [resp EXCEPT ![r] = code]
         \/ resp' = resp
  PROVE  resp' \in [Request -> {0, 200, 201, 204, 400, 404, 408, 409, 500}]
<1> DEFINE Codes == {0, 200, 201, 204, 400, 404, 408, 409, 500}
<1>1. resp \in [Request -> Codes] /\ resp[r] \in Codes /\ code \in Codes
  BY DEF IInv, TypeOK
<1> DEFINE first == IF resp[r] = 0 THEN code ELSE resp[r]
<1>2. first \in Codes
  BY <1>1
<1>3. \/ resp' = [resp EXCEPT ![r] = first]
      \/ resp' = [resp EXCEPT ![r] = code]
      \/ resp' = resp
  BY DEF Answer
<1> HIDE DEF Codes, first
<1>4. resp' \in [Request -> Codes]
  BY <1>1, <1>2, <1>3
<1>5. QED
  BY <1>4 DEF Codes

\* A transaction that is rolled back leaves the invariant true.
LEMMA RollbackIInv ==
  ASSUME IInv, NEW r \in Request,
         NEW code \in {400, 404, 500}, Rollback(r, code)
  PROVE  IInv'
<1>1. /\ Goto(r, "done") /\ Release(r) /\ cart' = cart
      /\ UNCHANGED <<catalogVars, orders, target>>
  BY DEF Rollback, Answer
<1>2. resp' \in [Request -> {0, 200, 201, 204, 400, 404, 408, 409, 500}]
  BY AnswerType DEF Rollback
<1>3. cart' \in [User -> [Product -> Quantity]]
  BY <1>1 DEF IInv, TypeOK
<1>4. QED
  BY <1>1, <1>2, <1>3, ReleasedIInv

\* So does an abandoned one.
LEMMA RollBackLateIInv ==
  ASSUME IInv, NEW r \in Request, RollBackLate(r)
  PROVE  IInv'
<1>1. /\ Goto(r, "done") /\ Release(r) /\ cart' = cart /\ resp' = resp
      /\ UNCHANGED <<catalogVars, orders, target>>
  BY DEF RollBackLate
<1>2. /\ cart' \in [User -> [Product -> Quantity]]
      /\ resp' \in [Request -> {0, 200, 201, 204, 400, 404, 408, 409, 500}]
  BY <1>1 DEF IInv, TypeOK
<1>3. QED
  BY <1>1, <1>2, ReleasedIInv

\* An answer alone changes nothing that the invariant is about.
LEMMA EarlyAnswerIInv ==
  ASSUME IInv, NEW r \in Request, Refuse(r, 409) \/ TimeOut(r)
  PROVE  IInv'
<1> USE DEF Refuse, TimeOut
<1>1. resp' \in [Request -> {0, 200, 201, 204, 400, 404, 408, 409, 500}]
  BY AnswerType
<1>2. TypeOK'
  BY <1>1 DEF IInv, TypeOK, catalogVars, txVars
<1>3. QED
  BY <1>2 DEF IInv, catalogVars, txVars, StockNonNegative, RowLocksExclusive,
       OrderLocksExclusive, HoldsWhatItNeeds, SeenIsCurrent, EnoughInStock,
       AllWritten, PlacedOnce, CancelsConfirmed, CleanWhenIdle, InCart

\* Taking the cart's lines.
LEMMA SelectCartIInv ==
  ASSUME IInv, NEW r \in Request, SelectCart(r)
  PROVE  IInv'
<1> DEFINE ls == cart[UserOf[r]]
<1>1. CASE Rollback(r, 400)
  BY <1>1, RollbackIInv
<1>2. CASE /\ \E p \in InCart(ls) : want' = [want EXCEPT ![r] = p]
           /\ Begin(r, ls, "locking")
           /\ UNCHANGED <<catalogVars, cart, orders, resp, held, seenStock,
                          seenPrice, written, doomed, target>>
  <2> USE <1>2 DEF Begin, Goto, catalogVars
  <2>1. pc[r] = "idle" /\ held[r] = {} /\ seenPrice[r] = NoLines
    BY DEF SelectCart, Starts, IInv, HoldsWhatItNeeds, CleanWhenIdle,
           CheckoutSteps
  <2>2. PICK p \in InCart(ls) : want' = [want EXCEPT ![r] = p]
    OBVIOUS
  <2>3. TypeOK'
    <3>1. ls \in [Product -> Quantity]
      BY UserOfType DEF IInv, TypeOK
    <3>2. p \in Product /\ "locking" \in Steps
      BY DEF InCart, Steps, CheckoutSteps
    <3>3. shared' \in [Request -> BOOLEAN]
      BY DEF IInv, TypeOK
    <3>4. QED
      BY <2>2, <3>1, <3>2, <3>3 DEF IInv, TypeOK
  <2>4. StockNonNegative'
    BY DEF IInv, StockNonNegative
  <2>5. RowLocksExclusive'
    BY DEF IInv, TypeOK, RowLocksExclusive
  <2>6. OrderLocksExclusive'
    BY DEF IInv, TypeOK, OrderLocksExclusive
  <2>7. HoldsWhatItNeeds'
    BY <2>1, <2>2 DEF IInv, TypeOK, HoldsWhatItNeeds, Locked, InCart,
                      CheckoutSteps
  <2>8. SeenIsCurrent'
    BY <2>1 DEF IInv, TypeOK, SeenIsCurrent, CheckoutSteps, NoLines
  <2>9. EnoughInStock' /\ AllWritten'
    BY DEF IInv, TypeOK, EnoughInStock, AllWritten
  <2>10. PlacedOnce'
    BY <2>1 DEF IInv, TypeOK, PlacedOnce
  <2>11. CancelsConfirmed'
    BY DEF IInv, TypeOK, CancelsConfirmed
  <2>12. CleanWhenIdle'
    BY DEF IInv, TypeOK, CleanWhenIdle, CheckoutSteps
  <2>13. QED
    BY <2>3, <2>4, <2>5, <2>6, <2>7, <2>8, <2>9, <2>10, <2>11, <2>12 DEF IInv
<1>3. QED
  BY <1>1, <1>2 DEF SelectCart

\* The lock on a product row is granted to a checkout, which reads the row.
LEMMA LockRowIInv ==
  ASSUME IInv, NEW r \in Request, LockRow(r)
  PROVE  IInv'
<1> DEFINE p == want[r]
<1> USE DEF Granted, Goto, catalogVars
<1>1. /\ pc[r] = "locking"
      /\ p \in Product /\ p \in InCart(lines[r]) \ held[r]
      /\ \A q \in Request : p \notin held[q]
      /\ held[r] \subseteq InCart(lines[r])
  BY DEF LockRow, Free, IInv, HoldsWhatItNeeds, InCart
<1>2. /\ held' = [held EXCEPT ![r] = @ \cup {p}]
      /\ seenStock' = [seenStock EXCEPT ![r][p] = stock[p]]
      /\ seenPrice' = [seenPrice EXCEPT ![r][p] = price[p]]
      /\ UNCHANGED <<catalogVars, cart, orders, resp, lines, written, doomed,
                     shared, target>>
  BY DEF LockRow
<1>3. \/ /\ pc' = pc
         /\ \E q \in InCart(lines[r]) \ (held[r] \cup {p}) :
              want' = [want EXCEPT ![r] = q]
      \/ /\ pc' = [pc EXCEPT ![r] = "checking"]
         /\ want' = [want EXCEPT ![r] = NoProduct]
         /\ InCart(lines[r]) = held[r] \cup {p}
  BY <1>1 DEF LockRow
<1>4. TypeOK'
  <2>1. held' \in [Request -> SUBSET Product]
    BY <1>1, <1>2 DEF IInv, TypeOK
  <2>2. /\ pc' \in [Request -> Steps]
        /\ want' \in [Request -> Product \cup {NoProduct}]
    <3>1. "checking" \in Steps /\ InCart(lines[r]) \subseteq Product
      BY DEF Steps, CheckoutSteps, InCart
    <3>2. PICK v \in Product \cup {NoProduct} : want' = [want EXCEPT ![r] = v]
      BY <1>3, <3>1
    <3>3. PICK step \in Steps : pc' = [pc EXCEPT ![r] = step] \/ pc' = pc
      BY <1>3, <3>1
    <3>4. /\ pc \in [Request -> Steps]
          /\ want \in [Request -> Product \cup {NoProduct}]
      BY DEF IInv, TypeOK
    <3>5. pc' \in [Request -> Steps]
      BY <3>3, <3>4
    <3>6. want' \in [Request -> Product \cup {NoProduct}]
      BY <3>2, <3>4
    <3>7. QED
      BY <3>5, <3>6
  <2>3. /\ seenStock' \in [Request -> [Product -> Int]]
        /\ seenPrice' \in [Request -> [Product -> Nat]]
    BY <1>1, <1>2 DEF IInv, TypeOK
  <2>4. QED
    BY <1>2, <2>1, <2>2, <2>3 DEF IInv, TypeOK
<1>5. StockNonNegative'
  BY <1>2 DEF IInv, StockNonNegative
<1>6. RowLocksExclusive'
  BY <1>1, <1>2 DEF IInv, TypeOK, RowLocksExclusive
<1>7. OrderLocksExclusive'
  BY <1>1, <1>2, <1>3 DEF IInv, TypeOK, OrderLocksExclusive
<1>8. HoldsWhatItNeeds'
  BY <1>1, <1>2, <1>3
  DEF IInv, TypeOK, HoldsWhatItNeeds, Locked, InCart, CheckoutSteps
<1>9. SeenIsCurrent'
  BY <1>1, <1>2, <1>3 DEF IInv, TypeOK, SeenIsCurrent, CheckoutSteps
<1>10. EnoughInStock' /\ AllWritten'
  BY <1>1, <1>2, <1>3 DEF IInv, TypeOK, EnoughInStock, AllWritten
<1>11. PlacedOnce'
  BY <1>1, <1>2, <1>3 DEF IInv, TypeOK, PlacedOnce
<1>12. CancelsConfirmed'
  BY <1>1, <1>2, <1>3 DEF IInv, TypeOK, CancelsConfirmed
<1>13. CleanWhenIdle'
  BY <1>1, <1>2, <1>3 DEF IInv, TypeOK, CleanWhenIdle, CheckoutSteps
<1>14. QED
  BY <1>4, <1>5, <1>6, <1>7, <1>8, <1>9, <1>10, <1>11, <1>12, <1>13 DEF IInv

\* The comparison loop: past it, the stock covers every line.
LEMMA CheckStockIInv ==
  ASSUME IInv, NEW r \in Request, CheckStock(r)
  PROVE  IInv'
<1>1. CASE Refuse(r, 409)
  BY <1>1, EarlyAnswerIInv
<1>2. CASE /\ \A p \in InCart(lines[r]) : lines[r][p] <= seenStock[r][p]
           /\ pc' = [pc EXCEPT ![r] = "writing"]
           /\ UNCHANGED <<catalogVars, cart, orders, resp, txVars, target>>
  <2> USE <1>2 DEF catalogVars, txVars
  <2>1. /\ pc[r] = "checking"
        /\ held[r] = InCart(lines[r])
    BY DEF CheckStock, At, IInv, HoldsWhatItNeeds, Locked
  <2>2. \A p \in Product : lines[r][p] <= stock[p]
    <3> SUFFICES ASSUME NEW p \in Product PROVE lines[r][p] <= stock[p]
      OBVIOUS
    <3>1. CASE p \in held[r]
      BY <2>1, <3>1 DEF IInv, SeenIsCurrent, CheckoutSteps
    <3>2. CASE p \notin held[r]
      BY <2>1, <3>2
      DEF IInv, StockNonNegative, TypeOK, InCart, Quantity
    <3>3. QED
      BY <3>1, <3>2
  <2>3. TypeOK'
    BY DEF IInv, TypeOK, Steps, CheckoutSteps
  <2>4. StockNonNegative' /\ RowLocksExclusive' /\ OrderLocksExclusive'
    BY DEF IInv, TypeOK, StockNonNegative, RowLocksExclusive,
           OrderLocksExclusive
  <2>5. HoldsWhatItNeeds'
    BY <2>1 DEF IInv, TypeOK, HoldsWhatItNeeds, Locked, InCart, CheckoutSteps
  <2>6. SeenIsCurrent'
    BY <2>1 DEF IInv, TypeOK, SeenIsCurrent, CheckoutSteps
  <2>7. EnoughInStock' /\ AllWritten'
    BY <2>1, <2>2 DEF IInv, TypeOK, EnoughInStock, AllWritten
  <2>8. PlacedOnce' /\ CancelsConfirmed' /\ CleanWhenIdle'
    BY <2>1 DEF IInv, TypeOK, PlacedOnce, CancelsConfirmed, CleanWhenIdle,
                CheckoutSteps
  <2>9. QED
    BY <2>3, <2>4, <2>5, <2>6, <2>7, <2>8 DEF IInv
<1>3. QED
  BY <1>1, <1>2 DEF CheckStock, Goto

\* The insert and decrement of a line, in rows that the checkout holds.
LEMMA WriteLineIInv ==
  ASSUME IInv, NEW r \in Request, WriteLine(r)
  PROVE  IInv'
<1>1. PICK p \in InCart(lines[r]) \ written[r] :
        \/ Rollback(r, 400)
        \/ /\ written' = [written EXCEPT ![r] = @ \cup {p}]
           /\ Goto(r, IF InCart(lines[r]) = written[r] \cup {p}
                        THEN "clearing" ELSE "writing")
           /\ UNCHANGED <<catalogVars, cart, orders, resp, lines, want, held,
                          seenStock, seenPrice, doomed, shared, target>>
  BY DEF WriteLine
<1>2. CASE Rollback(r, 400)
  BY <1>2, RollbackIInv
<1>3. CASE ~Rollback(r, 400)
  <2> USE DEF catalogVars
  <2>1. /\ pc[r] = "writing"
        /\ written' = [written EXCEPT ![r] = @ \cup {p}]
        /\ UNCHANGED <<catalogVars, cart, orders, resp, lines, want, held,
                       seenStock, seenPrice, doomed, shared, target>>
    BY <1>1, <1>3 DEF WriteLine, At
  <2>2. PICK step \in {"writing", "clearing"} :
          /\ pc' = [pc EXCEPT ![r] = step]
          /\ step = "clearing" => InCart(lines[r]) = written[r] \cup {p}
    BY <1>1, <1>3 DEF Goto
  <2>3. TypeOK'
    <3>1. p \in Product /\ step \in Steps
      BY DEF InCart, Steps, CheckoutSteps
    <3>2. QED
      BY <2>1, <2>2, <3>1 DEF IInv, TypeOK
  <2>4. StockNonNegative' /\ RowLocksExclusive' /\ OrderLocksExclusive'
    BY <2>1, <2>2 DEF IInv, TypeOK, StockNonNegative, RowLocksExclusive,
                OrderLocksExclusive
  <2>5. HoldsWhatItNeeds'
    BY <2>1, <2>2
    DEF IInv, TypeOK, HoldsWhatItNeeds, Locked, InCart, CheckoutSteps
  <2>6. SeenIsCurrent' /\ EnoughInStock'
    BY <2>1, <2>2
    DEF IInv, TypeOK, SeenIsCurrent, EnoughInStock, CheckoutSteps
  <2>7. AllWritten'
    BY <2>1, <2>2 DEF IInv, TypeOK, AllWritten, InCart
  <2>8. PlacedOnce' /\ CancelsConfirmed' /\ CleanWhenIdle'
    BY <2>1, <2>2 DEF IInv, TypeOK, PlacedOnce, CancelsConfirmed,
                CleanWhenIdle, CheckoutSteps
  <2>9. QED
    BY <2>3, <2>4, <2>5, <2>6, <2>7, <2>8 DEF IInv
<1>4. QED
  BY <1>2, <1>3

\* The DELETE of the cart's lines.
LEMMA ClearCartIInv ==
  ASSUME IInv, NEW r \in Request, ClearCart(r)
  PROVE  IInv'
<1> USE DEF catalogVars
<1>1. /\ pc[r] = "clearing"
      /\ pc' = [pc EXCEPT ![r] = "committing"]
      /\ doomed' = [doomed EXCEPT ![r] = InCart(cart[UserOf[r]])]
      /\ UNCHANGED <<catalogVars, cart, orders, resp, lines, want, held,
                     seenStock, seenPrice, written, shared, target>>
  BY DEF ClearCart, At, Goto
<1>2. TypeOK'
  <2>1. InCart(cart[UserOf[r]]) \subseteq Product /\ "committing" \in Steps
    BY DEF InCart, Steps, CheckoutSteps
  <2>2. QED
    BY <1>1, <2>1 DEF IInv, TypeOK
<1>3. StockNonNegative' /\ RowLocksExclusive' /\ OrderLocksExclusive'
  BY <1>1 DEF IInv, TypeOK, StockNonNegative, RowLocksExclusive,
              OrderLocksExclusive
<1>4. HoldsWhatItNeeds'
  BY <1>1 DEF IInv, TypeOK, HoldsWhatItNeeds, Locked, InCart, CheckoutSteps
<1>5. SeenIsCurrent' /\ EnoughInStock' /\ AllWritten'
  BY <1>1 DEF IInv, TypeOK, SeenIsCurrent, EnoughInStock, AllWritten,
              CheckoutSteps
<1>6. PlacedOnce' /\ CancelsConfirmed' /\ CleanWhenIdle'
  BY <1>1 DEF IInv, TypeOK, PlacedOnce, CancelsConfirmed, CleanWhenIdle,
              CheckoutSteps
<1>7. QED
  BY <1>2, <1>3, <1>4, <1>5, <1>6 DEF IInv

\* What a checkout commits is all of its lines.
LEMMA AllIsBought ==
  ASSUME IInv, NEW r \in Request, pc[r] = "committing"
  PROVE  Only(lines[r], written[r]) = lines[r]
<1>1. lines[r] \in [Product -> Quantity]
  BY DEF IInv, TypeOK
<1>2. \A p \in Product : p \notin written[r] => lines[r][p] = 0
  BY <1>1, CheckoutAssumption DEF IInv, AllWritten, InCart, Quantity
<1>3. QED
  BY <1>1, <1>2 DEF Only

\* The commit of a checkout: its decrements stay within the stock, and no
\* other request has locked, or read under a lock, a row it changes.
LEMMA CommitCheckoutIInv ==
  ASSUME IInv, NEW r \in Request, CommitCheckout(r)
  PROVE  IInv'
<1> USE DEF catalogVars
<1>1. /\ pc[r] = "committing"
      /\ stock' = [p \in Product |-> stock[p] - lines[r][p]]
      /\ cart' = [cart EXCEPT ![UserOf[r]] = Without(@, doomed[r])]
      /\ orders' = [orders EXCEPT ![r] = [status |-> "confirmed",
                                          lines  |-> lines[r],
                                          paid   |-> seenPrice[r]]]
      /\ lines' = [lines EXCEPT ![r] = NoLines]
      /\ want' = [want EXCEPT ![r] = NoProduct]
      /\ held' = [held EXCEPT ![r] = {}]
      /\ seenStock' = [seenStock EXCEPT ![r] = NoLines]
      /\ seenPrice' = [seenPrice EXCEPT ![r] = NoLines]
      /\ written' = [written EXCEPT ![r] = {}]
      /\ doomed' = [doomed EXCEPT ![r] = {}]
      /\ shared' = [shared EXCEPT ![r] = FALSE]
      /\ UNCHANGED <<price, active, supply, resp, target>>
  BY AllIsBought DEF CommitCheckout, Committed, Release
<1>4. PICK step \in {"reading", "done"} : pc' = [pc EXCEPT ![r] = step]
  BY DEF CommitCheckout, Committed, Goto
<1>2. /\ \A p \in Product : lines[r][p] \in Nat /\ stock[p] \in Int
      /\ \A p \in Product : lines[r][p] <= stock[p]
      /\ held[r] = InCart(lines[r]) /\ held[r] # {}
      /\ \A p \in Product : p \notin held[r] => lines[r][p] = 0
      /\ orders[r].status = "none"
  <2>1. \A p \in Product : lines[r][p] \in Nat /\ stock[p] \in Int
    BY CheckoutAssumption DEF IInv, TypeOK, Quantity
  <2>2. \A p \in Product : lines[r][p] <= stock[p]
    BY <1>1 DEF IInv, EnoughInStock
  <2>3. held[r] = InCart(lines[r]) /\ held[r] # {}
    BY <1>1 DEF IInv, HoldsWhatItNeeds, Locked
  <2>4. \A p \in Product : p \notin held[r] => lines[r][p] = 0
    BY <2>1, <2>3 DEF InCart
  <2>5. orders[r].status = "none"
    BY <1>1 DEF IInv, PlacedOnce
  <2>6. QED
    BY <2>1, <2>2, <2>3, <2>4, <2>5
<1>3. \A q \in Request \ {r}, p \in Product :
        p \in held[q] => stock'[p] = stock[p]
  BY <1>1, <1>2 DEF IInv, RowLocksExclusive
<1>5. TypeOK'
  <2>1. stock' \in [Product -> Int]
    BY <1>1, <1>2
  <2>2. cart' \in [User -> [Product -> Quantity]]
    <3>1. /\ cart \in [User -> [Product -> Quantity]]
          /\ cart[UserOf[r]] \in [Product -> Quantity]
      BY UserOfType DEF IInv, TypeOK
    <3>2. 0 \in Quantity
      BY CheckoutAssumption DEF Quantity
    <3>3. Without(cart[UserOf[r]], doomed[r]) \in [Product -> Quantity]
      BY <3>1, <3>2 DEF Without
    <3>4. QED
      BY <1>1, <3>1, <3>3
  <2>3. orders' \in [Request -> Order]
    <3>1. /\ orders \in [Request -> Order]
          /\ lines[r] \in [Product -> Quantity]
          /\ seenPrice[r] \in [Product -> Nat]
      BY DEF IInv, TypeOK
    <3>2. [status |-> "confirmed", lines |-> lines[r], paid |-> seenPrice[r]]
            \in Order
      BY <3>1 DEF Order
    <3>3. QED
      BY <1>1, <3>1, <3>2
  <2>4. QED
    BY <1>1, <1>4, <2>1, <2>2, <2>3, NoLinesType DEF IInv, TypeOK, Steps
<1>6. StockNonNegative'
  BY <1>1, <1>2 DEF StockNonNegative
<1>7. RowLocksExclusive' /\ OrderLocksExclusive'
  BY <1>1, <1>4 DEF IInv, TypeOK, RowLocksExclusive, OrderLocksExclusive
<1>8. HoldsWhatItNeeds'
  BY <1>1, <1>4
  DEF IInv, TypeOK, HoldsWhatItNeeds, Locked, InCart, CheckoutSteps
<1>9. SeenIsCurrent'
  BY <1>1, <1>3, <1>4 DEF IInv, TypeOK, SeenIsCurrent, CheckoutSteps
<1>10. EnoughInStock'
  <2> SUFFICES ASSUME NEW q \in Request, NEW p \in Product,
                      pc'[q] \in {"writing", "clearing", "committing"}
               PROVE  lines'[q][p] <= stock'[p]
    BY DEF EnoughInStock
  <2>1. q # r /\ lines'[q] = lines[q] /\ pc'[q] = pc[q]
    BY <1>1, <1>4 DEF IInv, TypeOK
  <2>2. /\ held[q] = InCart(lines[q]) /\ lines[q][p] <= stock[p]
    BY <2>1 DEF IInv, HoldsWhatItNeeds, EnoughInStock, Locked
  <2>3. CASE p \in held[q]
    BY <1>3, <2>1, <2>2, <2>3
  <2>4. CASE p \notin held[q]
    <3>1. lines[q][p] = 0
      BY <2>2, <2>4, CheckoutAssumption DEF IInv, TypeOK, InCart, Quantity
    <3>2. stock'[p] >= 0
      BY <1>6 DEF StockNonNegative
    <3>3. QED
      BY <1>1, <1>2, <2>1, <3>1, <3>2
  <2>5. QED
    BY <2>3, <2>4
<1>11. PlacedOnce'
  BY <1>1, <1>2, <1>4 DEF IInv, TypeOK, PlacedOnce
<1>12. CancelsConfirmed'
  BY <1>1, <1>2, <1>4 DEF IInv, TypeOK, CancelsConfirmed
<1>13. CleanWhenIdle' /\ AllWritten'
  BY <1>1, <1>4 DEF IInv, TypeOK, CleanWhenIdle, AllWritten
<1>14. QED
  BY <1>5, <1>6, <1>7, <1>8, <1>9, <1>10, <1>11, <1>12, <1>13 DEF IInv

\* The answer to a request that has committed.
LEMMA ReadBackIInv ==
  ASSUME IInv, NEW r \in Request, ReadItems(r) \/ ShowResult(r)
  PROVE  IInv'
<1> USE DEF catalogVars, txVars
<1>1. PICK code \in {200, 201, 500} :
        /\ pc[r] \in {"reading", "showing"}
        /\ pc' = [pc EXCEPT ![r] = "done"]
        /\ resp' = [resp EXCEPT ![r] = IF @ = 0 THEN code ELSE @]
        /\ UNCHANGED <<catalogVars, cart, orders, txVars, target>>
  BY DEF ReadItems, ShowResult, At, Answer, Goto
<1>2. TypeOK'
  BY <1>1 DEF IInv, TypeOK, Steps
<1>3. StockNonNegative' /\ RowLocksExclusive' /\ OrderLocksExclusive'
  BY <1>1 DEF IInv, TypeOK, StockNonNegative, RowLocksExclusive,
              OrderLocksExclusive
<1>4. HoldsWhatItNeeds'
  BY <1>1 DEF IInv, TypeOK, HoldsWhatItNeeds, Locked, InCart, CheckoutSteps
<1>5. SeenIsCurrent' /\ EnoughInStock' /\ AllWritten'
  BY <1>1 DEF IInv, TypeOK, SeenIsCurrent, EnoughInStock, AllWritten,
              CheckoutSteps
<1>6. PlacedOnce' /\ CancelsConfirmed' /\ CleanWhenIdle'
  BY <1>1 DEF IInv, TypeOK, PlacedOnce, CancelsConfirmed, CleanWhenIdle,
              CheckoutSteps
<1>7. QED
  BY <1>2, <1>3, <1>4, <1>5, <1>6 DEF IInv

\* A cancel finds the order.
LEMMA SelectOrderIInv ==
  ASSUME IInv, NEW r \in Request, NEW o \in Request, SelectOrder(r, o)
  PROVE  IInv'
<1>1. CASE Rollback(r, 404)
  BY <1>1, RollbackIInv
<1>2. CASE /\ orders[o].status # "none"
           /\ target' = [target EXCEPT ![r] = o]
           /\ pc' = [pc EXCEPT ![r] = "claiming"]
           /\ UNCHANGED <<catalogVars, cart, orders, resp, txVars>>
  <2> USE <1>2 DEF catalogVars, txVars
  <2>1. pc[r] = "idle"
    BY DEF SelectOrder, Starts
  <2>2. TypeOK'
    BY DEF IInv, TypeOK, Steps, CancelSteps
  <2>3. StockNonNegative' /\ RowLocksExclusive' /\ OrderLocksExclusive'
    BY DEF IInv, TypeOK, StockNonNegative, RowLocksExclusive,
           OrderLocksExclusive
  <2>4. HoldsWhatItNeeds'
    BY <2>1 DEF IInv, TypeOK, HoldsWhatItNeeds, Locked, InCart, CheckoutSteps
  <2>5. SeenIsCurrent' /\ EnoughInStock' /\ AllWritten'
    BY <2>1 DEF IInv, TypeOK, SeenIsCurrent, EnoughInStock, AllWritten,
                CheckoutSteps
  <2>6. PlacedOnce' /\ CancelsConfirmed' /\ CleanWhenIdle'
    BY <2>1 DEF IInv, TypeOK, PlacedOnce, CancelsConfirmed, CleanWhenIdle,
                CheckoutSteps
  <2>7. QED
    BY <2>2, <2>3, <2>4, <2>5, <2>6 DEF IInv
<1>3. QED
  BY <1>1, <1>2 DEF SelectOrder, Goto

\* A cancel locks the order row, once no other cancel has it.
LEMMA ClaimOrderIInv ==
  ASSUME IInv, NEW r \in Request, ClaimOrder(r)
  PROVE  IInv'
<1> DEFINE o == target[r]
<1>1. CASE Refuse(r, 409)
  BY <1>1, EarlyAnswerIInv
<1>2. CASE /\ orders[o].status # "cancelled"
           /\ lines' = [lines EXCEPT ![r] = orders[o].lines]
           /\ \E p \in InCart(orders[o].lines) :
                want' = [want EXCEPT ![r] = p]
           /\ pc' = [pc EXCEPT ![r] = "restocking"]
           /\ UNCHANGED <<catalogVars, cart, orders, resp, held, seenStock,
                          seenPrice, written, doomed, shared, target>>
  <2> USE <1>2 DEF catalogVars
  <2>1. /\ pc[r] = "claiming"
        /\ held[r] = {}
        /\ OrderFree(o, r)
    BY DEF ClaimOrder, At, IInv, HoldsWhatItNeeds, CheckoutSteps
  <2>2. orders[o] \in Order /\ orders[o].status = "confirmed"
    BY <2>1 DEF IInv, TypeOK, CancelsConfirmed, Order
  <2>3. PICK p \in InCart(orders[o].lines) : want' = [want EXCEPT ![r] = p]
    OBVIOUS
  <2>4. TypeOK'
    <3>1. p \in Product /\ "restocking" \in Steps
      BY DEF InCart, Steps, CancelSteps
    <3>2. orders[o].lines \in [Product -> Quantity]
      BY <2>2 DEF Order
    <3>3. QED
      BY <2>3, <3>1, <3>2 DEF IInv, TypeOK
  <2>5. StockNonNegative' /\ RowLocksExclusive'
    BY DEF IInv, TypeOK, StockNonNegative, RowLocksExclusive
  <2>6. OrderLocksExclusive'
    BY <2>1 DEF IInv, TypeOK, OrderLocksExclusive, OrderFree
  <2>7. HoldsWhatItNeeds'
    BY <2>1, <2>3 DEF IInv, TypeOK, HoldsWhatItNeeds, Locked, InCart, CheckoutSteps
  <2>8. SeenIsCurrent' /\ EnoughInStock' /\ AllWritten'
    BY <2>1 DEF IInv, TypeOK, SeenIsCurrent, EnoughInStock, AllWritten,
                CheckoutSteps
  <2>9. PlacedOnce' /\ CancelsConfirmed' /\ CleanWhenIdle'
    BY <2>1, <2>2 DEF IInv, TypeOK, PlacedOnce, CancelsConfirmed,
                CleanWhenIdle, CheckoutSteps
  <2>10. QED
    BY <2>4, <2>5, <2>6, <2>7, <2>8, <2>9 DEF IInv
<1>3. QED
  BY <1>1, <1>2 DEF ClaimOrder, Goto

\* A cancel locks the row of an item it gives back.
LEMMA RestockRowIInv ==
  ASSUME IInv, NEW r \in Request, RestockRow(r)
  PROVE  IInv'
<1> DEFINE p == want[r]
<1> USE DEF catalogVars
<1>1. /\ pc[r] = "restocking"
      /\ p \in Product /\ p \in InCart(lines[r]) \ held[r]
      /\ \A q \in Request : p \notin held[q]
      /\ held[r] \subseteq InCart(lines[r])
  BY DEF RestockRow, At, Free, IInv, HoldsWhatItNeeds, InCart
<1>2. /\ held' = [held EXCEPT ![r] = @ \cup {p}]
      /\ UNCHANGED <<catalogVars, cart, orders, resp, lines, seenStock,
                     seenPrice, written, doomed, shared, target>>
  BY DEF RestockRow, Granted
<1>3. \/ /\ pc' = pc
         /\ \E q \in InCart(lines[r]) \ (held[r] \cup {p}) :
              want' = [want EXCEPT ![r] = q]
      \/ /\ pc' = [pc EXCEPT ![r] = "marking"]
         /\ want' = [want EXCEPT ![r] = NoProduct]
         /\ InCart(lines[r]) = held[r] \cup {p}
  BY <1>1 DEF RestockRow, Granted, Goto
<1>4. TypeOK'
  <2>1. held' \in [Request -> SUBSET Product]
    BY <1>1, <1>2 DEF IInv, TypeOK
  <2>2. /\ pc' \in [Request -> Steps]
        /\ want' \in [Request -> Product \cup {NoProduct}]
    <3>1. "marking" \in Steps /\ InCart(lines[r]) \subseteq Product
      BY DEF Steps, CancelSteps, InCart
    <3>2. PICK v \in Product \cup {NoProduct} : want' = [want EXCEPT ![r] = v]
      BY <1>3, <3>1
    <3>3. PICK step \in Steps : pc' = [pc EXCEPT ![r] = step] \/ pc' = pc
      BY <1>3, <3>1
    <3>4. /\ pc \in [Request -> Steps]
          /\ want \in [Request -> Product \cup {NoProduct}]
      BY DEF IInv, TypeOK
    <3>5. pc' \in [Request -> Steps]
      BY <3>3, <3>4
    <3>6. want' \in [Request -> Product \cup {NoProduct}]
      BY <3>2, <3>4
    <3>7. QED
      BY <3>5, <3>6
  <2>3. QED
    BY <1>2, <2>1, <2>2 DEF IInv, TypeOK
<1>5. StockNonNegative'
  BY <1>2 DEF IInv, StockNonNegative
<1>6. RowLocksExclusive'
  BY <1>1, <1>2 DEF IInv, TypeOK, RowLocksExclusive
<1>7. OrderLocksExclusive'
  BY <1>1, <1>2, <1>3 DEF IInv, TypeOK, OrderLocksExclusive
<1>8. HoldsWhatItNeeds'
  BY <1>1, <1>2, <1>3
  DEF IInv, TypeOK, HoldsWhatItNeeds, Locked, InCart, CheckoutSteps
<1>9. SeenIsCurrent' /\ EnoughInStock' /\ AllWritten'
  BY <1>1, <1>2, <1>3
  DEF IInv, TypeOK, SeenIsCurrent, EnoughInStock, AllWritten, CheckoutSteps
<1>10. PlacedOnce'
  BY <1>1, <1>2, <1>3 DEF IInv, TypeOK, PlacedOnce
<1>11. CancelsConfirmed'
  <2>1. \A q \in Request :
          /\ pc'[q] = "claiming" => pc[q] = "claiming"
          /\ pc'[q] \in {"restocking", "marking"} =>
               pc[q] \in {"restocking", "marking"}
    BY <1>1, <1>3 DEF IInv, TypeOK
  <2>2. QED
    BY <1>2, <2>1 DEF IInv, CancelsConfirmed
<1>12. CleanWhenIdle'
  <2>1. \A q \in Request :
          pc'[q] \notin CheckoutSteps => pc[q] \notin CheckoutSteps
    BY <1>1, <1>3 DEF IInv, TypeOK, CheckoutSteps
  <2>2. QED
    BY <1>2, <2>1 DEF IInv, CleanWhenIdle
<1>13. QED
  BY <1>4, <1>5, <1>6, <1>7, <1>8, <1>9, <1>10, <1>11, <1>12 DEF IInv

\* The commit of a cancel gives back units of rows it holds.
LEMMA CommitCancelIInv ==
  ASSUME IInv, NEW r \in Request, CommitCancel(r)
  PROVE  IInv'
<1> USE DEF catalogVars
<1>1. /\ pc[r] = "marking"
      /\ stock' = [p \in Product |-> stock[p] + lines[r][p]]
      /\ orders' = [orders EXCEPT ![target[r]].status = "cancelled"]
      /\ lines' = [lines EXCEPT ![r] = NoLines]
      /\ want' = [want EXCEPT ![r] = NoProduct]
      /\ held' = [held EXCEPT ![r] = {}]
      /\ seenStock' = [seenStock EXCEPT ![r] = NoLines]
      /\ seenPrice' = [seenPrice EXCEPT ![r] = NoLines]
      /\ written' = [written EXCEPT ![r] = {}]
      /\ doomed' = [doomed EXCEPT ![r] = {}]
      /\ shared' = [shared EXCEPT ![r] = FALSE]
      /\ UNCHANGED <<price, active, supply, cart, resp, target>>
  BY DEF CommitCancel, Committed, Release
<1>0. PICK step \in {"showing", "done"} : pc' = [pc EXCEPT ![r] = step]
  BY DEF CommitCancel, Committed, Goto
<1>2. /\ \A p \in Product : lines[r][p] \in Nat /\ stock[p] \in Int
      /\ held[r] = InCart(lines[r])
      /\ \A p \in Product : p \notin held[r] => lines[r][p] = 0
  <2>1. \A p \in Product : lines[r][p] \in Nat /\ stock[p] \in Int
    BY CheckoutAssumption DEF IInv, TypeOK, Quantity
  <2>2. held[r] = InCart(lines[r])
    BY <1>1 DEF IInv, HoldsWhatItNeeds, Locked
  <2>3. QED
    BY <2>1, <2>2 DEF InCart
<1>3. \A q \in Request \ {r}, p \in Product :
        p \in held[q] => stock'[p] = stock[p]
  BY <1>1, <1>2 DEF IInv, RowLocksExclusive
<1>4. \A o \in Request :
        /\ orders[o] \in Order
        /\ orders'[o] = IF o = target[r]
                          THEN [orders[o] EXCEPT !.status = "cancelled"]
                          ELSE orders[o]
  BY <1>1 DEF IInv, TypeOK
<1>5. TypeOK'
  <2>1. stock' \in [Product -> Int]
    BY <1>1, <1>2
  <2>2. \A o \in Request : orders'[o] \in Order
    BY <1>4 DEF Order
  <2>3. orders' \in [Request -> Order]
    BY <1>1, <2>2 DEF IInv, TypeOK
  <2>4. QED
    BY <1>0, <1>1, <2>1, <2>3, NoLinesType DEF IInv, TypeOK, Steps
<1>6. StockNonNegative'
  BY <1>1, <1>2 DEF IInv, StockNonNegative
<1>7. RowLocksExclusive' /\ OrderLocksExclusive'
  BY <1>0, <1>1 DEF IInv, TypeOK, RowLocksExclusive, OrderLocksExclusive
<1>8. HoldsWhatItNeeds'
  BY <1>0, <1>1
  DEF IInv, TypeOK, HoldsWhatItNeeds, Locked, InCart, CheckoutSteps
<1>9. SeenIsCurrent'
  BY <1>0, <1>1, <1>3 DEF IInv, TypeOK, SeenIsCurrent, CheckoutSteps
<1>10. EnoughInStock'
  <2>1. \A p \in Product : stock[p] <= stock'[p]
    BY <1>0, <1>1, <1>2
  <2>2. \A q \in Request, p \in Product : lines[q][p] \in Nat
    BY CheckoutAssumption DEF IInv, TypeOK, Quantity
  <2>3. QED
    BY <1>0, <1>1, <1>2, <2>1, <2>2 DEF IInv, TypeOK, EnoughInStock
<1>11. PlacedOnce'
  <2> SUFFICES ASSUME NEW o \in Request, orders'[o].status # "none"
               PROVE  /\ pc'[o] \in {"reading", "done"}
                      /\ InCart(orders'[o].lines) # {}
    BY DEF PlacedOnce, InCart
  <2>1. orders[o].status # "none" /\ orders'[o].lines = orders[o].lines
    BY <1>0, <1>1, <1>4 DEF IInv, CancelsConfirmed, Order
  <2>2. pc[o] \in {"reading", "done"} /\ InCart(orders[o].lines) # {}
    BY <2>1 DEF IInv, PlacedOnce
  <2>3. QED
    BY <1>0, <1>1, <2>1, <2>2 DEF IInv, TypeOK
<1>12. CancelsConfirmed'
  BY <1>0, <1>1, <1>4
  DEF IInv, TypeOK, CancelsConfirmed, OrderLocksExclusive, Order
<1>13. CleanWhenIdle' /\ AllWritten'
  BY <1>0, <1>1 DEF IInv, TypeOK, CleanWhenIdle, AllWritten
<1>14. QED
  BY <1>5, <1>6, <1>7, <1>8, <1>9, <1>10, <1>11, <1>12, <1>13 DEF IInv

\* A cart request gets to work: it holds nothing yet.
LEMMA BeginEditIInv ==
  ASSUME IInv, NEW r \in Request, NEW ls \in [Product -> Quantity],
         NEW step \in EditSteps, pc[r] = "idle", Begin(r, ls, step),
         UNCHANGED <<catalogVars, cart, orders, resp, want, held, seenStock,
                     seenPrice, written, doomed, target>>
  PROVE  IInv'
<1> USE DEF catalogVars, Begin, Goto
<1>1. held[r] = {}
  BY DEF IInv, HoldsWhatItNeeds, CheckoutSteps
<1>2. TypeOK'
  <2>1. shared' \in [Request -> BOOLEAN] /\ step \in Steps
    BY DEF IInv, TypeOK, Steps
  <2>2. QED
    BY <2>1 DEF IInv, TypeOK
<1> USE DEF EditSteps
<1>3. StockNonNegative' /\ RowLocksExclusive' /\ OrderLocksExclusive'
  BY DEF IInv, TypeOK, StockNonNegative, RowLocksExclusive,
         OrderLocksExclusive
<1>4. HoldsWhatItNeeds'
  BY <1>1 DEF IInv, TypeOK, HoldsWhatItNeeds, Locked, InCart, CheckoutSteps
<1>5. SeenIsCurrent' /\ EnoughInStock' /\ AllWritten'
  BY DEF IInv, TypeOK, SeenIsCurrent, EnoughInStock, AllWritten, CheckoutSteps
<1>6. PlacedOnce' /\ CancelsConfirmed' /\ CleanWhenIdle'
  BY DEF IInv, TypeOK, PlacedOnce, CancelsConfirmed, CleanWhenIdle,
         CheckoutSteps
<1>7. QED
  BY <1>2, <1>3, <1>4, <1>5, <1>6 DEF IInv

\* The lines of a cart request are lines.
LEMMA LineType ==
  /\ \A p \in Product, n \in 1..MaxQty : Line(p, n) \in [Product -> Quantity]
  /\ \A p \in Product : Line(p, 1) \in [Product -> Quantity]
  /\ [p \in Product |-> 1] \in [Product -> Quantity]
<1>1. 1 \in Quantity /\ 1..MaxQty \subseteq Quantity
  BY CheckoutAssumption DEF Quantity
<1>2. QED
  BY <1>1, NoLinesType DEF Line

\* The first statement of add_item.
LEMMA CheckActiveIInv ==
  ASSUME IInv, NEW r \in Request, NEW p \in Product, NEW n \in 1..MaxQty,
         CheckActive(r, p, n)
  PROVE  IInv'
<1>1. CASE Rollback(r, 404)
  BY <1>1, RollbackIInv
<1>2. CASE ~Rollback(r, 404)
  BY <1>2, BeginEditIInv, LineType DEF CheckActive, Starts, EditSteps
<1>3. QED
  BY <1>1, <1>2

\* The other cart requests.
LEMMA StartEditIInv ==
  ASSUME IInv, NEW r \in Request,
         \/ \E p \in Product, n \in 1..MaxQty : StartSet(r, p, n)
         \/ \E p \in Product : StartRemove(r, p)
         \/ StartClear(r)
  PROVE  IInv'
<1>1. PICK ls \in [Product -> Quantity], step \in EditSteps :
        StartEdit(r, ls, step)
  BY LineType DEF StartSet, StartRemove, StartClear, EditSteps
<1>2. QED
  BY <1>1, BeginEditIInv DEF StartEdit, Starts

\* The statement of a cart request, which leaves lines that are quantities.
LEMMA EditIInv ==
  ASSUME IInv, NEW r \in Request, Upsert(r) \/ SetItem(r) \/ RemoveLines(r)
  PROVE  IInv'
<1> DEFINE u == UserOf[r]
           sum == [p \in Product |-> cart[u][p] + lines[r][p]]
<1>1. CASE \E code \in {404, 500} : Rollback(r, code)
  BY <1>1, RollbackIInv
<1>2. CASE ~\E code \in {404, 500} : Rollback(r, code)
  <2>1. /\ u \in User /\ cart \in [User -> [Product -> Quantity]]
        /\ cart[u] \in [Product -> Quantity]
        /\ lines[r] \in [Product -> Quantity]
    BY UserOfType DEF IInv, TypeOK
  <2>2. PICK ls \in [Product -> Quantity] : cart' = [cart EXCEPT ![u] = ls]
    <3>1. CASE Upsert(r)
      <4>1. (\A p \in Product : sum[p] <= MaxQty)
              /\ cart' = [cart EXCEPT ![u] = sum]
        BY <1>2, <3>1 DEF Upsert
      <4>2. sum \in [Product -> Quantity]
        BY <2>1, <4>1, CheckoutAssumption DEF Quantity
      <4>3. QED
        BY <4>1, <4>2
    <3>2. CASE SetItem(r)
      BY <1>2, <2>1, <3>2 DEF SetItem
    <3>3. CASE RemoveLines(r)
      <4>1. 0 \in Quantity
        BY CheckoutAssumption DEF Quantity
      <4>2. Without(cart[u], Found(r)) \in [Product -> Quantity]
        BY <2>1, <4>1 DEF Without
      <4>3. QED
        BY <3>3, <4>2 DEF RemoveLines
    <3>4. QED
      BY <3>1, <3>2, <3>3
  <2>3. /\ pc[r] \in EditSteps
        /\ Release(r)
        /\ UNCHANGED <<catalogVars, orders, target>>
    BY <1>2 DEF Upsert, SetItem, RemoveLines, Committed, EditSteps
  <2>4. \E step \in {"done", "showing"} : Goto(r, step)
    BY <1>2 DEF Upsert, SetItem, RemoveLines, Committed, Answer
  <2>5. resp' = resp \/ Answer(r, 204)
    BY <1>2 DEF Upsert, SetItem, RemoveLines
  <2>6. resp' \in [Request -> {0, 200, 201, 204, 400, 404, 408, 409, 500}]
    BY <2>5, AnswerType
  <2>7. cart' \in [User -> [Product -> Quantity]]
    BY <2>1, <2>2
  <2>8. QED
    BY <2>3, <2>4, <2>6, <2>7, ReleasedIInv DEF EditSteps
<1>3. QED
  BY <1>1, <1>2

\* An administrator's update waits for the row, so no request has read it.
LEMMA UpdateProductIInv ==
  ASSUME IInv, NEW p \in Product, NEW s \in StockLevels \cup {stock[p]},
         NEW c \in Prices \cup {price[p]}, NEW a \in BOOLEAN,
         UpdateProduct(p, s, c, a)
  PROVE  IInv'
<1> USE DEF catalogVars, txVars
<1>1. /\ \A r \in Request : p \notin held[r]
      /\ stock' = [stock EXCEPT ![p] = s]
      /\ supply' = [supply EXCEPT ![p] = @ + s - stock[p]]
      /\ price' = [price EXCEPT ![p] = c]
      /\ active' = [active EXCEPT ![p] = a]
      /\ UNCHANGED <<cart, orders, pc, resp, txVars, target>>
  BY DEF UpdateProduct, Free
<1>2. s \in Nat /\ c \in Nat /\ stock[p] \in Int /\ supply[p] \in Int
  BY CheckoutAssumption DEF IInv, TypeOK, StockNonNegative
<1>3. TypeOK'
  BY <1>1, <1>2 DEF IInv, TypeOK
<1>4. StockNonNegative'
  BY <1>1, <1>2 DEF IInv, TypeOK, StockNonNegative
<1>5. RowLocksExclusive' /\ OrderLocksExclusive'
  BY <1>1 DEF IInv, RowLocksExclusive, OrderLocksExclusive
<1>6. HoldsWhatItNeeds'
  BY <1>1 DEF IInv, HoldsWhatItNeeds, InCart
<1>7. SeenIsCurrent'
  BY <1>1 DEF IInv, TypeOK, SeenIsCurrent
<1>8. EnoughInStock'
  <2> SUFFICES ASSUME NEW r \in Request, NEW q \in Product,
                      pc[r] \in {"writing", "clearing", "committing"}
               PROVE  lines[r][q] <= stock'[q]
    BY <1>1 DEF EnoughInStock
  <2>1. CASE q = p
    <3>1. q \notin InCart(lines[r])
      BY <1>1, <2>1 DEF IInv, HoldsWhatItNeeds, Locked
    <3>2. lines[r][q] = 0
      BY <3>1, CheckoutAssumption DEF IInv, TypeOK, InCart, Quantity
    <3>3. QED
      BY <1>1, <1>2, <2>1, <3>2 DEF IInv, TypeOK
  <2>2. CASE q # p
    BY <1>1, <2>2 DEF IInv, TypeOK, EnoughInStock
  <2>3. QED
    BY <2>1, <2>2
<1>9. PlacedOnce' /\ CancelsConfirmed' /\ CleanWhenIdle' /\ AllWritten'
  BY <1>1
  DEF IInv, PlacedOnce, CancelsConfirmed, CleanWhenIdle, AllWritten, InCart
<1>10. QED
  BY <1>3, <1>4, <1>5, <1>6, <1>7, <1>8, <1>9 DEF IInv

\* A step that changes nothing.
LEMMA StutterIInv == IInv /\ UNCHANGED vars => IInv'
BY DEF vars, catalogVars, txVars, IInv, TypeOK, StockNonNegative,
       RowLocksExclusive, OrderLocksExclusive, HoldsWhatItNeeds,
       SeenIsCurrent, EnoughInStock, AllWritten, PlacedOnce, CancelsConfirmed,
       CleanWhenIdle, InCart

\* Every step keeps the inductive invariant.
LEMMA NextIInv == IInv /\ [Next]_vars => IInv'
<1> SUFFICES ASSUME IInv, [Next]_vars PROVE IInv'
  OBVIOUS
<1>1. ASSUME NEW r \in Request, Arrive(r) PROVE IInv'
  <2>1. CASE SelectCart(r)
    BY <2>1, SelectCartIInv
  <2>2. CASE \E o \in Request : SelectOrder(r, o)
    BY <2>2, SelectOrderIInv
  <2>3. CASE \E p \in Product, n \in 1..MaxQty : CheckActive(r, p, n)
    BY <2>3, CheckActiveIInv
  <2>4. CASE \/ \E p \in Product, n \in 1..MaxQty : StartSet(r, p, n)
             \/ \E p \in Product : StartRemove(r, p)
             \/ StartClear(r)
    BY <2>4, StartEditIInv
  <2>5. QED
    BY <1>1, <2>1, <2>2, <2>3, <2>4 DEF Arrive
<1>2. ASSUME NEW r \in Request, Proceed(r) PROVE IInv'
  <2>1. CASE LockRow(r)
    BY <2>1, LockRowIInv
  <2>2. CASE CheckStock(r)
    BY <2>2, CheckStockIInv
  <2>3. CASE WriteLine(r)
    BY <2>3, WriteLineIInv
  <2>4. CASE ClearCart(r)
    BY <2>4, ClearCartIInv
  <2>5. CASE CommitCheckout(r)
    BY <2>5, CommitCheckoutIInv
  <2>6. CASE ReadItems(r)
    BY <2>6, ReadBackIInv
  <2>7. CASE ClaimOrder(r)
    BY <2>7, ClaimOrderIInv
  <2>8. CASE RestockRow(r)
    BY <2>8, RestockRowIInv
  <2>9. CASE CommitCancel(r)
    BY <2>9, CommitCancelIInv
  <2>10. CASE DeadlockAbort(r)
    BY <2>10, RollbackIInv DEF DeadlockAbort
  <2>11. CASE Upsert(r) \/ SetItem(r) \/ RemoveLines(r)
    BY <2>11, EditIInv
  <2>12. CASE ShowResult(r)
    BY <2>12, ReadBackIInv
  <2>13. CASE RollBackLate(r)
    BY <2>13, RollBackLateIInv
  <2>14. QED
    BY <1>2, <2>1, <2>2, <2>3, <2>4, <2>5, <2>6, <2>7, <2>8, <2>9, <2>10,
       <2>11, <2>12, <2>13 DEF Proceed
<1>3. ASSUME NEW r \in Request, Fail(r) PROVE IInv'
  BY <1>3, RollbackIInv DEF Fail
<1>4. ASSUME NEW r \in Request, TimeOut(r) PROVE IInv'
  BY <1>4, EarlyAnswerIInv
<1>5. ASSUME NEW p \in Product, Admin(p) PROVE IInv'
  <2>1. active[p] \in BOOLEAN
    BY DEF IInv, TypeOK
  <2>2. \E s \in StockLevels \cup {stock[p]}, c \in Prices \cup {price[p]},
           a \in BOOLEAN : UpdateProduct(p, s, c, a)
    BY <1>5, <2>1 DEF Admin, ArchiveProduct
  <2>3. QED
    BY <2>2, UpdateProductIInv
<1>6. CASE UNCHANGED vars
  BY <1>6, StutterIInv
<1>7. QED
  BY <1>1, <1>2, <1>3, <1>4, <1>5, <1>6 DEF Next

\* The inductive invariant holds in every reachable state.
LEMMA Invariance == Spec => []IInv
BY InitIInv, NextIInv, PTL DEF Spec

\* Type correctness of carts, products, orders and transactions.
THEOREM TypeCorrect == Spec => []TypeOK
<1>1. IInv => TypeOK
  BY DEF IInv
<1>2. QED
  BY <1>1, Invariance, PTL

\* The stock comparison of checkout holds up to the decrement, so the CHECK
\* constraint of the products table never refuses a checkout.
THEOREM CheckedStockSuffices == Spec => []BackstopNeverFires
<1>1. IInv => BackstopNeverFires
  BY DEF IInv, EnoughInStock, BackstopNeverFires
<1>2. QED
  BY <1>1, Invariance, PTL

-----------------------------------------------------------------------------
\* Checkout implements OrderBook.

\* A checkout that commits places its order in one step: it takes units that
\* are in stock and charges the prices in force.
LEMMA CommitCheckoutPlaces ==
  ASSUME IInv, NEW r \in Request, CommitCheckout(r)
  PROVE  Book!Place(r, lines[r]) /\ lines[r] \in [Product -> 0..MaxQty]
<1>1. /\ pc[r] = "committing"
      /\ stock' = [p \in Product |-> stock[p] - lines[r][p]]
      /\ orders' = [orders EXCEPT ![r] = [status |-> "confirmed",
                                          lines  |-> lines[r],
                                          paid   |-> seenPrice[r]]]
      /\ price' = price
  BY AllIsBought DEF CommitCheckout
<1>2. lines[r] \in [Product -> 0..MaxQty] /\ seenPrice[r] \in [Product -> Nat]
  BY DEF IInv, TypeOK, Quantity
<1>3. orders[r].status = "none"
  BY <1>1 DEF IInv, PlacedOnce
<1>4. held[r] = InCart(lines[r]) /\ held[r] # {}
  BY <1>1 DEF IInv, HoldsWhatItNeeds, Locked
<1>5. lines[r] # Book!NoLines
  BY <1>4 DEF InCart, Book!NoLines
<1>6. \A p \in Product : lines[r][p] <= stock[p]
  BY <1>1 DEF IInv, EnoughInStock
<1>7. seenPrice[r] = [p \in Product |->
                       IF lines[r][p] > 0 THEN price[p] ELSE 0]
  <2>1. \A p \in Product :
          seenPrice[r][p] = IF lines[r][p] > 0 THEN price[p] ELSE 0
    BY <1>1, <1>4 DEF IInv, SeenIsCurrent, CheckoutSteps, InCart
  <2>2. QED
    BY <1>2, <2>1
<1>8. QED
  BY <1>1, <1>2, <1>3, <1>5, <1>6, <1>7 DEF Book!Place

\* A cancel that commits gives the units of a confirmed order back.
LEMMA CommitCancelCancels ==
  ASSUME IInv, NEW r \in Request, CommitCancel(r)
  PROVE  Book!Cancel(target[r])
<1>1. /\ pc[r] = "marking"
      /\ stock' = [p \in Product |-> stock[p] + lines[r][p]]
      /\ orders' = [orders EXCEPT ![target[r]].status = "cancelled"]
      /\ price' = price
  BY DEF CommitCancel
<1>2. /\ orders[target[r]].status = "confirmed"
      /\ lines[r] = orders[target[r]].lines
  BY <1>1 DEF IInv, CancelsConfirmed
<1>3. QED
  BY <1>1, <1>2 DEF Book!Cancel

\* Every step is a step of OrderBook or leaves its variables alone.
LEMMA StepSimulation == IInv /\ [Next]_vars => [Book!Next]_(Book!vars)
<1> SUFFICES ASSUME IInv, [Next]_vars
             PROVE  Book!Next \/ UNCHANGED <<stock, price, orders>>
  BY DEF Book!vars
<1> USE DEF catalogVars, txVars
<1>1. ASSUME NEW r \in Request, Arrive(r)
      PROVE  UNCHANGED <<stock, price, orders>>
  BY <1>1
  DEF Arrive, SelectCart, SelectOrder, CheckActive, StartSet, StartRemove,
      StartClear, StartEdit, Rollback
<1>2. ASSUME NEW r \in Request, Proceed(r)
      PROVE  Book!Next \/ UNCHANGED <<stock, price, orders>>
  <2>1. CASE CommitCheckout(r)
    BY <2>1, CommitCheckoutPlaces DEF Book!Next
  <2>2. CASE CommitCancel(r)
    <3>1. target[r] \in Request
      BY DEF IInv, TypeOK
    <3>2. QED
      BY <2>2, <3>1, CommitCancelCancels DEF Book!Next
  <2>3. CASE \/ LockRow(r) \/ CheckStock(r) \/ WriteLine(r) \/ ClearCart(r)
             \/ ReadItems(r) \/ ClaimOrder(r) \/ RestockRow(r)
             \/ DeadlockAbort(r) \/ Upsert(r) \/ SetItem(r)
             \/ RemoveLines(r) \/ ShowResult(r) \/ RollBackLate(r)
    BY <2>3
    DEF LockRow, CheckStock, WriteLine, ClearCart, ReadItems, ClaimOrder,
        RestockRow, DeadlockAbort, Upsert, SetItem, RemoveLines, ShowResult,
        RollBackLate, Rollback, Refuse
  <2>4. QED
    BY <1>2, <2>1, <2>2, <2>3 DEF Proceed
<1>3. ASSUME NEW r \in Request, Fail(r)
      PROVE  UNCHANGED <<stock, price, orders>>
  BY <1>3 DEF Fail, Rollback
<1>4. ASSUME NEW r \in Request, TimeOut(r)
      PROVE  UNCHANGED <<stock, price, orders>>
  BY <1>4 DEF TimeOut
<1>5. ASSUME NEW p \in Product, Admin(p) PROVE Book!Next
  <2>1. PICK s \in StockLevels \cup {stock[p]}, c \in Prices \cup {price[p]} :
          \E a : UpdateProduct(p, s, c, a)
    BY <1>5 DEF Admin, ArchiveProduct
  <2>2. Book!Adjust(p, s, c)
    BY <2>1 DEF UpdateProduct, Book!Adjust
  <2>3. QED
    BY <2>2 DEF Book!Next
<1>6. CASE UNCHANGED vars
  BY <1>6 DEF vars
<1>7. QED
  BY <1>1, <1>2, <1>3, <1>4, <1>5, <1>6 DEF Next

\* The transactions of checkout and cancel, interleaved statement by
\* statement, implement the one-step orders and cancellations of OrderBook.
THEOREM Refinement == Spec => ImplementsOrderBook
<1>1. Init => Book!Init
  BY DEF Init, Book!Init, NoOrder, NoLines, Book!NoOrder, Book!NoLines
<1>2. QED
  BY <1>1, Invariance, StepSimulation, PTL DEF Spec, ImplementsOrderBook, Book!Spec

-----------------------------------------------------------------------------
\* What the answers tell, from IInv and AnswerInv.

\* A step of r that commits nothing: what it answers, if it answers, is so.
Answers(r) ==
  /\ orders' = orders
  /\ \A q \in Request \ {r} :
       pc'[q] = pc[q] /\ resp'[q] = resp[q] /\ target'[q] = target[q]
  /\ resp'[r] \notin {0, 408, 409} => pc'[r] = "done"
  /\ resp'[r] = 409 => pc'[r] \in {"checking", "claiming", "done"}
  /\ pc'[r] = "reading" => pc[r] = "reading"
  /\ resp'[r] = 201 => resp[r] = 201 \/ orders[r].status # "none"
  /\ resp'[r] \in {400, 404, 409} =>
       resp[r] = resp'[r] \/ orders[r].status = "none"
  /\ pc'[r] \in EditSteps \cup {"idle"} => target'[r] = r
  /\ Cancelled(r)' => Cancelled(r) /\ target'[r] = target[r]

\* Such a step keeps the invariant.
LEMMA AnswersKeep ==
  ASSUME AnswerInv, NEW r \in Request, Answers(r)
  PROVE  AnswerInv'
<1>1. AnsweredLast'
  BY DEF AnswerInv, AnsweredLast, Answers
<1>2. AnswerMatchesEffect'
  BY DEF AnswerInv, AnswerMatchesEffect, Answers
<1>3. OnlyCancelsTarget'
  BY DEF AnswerInv, OnlyCancelsTarget, Answers
<1>4. OneCancels'
  <2>1. \A q \in Request : Cancelled(q)' =>
          Cancelled(q) /\ target'[q] = target[q]
    BY DEF Answers, Cancelled
  <2>2. QED
    BY <2>1 DEF AnswerInv, OneCancels, Answers
<1>5. QED
  BY <1>1, <1>2, <1>3, <1>4 DEF AnswerInv

\* A request that has committed no order, and is not about to say what it did.
LEMMA NothingCommitted ==
  ASSUME IInv, NEW r \in Request, pc[r] \notin {"reading", "done"}
  PROVE  orders[r].status = "none"
BY DEF IInv, PlacedOnce

\* The next statement: nothing is answered.
LEMMA SilentAnswers ==
  ASSUME IInv, AnswerInv, NEW r \in Request, NEW step,
         pc[r] \notin {"reading", "showing", "done"},
         step \notin {"idle", "reading", "showing", "done"},
         step \in EditSteps => pc[r] = "idle",
         resp[r] = 409 => step = "checking",
         pc' = [pc EXCEPT ![r] = step],
         resp' = resp, orders' = orders,
         target' = target
  PROVE  AnswerInv'
<1>1. Answers(r)
  <2>1. pc'[r] = step /\ \A q \in Request \ {r} : pc'[q] = pc[q]
    BY DEF IInv, TypeOK
  <2>2. resp[r] \in {0, 408, 409}
    BY DEF AnswerInv, AnsweredLast
  <2>3. pc[r] = "idle" => target[r] = r
    BY DEF AnswerInv, OnlyCancelsTarget
  <2>4. ~Cancelled(r)'
    BY <2>1, <2>2 DEF Cancelled
  <2>5. QED
    BY <2>1, <2>2, <2>3, <2>4 DEF Answers
<1>2. QED
  BY <1>1, AnswersKeep

\* A request is over: with a code of its own, unless it was answered before.
LEMMA OverAnswers ==
  ASSUME IInv, AnswerInv, NEW r \in Request,
         NEW code \in {200, 201, 204, 400, 404, 500}, Answer(r, code),
         code = 201 => pc[r] = "reading",
         code \in {400, 404} => pc[r] \notin {"reading", "done"},
         code = 200 => Cancelled(r) \/ target[r] = r,
         orders' = orders, target' = target
  PROVE  AnswerInv'
<1>1. Answers(r)
  <2>1. /\ pc'[r] = "done"
        /\ resp'[r] = IF resp[r] = 0 THEN code ELSE resp[r]
        /\ \A q \in Request \ {r} : pc'[q] = pc[q] /\ resp'[q] = resp[q]
    BY DEF Answer, Goto, IInv, TypeOK
  <2>2. code = 201 => orders[r].status # "none"
    BY DEF AnswerInv, AnsweredLast
  <2>3. code \in {400, 404} => orders[r].status = "none"
    BY NothingCommitted
  <2>4. Cancelled(r)' => Cancelled(r)
    BY <2>1 DEF Cancelled
  <2>5. QED
    BY <2>1, <2>2, <2>3, <2>4 DEF Answers, EditSteps
<1>2. QED
  BY <1>1, AnswersKeep

\* A rollback answers with an error, before anything was committed.
LEMMA RollbackAnswers ==
  ASSUME IInv, AnswerInv, NEW r \in Request,
         pc[r] \notin {"reading", "showing", "done"},
         NEW code \in {400, 404, 500}, Rollback(r, code)
  PROVE  AnswerInv'
BY OverAnswers DEF Rollback

\* A refusal, a time-out, and the late roll-back after either.
LEMMA EarlyAnswers ==
  ASSUME IInv, AnswerInv, NEW r \in Request,
         \/ Refuse(r, 409) /\ resp[r] = 0 /\ pc[r] \in {"checking", "claiming"}
         \/ TimeOut(r)
         \/ RollBackLate(r)
  PROVE  AnswerInv'
<1>1. Answers(r)
  <2>1. CASE RollBackLate(r)
    <3>1. /\ pc'[r] = "done" /\ resp' = resp
          /\ \A q \in Request \ {r} : pc'[q] = pc[q]
          /\ orders' = orders /\ target' = target
      BY <2>1 DEF RollBackLate, Goto, IInv, TypeOK
    <3>2. Cancelled(r)' => Cancelled(r)
      BY <3>1 DEF Cancelled
    <3>3. QED
      BY <3>1, <3>2 DEF Answers, EditSteps
  <2>2. CASE ~RollBackLate(r)
    <3>1. /\ pc' = pc /\ orders' = orders /\ target' = target
          /\ resp[r] = 0 /\ r \in InFlight
          /\ \A q \in Request \ {r} : resp'[q] = resp[q]
          /\ \/ resp'[r] = 409 /\ pc[r] \in {"checking", "claiming"}
             \/ resp'[r] = 408
      BY <2>2 DEF Refuse, TimeOut, InFlight, IInv, TypeOK
    <3>2. orders[r].status = "none" \/ resp'[r] = 408
      BY <3>1, NothingCommitted
    <3>3. Cancelled(r)' => Cancelled(r)
      BY <3>1 DEF Cancelled
    <3>4. pc[r] \in EditSteps \cup {"idle"} => target[r] = r
      BY DEF AnswerInv, OnlyCancelsTarget
    <3>5. QED
      BY <3>1, <3>2, <3>3, <3>4 DEF Answers
  <2>3. QED
    BY <2>1, <2>2
<1>2. QED
  BY <1>1, AnswersKeep

\* The COMMIT of a checkout makes an order that was not there.
LEMMA CommitCheckoutAnswers ==
  ASSUME IInv, AnswerInv, NEW r \in Request, CommitCheckout(r)
  PROVE  AnswerInv'
<1>1. /\ resp' = resp /\ target' = target /\ pc[r] = "committing"
      /\ Goto(r, IF resp[r] = 0 THEN "reading" ELSE "done")
  BY DEF CommitCheckout, Committed
<1>2. /\ orders'[r].status = "confirmed"
      /\ \A q \in Request \ {r} : orders'[q] = orders[q]
  BY DEF CommitCheckout, IInv, TypeOK
<1>3. /\ pc'[r] \in {"reading", "done"}
      /\ \A q \in Request \ {r} : pc'[q] = pc[q]
  BY <1>1 DEF Goto, IInv, TypeOK
<1>4. resp[r] \in {0, 408} /\ orders[r].status = "none"
  BY <1>1 DEF AnswerInv, AnsweredLast, IInv, PlacedOnce
<1>5. AnsweredLast'
  BY <1>1, <1>2, <1>3, <1>4 DEF AnswerInv, AnsweredLast
<1>6. AnswerMatchesEffect'
  BY <1>1, <1>2, <1>4 DEF AnswerInv, AnswerMatchesEffect
<1>7. OnlyCancelsTarget'
  BY <1>1, <1>3 DEF AnswerInv, OnlyCancelsTarget, EditSteps
<1>8. OneCancels'
  <2>1. \A q \in Request : Cancelled(q)' => Cancelled(q)
    BY <1>1, <1>3, <1>4 DEF Cancelled
  <2>2. \A q \in Request : target[q] \in Request
    BY DEF IInv, TypeOK
  <2>3. QED
    BY <1>1, <1>2, <1>4, <2>1, <2>2 DEF AnswerInv, OneCancels
<1>9. QED
  BY <1>5, <1>6, <1>7, <1>8 DEF AnswerInv

\* The COMMIT of a cancel: the order was confirmed, so no cancel of it has
\* committed before.
LEMMA CommitCancelAnswers ==
  ASSUME IInv, AnswerInv, NEW r \in Request, CommitCancel(r)
  PROVE  AnswerInv'
<1>1. /\ resp' = resp /\ target' = target /\ pc[r] = "marking"
      /\ Goto(r, IF resp[r] = 0 THEN "showing" ELSE "done")
      /\ target[r] \in Request
  BY DEF CommitCancel, Committed, IInv, TypeOK
<1>2. /\ orders'[target[r]].status = "cancelled"
      /\ \A q \in Request \ {target[r]} : orders'[q] = orders[q]
  BY <1>1 DEF CommitCancel, IInv, TypeOK, Order
<1>3. /\ pc'[r] \in {"showing", "done"}
      /\ resp[r] # 0 => pc'[r] = "done"
      /\ \A q \in Request \ {r} : pc'[q] = pc[q]
  BY <1>1 DEF Goto, IInv, TypeOK
<1>4. resp[r] \in {0, 408} /\ orders[target[r]].status = "confirmed"
  BY <1>1 DEF AnswerInv, AnsweredLast, IInv, CancelsConfirmed
<1>5. AnsweredLast'
  BY <1>1, <1>2, <1>3, <1>4 DEF AnswerInv, AnsweredLast
<1>6. AnswerMatchesEffect'
  BY <1>1, <1>2, <1>4 DEF AnswerInv, AnswerMatchesEffect
<1>7. OnlyCancelsTarget'
  BY <1>1, <1>3 DEF AnswerInv, OnlyCancelsTarget, EditSteps
<1>8. OneCancels'
  <2>1. \A q \in Request \ {r} : Cancelled(q)' => Cancelled(q)
    BY <1>1, <1>3 DEF Cancelled
  <2>2. \A q \in Request \ {r} : Cancelled(q)' => target[q] # target[r]
    BY <1>4, <2>1 DEF AnswerInv, OneCancels
  <2>3. \A q \in Request : target[q] \in Request
    BY DEF IInv, TypeOK
  <2>4. ASSUME NEW q \in Request, Cancelled(q)'
        PROVE  orders'[target[q]].status = "cancelled"
    BY <1>2, <2>1, <2>2, <2>3, <2>4 DEF AnswerInv, OneCancels
  <2>5. ASSUME NEW q \in Request, NEW s \in Request,
               Cancelled(q)', Cancelled(s)', target[q] = target[s]
        PROVE  q = s
    BY <2>1, <2>2, <2>5 DEF AnswerInv, OneCancels
  <2>6. QED
    BY <1>1, <2>4, <2>5 DEF OneCancels
<1>9. QED
  BY <1>5, <1>6, <1>7, <1>8 DEF AnswerInv

\* The statement of a cart request, which may commit or be answered at once.
LEMMA EditAnswers ==
  ASSUME IInv, AnswerInv, NEW r \in Request,
         Upsert(r) \/ SetItem(r) \/ RemoveLines(r)
  PROVE  AnswerInv'
<1>1. /\ pc[r] \in EditSteps /\ orders' = orders /\ target' = target
      /\ target[r] = r
      /\ \/ Goto(r, IF resp[r] = 0 THEN "showing" ELSE "done") /\ resp' = resp
         \/ \E code \in {204, 404, 500} : Answer(r, code)
  BY DEF Upsert, SetItem, RemoveLines, Rollback, Committed, EditSteps,
         AnswerInv, OnlyCancelsTarget
<1>2. CASE \E code \in {204, 404, 500} : Answer(r, code)
  BY <1>1, <1>2, OverAnswers DEF EditSteps
<1>3. CASE Goto(r, IF resp[r] = 0 THEN "showing" ELSE "done") /\ resp' = resp
  <2>1. /\ pc'[r] \in {"showing", "done"}
        /\ resp[r] # 0 => pc'[r] = "done"
        /\ \A q \in Request \ {r} : pc'[q] = pc[q]
    BY <1>3 DEF Goto, IInv, TypeOK
  <2>2. ~Cancelled(r)'
    BY <1>1 DEF Cancelled
  <2>3. Answers(r)
    BY <1>1, <1>3, <2>1, <2>2 DEF Answers, EditSteps
  <2>4. QED
    BY <2>3, AnswersKeep
<1>4. QED
  BY <1>1, <1>2, <1>3

\* The answers of requests that have committed.
LEMMA CommittedAnswers ==
  ASSUME IInv, AnswerInv, NEW r \in Request, ReadItems(r) \/ ShowResult(r)
  PROVE  AnswerInv'
<1>1. PICK code \in {200, 201, 500} :
        /\ pc[r] \in {"reading", "showing"} /\ Answer(r, code)
        /\ orders' = orders /\ target' = target
        /\ code = 201 => pc[r] = "reading"
        /\ code = 200 => pc[r] = "showing"
  BY DEF ReadItems, ShowResult, At
<1>2. code = 200 => Cancelled(r) \/ target[r] = r
  BY <1>1 DEF Cancelled
<1>3. QED
  BY <1>1, <1>2, OverAnswers

\* The other statements of checkouts and cancels, and their failures.
LEMMA UncommittedAnswers ==
  ASSUME IInv, AnswerInv, NEW r \in Request,
         \/ SelectCart(r)
         \/ \E p \in Product, n \in 1..MaxQty :
              CheckActive(r, p, n) \/ StartSet(r, p, n)
         \/ \E p \in Product : StartRemove(r, p)
         \/ StartClear(r)
         \/ LockRow(r) \/ CheckStock(r) \/ WriteLine(r) \/ ClearCart(r)
         \/ ClaimOrder(r) \/ RestockRow(r) \/ DeadlockAbort(r) \/ Fail(r)
  PROVE  AnswerInv'
<1> DEFINE Early == pc[r] \notin {"reading", "showing", "done"}
           Undo == Early /\ \E code \in {400, 404, 500} : Rollback(r, code)
           Deny == /\ Refuse(r, 409) /\ resp[r] = 0
                   /\ pc[r] \in {"checking", "claiming"}
           Silent == \E step \in Steps :
                       /\ Early
                       /\ step \notin {"idle", "reading", "showing", "done"}
                       /\ step \in EditSteps => pc[r] = "idle"
                       /\ resp[r] = 409 => step = "checking"
                       /\ pc' = [pc EXCEPT ![r] = step]
                       /\ resp' = resp /\ orders' = orders /\ target' = target
<1>1. Undo \/ Deny \/ Silent => AnswerInv'
  BY RollbackAnswers, EarlyAnswers, SilentAnswers
<1>2. resp[r] = 409 => pc[r] \in {"checking", "claiming", "done"}
  BY DEF AnswerInv, AnsweredLast
<1>3. SelectCart(r) => Undo \/ Silent
  BY <1>2 DEF SelectCart, Starts, Begin, Goto, Steps, CheckoutSteps, EditSteps
<1>4. ASSUME NEW p \in Product, NEW n \in 1..MaxQty, CheckActive(r, p, n)
      PROVE  Undo \/ Silent
  BY <1>2, <1>4 DEF CheckActive, Starts, Begin, Goto, Steps, EditSteps
<1>5. ASSUME NEW ls, NEW step \in EditSteps, StartEdit(r, ls, step)
      PROVE  Silent
  BY <1>2, <1>5 DEF StartEdit, Starts, Begin, Goto, Steps, EditSteps
<1>6. LockRow(r) => Silent
  <2> SUFFICES ASSUME LockRow(r) PROVE Silent
    OBVIOUS
  <2>1. /\ pc[r] = "locking" /\ resp' = resp /\ orders' = orders
        /\ target' = target
        /\ Goto(r, "checking") \/ pc' = pc
    BY DEF LockRow, Granted
  <2>2. pc' = [pc EXCEPT ![r] = "checking"] \/ pc' = [pc EXCEPT ![r] = "locking"]
    BY <2>1 DEF Goto, IInv, TypeOK
  <2>3. QED
    BY <1>2, <2>1, <2>2 DEF Steps, CheckoutSteps, EditSteps
<1>7. RestockRow(r) => Silent
  <2> SUFFICES ASSUME RestockRow(r) PROVE Silent
    OBVIOUS
  <2>1. /\ pc[r] = "restocking" /\ resp' = resp /\ orders' = orders
        /\ target' = target
        /\ Goto(r, "marking") \/ pc' = pc
    BY DEF RestockRow, At, Granted
  <2>2. pc' = [pc EXCEPT ![r] = "marking"] \/ pc' = [pc EXCEPT ![r] = "restocking"]
    BY <2>1 DEF Goto, IInv, TypeOK
  <2>3. QED
    BY <1>2, <2>1, <2>2 DEF Steps, CancelSteps, EditSteps
<1>8. CheckStock(r) \/ ClearCart(r) => Deny \/ Silent
  BY DEF CheckStock, ClearCart, At, Goto, Steps, CheckoutSteps, EditSteps
<1>9. WriteLine(r) => Undo \/ Silent
  <2> SUFFICES ASSUME WriteLine(r), ~Undo PROVE Silent
    OBVIOUS
  <2>1. pc[r] = "writing" /\ resp[r] = 0
    BY DEF WriteLine, At
  <2>2. /\ resp' = resp /\ orders' = orders /\ target' = target
        /\ Goto(r, "clearing") \/ Goto(r, "writing")
    BY <2>1 DEF WriteLine
  <2>3. QED
    BY <2>1, <2>2 DEF Goto, Steps, CheckoutSteps, EditSteps
<1>10. ClaimOrder(r) => Deny \/ Silent
  BY DEF ClaimOrder, At, Goto, Steps, CancelSteps, EditSteps
<1>11. DeadlockAbort(r) \/ Fail(r) => Undo
  BY DEF DeadlockAbort, Deadlocked, Blocks, Fail, CheckoutSteps, CancelSteps,
         EditSteps
<1> HIDE DEF Undo, Deny, Silent
<1>12. \/ \E p \in Product, n \in 1..MaxQty : StartSet(r, p, n)
       \/ \E p \in Product : StartRemove(r, p)
       \/ StartClear(r)
       => Silent
  BY <1>5 DEF StartSet, StartRemove, StartClear, EditSteps
<1>13. QED
  BY <1>1, <1>3, <1>4, <1>6, <1>7, <1>8, <1>9, <1>10, <1>11, <1>12

\* A cancel finds the order, or does not.
LEMMA SelectOrderAnswers ==
  ASSUME IInv, AnswerInv, NEW r \in Request, NEW o \in Request,
         SelectOrder(r, o)
  PROVE  AnswerInv'
<1>1. CASE Rollback(r, 404)
  BY <1>1, RollbackAnswers DEF SelectOrder, Starts
<1>2. CASE ~Rollback(r, 404)
  <2>1. /\ pc[r] = "idle" /\ pc' = [pc EXCEPT ![r] = "claiming"]
        /\ target' = [target EXCEPT ![r] = o]
        /\ resp' = resp /\ orders' = orders
    BY <1>2 DEF SelectOrder, Starts, Goto
  <2>2. /\ pc'[r] = "claiming"
        /\ \A q \in Request \ {r} : pc'[q] = pc[q] /\ target'[q] = target[q]
    BY <2>1 DEF IInv, TypeOK
  <2>3. resp[r] \in {0, 408}
    BY <2>1 DEF AnswerInv, AnsweredLast
  <2>4. ~Cancelled(r)'
    BY <2>1, <2>2, <2>3 DEF Cancelled
  <2>5. Answers(r)
    BY <2>1, <2>2, <2>3, <2>4 DEF Answers, EditSteps
  <2>6. QED
    BY <2>5, AnswersKeep
<1>3. QED
  BY <1>1, <1>2

\* A step that no request takes, or none at all.
LEMMA OtherAnswers ==
  ASSUME AnswerInv, pc' = pc, resp' = resp, orders' = orders, target' = target
  PROVE  AnswerInv'
BY DEF AnswerInv, AnsweredLast, AnswerMatchesEffect, OnlyCancelsTarget,
       OneCancels, Cancelled

\* Every step keeps it.
LEMMA NextAnswers == IInv /\ AnswerInv /\ [Next]_vars => AnswerInv'
<1> SUFFICES ASSUME IInv, AnswerInv, [Next]_vars PROVE AnswerInv'
  OBVIOUS
<1>1. ASSUME NEW r \in Request, Arrive(r) PROVE AnswerInv'
  BY <1>1, UncommittedAnswers, SelectOrderAnswers DEF Arrive
<1>2. ASSUME NEW r \in Request, Proceed(r) PROVE AnswerInv'
  BY <1>2, UncommittedAnswers, CommitCheckoutAnswers, CommitCancelAnswers,
     EditAnswers, CommittedAnswers, EarlyAnswers DEF Proceed
<1>3. ASSUME NEW r \in Request, Fail(r) \/ TimeOut(r) PROVE AnswerInv'
  BY <1>3, UncommittedAnswers, EarlyAnswers
<1>4. ASSUME NEW p \in Product, Admin(p) PROVE AnswerInv'
  BY <1>4, OtherAnswers DEF Admin, UpdateProduct, ArchiveProduct
<1>5. CASE UNCHANGED vars
  BY <1>5, OtherAnswers DEF vars
<1>6. QED
  BY <1>1, <1>2, <1>3, <1>4, <1>5 DEF Next

LEMMA AnswersInvariance == Spec => []AnswerInv
<1>1. Init => AnswerInv
  BY DEF Init, AnswerInv, AnsweredLast, AnswerMatchesEffect,
         OnlyCancelsTarget, OneCancels, Cancelled
<1>2. QED
  BY <1>1, NextAnswers, Invariance, PTL DEF Spec

\* The status a client is told is the status of the database: 201 only for an
\* order that exists, 400, 404 and 409 only when the request placed none, now
\* or later.
THEOREM AnswersTellTheEffect == Spec => []AnswerMatchesEffect
<1>1. AnswerInv => AnswerMatchesEffect
  BY DEF AnswerInv
<1>2. QED
  BY <1>1, AnswersInvariance, PTL

\* Two requests that cancel one order are not both answered 200, and the order
\* of the one that is, is cancelled: cancel's FOR UPDATE and status check.
THEOREM CancelIsOnce == Spec => []CancelledOnce
<1>1. AnswerInv => CancelledOnce
  BY DEF AnswerInv, OneCancels, Cancelled, CancelledOnce
<1>2. QED
  BY <1>1, AnswersInvariance, PTL
=============================================================================
