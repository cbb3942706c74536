---------------------------- MODULE LedgerProofs ----------------------------
(***************************************************************************)
(* Proofs about Checkout, for every set of users, products and requests,   *)
(* that count units, follow a cart to its order, and follow requests along *)
(* the locks they wait for.                                                *)
(***************************************************************************)
EXTENDS CheckoutProofs, FiniteSetTheorems

-----------------------------------------------------------------------------
\* Units are conserved.

\* A line of k units, none of which was counted before, adds k to a count.
LEMMA CountUnits ==
  ASSUME NEW S, IsFiniteSet(S), NEW o, NEW k \in Nat,
         \A n \in 1..k : <<o, n>> \notin S
  PROVE  /\ IsFiniteSet(S \cup ({o} \X (1..k)))
         /\ Cardinality(S \cup ({o} \X (1..k))) = Cardinality(S) + k
<1> DEFINE T == {o} \X (1..k)
<1>1. IsFiniteSet({o}) /\ Cardinality({o}) = 1
  BY FS_Singleton
<1>2. IsFiniteSet(1..k) /\ Cardinality(1..k) = k
  BY FS_Interval
<1>3. IsFiniteSet(T) /\ Cardinality(T) = k
  <2>1. IsFiniteSet(T) /\ Cardinality(T) = Cardinality({o}) * Cardinality(1..k)
    BY <1>1, <1>2, FS_Product
  <2>2. 1 * k = k
    OBVIOUS
  <2>3. QED
    BY <1>1, <1>2, <2>1, <2>2
<1>4. Cardinality(S \cap T) = 0
  <2>1. S \cap T = {}
    OBVIOUS
  <2>2. QED
    BY <2>1, FS_EmptySet
<1>5. Cardinality(S) \in Nat
  BY FS_CardinalityType
<1> HIDE DEF T
<1>6. /\ IsFiniteSet(S \cup T)
      /\ Cardinality(S \cup T)
           = Cardinality(S) + Cardinality(T) - Cardinality(S \cap T)
  BY <1>3, FS_Union
<1>7. IsFiniteSet(S \cup T) /\ Cardinality(S \cup T) = Cardinality(S) + k
  BY <1>3, <1>4, <1>5, <1>6
<1>8. QED
  BY <1>7 DEF T

\* UnitsSold, of any orders.
UnitsIn(os, p) ==
  {u \in Request \X (1..MaxQty) :
     os[u[1]].status = "confirmed" /\ u[2] <= os[u[1]].lines[p]}

\* Orders that differ in the order o, confirmed in one and not in the other,
\* differ in the units of o.
LEMMA UnitsOfOrder ==
  ASSUME NEW before \in [Request -> Order], NEW after \in [Request -> Order],
         NEW o \in Request, NEW p \in Product,
         \A q \in Request \ {o} : after[q] = before[q],
         before[o].status # "confirmed", after[o].status = "confirmed"
  PROVE  LET k == after[o].lines[p]
         IN  /\ k \in Nat
             /\ \A n \in 1..k : <<o, n>> \notin UnitsIn(before, p)
             /\ UnitsIn(after, p) = UnitsIn(before, p) \cup ({o} \X (1..k))
<1> DEFINE k == after[o].lines[p]
<1>1. k \in 0..MaxQty /\ k \in Nat /\ 1..k \subseteq 1..MaxQty
  BY CheckoutAssumption DEF Order, Quantity
<1>2. \A n \in 1..k : <<o, n>> \notin UnitsIn(before, p)
  BY DEF UnitsIn
<1>3. \A q \in Request, n \in 1..MaxQty :
        <<q, n>> \in UnitsIn(after, p)
          <=> <<q, n>> \in UnitsIn(before, p) \/ (q = o /\ n \in 1..k)
  <2> SUFFICES ASSUME NEW q \in Request, NEW n \in 1..MaxQty
               PROVE  <<q, n>> \in UnitsIn(after, p)
                        <=> \/ <<q, n>> \in UnitsIn(before, p)
                            \/ q = o /\ n \in 1..k
    OBVIOUS
  <2>1. n \in Int /\ 1 <= n
    BY CheckoutAssumption
  <2>2. CASE q = o
    BY <1>1, <2>1, <2>2 DEF UnitsIn
  <2>3. CASE q # o
    BY <2>3 DEF UnitsIn
  <2>4. QED
    BY <2>2, <2>3
<1>4. UnitsIn(after, p) = UnitsIn(before, p) \cup ({o} \X (1..k))
  <2>1. /\ UnitsIn(before, p) \subseteq Request \X (1..MaxQty)
        /\ UnitsIn(after, p) \subseteq Request \X (1..MaxQty)
        /\ {o} \X (1..k) \subseteq Request \X (1..MaxQty)
    BY <1>1 DEF UnitsIn
  <2> HIDE DEF k
  <2>2. \A u \in Request \X (1..MaxQty) :
          u \in UnitsIn(after, p)
            <=> u \in UnitsIn(before, p) \cup ({o} \X (1..k))
    BY <1>3
  <2>3. QED
    BY <2>1, <2>2
<1>5. QED
  BY <1>1, <1>2, <1>4

\* Ledger, and the finite counts it is about.
LedgerInv == Ledger /\ \A p \in Product : IsFiniteSet(UnitsSold(p))

\* The commit of a checkout: the stock loses the units of an order that was
\* not there before.
LEMMA CommitCheckoutLedger ==
  ASSUME IInv, IInv', LedgerInv, NEW r \in Request, CommitCheckout(r)
  PROVE  LedgerInv'
<1>1. /\ orders \in [Request -> Order] /\ orders' \in [Request -> Order]
      /\ \A p \in Product : stock[p] \in Int /\ supply[p] \in Int
      /\ lines[r] \in [Product -> Quantity]
  BY DEF IInv, TypeOK
<1>2. /\ orders[r].status = "none"
      /\ orders'[r].status = "confirmed" /\ orders'[r].lines = lines[r]
      /\ \A q \in Request \ {r} : orders'[q] = orders[q]
  BY <1>1, AllIsBought DEF CommitCheckout, IInv, PlacedOnce
<1>3. /\ \A p \in Product : stock'[p] = stock[p] - lines[r][p]
      /\ supply' = supply
  BY AllIsBought DEF CommitCheckout
<1> SUFFICES ASSUME NEW p \in Product
             PROVE  /\ IsFiniteSet(UnitsSold(p)')
                    /\ stock'[p] + Cardinality(UnitsSold(p)') = supply'[p]
  BY DEF LedgerInv, Ledger
<1>4. /\ lines[r][p] \in Nat
      /\ \A n \in 1..lines[r][p] : <<r, n>> \notin UnitsSold(p)
      /\ UnitsSold(p)' = UnitsSold(p) \cup ({r} \X (1..lines[r][p]))
  <2>1. /\ UnitsSold(p) = UnitsIn(orders, p)
        /\ UnitsSold(p)' = UnitsIn(orders', p)
    BY DEF UnitsSold, UnitsIn
  <2>2. QED
    BY <1>1, <1>2, <2>1, UnitsOfOrder
<1>5. /\ IsFiniteSet(UnitsSold(p))
      /\ stock[p] + Cardinality(UnitsSold(p)) = supply[p]
  BY DEF LedgerInv, Ledger
<1>6. /\ IsFiniteSet(UnitsSold(p)')
      /\ Cardinality(UnitsSold(p)') = Cardinality(UnitsSold(p)) + lines[r][p]
  <2> DEFINE S == UnitsSold(p)
             k == lines[r][p]
  <2>1. IsFiniteSet(S) /\ \A n \in 1..k : <<r, n>> \notin S
    BY <1>4, <1>5
  <2> HIDE DEF S, k
  <2>2. /\ IsFiniteSet(S \cup ({r} \X (1..k)))
        /\ Cardinality(S \cup ({r} \X (1..k))) = Cardinality(S) + k
    BY <1>4, <2>1, CountUnits DEF k
  <2>3. QED
    BY <1>4, <2>2 DEF S, k
<1>7. Cardinality(UnitsSold(p)) \in Nat
  BY <1>5, FS_CardinalityType
<1>8. QED
  BY <1>1, <1>3, <1>4, <1>5, <1>6, <1>7

\* The commit of a cancel: the stock gets the units of a confirmed order back,
\* which are the lines the cancel has worked with.
LEMMA CommitCancelLedger ==
  ASSUME IInv, IInv', LedgerInv, NEW r \in Request, CommitCancel(r)
  PROVE  LedgerInv'
<1> DEFINE o == target[r]
<1>1. /\ orders \in [Request -> Order] /\ orders' \in [Request -> Order]
      /\ \A p \in Product : stock[p] \in Int /\ supply[p] \in Int
      /\ o \in Request
  BY DEF IInv, TypeOK
<1>2. /\ orders[o].status = "confirmed" /\ orders[o].lines = lines[r]
      /\ orders'[o].status = "cancelled"
      /\ \A q \in Request \ {o} : orders'[q] = orders[q]
  BY <1>1 DEF CommitCancel, IInv, CancelsConfirmed, Order
<1>3. /\ \A p \in Product : stock'[p] = stock[p] + lines[r][p]
      /\ supply' = supply
  BY DEF CommitCancel
<1> SUFFICES ASSUME NEW p \in Product
             PROVE  /\ IsFiniteSet(UnitsSold(p)')
                    /\ stock'[p] + Cardinality(UnitsSold(p)') = supply'[p]
  BY DEF LedgerInv, Ledger
<1> DEFINE k == lines[r][p]
<1>5. /\ IsFiniteSet(UnitsSold(p))
      /\ stock[p] + Cardinality(UnitsSold(p)) = supply[p]
  BY DEF LedgerInv, Ledger
<1>6. /\ k \in Nat /\ \A n \in 1..k : <<o, n>> \notin UnitsSold(p)'
      /\ UnitsSold(p) = UnitsSold(p)' \cup ({o} \X (1..k))
  <2>1. /\ UnitsSold(p) = UnitsIn(orders, p)
        /\ UnitsSold(p)' = UnitsIn(orders', p)
    BY DEF UnitsSold, UnitsIn
  <2> HIDE DEF o
  <2>2. QED
    BY <1>1, <1>2, <2>1, UnitsOfOrder
<1>7. IsFiniteSet(UnitsSold(p)')
  <2>1. UnitsSold(p)' \in SUBSET UnitsSold(p)
    BY <1>6
  <2>2. QED
    BY <1>5, <2>1, FS_Subset
<1>8. Cardinality(UnitsSold(p)) = Cardinality(UnitsSold(p)') + k
  <2> DEFINE S == UnitsSold(p)'
  <2>1. IsFiniteSet(S) /\ \A n \in 1..k : <<o, n>> \notin S
    BY <1>6, <1>7
  <2> HIDE DEF S, k, o
  <2>2. Cardinality(S \cup ({o} \X (1..k))) = Cardinality(S) + k
    BY <1>6, <2>1, CountUnits
  <2>3. QED
    BY <1>6, <2>2 DEF S
<1>9. Cardinality(UnitsSold(p)') \in Nat
  BY <1>7, FS_CardinalityType
<1>10. QED
  BY <1>1, <1>3, <1>5, <1>6, <1>7, <1>8, <1>9

\* An administrator's new stock level is accounted for as supply.
LEMMA UpdateProductLedger ==
  ASSUME IInv, LedgerInv, NEW p \in Product, NEW s \in Int, NEW c, NEW a,
         UpdateProduct(p, s, c, a)
  PROVE  LedgerInv'
<1>1. /\ orders' = orders
      /\ stock' = [stock EXCEPT ![p] = s]
      /\ supply' = [supply EXCEPT ![p] = @ + s - stock[p]]
      /\ stock \in [Product -> Int] /\ supply \in [Product -> Int]
  BY DEF UpdateProduct, IInv, TypeOK
<1>2. \A x \in Product : UnitsSold(x)' = UnitsSold(x)
  BY <1>1 DEF UnitsSold
<1> SUFFICES ASSUME NEW x \in Product
             PROVE  /\ IsFiniteSet(UnitsSold(x))
                    /\ stock'[x] + Cardinality(UnitsSold(x)) = supply'[x]
  BY <1>2 DEF LedgerInv, Ledger
<1>3. /\ IsFiniteSet(UnitsSold(x)) /\ Cardinality(UnitsSold(x)) \in Nat
      /\ stock[x] + Cardinality(UnitsSold(x)) = supply[x]
  BY FS_CardinalityType DEF LedgerInv, Ledger
<1>4. CASE x = p
  <2>1. stock'[x] = s /\ supply'[x] = supply[x] + s - stock[x]
    BY <1>1, <1>4
  <2>2. QED
    BY <1>1, <1>3, <2>1
<1>5. CASE x # p
  BY <1>1, <1>3, <1>5
<1>6. QED
  BY <1>4, <1>5

\* A step that changes neither stock nor orders.
LEMMA OtherLedger ==
  ASSUME LedgerInv, UNCHANGED <<stock, supply, orders>>
  PROVE  LedgerInv'
BY DEF LedgerInv, Ledger, UnitsSold

\* A step of a request that commits no checkout and no cancel is one.
LEMMA QuietSteps ==
  ASSUME NEW r \in Request, Arrive(r) \/ Proceed(r) \/ Fail(r) \/ TimeOut(r),
         ~CommitCheckout(r), ~CommitCancel(r)
  PROVE  UNCHANGED <<stock, supply, orders>>
<1> USE DEF catalogVars, txVars, Rollback, Refuse
<1>1. CASE Arrive(r)
  BY <1>1
  DEF Arrive, SelectCart, SelectOrder, CheckActive, StartSet, StartRemove,
      StartClear, StartEdit
<1>2. CASE Proceed(r)
  BY <1>2
  DEF Proceed, LockRow, CheckStock, WriteLine, ClearCart, ReadItems, ClaimOrder,
      RestockRow, Upsert, SetItem, RemoveLines, ShowResult, DeadlockAbort,
      RollBackLate
<1>3. CASE Fail(r) \/ TimeOut(r)
  BY <1>3 DEF Fail, TimeOut
<1>4. QED
  BY <1>1, <1>2, <1>3

\* Every step keeps it.
LEMMA NextLedger == IInv /\ IInv' /\ LedgerInv /\ [Next]_vars => LedgerInv'
<1> SUFFICES ASSUME IInv, IInv', LedgerInv, [Next]_vars PROVE LedgerInv'
  OBVIOUS
<1>1. ASSUME NEW r \in Request, CommitCheckout(r) PROVE LedgerInv'
  BY <1>1, CommitCheckoutLedger
<1>2. ASSUME NEW r \in Request, CommitCancel(r) PROVE LedgerInv'
  BY <1>2, CommitCancelLedger
<1>3. ASSUME NEW r \in Request, Arrive(r) \/ Proceed(r) \/ Fail(r) \/ TimeOut(r),
             ~CommitCheckout(r), ~CommitCancel(r)
      PROVE  LedgerInv'
  BY <1>3, QuietSteps, OtherLedger
<1>5. ASSUME NEW p \in Product, Admin(p) PROVE LedgerInv'
  <2>1. /\ stock[p] \in Int
        /\ StockLevels \subseteq Nat
    BY CheckoutAssumption DEF IInv, TypeOK
  <2>2. PICK s \in StockLevels \cup {stock[p]}, c \in Prices \cup {price[p]} :
          \E a : UpdateProduct(p, s, c, a)
    BY <1>5 DEF Admin, ArchiveProduct
  <2>3. QED
    BY <2>1, <2>2, UpdateProductLedger
<1>6. CASE UNCHANGED vars
  BY <1>6, OtherLedger DEF vars, catalogVars
<1>7. QED
  BY <1>1, <1>2, <1>3, <1>5, <1>6 DEF Next

\* Units are conserved: what administrators supplied of a product is in stock
\* or in an order that is not cancelled, in every interleaving of checkouts,
\* cancellations, failures and administrators.
THEOREM UnitsConserved == Spec => []Ledger
<1>1. Init => LedgerInv
  <2> SUFFICES ASSUME Init, NEW p \in Product
               PROVE  /\ IsFiniteSet(UnitsSold(p))
                      /\ stock[p] + Cardinality(UnitsSold(p)) = supply[p]
    BY DEF LedgerInv, Ledger
  <2>1. UnitsSold(p) = {}
    BY DEF UnitsSold, Init, NoOrder
  <2>2. IsFiniteSet(UnitsSold(p)) /\ Cardinality(UnitsSold(p)) = 0
    BY <2>1, FS_EmptySet
  <2>3. stock[p] \in Int /\ supply[p] = stock[p]
    <3>1. supply = stock /\ stock \in [Product -> Int]
      BY InitIInv DEF Init, IInv, TypeOK
    <3>2. QED
      BY <3>1
  <2>4. QED
    BY <2>2, <2>3
<1>2. LedgerInv => Ledger
  BY DEF LedgerInv
<1>3. QED
  BY <1>1, <1>2, NextLedger, Invariance, PTL DEF Spec

-----------------------------------------------------------------------------
\* What a request's step touches.

\* The requests that are at a cart.
AtCart == CheckoutSteps \cup EditSteps

\* A step of r is of no other request, and of no other user's cart.  Only a
\* request that is at its cart changes it, and a request that comes to it
\* tells the others there.
LEMMA RequestStepFrame ==
  ASSUME IInv, NEW r \in Request,
         Arrive(r) \/ Proceed(r) \/ Fail(r) \/ TimeOut(r)
  PROVE  /\ \A q \in Request \ {r} :
              pc'[q] = pc[q] /\ lines'[q] = lines[q] /\ doomed'[q] = doomed[q]
         /\ \A u \in User \ {UserOf[r]} : cart'[u] = cart[u]
         /\ cart' # cart => pc[r] \in AtCart
         /\ \A q \in Request \ {r} : shared'[q] = shared[q] \/ shared'[q] = TRUE
         /\ pc'[r] \in AtCart /\ shared[r] => shared'[r]
         /\ \/ /\ pc'[r] \in AtCart => pc[r] \in AtCart /\ shared'[r] = shared[r]
               /\ \A q \in Request \ {r} : shared'[q] = shared[q]
            \/ \A q \in Mates(r) : shared'[q] = TRUE /\ shared'[r] = TRUE
<1> DEFINE Frame ==
      /\ \E step : pc' = [pc EXCEPT ![r] = step]
      /\ lines' = lines \/ \E ls : lines' = [lines EXCEPT ![r] = ls]
      /\ doomed' = doomed \/ \E S : doomed' = [doomed EXCEPT ![r] = S]
      /\ \/ cart' = cart
         \/ pc[r] \in AtCart /\ \E c : cart' = [cart EXCEPT ![UserOf[r]] = c]
      /\ \/ /\ shared' = shared
            /\ pc'[r] \in AtCart => pc[r] \in AtCart
         \/ /\ shared' = [shared EXCEPT ![r] = FALSE]
            /\ pc'[r] \notin AtCart
         \/ shared' = [q \in Request |->
              shared[q] \/ (Mates(r) # {} /\ q \in Mates(r) \cup {r})]
<1> USE DEF Goto, Answer, Release, Rollback, Committed, Refuse, At, AtCart,
            CheckoutSteps, EditSteps, CancelSteps, catalogVars, txVars
<1>1. /\ pc \in [Request -> Steps] /\ shared \in [Request -> BOOLEAN]
      /\ pc' = pc => \E step : pc' = [pc EXCEPT ![r] = step]
  BY DEF IInv, TypeOK
<1>2. ASSUME NEW code, Rollback(r, code) PROVE Frame
  BY <1>1, <1>2
<1>3. ASSUME Arrive(r) PROVE Frame
  <2>1. CASE SelectCart(r)
    BY <1>2, <2>1 DEF SelectCart, Begin
  <2>2. CASE \E o \in Request : SelectOrder(r, o)
    BY <1>1, <1>2, <2>2 DEF SelectOrder, Starts
  <2>3. CASE \E p \in Product, n \in 1..MaxQty : CheckActive(r, p, n)
    BY <1>2, <2>3 DEF CheckActive, Begin
  <2>4. ASSUME NEW ls, NEW step, StartEdit(r, ls, step) PROVE Frame
    BY <2>4 DEF StartEdit, Begin
  <2>5. QED
    BY <1>3, <2>1, <2>2, <2>3, <2>4
    DEF Arrive, StartSet, StartRemove, StartClear
<1>4. ASSUME Proceed(r) PROVE Frame
  <2>1. CASE LockRow(r)
    BY <1>1, <2>1 DEF LockRow, Granted
  <2>2. CASE RestockRow(r)
    BY <1>1, <2>2 DEF RestockRow, Granted
  <2>3. CASE CheckStock(r)
    BY <1>1, <2>3 DEF CheckStock
  <2>4. CASE WriteLine(r)
    BY <1>1, <1>2, <2>4 DEF WriteLine
  <2>5. CASE ClearCart(r)
    BY <1>1, <2>5 DEF ClearCart
  <2>6. CASE CommitCheckout(r)
    BY <1>1, <2>6 DEF CommitCheckout
  <2>7. CASE CommitCancel(r)
    BY <1>1, <2>7 DEF CommitCancel
  <2>8. CASE ReadItems(r) \/ ShowResult(r)
    BY <1>1, <2>8 DEF ReadItems, ShowResult
  <2>9. CASE ClaimOrder(r)
    BY <1>1, <2>9 DEF ClaimOrder
  <2>10. CASE Upsert(r)
    BY <1>1, <1>2, <2>10 DEF Upsert
  <2>11. CASE SetItem(r)
    BY <1>1, <1>2, <2>11 DEF SetItem
  <2>12. CASE RemoveLines(r)
    BY <1>1, <2>12 DEF RemoveLines
  <2>13. CASE DeadlockAbort(r)
    BY <1>2, <2>13 DEF DeadlockAbort
  <2>14. CASE RollBackLate(r)
    BY <1>1, <2>14 DEF RollBackLate
  <2>15. QED
    BY <1>4, <2>1, <2>2, <2>3, <2>4, <2>5, <2>6, <2>7, <2>8, <2>9, <2>10,
       <2>11, <2>12, <2>13, <2>14 DEF Proceed
<1>5. ASSUME Fail(r) PROVE Frame
  BY <1>2, <1>5 DEF Fail
<1>6. ASSUME TimeOut(r) PROVE Frame
  BY <1>1, <1>6 DEF TimeOut
<1>7. Frame
  BY <1>3, <1>4, <1>5, <1>6
<1>8. /\ \A q \in Request \ {r} :
           pc'[q] = pc[q] /\ lines'[q] = lines[q] /\ doomed'[q] = doomed[q]
      /\ \A u \in User \ {UserOf[r]} : cart'[u] = cart[u]
      /\ cart' # cart => pc[r] \in AtCart
  BY <1>7 DEF IInv, TypeOK
<1>9. /\ \A q \in Request \ {r} : shared'[q] = shared[q] \/ shared'[q] = TRUE
      /\ pc'[r] \in AtCart /\ shared[r] => shared'[r]
      /\ \/ /\ pc'[r] \in AtCart => pc[r] \in AtCart /\ shared'[r] = shared[r]
            /\ \A q \in Request \ {r} : shared'[q] = shared[q]
         \/ \A q \in Mates(r) : shared'[q] = TRUE /\ shared'[r] = TRUE
  <2> HIDE DEF AtCart, CheckoutSteps, EditSteps
  <2>1. Mates(r) \subseteq Request
    BY DEF Mates
  <2>2. QED
    BY <1>1, <1>7, <2>1
<1>10. QED
  BY <1>8, <1>9

\* A step that leaves r in a checkout selects the cart or goes on with it; the
\* last one before the commit deletes the cart's lines, and no other does.
LEMMA RequestStepCheckout ==
  ASSUME IInv, DoomedLast, NEW r \in Request,
         Arrive(r) \/ Proceed(r) \/ Fail(r) \/ TimeOut(r)
  PROVE  /\ pc'[r] \in CheckoutSteps =>
              /\ cart' = cart
              /\ \/ lines'[r] = cart[UserOf[r]]
                 \/ pc[r] \in CheckoutSteps /\ lines'[r] = lines[r]
         /\ pc'[r] = "committing" =>
              \/ doomed'[r] = InCart(cart[UserOf[r]])
              \/ pc[r] = "committing" /\ doomed'[r] = doomed[r]
         /\ doomed'[r] # {} => pc'[r] = "committing"
<1> DEFINE Goal ==
      /\ pc'[r] \in CheckoutSteps =>
           /\ cart' = cart
           /\ \/ lines'[r] = cart[UserOf[r]]
              \/ pc[r] \in CheckoutSteps /\ lines'[r] = lines[r]
      /\ pc'[r] = "committing" =>
           \/ doomed'[r] = InCart(cart[UserOf[r]])
           \/ pc[r] = "committing" /\ doomed'[r] = doomed[r]
      /\ doomed'[r] # {} => pc'[r] = "committing"
<1> USE DEF Goto, At, Committed, Release, catalogVars, txVars, CheckoutSteps
<1>1. /\ pc \in [Request -> Steps] /\ lines \in [Request -> [Product -> Quantity]]
      /\ doomed \in [Request -> SUBSET Product]
      /\ doomed[r] # {} => pc[r] = "committing"
  BY DEF IInv, TypeOK, DoomedLast
<1>2. ASSUME NEW code, Rollback(r, code) PROVE Goal
  BY <1>1, <1>2 DEF Rollback, Answer
<1>3. ASSUME Arrive(r) PROVE Goal
  <2>1. CASE SelectCart(r)
    BY <1>1, <1>2, <2>1 DEF SelectCart, Starts, Begin
  <2>2. CASE \E o \in Request : SelectOrder(r, o)
    BY <1>1, <1>2, <2>2 DEF SelectOrder, Starts
  <2>3. CASE \E p \in Product, n \in 1..MaxQty : CheckActive(r, p, n)
    BY <1>1, <1>2, <2>3 DEF CheckActive, Starts, Begin
  <2>4. ASSUME NEW ls, NEW step \in EditSteps, StartEdit(r, ls, step)
        PROVE  Goal
    BY <1>1, <2>4 DEF StartEdit, Starts, Begin, EditSteps
  <2>5. QED
    BY <1>3, <2>1, <2>2, <2>3, <2>4
    DEF Arrive, StartSet, StartRemove, StartClear, EditSteps
<1>4. ASSUME Proceed(r) PROVE Goal
  <2>1. CASE LockRow(r)
    BY <1>1, <2>1 DEF LockRow, Granted
  <2>2. CASE RestockRow(r)
    BY <1>1, <2>2 DEF RestockRow, Granted
  <2>3. CASE CheckStock(r)
    BY <1>1, <2>3 DEF CheckStock, Refuse
  <2>4. CASE WriteLine(r)
    BY <1>1, <1>2, <2>4 DEF WriteLine
  <2>5. CASE ClearCart(r)
    BY <1>1, <2>5 DEF ClearCart
  <2>6. CASE CommitCheckout(r) \/ CommitCancel(r)
    BY <1>1, <2>6 DEF CommitCheckout, CommitCancel
  <2>7. CASE ReadItems(r) \/ ShowResult(r)
    BY <1>1, <2>7 DEF ReadItems, ShowResult, Answer
  <2>8. CASE ClaimOrder(r)
    BY <1>1, <2>8 DEF ClaimOrder, Refuse
  <2>9. CASE DeadlockAbort(r)
    BY <1>2, <2>9 DEF DeadlockAbort
  <2>10. CASE Upsert(r)
    BY <1>1, <1>2, <2>10 DEF Upsert
  <2>11. CASE SetItem(r)
    BY <1>1, <1>2, <2>11 DEF SetItem
  <2>12. CASE RemoveLines(r) \/ RollBackLate(r)
    BY <1>1, <2>12 DEF RemoveLines, RollBackLate, Answer
  <2>13. QED
    BY <1>4, <2>1, <2>2, <2>3, <2>4, <2>5, <2>6, <2>7, <2>8, <2>9, <2>10,
       <2>11, <2>12 DEF Proceed
<1>5. ASSUME Fail(r) PROVE Goal
  BY <1>2, <1>5 DEF Fail
<1>6. ASSUME TimeOut(r) PROVE Goal
  BY <1>1, <1>6 DEF TimeOut
<1>7. QED
  BY <1>3, <1>4, <1>5, <1>6

\* The requests in flight after a step are those before it, and its own.
LEMMA NextLocks == IInv /\ LockInv /\ [Next]_vars => LockInv'
<1> SUFFICES ASSUME IInv, LockInv, [Next]_vars PROVE LockInv'
  OBVIOUS
<1>1. ASSUME NEW r \in Request,
             Arrive(r) \/ Proceed(r) \/ Fail(r) \/ TimeOut(r)
      PROVE  LockInv'
  <2>1. /\ \A q \in Request \ {r} : pc'[q] = pc[q] /\ doomed'[q] = doomed[q]
        /\ doomed'[r] # {} => pc'[r] = "committing"
    BY <1>1, RequestStepFrame, RequestStepCheckout DEF LockInv
  <2>2. DoomedLast'
    BY <2>1 DEF LockInv, DoomedLast
  <2>3. InFlight' \subseteq InFlight \cup {r}
    BY <2>1 DEF InFlight
  <2>4. IsFiniteSet(InFlight \cup {r})
    BY FS_AddElement DEF LockInv, FinitelyMany
  <2>5. QED
    BY <2>2, <2>3, <2>4, FS_Subset DEF LockInv, FinitelyMany
<1>2. CASE UNCHANGED <<pc, doomed>>
  BY <1>2 DEF LockInv, FinitelyMany, DoomedLast, InFlight
<1>3. ASSUME NEW p \in Product, Admin(p) PROVE UNCHANGED <<pc, doomed>>
  BY <1>3 DEF Admin, UpdateProduct, ArchiveProduct, txVars
<1>4. UNCHANGED vars => UNCHANGED <<pc, doomed>>
  BY DEF vars, txVars
<1>5. QED
  BY <1>1, <1>2, <1>3, <1>4 DEF Next

LEMMA LocksInvariance == Spec => []LockInv
<1>1. Init => LockInv
  <2> SUFFICES ASSUME Init PROVE LockInv
    OBVIOUS
  <2>1. InFlight = {}
    BY DEF Init, InFlight
  <2>2. QED
    BY <2>1, FS_EmptySet DEF Init, LockInv, FinitelyMany, DoomedLast
<1>2. QED
  BY <1>1, NextLocks, Invariance, PTL DEF Spec

-----------------------------------------------------------------------------
\* A checkout that is alone at its cart.

\* A request's step changes no cart that another request is alone at.
LEMMA RequestStepCart ==
  ASSUME IInv, LockInv, CartInv, NEW r \in Request,
         Arrive(r) \/ Proceed(r) \/ Fail(r) \/ TimeOut(r)
  PROVE  CartInv'
<1>1. /\ \A q \in Request \ {r} :
           pc'[q] = pc[q] /\ lines'[q] = lines[q] /\ doomed'[q] = doomed[q]
      /\ \A u \in User \ {UserOf[r]} : cart'[u] = cart[u]
      /\ cart' # cart => pc[r] \in AtCart
      /\ \A q \in Request \ {r} : shared'[q] = shared[q] \/ shared'[q] = TRUE
      /\ pc'[r] \in AtCart /\ shared[r] => shared'[r]
      /\ \/ /\ pc'[r] \in AtCart => pc[r] \in AtCart /\ shared'[r] = shared[r]
            /\ \A q \in Request \ {r} : shared'[q] = shared[q]
         \/ \A q \in Mates(r) : shared'[q] = TRUE /\ shared'[r] = TRUE
  BY RequestStepFrame
<1>2. /\ pc'[r] \in CheckoutSteps =>
           /\ cart' = cart
           /\ \/ lines'[r] = cart[UserOf[r]]
              \/ pc[r] \in CheckoutSteps /\ lines'[r] = lines[r]
      /\ pc'[r] = "committing" =>
           \/ doomed'[r] = InCart(cart[UserOf[r]])
           \/ pc[r] = "committing" /\ doomed'[r] = doomed[r]
  BY RequestStepCheckout DEF LockInv
<1>3. MatesShare'
  <2> SUFFICES ASSUME NEW q \in Request, NEW s \in Request, q # s,
                      UserOf[q] = UserOf[s],
                      pc'[q] \in AtCart, pc'[s] \in AtCart
               PROVE  shared'[s]
    BY DEF MatesShare, AtCart
  <2>1. CASE q # r /\ s # r
    BY <1>1, <2>1 DEF CartInv, MatesShare, AtCart
  <2>2. CASE q = r
    BY <1>1, <2>2 DEF CartInv, MatesShare, AtCart, Mates
  <2>3. CASE s = r
    BY <1>1, <2>3 DEF CartInv, MatesShare, AtCart, Mates
  <2>4. QED
    BY <2>1, <2>2, <2>3
<1>4. CartKept'
  <2> SUFFICES ASSUME NEW q \in Request, ~shared'[q]
               PROVE  /\ pc'[q] \in CheckoutSteps =>
                           lines'[q] = cart'[UserOf[q]]
                      /\ pc'[q] = "committing" =>
                           doomed'[q] = InCart(cart'[UserOf[q]])
    BY DEF CartKept, InCart
  <2>1. CASE q = r
    <3>1. pc'[r] \in CheckoutSteps => ~shared[r]
      BY <1>1, <2>1 DEF AtCart
    <3>2. pc'[r] = "committing" => pc'[r] \in CheckoutSteps
      BY DEF CheckoutSteps
    <3>3. pc'[r] \in CheckoutSteps => lines'[r] = cart'[UserOf[r]]
      BY <1>2, <3>1 DEF CartInv, CartKept
    <3>4. pc'[r] = "committing" => doomed'[r] = InCart(cart'[UserOf[r]])
      BY <1>2, <3>1, <3>2 DEF CartInv, CartKept
    <3>5. QED
      BY <2>1, <3>3, <3>4
  <2>2. CASE q # r /\ UserOf[q] = UserOf[r]
    <3>1. ~shared[q]
      BY <1>1, <2>2
    <3>2. pc[q] \in CheckoutSteps => cart' = cart
      BY <1>1, <2>2, <3>1 DEF CartInv, MatesShare, AtCart
    <3>3. QED
      BY <1>1, <2>2, <3>1, <3>2 DEF CartInv, CartKept, CheckoutSteps
  <2>3. CASE q # r /\ UserOf[q] # UserOf[r]
    <3>1. cart'[UserOf[q]] = cart[UserOf[q]] /\ ~shared[q]
      BY <1>1, <2>3, UserOfType
    <3>2. QED
      BY <1>1, <2>3, <3>1 DEF CartInv, CartKept
  <2>4. QED
    BY <2>1, <2>2, <2>3
<1>5. QED
  BY <1>3, <1>4 DEF CartInv

LEMMA NextCart == IInv /\ LockInv /\ CartInv /\ [Next]_vars => CartInv'
<1> SUFFICES ASSUME IInv, LockInv, CartInv, [Next]_vars PROVE CartInv'
  OBVIOUS
<1>1. ASSUME UNCHANGED <<pc, cart, lines, doomed, shared>> PROVE CartInv'
  BY <1>1 DEF CartInv, MatesShare, CartKept, InCart
<1>2. ASSUME NEW p \in Product, Admin(p)
      PROVE  UNCHANGED <<pc, cart, lines, doomed, shared>>
  BY <1>2 DEF Admin, UpdateProduct, ArchiveProduct, txVars
<1>3. UNCHANGED vars => UNCHANGED <<pc, cart, lines, doomed, shared>>
  BY DEF vars, txVars
<1>4. QED
  BY <1>1, <1>2, <1>3, RequestStepCart DEF Next

LEMMA CartsInvariance == Spec => []CartInv
<1>1. Init => CartInv
  BY DEF Init, CartInv, MatesShare, CartKept, CheckoutSteps, EditSteps
<1>2. QED
  BY <1>1, NextCart, Invariance, LocksInvariance, PTL DEF Spec

\* Only a checkout that commits makes an order.
LEMMA PlacedByCommit ==
  ASSUME IInv, [Next]_vars, NEW r \in Request, Placed(r)
  PROVE  CommitCheckout(r)
<1>1. orders' # orders
  BY DEF Placed
<1>2. ASSUME NEW q \in Request,
             Arrive(q) \/ Proceed(q) \/ Fail(q) \/ TimeOut(q)
      PROVE  CommitCheckout(r)
  <2>1. CASE CommitCheckout(q)
    BY <2>1 DEF CommitCheckout, Placed, IInv, TypeOK
  <2>2. CASE CommitCancel(q)
    BY <2>2 DEF CommitCancel, Placed, IInv, TypeOK, Order
  <2>3. QED
    BY <1>1, <1>2, <2>1, <2>2, QuietSteps
<1>3. ASSUME NEW p \in Product, Admin(p) PROVE FALSE
  BY <1>1, <1>3 DEF Admin, UpdateProduct, ArchiveProduct
<1>4. CASE UNCHANGED vars
  BY <1>1, <1>4 DEF vars
<1>5. QED
  BY <1>2, <1>3, <1>4 DEF Next

\* An order is exactly the cart, which its commit leaves empty, if no other
\* request of the user was at the cart during the checkout, whatever other
\* users and administrators do meanwhile, and also when the checkout commits
\* after it was answered 408.
THEOREM OrderIsTheCart == Spec => OrdersTakeTheCart
<1> DEFINE Took == \A r \in Request : Placed(r) /\ ~shared[r] =>
                     /\ orders'[r].lines = cart[UserOf[r]]
                     /\ cart'[UserOf[r]] = NoLines
<1>1. IInv /\ CartInv /\ [Next]_vars => Took
  <2> SUFFICES ASSUME IInv, CartInv, [Next]_vars,
                      NEW r \in Request, Placed(r), ~shared[r]
               PROVE  /\ orders'[r].lines = cart[UserOf[r]]
                      /\ cart'[UserOf[r]] = NoLines
    OBVIOUS
  <2> DEFINE u == UserOf[r]
  <2>1. CommitCheckout(r)
    BY PlacedByCommit
  <2>2. Only(lines[r], written[r]) = lines[r]
    BY <2>1, AllIsBought DEF CommitCheckout
  <2>3. /\ orders'[r].lines = lines[r]
        /\ cart'[u] = Without(cart[u], doomed[r])
        /\ lines[r] = cart[u] /\ doomed[r] = InCart(cart[u])
    BY <2>1, <2>2, UserOfType
    DEF CommitCheckout, IInv, TypeOK, CartInv, CartKept, CheckoutSteps
  <2>4. \A p \in Product : p \notin InCart(cart[u]) => cart[u][p] = 0
    BY UserOfType, CheckoutAssumption DEF IInv, TypeOK, InCart, Quantity
  <2>5. Without(cart[u], InCart(cart[u])) = NoLines
    BY <2>4 DEF Without, NoLines
  <2>6. QED
    BY <2>3, <2>5
<1>2. QED
  BY <1>1, Invariance, CartsInvariance, PTL DEF Spec, OrdersTakeTheCart

-----------------------------------------------------------------------------
\* No standstill.

\* Of finitely many requests that each wait for a product row another of them
\* holds, some are on a cycle: those of a smallest such set.
LEMMA BlockedCycle ==
  ASSUME NEW P \in SUBSET Request, IsFiniteSet(P), P # {},
         \A r \in P : \E q \in P : Blocks(q, r)
  PROVE  \E r \in P : Deadlocked(r)
<1> DEFINE Knots == {M \in FiniteSubsetsOf(P) :
                       M # {} /\ \A r \in M : \E q \in M : Blocks(q, r)}
           Less == StrictSubsetOrdering(P)
<1>1. P \in Knots
  BY DEF FiniteSubsetsOf
<1>2. PICK M \in Knots : \A N \in Knots : <<N, M>> \notin Less
  <2>1. IsWellFoundedOn(Less, FiniteSubsetsOf(P))
    BY FS_StrictSubsetOrderingWellFounded
  <2>2. Knots \subseteq FiniteSubsetsOf(P) /\ Knots # {}
    BY <1>1
  <2> HIDE DEF Knots, Less
  <2>3. QED
    BY <2>1, <2>2, WFMin
<1>3. /\ M \subseteq P /\ IsFiniteSet(M) /\ M # {}
      /\ \A r \in M : \E q \in M : Blocks(q, r)
  BY <1>2 DEF FiniteSubsetsOf
<1>4. ASSUME NEW q \in M, \A r \in M : ~Blocks(q, r) PROVE FALSE
  <2> DEFINE N == M \ {q}
  <2>1. \A r \in N : \E s \in N : Blocks(s, r)
    BY <1>3, <1>4
  <2>2. N # {}
    <3>1. PICK s \in M : Blocks(s, q)
      BY <1>3
    <3>2. s # q
      BY <3>1 DEF Blocks
    <3>3. QED
      BY <3>2
  <2>3. N \in FiniteSubsetsOf(P)
    BY <1>3, FS_Subset DEF FiniteSubsetsOf
  <2>4. <<N, M>> \in Less
    BY <1>3 DEF StrictSubsetOrdering
  <2>5. QED
    BY <1>2, <2>1, <2>2, <2>3, <2>4
<1>5. \A r \in M : Deadlocked(r)
  <2>1. M \in SUBSET Request
    BY <1>3
  <2>2. \A q \in M : \E r \in M : Blocks(q, r)
    BY <1>4
  <2>3. QED
    BY <1>3, <2>1, <2>2 DEF Deadlocked
<1>6. QED
  BY <1>3, <1>5

\* A request that waits, waits for a request that holds a lock.
LEMMA WaitsForSome ==
  ASSUME IInv, NEW r \in Request, Waiting(r)
  PROVE  \E q \in Request : WaitsFor(r, q)
<1>1. CASE pc[r] \in {"locking", "restocking"} /\ ~Free(want[r])
  BY <1>1 DEF Free, WaitsFor, Blocks, IInv, HoldsWhatItNeeds
<1>2. CASE pc[r] = "claiming" /\ ~OrderFree(target[r], r)
  BY <1>2 DEF OrderFree, WaitsFor
<1>3. CASE /\ pc[r] = "clearing"
           /\ \E p \in InCart(cart[UserOf[r]]) : ~CartRowFree(UserOf[r], p)
  BY <1>3 DEF CartRowFree, WaitsFor
<1>4. CASE /\ pc[r] = "upserting"
           /\ \E p \in InCart(lines[r]) :
                \/ ~CartRowFree(UserOf[r], p)
                \/ cart[UserOf[r]][p] = 0 /\ ForUpdate(p)
  BY <1>4 DEF CartRowFree, ForUpdate, WaitsFor
<1>5. CASE /\ pc[r] \in {"setting", "removing"}
           /\ \E p \in Found(r) : ~CartRowFree(UserOf[r], p)
  BY <1>5 DEF CartRowFree, WaitsFor
<1>6. QED
  BY <1>1, <1>2, <1>3, <1>4, <1>5 DEF Waiting

\* The request that holds the lock is in flight, and if it waits in turn, it
\* is for a product row, or to clear its cart.
LEMMA HolderState ==
  ASSUME IInv, LockInv, NEW r \in Request, NEW q \in Request, WaitsFor(r, q)
  PROVE  /\ q \in InFlight
         /\ Waiting(q) => pc[q] \in {"locking", "restocking", "clearing"}
         /\ pc[r] = "clearing" => ~Waiting(q)
         /\ pc[r] \in {"locking", "restocking"} => Blocks(q, r)
<1>1. \/ held[q] # {} \/ doomed[q] # {} \/ pc[q] \in {"restocking", "marking"}
  BY DEF WaitsFor, Blocks
<1>2. held[q] # {} => pc[q] \in {"locking", "restocking", "marking"} \cup Locked
  <2>1. pc[q] \in Steps
    BY DEF IInv, TypeOK
  <2>2. \/ held[q] = {}
        \/ pc[q] \in CheckoutSteps \cup {"restocking", "marking"}
    BY DEF IInv, HoldsWhatItNeeds
  <2>3. QED
    BY <2>1, <2>2 DEF CheckoutSteps, Locked
<1>3. doomed[q] # {} => pc[q] = "committing"
  BY DEF LockInv, DoomedLast
<1>4. pc[q] \in {"locking", "restocking", "marking"} \cup Locked
  BY <1>1, <1>2, <1>3 DEF Locked
<1>5. q \in InFlight
  BY <1>4 DEF InFlight, Locked
<1>6. Waiting(q) => pc[q] \in {"locking", "restocking", "clearing"}
  BY <1>4 DEF Waiting, Locked
<1>7. pc[r] = "clearing" => ~Waiting(q)
  BY <1>3 DEF WaitsFor, Blocks, Waiting
<1>8. pc[r] \in {"locking", "restocking"} => Blocks(q, r)
  BY DEF WaitsFor
<1>9. QED
  BY <1>5, <1>6, <1>7, <1>8

\* Checkouts, cancellations and additions to carts never wait for one another
\* in vain: from any of them, the waits lead to one that need not wait, or to
\* a cycle of product rows, which PostgreSQL resolves.
THEOREM WaitsComeToAnEnd == Spec => []NoStandstill
<1>1. IInv /\ LockInv => NoStandstill
  <2> SUFFICES ASSUME IInv, LockInv, NEW S \in SUBSET Request,
                      S \cap InFlight # {},
                      \A r \in S, q \in Request : WaitsFor(r, q) => q \in S,
                      \A r \in S \cap InFlight : Waiting(r)
               PROVE  \E r \in S \cap InFlight : Deadlocked(r)
    BY DEF NoStandstill
  <2> DEFINE F == S \cap InFlight
             P == {r \in F : pc[r] \in {"locking", "restocking"}}
  <2>1. \A r \in F : \E q \in F : WaitsFor(r, q)
    BY WaitsForSome, HolderState
  <2>2. \A r \in F : pc[r] # "clearing"
    BY <2>1, HolderState
  <2>3. \A r \in F : \E q \in P : WaitsFor(r, q)
    BY <2>1, <2>2, HolderState
  <2>4. \A r \in P : \E q \in P : Blocks(q, r)
    BY <2>3, HolderState
  <2>5. P # {}
    BY <2>3
  <2>6. IsFiniteSet(P)
    <3>1. P \in SUBSET InFlight
      OBVIOUS
    <3>2. QED
      BY <3>1, FS_Subset DEF LockInv, FinitelyMany
  <2>7. PICK r \in P : Deadlocked(r)
    BY <2>4, <2>5, <2>6, BlockedCycle
  <2>8. QED
    BY <2>7
<1>2. QED
  BY <1>1, Invariance, LocksInvariance, PTL
=============================================================================
