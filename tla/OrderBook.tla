----------------------------- MODULE OrderBook -----------------------------
(***************************************************************************)
(* What the order service promises, without its transactions: an order     *)
(* takes all its units from stock and records the prices it is charged at  *)
(* in one step, a cancellation gives the units back in one step and only   *)
(* once, and a placed order never changes otherwise.                       *)
(***************************************************************************)
EXTENDS Integers

CONSTANTS Product, OrderId, MaxQty, Prices, StockLevels

VARIABLES stock, price, orders

vars == <<stock, price, orders>>

NoLines == [p \in Product |-> 0]
NoOrder == [status |-> "none", lines |-> NoLines, paid |-> NoLines]

Init ==
  /\ stock \in [Product -> StockLevels]
  /\ price \in [Product -> Prices]
  /\ orders = [o \in OrderId |-> NoOrder]

Place(o, ls) ==
  /\ orders[o].status = "none"
  /\ ls # NoLines
  /\ \A p \in Product : ls[p] <= stock[p]
  /\ stock' = [p \in Product |-> stock[p] - ls[p]]
  /\ orders' = [orders EXCEPT
       ![o] = [status |-> "confirmed",
               lines  |-> ls,
               paid   |-> [p \in Product |->
                             IF ls[p] > 0 THEN price[p] ELSE 0]]]
  /\ UNCHANGED price

Cancel(o) ==
  /\ orders[o].status = "confirmed"
  /\ stock' = [p \in Product |-> stock[p] + orders[o].lines[p]]
  /\ orders' = [orders EXCEPT ![o].status = "cancelled"]
  /\ UNCHANGED price

Adjust(p, s, c) ==
  /\ stock' = [stock EXCEPT ![p] = s]
  /\ price' = [price EXCEPT ![p] = c]
  /\ UNCHANGED orders

Next ==
  \/ \E o \in OrderId, ls \in [Product -> 0..MaxQty] : Place(o, ls)
  \/ \E o \in OrderId : Cancel(o)
  \/ \E p \in Product :
       \E s \in StockLevels \cup {stock[p]}, c \in Prices \cup {price[p]} :
         Adjust(p, s, c)

Spec == Init /\ [][Next]_vars

NoOversell == \A p \in Product : stock[p] >= 0
=============================================================================
