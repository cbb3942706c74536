SPECIFICATION FairSpec
CONSTANTS
  ann = ann
  pen = pen
  cup = cup
  r1 = r1
  r2 = r2
  r3 = r3
  User = {ann}
  Product = {pen, cup}
  Request = {r1, r2, r3}
  UserOf <- MCUserOf
  NoProduct = NoProduct
  MaxQty = 1
  Prices = {1, 2}
  StockLevels = {1}
  Ops = {"checkout", "cancel", "admin"}
  Faults = FALSE
  TimeOuts = FALSE
CHECK_DEADLOCK FALSE
INVARIANTS
  BackstopNeverFires
  Ledger
  CancelledOnce
  NoStandstill
PROPERTIES
  ImplementsOrderBook
  EveryRequestAnswered
