SPECIFICATION Spec
CONSTANTS
  ann = ann
  pen = pen
  cup = cup
  r1 = r1
  r2 = r2
  r3 = r3
  User = {ann}
  Product = {pen, cup}
  Request = {r1, r2, r3}
  UserOf <- MCUserOf
  NoProduct = NoProduct
  MaxQty = 2
  Prices = {1}
  StockLevels = {2}
  Ops = {"checkout", "cancel", "add", "edit", "archive"}
  Faults = TRUE
  TimeOuts = TRUE
SYMMETRY MCSymmetry
CHECK_DEADLOCK FALSE
INVARIANTS
  TypeOK
  Ledger
  AnswerMatchesEffect
PROPERTIES
  OrdersTakeTheCart
