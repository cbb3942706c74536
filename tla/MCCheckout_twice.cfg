SPECIFICATION Spec
CONSTANTS
  ann = ann
  pen = pen
  cup = cup
  r1 = r1
  r2 = r2
  r3 = r3
  User = {ann}
  Product = {pen, cup}
  Request = {r1, r2}
  UserOf <- MCUserOf
  NoProduct = NoProduct
  MaxQty = 1
  Prices = {1}
  StockLevels = {2}
  Ops = {"checkout"}
  Faults = FALSE
  TimeOuts = FALSE
CHECK_DEADLOCK FALSE
PROPERTIES
  NoUnitOrderedTwice
