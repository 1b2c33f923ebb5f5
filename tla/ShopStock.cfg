SPECIFICATION ShopSpec
CONSTANTS
  Checkouts = {"c1", "c2"}
  Skus = {"pen", "ink"}
  Amounts = {2, 3}
  Tries = 1
  Order <- MCOrder
  Price <- MCPrice
  Initial <- MCInitial
  Requests <- MCRequests
INVARIANTS
  ShopTypeOK
  StockBacked
CHECK_DEADLOCK FALSE
