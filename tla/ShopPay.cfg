SPECIFICATION ShopSpec
CONSTANTS
  Checkouts = {"c1"}
  Skus = {"pen", "ink"}
  Amounts = {3}
  Tries = 3
  Order <- MCOrder
  Price <- MCPrice
  Initial <- MCInitial
  Requests <- MCRequests
INVARIANTS
  ChargeExclusive
  ConfirmedPaid
PROPERTIES
  AuthorizedFinal
  CheckoutEnds
CHECK_DEADLOCK FALSE
