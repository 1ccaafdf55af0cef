SPECIFICATION BooksSpec
CONSTANTS
  ta = ta  tb = tb  tc = tc  x = x  y = y
  a1 = a1  a2 = a2  b1 = b1  b2 = b2  b3 = b3  c1 = c1
  Txn = {ta, tb, tc}
  Line = {a1, a2, b1, b2, b3, c1}
  Balance = {x, y}
  LinesOf <- MCLinesOf
  BalanceOf <- MCBalanceOf
  Quantity <- MCQuantity
  BalanceRank <- MCBalanceRank
  None = None
  l1 = l1  l2 = l2
  OrderLine = {l1, l2}
  AMOUNT_SCALE = 1
  RATE_SCALE = 2
  Ordered <- MCOrdered
  Prices <- MCPrices
  Discounts <- MCDiscounts
  Asked <- MCAsked
  Rates <- MCRates
  MaxParts = 2
SYMMETRY Symmetry
INVARIANTS
  BalanceIsTheSum
  NoLedgerDeadlock
  EntryIsAccepted
  DriftBounded
  BilledWholeIsAsOrdered
CHECK_DEADLOCK FALSE
