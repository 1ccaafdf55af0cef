SPECIFICATION FairSpec
CONSTANTS
  t1 = t1  t2 = t2  t3 = t3  none = none
  o1 = o1  o2 = o2
  l1 = l1  l2 = l2  l3 = l3  l4 = l4  l5 = l5  l6 = l6
  b1 = b1  b2 = b2  b3 = b3
  Txn = {t1, t2, t3}
  NoTxn = none
  Order = {o1, o2}
  Line = {l1, l2, l3, l4, l5, l6}
  Balance = {b1, b2, b3}
  LineOrder <- MCLineOrder
  LineBalance <- MCLineBalance
  LineQty <- MCLineQty
  LineNo <- MCLineNo
  BalanceRank <- MCBalanceRank
  StockLevels = {2}
  InitialLines <- FirstOrder
  MaxAttempts = 2
  Asks <- MCAsks
  Documents <- MCDocuments
INVARIANTS
  NoOversell
  StatusMatchesReservations
  NumbersGapless
  DeadlockNeedsAnEdit
PROPERTIES
  ImplementsOrderBook
  EveryRequestEnds
  EveryWriteBuildsOnTheLast
