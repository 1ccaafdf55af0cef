SPECIFICATION Spec
CONSTANTS
  t1 = t1  t2 = t2  none = none
  i1 = i1  i2 = i2  o1 = o1  o2 = o2
  l1 = l1  l2 = l2
  Txn = {t1, t2}
  NoTxn = none
  Invoice = {i1, i2}
  Order = {o1}
  Line = {l1, l2}
  LineOrder <- MCLineOrder
  LineQty <- MCLineQty
  LinePrice <- MCLinePrice
  LineRank <- MCLineRank
  Quantity = {0, 1}
  Rate = {0, 1}
INVARIANTS
  NeverOverInvoiced
  LedgerMatchesDocuments
  NoPostingDeadlock
PROPERTIES
  ImplementsInvoiceBook
SYMMETRY Symmetries
