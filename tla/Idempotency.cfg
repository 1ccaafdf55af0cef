SPECIFICATION Spec
CONSTANTS
  t1 = t1  t2 = t2  t3 = t3  none = none
  k1 = k1  k2 = k2  k3 = k3
  order = order  otherOrder = otherOrder  confirm = confirm
  here = here  there = there
  Txn = {t1, t2}
  NoTxn = none
  Key = {k1, k2, k3}
  Company = {here, there}
  KeyCompany <- MCKeyCompany
  Fingerprint = {order, otherOrder, confirm}
  Asks <- MCAsks
  Guarded = {confirm}
  Retention = 1
  Horizon = 2
  Moments = {1, 9}
  MaxAttempts = 2
INVARIANTS AtMostOncePerWindow AnswersAreTrue GuardedOnce
