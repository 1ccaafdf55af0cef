SPECIFICATION Spec
CONSTANTS
  l1 = l1  l2 = l2  l3 = l3  user = user  here = here  there = there
  Login = {l1, l2, l3}
  MaxLogins = 4
  Account = {user}
  Address = {here, there}
  MaxAttempts = 2
  Window = 2
  Lockout = 2
  MaxAge = 1
  Horizon = 3
SYMMETRY Symmetry
INVARIANTS
  AttemptsBounded
  NoLoginDeadlock
PROPERTY
  LockoutIsServed
