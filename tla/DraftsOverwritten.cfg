SPECIFICATION Spec
CONSTANTS
  alice = alice  bob = bob  x = x  y = y
  User = {alice, bob}
  Text = {x}
  Visits <- Once
  Attempts <- Once
SYMMETRY TextSymmetry
PROPERTY NoSilentOverwrite
CHECK_DEADLOCK FALSE
