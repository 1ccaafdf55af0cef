SPECIFICATION Spec
CONSTANTS
  alice = alice  bob = bob  x = x  y = y
  User = {alice, bob}
  Text = {x}
  Visits <- Once
  Attempts <- Again
SYMMETRY TextSymmetry
INVARIANTS SavedOncePerVisit ToldSavedWasSaved
CHECK_DEADLOCK FALSE
