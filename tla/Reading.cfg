SPECIFICATION ScreensSpec
CONSTANTS
  None = None
  Nowhere = Nowhere
  MaxEdits = 1
  MaxReads = 3
  MaxCalls = 2
  MaxLost = 1
  Order = {1, 2, 3}
  OrderDate <- MCOrderDate
  Total <- MCTotal
  PageSize = 2
  MaxWrites = 1
  MaxAsks = 3
  Missing = Missing
  Company = {1, 2}
  Master <- MCMaster
  BaseCurrency <- MCBaseCurrency
  FirstOrder <- MCFirstOrder
  MaxVisits = 2
  MaxTouches = 3
  MaxPresses = 2
  MaxUnanswered = 1
  MaxSwitches = 1
INVARIANTS
  SavedOverWhatWasShown
  PanelsTellThePosting
  TurningThePages
  OneOrderPerForm
  SavedIsWhatWasEntered
PROPERTIES
  PostedStaysShown
CHECK_DEADLOCK FALSE
