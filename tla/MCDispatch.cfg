SPECIFICATION FairDispatchSpec
CONSTANTS
  Contractors = {c1, c2, c3}
  None = None
  MaxCalls = 2
  PriceMayRefuse = FALSE
INVARIANTS
  OneHolder
  AssignmentAgrees
PROPERTIES
  NobodyAskedTwice
  AbstractSpec
  SearchEnds
