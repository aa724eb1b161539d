CONSTANTS
  h1 = h1
  h2 = h2
  one = one
  both = both
  other = other
  int = int
  string = string
  cstring = cstring
  bool = bool
  float = float
  double = double
  e1 = e1
  e2 = e2
  Cell <- MCCell
  Functor <- MCFunctor
  Trivial <- MCTrivial
  Closure <- NoClosure
  External = External
  None = None
  Param <- MCParam
  String = string
  CString = cstring
  NoArg = NoArg
  Event <- MCEvent
  EventParams <- MCEventParams
  FuncParams <- MCFuncParams
  Emitted <- MCEmitted
  NO_EVENT_ID = NO_EVENT_ID
  MaxQueue = 1
SPECIFICATION EventSpec
SYMMETRY Symmetry
INVARIANTS
  EventTypeOK
  ListenersLive
  Deliverable
  CallableUnlessClobbered
PROPERTY DeliveryNeverFails
CHECK_DEADLOCK FALSE
