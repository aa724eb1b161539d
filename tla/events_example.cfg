CONSTANTS
  h1 = h1
  h2 = h2
  one = one
  both = both
  other = other
  int = int
  string = string
  cstring = cstring
  bool = bool
  float = float
  double = double
  e1 = e1
  e2 = e2
  Cell <- MCCell
  Functor <- ReadmeFunctor
  Trivial <- NoClosure
  Closure <- NoClosure
  External = External
  None = None
  Param <- ReadmeParam
  String = string
  CString = cstring
  NoArg = NoArg
  Event <- ReadmeEvent
  EventParams <- ReadmeEventParams
  FuncParams <- ReadmeFuncParams
  Emitted <- ReadmeEmitted
  NO_EVENT_ID = NO_EVENT_ID
  MaxQueue = 1
SPECIFICATION EventSpec
INVARIANT ExampleAccepted
CHECK_DEADLOCK FALSE
