CONSTANTS
  s1 = s1
  bare = bare
  owning = owning
  Step <- MCStep
  Functor <- MCFunctor
  Passed <- MCPassed
  Trivial <- MCTrivial
  None = None
  External = External
  Adapter = Adapter
  Entry = Entry
  Body = Body
  Cond = Cond
SPECIFICATION Spec
INVARIANTS
  CallsWhatWasGiven
  ErrorHandlerAlive
  NothingLeftBehind
CHECK_DEADLOCK FALSE
