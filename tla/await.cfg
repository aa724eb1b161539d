CONSTANTS
  N = 4
  Typed = {1, 3, 4}
CHECK_DEADLOCK FALSE
SPECIFICATION FairSpec
INVARIANTS
  WakesExactlyTheWaiting
  NeverFatal
  ValueMeansValue
  AwaitedIsThere
PROPERTIES
  SatisfiedOnce
  ImplementsFutures
  ClientAnswered
  FlowsFinish
