CONSTANTS
  s1 = s1
  s2 = s2
  s3 = s3
  int = int
  small = small
  big = big
  unique = unique
  Slot <- MCSlot
  FundT <- MCFund
  SmallT <- MCSmall
  BigT <- MCBig
  Copyable <- MCCopyable
  Throwing <- MCThrowing
  SelfRef <- MCSelfRef
  Val = {v1}
  Moved = Moved
  Block = {b1, b2, b3}
  Pool = {p1, p2}
  NoType = NoType
  NoBlock = NoBlock
  NoPool = NoPool
SPECIFICATION Spec
INVARIANT EveryLiveAnyUsable
