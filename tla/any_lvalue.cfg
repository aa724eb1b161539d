CONSTANTS
  s1 = s1
  s2 = s2
  int = int
  small = small
  big = big
  Slot <- MCSlot
  FundT <- MCFund
  SmallT <- MCSmall
  BigT <- MCBig
  Copyable <- MCCopyable
  Throwing <- NoThrowing
  SelfRef <- NoSelfRef
  Val = {v1}
  Moved = Moved
  Block = {b1, b2}
  Pool = {p1}
  NoType = NoType
  NoBlock = NoBlock
  NoPool = NoPool
SPECIFICATION LvalueSpec
INVARIANT MovedOnlyOnRequest
