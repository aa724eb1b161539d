CONSTANTS
  a1 = a1
  a2 = a2
  plain = plain
  withNul = withNul
  Moved = Moved
  Zero = Zero
  Arg <- MCArg
  Val <- MCVal
  CStr <- MCCStr
  CppType <- CppAll
  Flag <- FlagAll
  Block = {b1, b2, b3}
SPECIFICATION Spec
SYMMETRY Symmetry
CHECK_DEADLOCK FALSE
INVARIANT NoLeak
