CONSTANTS
  t1 = t1
  t2 = t2
  c1 = c1
  c2 = c2
  node = node
  bucket = bucket
  heap = heap
  arena = arena
  slab = slab
  Thread <- MCThread
  Type <- MCType
  Held <- MCHeld
  Rebound <- MCRebound
  Container <- MCContainer
  Pool <- MCPool
  Root <- MCRoot
  Common = heap
  MemPoolOf <- MCMemPoolOf
  None = None
SPECIFICATION Spec
SYMMETRY Symmetry
INVARIANTS
  TypeOK
  FreedWhereAllocated
  TableFreedWhereAllocated
  OwnPoolsOnly
  DefaultsAreEqual
  FollowsThreadDefault
