CONSTANTS
  h1 = h1
  h2 = h2
  bare = bare
  owning1 = owning1
  owning2 = owning2
  Cell <- MCCell
  Functor <- MCFunctor
  Trivial <- MCTrivial
  Closure <- NoClosure
  External = External
  None = None
SPECIFICATION Spec
INVARIANT AlwaysCallable
