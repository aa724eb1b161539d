--------------------------- MODULE MCErasedFunc ---------------------------
(* Two ErasedFunc objects and three classes of functors: a lambda without  *)
(* captures, and two that own something their destructors release.         *)
EXTENDS ErasedFunc
CONSTANTS h1, h2, bare, owning1, owning2
MCCell    == {h1, h2}
MCFunctor == {bare, owning1, owning2}
MCTrivial == {bare}
NoClosure == {}
=============================================================================
