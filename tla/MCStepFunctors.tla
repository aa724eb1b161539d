-------------------------- MODULE MCStepFunctors --------------------------
(* One StepData and LoopState, used again and again, and two classes of    *)
(* functors that callers pass.                                             *)
EXTENDS StepFunctors
CONSTANTS s1, bare, owning
MCStep    == {s1}
MCFunctor == {bare, owning}
MCPassed  == {<<bare, TRUE>>, <<bare, FALSE>>, <<owning, TRUE>>}
MCTrivial == {bare} \cup Closure
=============================================================================
