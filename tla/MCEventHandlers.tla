-------------------------- MODULE MCEventHandlers --------------------------
(* Two handlers, two events, and functions that match one event, both or   *)
(* none; one of the functions has a destructor that does nothing.  Some    *)
(* emissions have too few values, too many, or values of the wrong type.   *)
EXTENDS EventHandlers, TLC
CONSTANTS h1, h2, one, both, other, int, string, cstring, e1, e2
MCCell    == {h1, h2}
MCFunctor == {one, both, other}
MCTrivial == {one}
NoClosure == {}
MCParam   == {int, string}
Symmetry  == Permutations(MCCell)
MCEvent   == {e1, e2}
MCEventParams == (e1 :> <<int, string>>) @@ (e2 :> <<string>>)
MCFuncParams  == (one :> <<int>>) @@ (both :> <<int, string>>) @@ (other :> <<string>>)
MCEmitted == {<<int, cstring>>, <<int>>, <<string, cstring>>}

(* The event of the example in README.md:481-487 and its emission.         *)
CONSTANTS bool, float, double
ReadmeParam       == {int, string, bool, float, double}
ReadmeEvent       == {e1}
ReadmeEventParams == e1 :> <<int, string, bool, float>>
ReadmeFunctor     == {both}
ReadmeFuncParams  == both :> <<int, string, bool, float>>
ReadmeEmitted     == {<<int, cstring, bool, double>>}
=============================================================================
