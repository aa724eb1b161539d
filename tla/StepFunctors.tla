---------------------------- MODULE StepFunctors ----------------------------
(***************************************************************************)
(* The callbacks a step of IAsyncSteps keeps (iasyncsteps.hpp): StepData   *)
(* holds the step function, the adapter that passes it the results of the  *)
(* step before, and the error handler; LoopState holds the function of a   *)
(* loop, the closure around it and the loop condition.                     *)
(*                                                                         *)
(* The execution engine is external: it gives a StepData (add_step,        *)
(* add_sync) or LoopState (add_loop) to every call, calls func_ and        *)
(* on_error_, and destroys the step when it is done or cancelled.  The     *)
(* interface does not say that what it gives is new, and the engine of     *)
(* tests/iasyncsteps.test.cpp (57-60, 84-94) gives the same one each time: *)
(* what a call does not write is then left over from the one before, the   *)
(* error handler and the loop condition among it, and what it writes goes  *)
(* over an object that is still there.                                     *)
(***************************************************************************)
CONSTANTS
  Step,       \* steps, each with its StepData and its LoopState
  Functor, Trivial, None, External,
  Passed,     \* what callers pass, <<functor, by value>>: one by reference,
              \* or a bare function, is not stored
  Adapter,    \* [orig_fp](IAsyncSteps&) of add() and sync() with arguments
  Entry,      \* the engine's closure that calls LoopState::handler
  Body,       \* [handler](LoopState&, IAsyncSteps&)
  Cond        \* [count](LoopState&), [end](LoopState&)

Closure == {Adapter, Entry, Body, Cond}
Member  == {"func", "orig", "on_error", "outer", "handler", "cond"}
Cell    == Step \X Member

INSTANCE FunctorPass

ASSUME StepAssumption ==
  /\ Passed \subseteq Functor \X BOOLEAN /\ None \notin Passed
  /\ Functor \cap Closure = {} /\ None \notin Functor \cup Closure
  /\ Adapter # Entry /\ Adapter # Body /\ Adapter # Cond
  /\ Entry # Body /\ Entry # Cond /\ Body # Cond
  /\ Closure \subseteq Trivial /\ Trivial \subseteq Functor \cup Closure
  /\ None \notin Cell /\ External \notin Cell /\ None # External

VARIABLES
  storage,    \* [Cell -> the *_storage_ members]
  function,   \* [Cell -> func_, func_orig_, on_error_, handler, cond]
  phase,      \* [Step -> "new", "added" or "gone"]
  given,      \* history: the functor the caller gave last for the step
  spoilt      \* history: the storages in which a functor with a destructor
              \* was overwritten

vars == <<storage, function, phase, given, spoilt>>

-----------------------------------------------------------------------------
(* func.move(function[c], storage[c]): the two members it changes.         *)
StorageAfter(p, c) == IF p[2] THEN Emplace(storage[c], Plain(p[1])) ELSE storage[c]
FunctionAfter(p, c) == Calls(p[1], IF p[2] THEN c ELSE External)

(* on_error.move(on_error_, on_error_storage_); an ErrorPass{} moves       *)
(* nothing: the members stay as they are.                                  *)
OnErrors == Passed \cup {None}

\* Mutant: the handler left over is released, the pointer to it is not.
ErrorStorageReleased(e, c) == IF e = None THEN Released(storage[c]) ELSE StorageAfter(e, c)
ErrorStorage(e, c) == IF e = None THEN storage[c] ELSE StorageAfter(e, c)
ErrorFunction(e, c) == IF e = None THEN function[c] ELSE FunctionAfter(e, c)

(* The storage an object is put into.                                      *)
Uses(p, c) == IF p # None /\ p[2] THEN {c} ELSE {}

(* The step s is added with p, putting objects into the storages used.     *)
Added(s, p, used) ==
  /\ phase[s] \in {"new", "added"}
  /\ phase' = [phase EXCEPT ![s] = "added"]
  /\ given' = [given EXCEPT ![s] = p[1]]
  /\ spoilt' = spoilt \cup {c \in used : storage[c].cleanup \notin Trivial \cup {None}}

(* add(ExecPass, ErrorPass) and sync(obj, ExecPass, ErrorPass)             *)
Add(s, p, e) ==
  /\ Added(s, p, Uses(p, <<s, "func">>) \cup Uses(e, <<s, "on_error">>))
  /\ storage' = [storage EXCEPT
       ![<<s, "func">>] = StorageAfter(p, <<s, "func">>),
       ![<<s, "on_error">>] = ErrorStorage(e, <<s, "on_error">>)]
  /\ function' = [function EXCEPT
       ![<<s, "func">>] = FunctionAfter(p, <<s, "func">>),
       ![<<s, "on_error">>] = ErrorFunction(e, <<s, "on_error">>)]

(* Mutant: the functor goes to the storage the adapter is about to use.    *)
AddWithArgsSharesStorage(s, p, e) ==
  /\ Added(s, p, {<<s, "func">>} \cup Uses(e, <<s, "on_error">>))
  /\ storage' = [storage EXCEPT
       ![<<s, "func">>] = Emplace(StorageAfter(p, <<s, "func">>),
                                  PointsTo(Adapter, <<s, "orig">>)),
       ![<<s, "on_error">>] = ErrorStorage(e, <<s, "on_error">>)]
  /\ function' = [function EXCEPT
       ![<<s, "orig">>] = FunctionAfter(p, <<s, "func">>),
       ![<<s, "func">>] = Calls(Adapter, <<s, "func">>),
       ![<<s, "on_error">>] = ErrorFunction(e, <<s, "on_error">>)]

(* add(Simple<void(IAsyncSteps&, T...)>, ErrorPass&) and the same sync():  *)
(* the function goes to func_orig_, and func_ gets the adapter, which      *)
(* points to it.                                                           *)
AddWithArgs(s, p, e) ==
  /\ Added(s, p, Uses(p, <<s, "orig">>) \cup {<<s, "func">>}
                   \cup Uses(e, <<s, "on_error">>))
  /\ storage' = [storage EXCEPT
       ![<<s, "orig">>] = StorageAfter(p, <<s, "orig">>),
       ![<<s, "func">>] = Emplace(storage[<<s, "func">>],
                                  PointsTo(Adapter, <<s, "orig">>)),
       ![<<s, "on_error">>] = ErrorStorage(e, <<s, "on_error">>)]
  /\ function' = [function EXCEPT
       ![<<s, "orig">>] = FunctionAfter(p, <<s, "orig">>),
       ![<<s, "func">>] = Calls(Adapter, <<s, "func">>),
       ![<<s, "on_error">>] = ErrorFunction(e, <<s, "on_error">>)]

(* loop(), repeat() and forEach(): the function goes to a local Function   *)
(* with its functor in outer_func_storage; the closure in handler_storage  *)
(* captures a copy of that Function, and func_ is the engine's closure.    *)
(* A loop() without a limit sets no condition and leaves that of a loop    *)
(* before.                                                                 *)
LoopFunctions(s) == [function EXCEPT
  ![<<s, "handler">>] = Calls(Body, <<s, "handler">>),
  ![<<s, "func">>] = Calls(Entry, <<s, "func">>)]

LoopStorage(s, p) == [storage EXCEPT
  ![<<s, "outer">>] = StorageAfter(p, <<s, "outer">>),
  ![<<s, "handler">>] = Emplace(storage[<<s, "handler">>],
                          Captures(Body, FunctionAfter(p, <<s, "outer">>))),
  ![<<s, "func">>] = Emplace(storage[<<s, "func">>],
                       PointsTo(Entry, <<s, "handler">>))]

LoopUses(s, p) == Uses(p, <<s, "outer">>) \cup {<<s, "handler">>, <<s, "func">>}

AddLoop(s, p) ==
  /\ Added(s, p, LoopUses(s, p))
  /\ storage' = LoopStorage(s, p)
  /\ function' = LoopFunctions(s)

AddLimitedLoop(s, p) ==
  /\ Added(s, p, LoopUses(s, p) \cup {<<s, "cond">>})
  /\ storage' = [LoopStorage(s, p) EXCEPT
       ![<<s, "cond">>] = Emplace(storage[<<s, "cond">>], Plain(Cond))]
  /\ function' = [LoopFunctions(s) EXCEPT
       ![<<s, "cond">>] = Calls(Cond, <<s, "cond">>)]

(* The engine destroys the step: ~StepData() and ~LoopState().             *)
Remove(s) ==
  /\ phase[s] = "added"
  /\ phase' = [phase EXCEPT ![s] = "gone"]
  /\ storage' = [c \in Cell |-> IF c[1] = s THEN Released(storage[c]) ELSE storage[c]]
  /\ UNCHANGED <<function, given, spoilt>>

Init ==
  /\ storage = [c \in Cell |-> Fresh]
  /\ function = [c \in Cell |-> Null]
  /\ phase = [s \in Step |-> "new"]
  /\ given = [s \in Step |-> None]
  /\ spoilt = {}

Next ==
  \E s \in Step :
    \/ \E p \in Passed, e \in OnErrors : Add(s, p, e) \/ AddWithArgs(s, p, e)
    \/ \E p \in Passed : AddLoop(s, p) \/ AddLimitedLoop(s, p)
    \/ Remove(s)

Spec == Init /\ [][Next]_vars

-----------------------------------------------------------------------------
TypeOK ==
  /\ storage \in [Cell -> Storage]
  /\ function \in [Cell -> Function]
  /\ phase \in [Step -> {"new", "added", "gone"}]
  /\ given \in [Step -> Functor \cup {None}]
  /\ spoilt \subseteq Cell

(* The Function a call of v ends in: the adapter calls *orig_fp, the       *)
(* engine's loop closure calls LoopState::handler, and that closure the    *)
(* Function it captured.                                                   *)
Hop(v) ==
  IF v.impl \in {Adapter, Entry} THEN function[storage[v.data].obj.ptr]
  ELSE IF v.impl = Body THEN storage[v.data].obj.fn
  ELSE v

(* Calling the func_ of a step that was added runs the functor the caller  *)
(* gave last for it, through objects all of which are alive: after add()   *)
(* and sync() with and without arguments and every kind of loop, one after *)
(* the other on the same StepData and LoopState as well, unless a functor  *)
(* with a destructor was overwritten in one of its storages.               *)
CallsWhatWasGiven ==
  \A s \in Step :
    phase[s] = "added" /\ (\A m \in Member \ {"on_error"} : <<s, m>> \notin spoilt) =>
      LET v0 == function[<<s, "func">>]
          v1 == Hop(v0)
          v2 == Hop(v1)
      IN  /\ Alive(v0, storage) /\ Alive(v1, storage) /\ Alive(v2, storage)
          /\ v2.impl = given[s]

(* The on_error_ of a step, when it is set, can be called, although it may *)
(* be left over from a step the StepData was used for before: a call       *)
(* without an error handler touches neither on_error_ nor its functor.     *)
ErrorHandlerAlive ==
  \A s \in Step : phase[s] = "added" /\ <<s, "on_error">> \notin spoilt =>
    LET v == function[<<s, "on_error">>] IN v = Null \/ Alive(v, storage)

(* A destroyed step leaves no functor behind that still has something to   *)
(* release, in all storages where none was overwritten.                    *)
NothingLeftBehind ==
  \A s \in Step, m \in Member :
    phase[s] = "gone" /\ <<s, m>> \notin spoilt =>
      storage[<<s, m>>].obj.is \in Trivial \cup {None}
=============================================================================
