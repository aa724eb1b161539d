------------------------- MODULE StepFunctorsProofs -------------------------
(***************************************************************************)
(* A step that was added runs what its caller gave, for any number of      *)
(* steps, any classes of functors and any use of a StepData after another, *)
(* and leaves nothing behind.  No line of the code sees the whole chain of *)
(* a call: func_, the adapter, the Function it points to, the functor in a *)
(* third storage.  Chain spells out the three forms it can have.  The      *)
(* other half of the invariant is that of ownership: the cleanup of a      *)
(* storage is the one of the object in it, until the step is destroyed or  *)
(* a functor with a destructor is overwritten in it.                       *)
(***************************************************************************)
EXTENDS StepFunctors, TLAPS

(* v runs g, from the storage m of the step or from outside.               *)
Runs(s, m, v, g) ==
  /\ g \in Functor /\ v.impl = g
  /\ \/ v.data = External
     \/ v.data = <<s, m>> /\ storage[<<s, m>>].obj.is = g

Direct(s) == Runs(s, "func", function[<<s, "func">>], given[s])

Adapted(s) ==
  /\ function[<<s, "func">>] = Calls(Adapter, <<s, "func">>)
  /\ storage[<<s, "func">>].obj = PointsTo(Adapter, <<s, "orig">>)
  /\ Runs(s, "orig", function[<<s, "orig">>], given[s])

Looped(s) ==
  /\ function[<<s, "func">>] = Calls(Entry, <<s, "func">>)
  /\ storage[<<s, "func">>].obj = PointsTo(Entry, <<s, "handler">>)
  /\ function[<<s, "handler">>] = Calls(Body, <<s, "handler">>)
  /\ storage[<<s, "handler">>].obj.is = Body
  /\ Runs(s, "outer", storage[<<s, "handler">>].obj.fn, given[s])

Chain(s) == Direct(s) \/ Adapted(s) \/ Looped(s)

Errors(s) ==
  LET v == function[<<s, "on_error">>] IN
  v = Null \/ Runs(s, "on_error", v, v.impl)

Owns(c) == storage[c].obj.is = storage[c].cleanup

(* No functor with a destructor was overwritten on the way to the step's.  *)
Whole(s) == \A m \in Member \ {"on_error"} : <<s, m>> \notin spoilt

StepInv(s) ==
  /\ phase[s] # "gone" => \A m \in Member : <<s, m>> \notin spoilt => Owns(<<s, m>>)
  /\ phase[s] # "gone" /\ <<s, "on_error">> \notin spoilt => Errors(s)
  /\ phase[s] = "added" /\ Whole(s) => Chain(s)
  /\ phase[s] = "gone" => \A m \in Member : <<s, m>> \notin spoilt =>
       storage[<<s, m>>].obj.is \in Trivial \cup {None}

IInv == TypeOK /\ \A s \in Step : StepInv(s)

LEMMA Types ==
  /\ Null \in Function /\ Null.impl = None
  /\ Fresh \in Storage /\ Fresh.cleanup = None /\ Fresh.obj.is = None
  /\ \A f \in Callable, at \in Cell \cup {External} :
       Calls(f, at) \in Function /\ Calls(f, at).impl = f /\ Calls(f, at).data = at
  /\ \A f \in Callable : Plain(f) \in Object /\ Plain(f).is = f
  /\ \A f \in Callable, c \in Cell :
       PointsTo(f, c) \in Object /\ PointsTo(f, c).is = f /\ PointsTo(f, c).ptr = c
  /\ \A f \in Callable, v \in Function :
       Captures(f, v) \in Object /\ Captures(f, v).is = f /\ Captures(f, v).fn = v
<1>1. Null \in Function /\ Null.impl = None
  BY DEF Null, Function
<1>2. NoObject \in Object /\ NoObject.is = None
  BY <1>1 DEF NoObject, Plain, Object
<1>3. Fresh \in Storage /\ Fresh.cleanup = None /\ Fresh.obj.is = None
  BY <1>2 DEF Fresh, Storage
<1> QED BY <1>1, <1>3 DEF Calls, Plain, PointsTo, Captures, Function, Object

(* What a storage has after an object is put in it, and that it is really  *)
(* there when nothing with a destructor was before.                        *)
LEMMA EmplaceHas ==
  ASSUME NEW st \in Storage, NEW o \in Object
  PROVE  /\ Emplace(st, o) \in Storage /\ Emplace(st, o).cleanup = o.is
         /\ st.cleanup \in Trivial \cup {None} => Emplace(st, o).obj = o
<1>1. o.is \in Callable \cup {None}
  BY DEF Object
<1>2. NoObject \in Object
  BY Types DEF NoObject, Plain, Object
<1> QED BY <1>1, <1>2 DEF Emplace, SetCleanup, Storage

LEMMA ReleasedLeavesTrivial ==
  ASSUME NEW st \in Storage
  PROVE  /\ Released(st) \in Storage
         /\ st.obj.is = st.cleanup => Released(st).obj.is \in Trivial \cup {None}
<1>1. NoObject \in Object /\ NoObject.is = None
  BY Types DEF NoObject, Plain, Object
<1> QED BY <1>1 DEF Released, SetCleanup, Storage

(* Nothing with a destructor is overwritten in the storages used.          *)
Spared(used) == \A c \in used : storage[c].cleanup \in Trivial \cup {None}

(* A functor passed by the caller for a member of a step.                  *)
LEMMA PassedTypes ==
  ASSUME TypeOK, NEW c \in Cell, NEW p \in Passed
  PROVE  /\ p[1] \in Functor
         /\ StorageAfter(p, c) \in Storage
         /\ FunctionAfter(p, c) \in Function /\ FunctionAfter(p, c).impl = p[1]
<1>1. p[1] \in Functor /\ p[2] \in BOOLEAN /\ p[1] \in Callable /\ storage[c] \in Storage
  BY StepAssumption DEF Callable, TypeOK
<1> QED BY <1>1, Types, EmplaceHas DEF StorageAfter, FunctionAfter

LEMMA PassedRuns ==
  ASSUME TypeOK, NEW c \in Cell, NEW p \in Passed, Spared(Uses(p, c))
  PROVE  /\ Owns(c) => StorageAfter(p, c).obj.is = StorageAfter(p, c).cleanup
         /\ \/ FunctionAfter(p, c).data = External
            \/ FunctionAfter(p, c).data = c /\ StorageAfter(p, c).obj.is = p[1]
<1>1. p[1] \in Functor /\ p[1] \in Callable /\ storage[c] \in Storage /\ p # None
  BY StepAssumption DEF Callable, TypeOK
<1>2. CASE p[2]
  <2>1. StorageAfter(p, c) = Emplace(storage[c], Plain(p[1]))
        /\ FunctionAfter(p, c) = Calls(p[1], c)
    BY <1>2 DEF StorageAfter, FunctionAfter
  <2>2. storage[c].cleanup \in Trivial \cup {None}
    BY <1>1, <1>2 DEF Spared, Uses
  <2>3. Plain(p[1]) \in Object /\ Plain(p[1]).is = p[1] /\ Calls(p[1], c).data = c
    BY <1>1, Types
  <2>4. /\ StorageAfter(p, c).obj.is = p[1] /\ StorageAfter(p, c).cleanup = p[1]
        /\ FunctionAfter(p, c).data = c
    BY <1>1, <2>1, <2>2, <2>3, EmplaceHas
  <2> QED BY <2>4
<1>3. CASE ~p[2]
  <2>1. StorageAfter(p, c) = storage[c]
        /\ FunctionAfter(p, c) = Calls(p[1], External)
    BY <1>3 DEF StorageAfter, FunctionAfter
  <2> QED BY <1>1, <2>1, Types DEF Owns
<1> QED BY <1>2, <1>3

LEMMA ErrorTypes ==
  ASSUME TypeOK, NEW c \in Cell, NEW e \in OnErrors
  PROVE  ErrorStorage(e, c) \in Storage /\ ErrorFunction(e, c) \in Function
<1>1. CASE e = None
  BY <1>1 DEF ErrorStorage, ErrorFunction, TypeOK
<1>2. CASE e # None
  BY <1>2, PassedTypes DEF ErrorStorage, ErrorFunction, OnErrors
<1> QED BY <1>1, <1>2

(* The error handler given, or the one there was before.                   *)
LEMMA ErrorRuns ==
  ASSUME TypeOK, NEW s \in Step, NEW e \in OnErrors, Errors(s),
         Spared(Uses(e, <<s, "on_error">>)), Owns(<<s, "on_error">>)
  PROVE  LET c == <<s, "on_error">>
             v == ErrorFunction(e, c)
         IN  /\ ErrorStorage(e, c).obj.is = ErrorStorage(e, c).cleanup
             /\ \/ v = Null
                \/ /\ v.impl \in Functor
                   /\ \/ v.data = External
                      \/ v.data = c /\ ErrorStorage(e, c).obj.is = v.impl
<1>1. <<s, "on_error">> \in Cell
  BY DEF Cell, Member
<1>2. CASE e = None
  BY <1>2 DEF ErrorStorage, ErrorFunction, Errors, Runs, Owns
<1>3. CASE e # None
  BY <1>1, <1>3, PassedTypes, PassedRuns DEF ErrorStorage, ErrorFunction, OnErrors
<1> QED BY <1>2, <1>3

-----------------------------------------------------------------------------
LEMMA InitInv == Init => IInv
<1> SUFFICES ASSUME Init PROVE IInv
  OBVIOUS
<1>1. TypeOK
  BY Types DEF Init, TypeOK
<1>2. \A s \in Step, m \in Member : <<s, m>> \in Cell
  BY DEF Cell
<1>3. "on_error" \in Member
  BY DEF Member
<1>4. \A s \in Step : StepInv(s)
  BY <1>2, <1>3, Types DEF Init, StepInv, Owns, Errors
<1> QED BY <1>1, <1>4 DEF IInv

(* A step nothing of which changes.                                        *)
LEMMA SameInv ==
  ASSUME NEW t \in Step, StepInv(t),
         phase'[t] = phase[t], given'[t] = given[t],
         \A m \in Member : /\ storage'[<<t, m>>] = storage[<<t, m>>]
                           /\ function'[<<t, m>>] = function[<<t, m>>]
                           /\ <<t, m>> \in spoilt' <=> <<t, m>> \in spoilt
  PROVE  StepInv(t)'
<1>1. /\ "func" \in Member /\ "orig" \in Member /\ "on_error" \in Member
      /\ "outer" \in Member /\ "handler" \in Member
  BY DEF Member
<1>2. Chain(t) => Chain(t)'
  BY <1>1 DEF Chain, Direct, Adapted, Looped, Runs, Calls, PointsTo
<1>3. Errors(t) => Errors(t)'
  BY <1>1 DEF Errors, Runs, Null
<1>4. \A m \in Member : Owns(<<t, m>>) => Owns(<<t, m>>)'
  BY DEF Owns
<1>5. Whole(t)' => Whole(t)
  BY DEF Whole
<1> QED BY <1>1, <1>2, <1>3, <1>4, <1>5 DEF StepInv

(* The members of a step are its own: what a step does to its own leaves   *)
(* the others as they were.                                                *)
LEMMA OthersInv ==
  ASSUME IInv, NEW s \in Step, TypeOK', StepInv(s)',
         \A t \in Step \ {s} :
           /\ phase'[t] = phase[t] /\ given'[t] = given[t]
           /\ \A m \in Member : /\ storage'[<<t, m>>] = storage[<<t, m>>]
                                /\ function'[<<t, m>>] = function[<<t, m>>]
                                /\ <<t, m>> \in spoilt' <=> <<t, m>> \in spoilt
  PROVE  IInv'
<1>1. \A t \in Step \ {s} : StepInv(t)'
  BY SameInv DEF IInv
<1> QED BY <1>1 DEF IInv

(* A step that is added: what is not spoilt afterwards was not before, and *)
(* nothing with a destructor is overwritten there.                         *)
LEMMA AddedGives ==
  ASSUME TypeOK, NEW s \in Step, NEW p \in Passed, NEW used \in SUBSET Cell,
         Added(s, p, used)
  PROVE  /\ phase[s] # "gone" /\ phase'[s] = "added" /\ given'[s] = p[1]
         /\ \A t \in Step \ {s} : phase'[t] = phase[t] /\ given'[t] = given[t]
         /\ phase' \in [Step -> {"new", "added", "gone"}]
         /\ given' \in [Step -> Functor \cup {None}]
         /\ spoilt' \subseteq Cell
         /\ \A c \in Cell \ spoilt' : c \notin spoilt
         /\ \A c \in used \ spoilt' : storage[c].cleanup \in Trivial \cup {None}
         /\ \A c \in Cell \ used : c \in spoilt' <=> c \in spoilt
<1>1. p[1] \in Functor
  BY StepAssumption
<1> QED BY <1>1 DEF TypeOK, Added

LEMMA AddInv ==
  ASSUME IInv, NEW s \in Step, NEW p \in Passed, NEW e \in OnErrors, Add(s, p, e)
  PROVE  IInv'
<1> DEFINE func == <<s, "func">>
           on_error == <<s, "on_error">>
           used == Uses(p, func) \cup Uses(e, on_error)
<1>1. /\ func \in Cell /\ on_error \in Cell /\ func # on_error
      /\ "func" \in Member /\ "on_error" \in Member
      /\ used \in SUBSET Cell /\ used \subseteq {func, on_error}
  BY DEF Cell, Member, Uses
<1>2. /\ storage \in [Cell -> Storage] /\ function \in [Cell -> Function] /\ TypeOK
      /\ storage' = [storage EXCEPT ![func] = StorageAfter(p, func),
                                    ![on_error] = ErrorStorage(e, on_error)]
      /\ function' = [function EXCEPT ![func] = FunctionAfter(p, func),
                                      ![on_error] = ErrorFunction(e, on_error)]
      /\ Added(s, p, used)
  BY DEF IInv, TypeOK, Add
<1>3. /\ phase[s] # "gone" /\ phase'[s] = "added" /\ given'[s] = p[1]
      /\ \A t \in Step \ {s} : phase'[t] = phase[t] /\ given'[t] = given[t]
      /\ \A c \in Cell \ spoilt' : c \notin spoilt
      /\ \A c \in used \ spoilt' : storage[c].cleanup \in Trivial \cup {None}
      /\ \A c \in Cell \ used : c \in spoilt' <=> c \in spoilt
  BY <1>1, <1>2, AddedGives
<1>4. /\ StorageAfter(p, func) \in Storage /\ FunctionAfter(p, func) \in Function
      /\ ErrorStorage(e, on_error) \in Storage /\ ErrorFunction(e, on_error) \in Function
      /\ p[1] \in Functor /\ FunctionAfter(p, func).impl = p[1]
  BY <1>1, <1>2, PassedTypes, ErrorTypes
<1>5. /\ storage' \in [Cell -> Storage] /\ function' \in [Cell -> Function]
      /\ storage'[func] = StorageAfter(p, func) /\ function'[func] = FunctionAfter(p, func)
      /\ storage'[on_error] = ErrorStorage(e, on_error)
      /\ function'[on_error] = ErrorFunction(e, on_error)
      /\ \A c \in Cell \ {func, on_error} : storage'[c] = storage[c] /\ function'[c] = function[c]
  BY <1>1, <1>2, <1>4
<1>6. TypeOK'
  BY <1>1, <1>2, <1>5, AddedGives DEF TypeOK
<1>7. ASSUME func \notin spoilt'
      PROVE  Direct(s)' /\ Owns(func)'
  <2>1. Spared(Uses(p, func)) /\ Owns(func)
    BY <1>1, <1>3, <1>7 DEF IInv, StepInv, Spared, Uses
  <2>2. /\ StorageAfter(p, func).obj.is = StorageAfter(p, func).cleanup
        /\ \/ FunctionAfter(p, func).data = External
           \/ FunctionAfter(p, func).data = func /\ StorageAfter(p, func).obj.is = p[1]
    BY <1>1, <1>2, <2>1, PassedRuns
  <2> HIDE DEF func
  <2>3. /\ given'[s] \in Functor /\ function'[func].impl = given'[s]
        /\ \/ function'[func].data = External
           \/ function'[func].data = func /\ storage'[func].obj.is = given'[s]
    BY <1>3, <1>4, <1>5, <2>2
  <2>4. storage'[func].obj.is = storage'[func].cleanup
    BY <1>5, <2>2
  <2> QED BY <2>3, <2>4 DEF Direct, Runs, Owns, func
<1>8. ASSUME on_error \notin spoilt'
      PROVE  Errors(s)' /\ Owns(on_error)'
  <2>1. Spared(Uses(e, on_error)) /\ Owns(on_error) /\ Errors(s)
    BY <1>1, <1>3, <1>8 DEF IInv, StepInv, Spared, Uses
  <2>2. LET v == ErrorFunction(e, on_error)
        IN  /\ ErrorStorage(e, on_error).obj.is = ErrorStorage(e, on_error).cleanup
            /\ \/ v = Null
               \/ /\ v.impl \in Functor
                  /\ \/ v.data = External
                     \/ v.data = on_error /\ ErrorStorage(e, on_error).obj.is = v.impl
    BY <1>2, <2>1, ErrorRuns
  <2> QED BY <1>5, <2>2 DEF Errors, Runs, Owns, Null
<1>9. ASSUME NEW m \in Member, <<s, m>> \notin spoilt' PROVE Owns(<<s, m>>)'
  <2>1. CASE m = "func"
    BY <1>7, <1>9, <2>1
  <2>2. CASE m = "on_error"
    BY <1>8, <1>9, <2>2
  <2>3. CASE m \notin {"func", "on_error"}
    <3>1. <<s, m>> \in Cell \ {func, on_error}
      BY <2>3 DEF Cell
    <3>2. Owns(<<s, m>>)
      BY <1>3, <1>9, <3>1 DEF IInv, StepInv
    <3> QED BY <1>5, <3>1, <3>2 DEF Owns
  <2> QED BY <2>1, <2>2, <2>3
<1>10. StepInv(s)'
  <2>1. Whole(s)' => func \notin spoilt'
    BY <1>1 DEF Whole
  <2> QED BY <1>3, <1>7, <1>8, <1>9, <2>1 DEF StepInv, Chain
<1>11. \A t \in Step \ {s}, m \in Member : <<t, m>> \in Cell \ {func, on_error}
  BY DEF Cell
<1> HIDE DEF func, on_error, used
<1>12. \A t \in Step \ {s}, m \in Member :
         /\ storage'[<<t, m>>] = storage[<<t, m>>] /\ function'[<<t, m>>] = function[<<t, m>>]
         /\ <<t, m>> \in spoilt' <=> <<t, m>> \in spoilt
  BY <1>1, <1>3, <1>5, <1>11
<1> QED BY <1>3, <1>6, <1>10, <1>12, OthersInv

LEMMA AddWithArgsInv ==
  ASSUME IInv, NEW s \in Step, NEW p \in Passed, NEW e \in OnErrors, AddWithArgs(s, p, e)
  PROVE  IInv'
<1> DEFINE func == <<s, "func">>
           orig == <<s, "orig">>
           on_error == <<s, "on_error">>
           adapter == PointsTo(Adapter, orig)
           used == Uses(p, orig) \cup {func} \cup Uses(e, on_error)
<1>1. /\ func \in Cell /\ orig \in Cell /\ on_error \in Cell
      /\ func # on_error /\ func # orig /\ orig # on_error
      /\ "func" \in Member /\ "orig" \in Member /\ "on_error" \in Member
      /\ used \in SUBSET Cell /\ used \subseteq {func, orig, on_error}
  BY DEF Cell, Member, Uses
<1>2. /\ storage \in [Cell -> Storage] /\ function \in [Cell -> Function] /\ TypeOK
      /\ storage' = [storage EXCEPT ![orig] = StorageAfter(p, orig),
                                    ![func] = Emplace(storage[func], adapter),
                                    ![on_error] = ErrorStorage(e, on_error)]
      /\ function' = [function EXCEPT ![orig] = FunctionAfter(p, orig),
                                      ![func] = Calls(Adapter, func),
                                      ![on_error] = ErrorFunction(e, on_error)]
      /\ Added(s, p, used)
  BY DEF IInv, TypeOK, AddWithArgs
<1>3. /\ phase[s] # "gone" /\ phase'[s] = "added" /\ given'[s] = p[1]
      /\ \A t \in Step \ {s} : phase'[t] = phase[t] /\ given'[t] = given[t]
      /\ \A c \in Cell \ spoilt' : c \notin spoilt
      /\ \A c \in used \ spoilt' : storage[c].cleanup \in Trivial \cup {None}
      /\ \A c \in Cell \ used : c \in spoilt' <=> c \in spoilt
  BY <1>1, <1>2, AddedGives
<1>4. /\ adapter \in Object /\ adapter.is = Adapter /\ Calls(Adapter, func) \in Function
  BY <1>1, Types DEF Callable, Closure
<1>5. /\ Emplace(storage[func], adapter) \in Storage
      /\ Emplace(storage[func], adapter).cleanup = Adapter
      /\ func \notin spoilt' => Emplace(storage[func], adapter).obj = adapter
  <2>1. storage[func] \in Storage
    BY <1>1, <1>2
  <2>2. func \notin spoilt' => storage[func].cleanup \in Trivial \cup {None}
    BY <1>3
  <2> HIDE DEF adapter, func
  <2> QED BY <1>4, <2>1, <2>2, EmplaceHas
<1>6. /\ StorageAfter(p, orig) \in Storage /\ FunctionAfter(p, orig) \in Function
      /\ ErrorStorage(e, on_error) \in Storage /\ ErrorFunction(e, on_error) \in Function
      /\ p[1] \in Functor /\ FunctionAfter(p, orig).impl = p[1]
  BY <1>1, <1>2, PassedTypes, ErrorTypes
<1>7. /\ storage' \in [Cell -> Storage] /\ function' \in [Cell -> Function]
      /\ storage'[orig] = StorageAfter(p, orig) /\ function'[orig] = FunctionAfter(p, orig)
      /\ storage'[func] = Emplace(storage[func], adapter)
      /\ function'[func] = Calls(Adapter, func)
      /\ storage'[on_error] = ErrorStorage(e, on_error)
      /\ function'[on_error] = ErrorFunction(e, on_error)
      /\ \A c \in Cell \ {func, orig, on_error} :
           storage'[c] = storage[c] /\ function'[c] = function[c]
  <2> HIDE DEF adapter, func, orig, on_error
  <2> QED BY <1>1, <1>2, <1>4, <1>5, <1>6
<1>8. TypeOK'
  BY <1>1, <1>2, <1>7, AddedGives DEF TypeOK
<1>9. ASSUME func \notin spoilt', orig \notin spoilt'
      PROVE  Adapted(s)'
  <2>1. Spared(Uses(p, orig))
    BY <1>1, <1>3, <1>9 DEF Spared, Uses
  <2>2. \/ FunctionAfter(p, orig).data = External
        \/ FunctionAfter(p, orig).data = orig /\ StorageAfter(p, orig).obj.is = p[1]
    BY <1>1, <1>2, <2>1, PassedRuns
  <2> HIDE DEF orig, func
  <2>3. /\ given'[s] \in Functor /\ function'[orig].impl = given'[s]
        /\ \/ function'[orig].data = External
           \/ function'[orig].data = orig /\ storage'[orig].obj.is = given'[s]
    BY <1>3, <1>6, <1>7, <2>2
  <2>4. function'[func] = Calls(Adapter, func) /\ storage'[func].obj = adapter
    BY <1>5, <1>7, <1>9
  <2> QED BY <2>3, <2>4 DEF Adapted, Runs, orig, func, Calls, PointsTo
<1>10. ASSUME on_error \notin spoilt'
       PROVE  Errors(s)' /\ Owns(on_error)'
  <2>1. Spared(Uses(e, on_error)) /\ Owns(on_error) /\ Errors(s)
    BY <1>1, <1>3, <1>10 DEF IInv, StepInv, Spared, Uses
  <2>2. LET v == ErrorFunction(e, on_error)
        IN  /\ ErrorStorage(e, on_error).obj.is = ErrorStorage(e, on_error).cleanup
            /\ \/ v = Null
               \/ /\ v.impl \in Functor
                  /\ \/ v.data = External
                     \/ v.data = on_error /\ ErrorStorage(e, on_error).obj.is = v.impl
    BY <1>2, <2>1, ErrorRuns
  <2> QED BY <1>7, <2>2 DEF Errors, Runs, Owns, Null
<1>11. ASSUME NEW m \in Member, <<s, m>> \notin spoilt' PROVE Owns(<<s, m>>)'
  <2>1. <<s, m>> \in Cell /\ Owns(<<s, m>>)
    BY <1>3, <1>11 DEF IInv, StepInv, Cell
  <2>2. CASE m = "orig"
    <3>1. Spared(Uses(p, orig))
      BY <1>1, <1>3, <1>11, <2>2 DEF Spared, Uses
    <3> QED BY <1>1, <1>2, <1>7, <2>1, <2>2, <3>1, PassedRuns DEF Owns
  <2>3. CASE m = "on_error"
    BY <1>10, <1>11, <2>3
  <2>4. CASE m = "func"
    BY <1>4, <1>5, <1>7, <1>11, <2>4 DEF Owns
  <2>5. CASE m \notin {"func", "orig", "on_error"}
    <3>1. <<s, m>> \in Cell \ {func, orig, on_error}
      BY <2>5 DEF Cell
    <3> QED BY <1>7, <2>1, <3>1 DEF Owns
  <2> QED BY <2>2, <2>3, <2>4, <2>5
<1>12. StepInv(s)'
  <2>1. Whole(s)' => func \notin spoilt' /\ orig \notin spoilt'
    BY <1>1 DEF Whole
  <2> QED BY <1>3, <1>9, <1>10, <1>11, <2>1 DEF StepInv, Chain
<1>13. \A t \in Step \ {s}, m \in Member : <<t, m>> \in Cell \ {func, orig, on_error}
  BY DEF Cell
<1> HIDE DEF func, orig, on_error, used
<1>14. \A t \in Step \ {s}, m \in Member :
         /\ storage'[<<t, m>>] = storage[<<t, m>>] /\ function'[<<t, m>>] = function[<<t, m>>]
         /\ <<t, m>> \in spoilt' <=> <<t, m>> \in spoilt
  BY <1>1, <1>3, <1>7, <1>13
<1> QED BY <1>3, <1>8, <1>12, <1>14, OthersInv

(* The members every kind of loop writes.                                  *)
LEMMA LoopMembers ==
  ASSUME TypeOK, NEW s \in Step, NEW p \in Passed
  PROVE  LET st == LoopStorage(s, p)
             fs == LoopFunctions(s)
         IN  /\ st \in [Cell -> Storage] /\ fs \in [Cell -> Function]
             /\ st[<<s, "outer">>] = StorageAfter(p, <<s, "outer">>)
             /\ st[<<s, "handler">>].cleanup = Body /\ st[<<s, "func">>].cleanup = Entry
             /\ Spared({<<s, "handler">>}) =>
                  /\ st[<<s, "handler">>].obj.is = Body
                  /\ st[<<s, "handler">>].obj.fn = FunctionAfter(p, <<s, "outer">>)
             /\ Spared({<<s, "func">>}) =>
                  st[<<s, "func">>].obj = PointsTo(Entry, <<s, "handler">>)
             /\ fs[<<s, "handler">>] = Calls(Body, <<s, "handler">>)
             /\ fs[<<s, "func">>] = Calls(Entry, <<s, "func">>)
             /\ \A c \in Cell \ {<<s, "outer">>, <<s, "handler">>, <<s, "func">>} :
                  st[c] = storage[c] /\ fs[c] = function[c]
<1> DEFINE func == <<s, "func">>
           outer == <<s, "outer">>
           handler == <<s, "handler">>
           body == Captures(Body, FunctionAfter(p, outer))
           entry == PointsTo(Entry, handler)
<1>1. /\ func \in Cell /\ outer \in Cell /\ handler \in Cell
      /\ func # outer /\ func # handler /\ outer # handler
      /\ "func" \in Member /\ "outer" \in Member /\ "handler" \in Member
  BY DEF Cell, Member
<1>2. StorageAfter(p, outer) \in Storage /\ FunctionAfter(p, outer) \in Function
  BY <1>1, PassedTypes
<1>3. /\ body \in Object /\ body.is = Body /\ body.fn = FunctionAfter(p, outer)
      /\ entry \in Object /\ entry.is = Entry
      /\ Calls(Body, handler) \in Function /\ Calls(Entry, func) \in Function
  BY <1>1, <1>2, Types DEF Callable, Closure
<1>4. /\ Emplace(storage[handler], body) \in Storage
      /\ Emplace(storage[handler], body).cleanup = Body
      /\ Spared({handler}) => Emplace(storage[handler], body).obj = body
      /\ Emplace(storage[func], entry) \in Storage
      /\ Emplace(storage[func], entry).cleanup = Entry
      /\ Spared({func}) => Emplace(storage[func], entry).obj = entry
  BY <1>1, <1>3, EmplaceHas DEF Spared, TypeOK
<1>5. /\ LoopStorage(s, p) = [storage EXCEPT ![outer] = StorageAfter(p, outer),
                                ![handler] = Emplace(storage[handler], body),
                                ![func] = Emplace(storage[func], entry)]
      /\ LoopFunctions(s) = [function EXCEPT ![handler] = Calls(Body, handler),
                                             ![func] = Calls(Entry, func)]
  BY DEF LoopStorage, LoopFunctions
<1>6. storage \in [Cell -> Storage] /\ function \in [Cell -> Function]
  BY DEF TypeOK
<1>7. /\ LoopStorage(s, p) \in [Cell -> Storage] /\ LoopFunctions(s) \in [Cell -> Function]
      /\ LoopStorage(s, p)[outer] = StorageAfter(p, outer)
      /\ LoopStorage(s, p)[handler] = Emplace(storage[handler], body)
      /\ LoopStorage(s, p)[func] = Emplace(storage[func], entry)
      /\ LoopFunctions(s)[handler] = Calls(Body, handler)
      /\ LoopFunctions(s)[func] = Calls(Entry, func)
      /\ \A c \in Cell \ {outer, handler, func} :
           LoopStorage(s, p)[c] = storage[c] /\ LoopFunctions(s)[c] = function[c]
  <2> HIDE DEF body, entry, func, outer, handler
  <2> QED BY <1>1, <1>2, <1>3, <1>4, <1>5, <1>6
<1> QED BY <1>3, <1>4, <1>7

LEMMA LoopInv ==
  ASSUME IInv, NEW s \in Step, NEW p \in Passed, AddLoop(s, p) \/ AddLimitedLoop(s, p)
  PROVE  IInv'
<1> DEFINE func == <<s, "func">>
           outer == <<s, "outer">>
           handler == <<s, "handler">>
           cond == <<s, "cond">>
           on_error == <<s, "on_error">>
<1>1. /\ func \in Cell /\ outer \in Cell /\ handler \in Cell /\ cond \in Cell
      /\ on_error \in Cell \ {func, outer, handler, cond}
      /\ cond \notin {func, outer, handler}
      /\ "outer" \in Member /\ "cond" \in Member /\ "on_error" \in Member
      /\ "func" \in Member /\ "handler" \in Member
  BY DEF Cell, Member
<1>2. PICK used \in SUBSET Cell :
        /\ Added(s, p, used)
        /\ LoopUses(s, p) \subseteq used /\ used \subseteq LoopUses(s, p) \cup {cond}
        /\ \/ storage' = LoopStorage(s, p) /\ function' = LoopFunctions(s)
           \/ /\ storage' = [LoopStorage(s, p) EXCEPT
                              ![cond] = Emplace(storage[cond], Plain(Cond))]
              /\ function' = [LoopFunctions(s) EXCEPT ![cond] = Calls(Cond, cond)]
              /\ cond \in used
  <2>1. LoopUses(s, p) \in SUBSET Cell /\ LoopUses(s, p) \cup {cond} \in SUBSET Cell
    BY <1>1 DEF LoopUses, Uses
  <2>2. CASE AddLoop(s, p)
    BY <2>1, <2>2 DEF AddLoop
  <2>3. CASE AddLimitedLoop(s, p)
    BY <2>1, <2>3 DEF AddLimitedLoop
  <2> QED BY <2>2, <2>3
<1>3. /\ phase[s] # "gone" /\ phase'[s] = "added" /\ given'[s] = p[1] /\ TypeOK
      /\ \A t \in Step \ {s} : phase'[t] = phase[t] /\ given'[t] = given[t]
      /\ \A c \in Cell \ spoilt' : c \notin spoilt
      /\ \A c \in used \ spoilt' : storage[c].cleanup \in Trivial \cup {None}
      /\ \A c \in Cell \ used : c \in spoilt' <=> c \in spoilt
      /\ used \subseteq {func, outer, handler, cond} /\ {func, handler} \subseteq used
      /\ Uses(p, outer) \subseteq used
  BY <1>2, AddedGives DEF IInv, LoopUses, Uses
<1>4. /\ Plain(Cond) \in Object /\ Plain(Cond).is = Cond /\ Calls(Cond, cond) \in Function
  BY <1>1, Types DEF Callable, Closure
<1>5. /\ Emplace(storage[cond], Plain(Cond)) \in Storage
      /\ Emplace(storage[cond], Plain(Cond)).cleanup = Cond
      /\ storage[cond].cleanup \in Trivial \cup {None} =>
           Emplace(storage[cond], Plain(Cond)).obj.is = Cond
  BY <1>1, <1>3, <1>4, EmplaceHas DEF TypeOK
<1>6. LET st == LoopStorage(s, p)
          fs == LoopFunctions(s)
      IN  /\ st \in [Cell -> Storage] /\ fs \in [Cell -> Function]
          /\ st[outer] = StorageAfter(p, outer)
          /\ st[handler].cleanup = Body /\ st[func].cleanup = Entry
          /\ Spared({handler}) => /\ st[handler].obj.is = Body
                                  /\ st[handler].obj.fn = FunctionAfter(p, outer)
          /\ Spared({func}) => st[func].obj = PointsTo(Entry, handler)
          /\ fs[handler] = Calls(Body, handler) /\ fs[func] = Calls(Entry, func)
          /\ \A c \in Cell \ {outer, handler, func} :
               st[c] = storage[c] /\ fs[c] = function[c]
  BY <1>3, LoopMembers
<1>7. /\ storage' \in [Cell -> Storage] /\ function' \in [Cell -> Function]
      /\ \A c \in Cell \ {cond} : storage'[c] = LoopStorage(s, p)[c]
                                  /\ function'[c] = LoopFunctions(s)[c]
      /\ \/ storage'[cond] = storage[cond]
         \/ cond \in used /\ storage'[cond] = Emplace(storage[cond], Plain(Cond))
  <2> HIDE DEF func, outer, handler, cond, on_error
  <2> QED BY <1>1, <1>2, <1>4, <1>5, <1>6
<1>8. /\ storage'[outer] = StorageAfter(p, outer)
      /\ storage'[handler].cleanup = Body /\ storage'[func].cleanup = Entry
      /\ Spared({handler}) => /\ storage'[handler].obj.is = Body
                              /\ storage'[handler].obj.fn = FunctionAfter(p, outer)
      /\ Spared({func}) => storage'[func].obj = PointsTo(Entry, handler)
      /\ function'[handler] = Calls(Body, handler) /\ function'[func] = Calls(Entry, func)
      /\ \A c \in Cell \ {outer, handler, func, cond} :
           storage'[c] = storage[c] /\ function'[c] = function[c]
  <2> HIDE DEF func, outer, handler, cond, on_error
  <2> QED BY <1>1, <1>6, <1>7
<1>9. TypeOK'
  BY <1>2, <1>3, <1>7, AddedGives DEF TypeOK
<1>10. ASSUME NEW c \in used \ spoilt'
       PROVE  Spared({c})
  BY <1>3 DEF Spared
<1>11. ASSUME func \notin spoilt', outer \notin spoilt', handler \notin spoilt'
       PROVE  Looped(s)'
  <2>1. Spared({handler}) /\ Spared({func}) /\ Spared(Uses(p, outer))
    BY <1>3, <1>10, <1>11 DEF Spared, Uses
  <2>2. /\ p[1] \in Functor /\ FunctionAfter(p, outer).impl = p[1]
        /\ \/ FunctionAfter(p, outer).data = External
           \/ FunctionAfter(p, outer).data = outer /\ StorageAfter(p, outer).obj.is = p[1]
    BY <1>1, <1>3, <2>1, PassedTypes, PassedRuns
  <2> HIDE DEF func, outer, handler
  <2>3. LET v == storage'[handler].obj.fn
        IN  /\ given'[s] \in Functor /\ v.impl = given'[s]
            /\ \/ v.data = External
               \/ v.data = outer /\ storage'[outer].obj.is = given'[s]
    BY <1>3, <1>8, <2>1, <2>2
  <2> QED BY <1>8, <2>1, <2>3 DEF Looped, Runs, func, outer, handler, Calls, PointsTo
<1>12. on_error \notin spoilt' => Errors(s)'
  <2>1. /\ storage'[on_error] = storage[on_error] /\ function'[on_error] = function[on_error]
        /\ on_error \in spoilt' <=> on_error \in spoilt
    <3> HIDE DEF func, outer, handler, cond
    <3> QED BY <1>1, <1>3, <1>8
  <2> QED BY <1>3, <2>1 DEF IInv, StepInv, Errors, Runs, Null
<1>13. ASSUME NEW m \in Member, <<s, m>> \notin spoilt' PROVE Owns(<<s, m>>)'
  <2>1. <<s, m>> \in Cell /\ Owns(<<s, m>>)
    BY <1>3, <1>13 DEF IInv, StepInv, Cell
  <2>2. CASE m = "outer"
    <3>1. Spared(Uses(p, outer))
      BY <1>3, <1>13, <2>2 DEF Spared, Uses
    <3> QED BY <1>1, <1>3, <1>8, <2>1, <2>2, <3>1, PassedRuns DEF Owns
  <2>3. CASE m = "handler"
    BY <1>3, <1>8, <1>10, <1>13, <2>3 DEF Owns
  <2>4. CASE m = "func"
    BY <1>3, <1>8, <1>10, <1>13, <2>4 DEF Owns, PointsTo
  <2>5. CASE m = "cond"
    BY <1>3, <1>5, <1>7, <1>13, <2>1, <2>5 DEF Owns
  <2>6. CASE m \notin {"func", "outer", "handler", "cond"}
    <3>1. <<s, m>> \in Cell \ {outer, handler, func, cond}
      BY <2>6 DEF Cell
    <3> QED BY <1>8, <2>1, <3>1 DEF Owns
  <2> QED BY <2>2, <2>3, <2>4, <2>5, <2>6
<1>14. StepInv(s)'
  <2>1. Whole(s)' => func \notin spoilt' /\ outer \notin spoilt' /\ handler \notin spoilt'
    BY <1>1 DEF Whole
  <2> QED BY <1>3, <1>11, <1>12, <1>13, <2>1 DEF StepInv, Chain
<1>15. \A t \in Step \ {s}, m \in Member : <<t, m>> \in Cell \ {outer, handler, func, cond}
  BY DEF Cell
<1> HIDE DEF func, outer, handler, cond
<1>16. \A t \in Step \ {s}, m \in Member :
         /\ storage'[<<t, m>>] = storage[<<t, m>>] /\ function'[<<t, m>>] = function[<<t, m>>]
         /\ <<t, m>> \in spoilt' <=> <<t, m>> \in spoilt
  BY <1>3, <1>8, <1>15
<1> QED BY <1>3, <1>9, <1>14, <1>16, OthersInv

LEMMA RemoveInv ==
  ASSUME IInv, NEW s \in Step, Remove(s)
  PROVE  IInv'
<1>1. /\ storage \in [Cell -> Storage] /\ function' = function /\ given' = given
      /\ spoilt' = spoilt /\ phase[s] = "added" /\ phase' = [phase EXCEPT ![s] = "gone"]
      /\ storage' = [c \in Cell |-> IF c[1] = s THEN Released(storage[c]) ELSE storage[c]]
  BY DEF IInv, TypeOK, Remove
<1>2. \A m \in Member : <<s, m>> \notin spoilt => Owns(<<s, m>>)
  BY <1>1 DEF IInv, StepInv
<1>3. ASSUME NEW c \in Cell
      PROVE  /\ storage'[c] \in Storage
             /\ c[1] = s /\ c \notin spoilt => storage'[c].obj.is \in Trivial \cup {None}
  <2>1. CASE c[1] = s
    <3>1. c = <<s, c[2]>> /\ c[2] \in Member
      BY <2>1 DEF Cell
    <3> QED BY <1>1, <1>2, <2>1, <3>1, ReleasedLeavesTrivial DEF Owns
  <2>2. CASE c[1] # s
    BY <1>1, <2>2
  <2> QED BY <2>1, <2>2
<1>4. TypeOK'
  <2>1. storage' \in [Cell -> Storage]
    BY <1>1, <1>3
  <2> QED BY <1>1, <2>1 DEF IInv, TypeOK
<1>5. \A t \in Step, m \in Member : <<t, m>> \in Cell /\ <<t, m>>[1] = t
  BY DEF Cell
<1>6. phase'[s] = "gone" /\ \A t \in Step \ {s} : phase'[t] = phase[t]
  BY <1>1 DEF IInv, TypeOK
<1>7. StepInv(s)'
  BY <1>1, <1>3, <1>5, <1>6 DEF StepInv
<1>8. \A t \in Step \ {s}, m \in Member : storage'[<<t, m>>] = storage[<<t, m>>]
  BY <1>1, <1>5
<1> QED BY <1>1, <1>4, <1>6, <1>7, <1>8, OthersInv

THEOREM NextInv == IInv /\ [Next]_vars => IInv'
<1> SUFFICES ASSUME IInv, [Next]_vars PROVE IInv'
  OBVIOUS
<1>1. CASE UNCHANGED vars
  <2>1. TypeOK'
    BY <1>1 DEF vars, IInv, TypeOK
  <2>2. \A s \in Step : StepInv(s)'
    BY <1>1, SameInv DEF vars, IInv
  <2> QED BY <2>1, <2>2 DEF IInv
<1> QED BY <1>1, AddInv, AddWithArgsInv, LoopInv, RemoveInv DEF Next

THEOREM Invariant == Spec => []IInv
BY InitInv, NextInv, PTL DEF Spec

-----------------------------------------------------------------------------
LEMMA ClosuresAreNotFunctors ==
  ASSUME NEW g \in Functor
  PROVE  g # Adapter /\ g # Entry /\ g # Body /\ g # None
BY StepAssumption DEF Closure

(* What runs a functor of the caller is alive and calls nothing else.      *)
LEMMA RunsIsLast ==
  ASSUME TypeOK, NEW s \in Step, NEW m \in Member, NEW v, NEW g, Runs(s, m, v, g)
  PROVE  Alive(v, storage) /\ Hop(v) = v /\ v.impl = g /\ g # None
<1>1. g \in Functor /\ v.impl = g /\ g # None
  BY ClosuresAreNotFunctors DEF Runs
<1>2. Hop(v) = v
  BY <1>1, ClosuresAreNotFunctors DEF Hop
<1>3. <<s, m>> \in DOMAIN storage
  BY DEF TypeOK, Cell
<1> QED BY <1>1, <1>2, <1>3 DEF Alive, Runs

(* Whatever the caller gave a step with add(), sync() or a loop, calling   *)
(* the func_ of the step runs that, and every object on the way is alive.  *)
THEOREM CallsTheGiven == Spec => []CallsWhatWasGiven
<1>1. ASSUME IInv, NEW s \in Step, phase[s] = "added", Whole(s)
      PROVE  LET v0 == function[<<s, "func">>]
                 v1 == Hop(v0)
                 v2 == Hop(v1)
             IN  /\ Alive(v0, storage) /\ Alive(v1, storage) /\ Alive(v2, storage)
                 /\ v2.impl = given[s]
  <2>1. TypeOK /\ Chain(s)
    BY <1>1 DEF IInv, StepInv
  <2>2. /\ "func" \in Member /\ "orig" \in Member /\ "outer" \in Member
        /\ <<s, "func">> \in DOMAIN storage /\ <<s, "handler">> \in DOMAIN storage
    BY <2>1 DEF Member, TypeOK, Cell
  <2>3. /\ None \notin Closure /\ Adapter \in Closure /\ Entry \in Closure
        /\ Body \in Closure /\ Body # Adapter /\ Body # Entry
    BY StepAssumption DEF Closure
  <2>4. CASE Direct(s)
    BY <2>1, <2>2, <2>4, RunsIsLast DEF Direct
  <2>5. CASE Adapted(s)
    <3> DEFINE v == function[<<s, "func">>]
    <3>1. v.impl = Adapter /\ v.data = <<s, "func">>
          /\ storage[<<s, "func">>].obj.is = Adapter
          /\ storage[<<s, "func">>].obj.ptr = <<s, "orig">>
      BY <2>5 DEF Adapted, Calls, PointsTo
    <3>2. Hop(v) = function[<<s, "orig">>]
      BY <3>1 DEF Hop
    <3>3. Alive(v, storage)
      BY <2>2, <2>3, <3>1 DEF Alive
    <3>4. Runs(s, "orig", function[<<s, "orig">>], given[s])
      BY <2>5 DEF Adapted
    <3> QED BY <2>1, <2>2, <3>2, <3>3, <3>4, RunsIsLast
  <2>6. CASE Looped(s)
    <3> DEFINE v == function[<<s, "func">>]
               b == function[<<s, "handler">>]
               f == storage[<<s, "handler">>].obj.fn
    <3>1. v.impl = Entry /\ v.data = <<s, "func">>
          /\ storage[<<s, "func">>].obj.is = Entry
          /\ storage[<<s, "func">>].obj.ptr = <<s, "handler">>
          /\ b.impl = Body /\ b.data = <<s, "handler">>
          /\ storage[<<s, "handler">>].obj.is = Body
      BY <2>6 DEF Looped, Calls, PointsTo
    <3>2. Hop(v) = b /\ Hop(b) = f
      BY <2>3, <3>1 DEF Hop
    <3>3. Alive(v, storage) /\ Alive(b, storage)
      BY <2>2, <2>3, <3>1 DEF Alive
    <3>4. Runs(s, "outer", f, given[s])
      BY <2>6 DEF Looped
    <3>5. Alive(f, storage) /\ f.impl = given[s]
      BY <2>1, <2>2, <3>4, RunsIsLast
    <3> QED BY <3>2, <3>3, <3>5
  <2> QED BY <2>1, <2>4, <2>5, <2>6 DEF Chain
<1>2. IInv => CallsWhatWasGiven
  BY <1>1 DEF CallsWhatWasGiven, Whole
<1> QED BY <1>2, Invariant, PTL

(* The on_error_ of a step can be called when it is set, also when it is   *)
(* left over from an earlier use of the StepData.                          *)
THEOREM ErrorHandlersLive == Spec => []ErrorHandlerAlive
<1>1. ASSUME IInv, NEW s \in Step, phase[s] = "added", <<s, "on_error">> \notin spoilt
      PROVE  LET v == function[<<s, "on_error">>] IN v = Null \/ Alive(v, storage)
  <2>1. TypeOK /\ Errors(s) /\ "on_error" \in Member
    BY <1>1 DEF IInv, StepInv, Member
  <2> QED BY <2>1, RunsIsLast DEF Errors
<1>2. IInv => ErrorHandlerAlive
  BY <1>1 DEF ErrorHandlerAlive
<1> QED BY <1>2, Invariant, PTL

(* When the engine has destroyed a step, no functor that had something to  *)
(* release is left in any of its storages.                                 *)
THEOREM LeavesNothing == Spec => []NothingLeftBehind
<1>1. IInv => NothingLeftBehind
  BY DEF IInv, StepInv, NothingLeftBehind
<1> QED BY <1>1, Invariant, PTL
=============================================================================
