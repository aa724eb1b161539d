-------------------------- MODULE ErasedFuncProofs --------------------------
(***************************************************************************)
(* An ErasedFunc calls what it was assigned last, for any number of        *)
(* objects and any classes of functors.  CallableUnlessClobbered is not    *)
(* inductive: it says nothing of the storage of an object that was         *)
(* destroyed, which the next construction uses again, nor that func_ never *)
(* points into the buffer of another object.  IInv adds both.              *)
(***************************************************************************)
EXTENDS ErasedFunc, TLAPS

OwnStorage(h) == func[h].data \in {h, External, None}

IInv ==
  /\ TypeOK
  /\ \A h \in Cell :
       /\ OwnStorage(h)
       /\ impl[h] = "none" => storage[h].cleanup = None /\ h \notin clobbered
       /\ h \notin clobbered => CallsLastAssigned(h) /\ Intact(storage[h])

(* What Emplace leaves in a storage whose cleanup does nothing.            *)
LEMMA EmplaceOver ==
  ASSUME NEW st \in Storage, NEW f \in Functor
  PROVE  /\ Emplace(st, Plain(f)) \in Storage
         /\ Emplace(st, Plain(f)).cleanup = f
         /\ st.cleanup \in Trivial \cup {None} => Emplace(st, Plain(f)).obj.is = f
<1>1. Plain(f) \in Object /\ NoObject \in Object /\ Plain(f).is = f
  BY DEF Plain, NoObject, Object, Function, Null, Callable
<1> QED BY <1>1 DEF Emplace, SetCleanup, Storage, Callable

LEMMA ReleasedIsFresh ==
  ASSUME NEW st \in Storage
  PROVE  Released(st) \in Storage /\ Released(st).cleanup = None
<1>1. NoObject \in Object
  BY DEF Plain, NoObject, Object, Function, Null
<1> QED BY <1>1 DEF Released, SetCleanup, Storage

THEOREM InitInv == Init => IInv
<1> SUFFICES ASSUME Init PROVE IInv
  OBVIOUS
<1>1. Fresh \in Storage /\ Fresh.cleanup = None /\ Null \in Function /\ Null.data = None
  BY DEF Fresh, Storage, NoObject, Plain, Object, Function, Null
<1> QED BY <1>1 DEF Init, IInv, TypeOK, OwnStorage, CallsLastAssigned, Intact

(* One step for NewImpl serves construction and assignment: they differ in *)
(* what may be in the storage, which clobbered records.                    *)
LEMMA NewImplInv ==
  ASSUME IInv, NEW h \in Cell, NEW p \in Passed, NewImpl(h, p),
         clobbered' \in SUBSET Cell, \A g \in Cell \ {h} : g \in clobbered <=> g \in clobbered',
         h \notin clobbered' =>
            h \notin clobbered
            /\ (p[2] => storage[h].cleanup \in Trivial \cup {None})
  PROVE  IInv'
<1> USE FunctorAssumption
<1>1. storage[h] \in Storage /\ p[1] \in Functor /\ p[2] \in BOOLEAN
      /\ storage \in [Cell -> Storage] /\ func \in [Cell -> Function]
      /\ given \in [Cell -> Functor \cup {None}]
      /\ impl \in [Cell -> {"none", "invalid", "typed"}]
  BY DEF IInv, TypeOK, Passed
<1> DEFINE v == Calls(p[1], IF p[2] THEN h ELSE External)
           st == IF p[2] THEN Emplace(storage[h], Plain(p[1])) ELSE storage[h]
<1>2. v \in Function /\ v.impl = p[1] /\ v.data = IF p[2] THEN h ELSE External
  BY <1>1 DEF Calls, Function, Callable
<1>3. st \in Storage /\ (p[2] => st.cleanup = p[1])
      /\ (p[2] /\ storage[h].cleanup \in Trivial \cup {None} => st.obj.is = p[1])
      /\ (~p[2] => st = storage[h])
  BY <1>1, EmplaceOver
<1>4. /\ impl' = [impl EXCEPT ![h] = "typed"]
      /\ func' = [func EXCEPT ![h] = v]
      /\ storage' = [storage EXCEPT ![h] = st]
      /\ given' = [given EXCEPT ![h] = p[1]]
  BY DEF NewImpl
<1> HIDE DEF v, st
<1>5. TypeOK'
  BY <1>1, <1>2, <1>3, <1>4 DEF TypeOK
<1>6. \A g \in Cell \ {h} : /\ impl'[g] = impl[g] /\ func'[g] = func[g]
                            /\ storage'[g] = storage[g] /\ given'[g] = given[g]
  BY <1>1, <1>4
<1>7. impl'[h] = "typed" /\ func'[h] = v /\ storage'[h] = st /\ given'[h] = p[1]
      /\ DOMAIN storage = Cell /\ DOMAIN storage' = Cell
  BY <1>1, <1>4
<1>8. ASSUME NEW g \in Cell \ {h}
      PROVE  /\ OwnStorage(g)'
             /\ impl'[g] = "none" => storage'[g].cleanup = None /\ g \notin clobbered'
             /\ g \notin clobbered' => CallsLastAssigned(g)' /\ Intact(storage'[g])
  <2>1. OwnStorage(g)'
    BY <1>6 DEF IInv, OwnStorage
  <2>2. impl'[g] = "none" => storage'[g].cleanup = None /\ g \notin clobbered'
    BY <1>6 DEF IInv
  <2>3. ASSUME g \notin clobbered' PROVE Intact(storage'[g])
    BY <1>6, <2>3 DEF IInv
  <2>4. ASSUME g \notin clobbered' PROVE CallsLastAssigned(g)'
    <3>1. CallsLastAssigned(g) /\ OwnStorage(g)
      BY <2>4 DEF IInv
    <3> QED BY <1>6, <1>7, <3>1 DEF CallsLastAssigned, OwnStorage, Alive
  <2> QED BY <2>1, <2>2, <2>3, <2>4
<1>9. OwnStorage(h)' /\ impl'[h] # "none"
  BY <1>2, <1>7 DEF OwnStorage
<1>10. ASSUME h \notin clobbered'
       PROVE  CallsLastAssigned(h)' /\ Intact(storage'[h])
  <2>1. Intact(storage[h])
    BY <1>10 DEF IInv
  <2>2. CASE p[2]
    BY <1>1, <1>2, <1>3, <1>7, <1>10, <2>2
    DEF CallsLastAssigned, Alive, Intact, Callable
  <2>3. CASE ~p[2]
    BY <1>1, <1>2, <1>3, <1>7, <2>1, <2>3 DEF CallsLastAssigned, Alive, Callable
  <2> QED BY <1>1, <2>2, <2>3
<1> QED BY <1>5, <1>8, <1>9, <1>10 DEF IInv

LEMMA DestroyInv ==
  ASSUME IInv, NEW h \in Cell, Destroy(h)
  PROVE  IInv'
<1>1. storage[h] \in Storage /\ storage \in [Cell -> Storage]
      /\ func \in [Cell -> Function] /\ given \in [Cell -> Functor \cup {None}]
      /\ impl \in [Cell -> {"none", "invalid", "typed"}]
  BY DEF IInv, TypeOK
<1>2. Released(storage[h]) \in Storage /\ Released(storage[h]).cleanup = None
  BY <1>1, ReleasedIsFresh
<1>3. Null \in Function /\ Null.data = None
  BY DEF Null, Function
<1>4. TypeOK'
  BY <1>1, <1>2, <1>3 DEF Destroy, IInv, TypeOK
<1>5. \A g \in Cell \ {h} : /\ impl'[g] = impl[g] /\ func'[g] = func[g]
                            /\ storage'[g] = storage[g] /\ given'[g] = given[g]
                            /\ g \in clobbered <=> g \in clobbered'
  BY <1>1 DEF Destroy
<1>6. impl'[h] = "none" /\ func'[h] = Null /\ storage'[h].cleanup = None
      /\ h \notin clobbered'
  BY <1>1, <1>2 DEF Destroy
<1>7. DOMAIN storage = Cell /\ DOMAIN storage' = Cell
  BY <1>1 DEF Destroy
<1>8. ASSUME NEW g \in Cell \ {h}, g \notin clobbered'
      PROVE  CallsLastAssigned(g)'
  <2>1. CallsLastAssigned(g) /\ OwnStorage(g)
    BY <1>5, <1>8 DEF IInv
  <2> QED BY <1>5, <1>7, <2>1, FunctorAssumption DEF CallsLastAssigned, OwnStorage, Alive
<1>9. \A g \in Cell : OwnStorage(g)'
  BY <1>3, <1>5, <1>6 DEF IInv, OwnStorage
<1>10. CallsLastAssigned(h)' /\ Intact(storage'[h])
  BY <1>6 DEF CallsLastAssigned, Intact
<1> QED BY <1>4, <1>5, <1>6, <1>8, <1>9, <1>10 DEF IInv

THEOREM NextInv == IInv /\ [Next]_vars => IInv'
<1> SUFFICES ASSUME IInv, [Next]_vars PROVE IInv'
  OBVIOUS
<1>1. ASSUME NEW h \in Cell, ConstructEmpty(h) PROVE IInv'
  <2>1. impl' = [impl EXCEPT ![h] = "invalid"] /\ UNCHANGED <<func, storage, given, clobbered>>
    BY <1>1 DEF ConstructEmpty
  <2> QED BY <2>1 DEF IInv, TypeOK, OwnStorage, CallsLastAssigned
<1>2. ASSUME NEW h \in Cell, Destroy(h) PROVE IInv'
  BY <1>2, DestroyInv
<1>3. ASSUME NEW h \in Cell, NEW p \in Passed, Construct(h, p) PROVE IInv'
  <2>1. NewImpl(h, p) /\ clobbered' = clobbered /\ storage[h].cleanup = None
        /\ h \notin clobbered /\ clobbered \in SUBSET Cell
    BY <1>3 DEF Construct, IInv, TypeOK
  <2> QED BY <2>1, NewImplInv
<1>4. ASSUME NEW h \in Cell, NEW p \in Passed, Assign(h, p) PROVE IInv'
  <2>1. NewImpl(h, p) /\ clobbered \in SUBSET Cell
        /\ clobbered' = IF p[2] /\ storage[h].cleanup \notin Trivial \cup {None}
                        THEN clobbered \cup {h} ELSE clobbered
    BY <1>4 DEF Assign, IInv, TypeOK
  <2> QED BY <2>1, NewImplInv
<1>5. CASE UNCHANGED vars
  BY <1>5 DEF vars, IInv, TypeOK, OwnStorage, CallsLastAssigned
<1> QED BY <1>1, <1>2, <1>3, <1>4, <1>5 DEF Next

(* An ErasedFunc or EventHandler calls the functor assigned last, as long  *)
(* as no assignment put one over a functor whose destructor does something.*)
THEOREM CallsWhatWasAssigned == Spec => []CallableUnlessClobbered
<1>1. IInv => CallableUnlessClobbered
  BY DEF IInv, CallableUnlessClobbered
<1> QED BY <1>1, InitInv, NextInv, PTL DEF Spec

(* With functors whose destructors do nothing, captures of references and  *)
(* plain values, assignments are safe in any number: what the tests do.    *)
THEOREM TrivialAlwaysCallable ==
  Functor \subseteq Trivial /\ Spec => []AlwaysCallable
<1> DEFINE J == /\ Functor \subseteq Trivial /\ clobbered = {} /\ IInv
                /\ \A h \in Cell : storage[h].cleanup \in Functor \cup {None}
<1>1. Functor \subseteq Trivial /\ Init => J
  BY InitInv DEF Init, Fresh
<1>2. J /\ [Next]_vars => J'
  <2> SUFFICES ASSUME J, [Next]_vars PROVE J'
    OBVIOUS
  <2>1. storage \in [Cell -> Storage]
    BY DEF IInv, TypeOK
  <2>2. ASSUME NEW h \in Cell, NEW p \in Passed, NewImpl(h, p)
        PROVE  \A g \in Cell : storage'[g].cleanup \in Functor \cup {None}
    <3>1. p[1] \in Functor
      BY DEF Passed
    <3>2. Emplace(storage[h], Plain(p[1])).cleanup = p[1]
      BY <2>1, <3>1, EmplaceOver
    <3> QED BY <2>1, <2>2, <3>1, <3>2 DEF NewImpl
  <2>3. ASSUME NEW h \in Cell, Destroy(h)
        PROVE  \A g \in Cell : storage'[g].cleanup \in Functor \cup {None}
    <3>1. Released(storage[h]).cleanup = None
      BY <2>1, ReleasedIsFresh
    <3> QED BY <2>1, <2>3, <3>1 DEF Destroy
  <2>4. \A g \in Cell : storage'[g].cleanup \in Functor \cup {None}
    BY <2>2, <2>3 DEF Next, vars, ConstructEmpty, Construct, Assign
  <2>5. clobbered' = {}
    BY <2>1 DEF Next, vars, ConstructEmpty, Construct, Assign, Destroy
  <2> QED BY <2>4, <2>5, NextInv
<1>3. J => AlwaysCallable
  BY DEF IInv, AlwaysCallable
<1> HIDE DEF J
<1> QED BY <1>1, <1>2, <1>3, PTL DEF Spec
=============================================================================
