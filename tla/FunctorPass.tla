---------------------------- MODULE FunctorPass ----------------------------
(***************************************************************************)
(* details/functor_pass.hpp: how a callback reaches the object that keeps  *)
(* it.  A Simple<FP> is a function parameter that knows how to move what   *)
(* the caller passed into a Function<FP>, a pair of plain pointers, with   *)
(* the functor itself constructed in the buffer of a StorageBase next to   *)
(* it.  The Function owns nothing: it is callable as long as the object in *)
(* the buffer is.                                                          *)
(***************************************************************************)
CONSTANTS
  Functor,    \* functor classes of the callers
  Closure,    \* closure types the library itself creates
  Trivial,    \* those of both whose destructor does nothing
  Cell,       \* StorageBase objects and Function objects, named as members
  External,   \* location of functions and functors that are not in a buffer
  None        \* null, default_cleanup, "no object"

Callable == Functor \cup Closure

ASSUME FunctorAssumption ==
  /\ Functor \cap Closure = {} /\ Closure \subseteq Trivial
  /\ Trivial \subseteq Callable /\ None \notin Callable
  /\ None \notin Cell /\ External \notin Cell

(* A Function: impl_ knows the class of the functor data_ points to.       *)
Function == [impl : Callable \cup {None}, data : Cell \cup {External, None}]
Null     == [impl |-> None, data |-> None]
Calls(f, at) == [impl |-> f, data |-> at]

(* An object in a buffer: its class, the Function object it points to and  *)
(* the Function value it captured, when it is a closure of the library.    *)
Object == [is : Callable \cup {None}, ptr : Cell \cup {None}, fn : Function]
Plain(f)       == [is |-> f, ptr |-> None, fn |-> Null]
PointsTo(f, c) == [is |-> f, ptr |-> c, fn |-> Null]
Captures(f, v) == [is |-> f, ptr |-> None, fn |-> v]
NoObject       == Plain(None)

(* A StorageBase: the destructor cleanup calls, and the buffer.            *)
Storage == [cleanup : Callable \cup {None}, obj : Object]
Fresh   == [cleanup |-> None, obj |-> NoObject]

(* set_cleanup(cb): the old cleanup runs on the buffer.  A destructor that *)
(* does something leaves no object there, whatever object it was run on.   *)
SetCleanup(st, f) ==
  [cleanup |-> f,
   obj |-> IF st.cleanup \in Trivial \cup {None} THEN st.obj ELSE NoObject]

(* Mutant: set_cleanup() is forgotten.                                     *)
EmplaceNoCleanup(st, o) == [st EXCEPT !.obj = o]

(* move_cb_ of a functor passed by value: new (storage.buffer) Functor(f), *)
(* then set_cleanup(~Functor), in this order.                              *)
Emplace(st, o) == SetCleanup([st EXCEPT !.obj = o], o.is)

(* ~StorageBase()                                                          *)
Released(st) == SetCleanup(st, None)

(* The memory of the storage is used, but the object in it is not the one  *)
(* its cleanup will destroy.                                               *)
Intact(st) == st.cleanup # None => st.obj.is = st.cleanup

(* Calling v runs an object of the class v was made for.                   *)
Alive(v, storage) ==
  /\ v.impl # None
  /\ v.data # External =>
       v.data \in DOMAIN storage /\ storage[v.data].obj.is = v.impl
=============================================================================
