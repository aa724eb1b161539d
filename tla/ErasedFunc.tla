----------------------------- MODULE ErasedFunc -----------------------------
(***************************************************************************)
(* details/erased_func.hpp and the EventHandler around it                  *)
(* (ieventemitter.hpp 92-199): a callback of any signature, constructed    *)
(* empty or with a function, and assigned a new function at any time.  The *)
(* buffer of storage_ outlives the TypedImpl that refers to it: an         *)
(* assignment destroys the old impl_ but not the old functor, and leaves   *)
(* that to the cleanup of storage_, which set_cleanup() runs when the new  *)
(* functor is in the buffer already.                                       *)
(***************************************************************************)
EXTENDS FunctorPass

VARIABLES
  impl,       \* [Cell -> the class of impl_, or None: not constructed]
  func,       \* [Cell -> TypedImpl::func_]
  storage,    \* [Cell -> storage_]
  given,      \* history: the functor assigned last
  clobbered   \* history: objects where a functor with a destructor that
              \* does something was replaced by another one

vars == <<impl, func, storage, given, clobbered>>

Passed == Functor \X BOOLEAN     \* <<functor, by value>>

(* Mutant: a functor passed by reference is looked for in the buffer.      *)
NewImplLooksInBuffer(h, p) ==
  /\ impl' = [impl EXCEPT ![h] = "typed"]
  /\ func' = [func EXCEPT ![h] = Calls(p[1], h)]
  /\ storage' = [storage EXCEPT
       ![h] = IF p[2] THEN Emplace(@, Plain(p[1])) ELSE @]
  /\ given' = [given EXCEPT ![h] = p[1]]

(* new (&impl_) TypedImpl<A...>(pass, storage_)                            *)
NewImpl(h, p) ==
  /\ impl' = [impl EXCEPT ![h] = "typed"]
  /\ func' = [func EXCEPT ![h] = Calls(p[1], IF p[2] THEN h ELSE External)]
  /\ storage' = [storage EXCEPT
       ![h] = IF p[2] THEN Emplace(@, Plain(p[1])) ELSE @]
  /\ given' = [given EXCEPT ![h] = p[1]]

(* ErasedFunc()                                                            *)
ConstructEmpty(h) ==
  /\ impl[h] = "none"
  /\ impl' = [impl EXCEPT ![h] = "invalid"]
  /\ UNCHANGED <<func, storage, given, clobbered>>

(* ErasedFunc(SimplePass&&)                                                *)
Construct(h, p) ==
  /\ impl[h] = "none"
  /\ NewImpl(h, p)
  /\ UNCHANGED clobbered

(* operator=(SimplePass&&)                                                 *)
Assign(h, p) ==
  /\ impl[h] # "none"
  /\ NewImpl(h, p)
  /\ clobbered' = IF p[2] /\ storage[h].cleanup \notin Trivial \cup {None}
                  THEN clobbered \cup {h} ELSE clobbered

(* ~ErasedFunc(): ~Impl(), then ~StorageBase()                             *)
Destroy(h) ==
  /\ impl[h] # "none"
  /\ impl' = [impl EXCEPT ![h] = "none"]
  /\ func' = [func EXCEPT ![h] = Null]
  /\ storage' = [storage EXCEPT ![h] = Released(@)]
  /\ given' = [given EXCEPT ![h] = None]
  /\ clobbered' = clobbered \ {h}

Init ==
  /\ impl = [h \in Cell |-> "none"]
  /\ func = [h \in Cell |-> Null]
  /\ storage = [h \in Cell |-> Fresh]
  /\ given = [h \in Cell |-> None]
  /\ clobbered = {}

Next ==
  \E h \in Cell :
    \/ ConstructEmpty(h) \/ Destroy(h)
    \/ \E p \in Passed : Construct(h, p) \/ Assign(h, p)

Spec == Init /\ [][Next]_vars

-----------------------------------------------------------------------------
TypeOK ==
  /\ impl \in [Cell -> {"none", "invalid", "typed"}]
  /\ func \in [Cell -> Function]
  /\ storage \in [Cell -> Storage]
  /\ given \in [Cell -> Functor \cup {None}]
  /\ clobbered \subseteq Cell

(* repeatable() and operator(): the functor assigned last is called, and   *)
(* it is alive.                                                            *)
CallsLastAssigned(h) ==
  impl[h] = "typed" => Alive(func[h], storage) /\ func[h].impl = given[h]

(* Every ErasedFunc calls what it was assigned last, through any sequence  *)
(* of assignments, as long as none of them put a functor over one whose    *)
(* destructor does something; and its storage destroys the object that is  *)
(* there, not another.                                                     *)
CallableUnlessClobbered ==
  \A h \in Cell \ clobbered : CallsLastAssigned(h) /\ Intact(storage[h])

-----------------------------------------------------------------------------
(* README.md:57 calls Function a lighter std::function replacement; what a *)
(* std::function is assigned can always be called afterwards.              *)
AlwaysCallable == \A h \in Cell : CallsLastAssigned(h)
=============================================================================
