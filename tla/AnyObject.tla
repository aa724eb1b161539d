------------------------------ MODULE AnyObject ------------------------------
(***************************************************************************)
(* futoin::any (include/futoin/any.hpp): a type_info pointer, a control    *)
(* handler and a buffer of eight pointers.  Accessor<T> picks one of three *)
(* layouts at compile time: a fundamental value is stored in the buffer, a *)
(* small object is constructed in the buffer, a larger one is constructed  *)
(* in a block of the thread's default memory pool and the buffer holds the *)
(* block and the pool.  The type decides only through control, the handler *)
(* Accessor<T>::set installed, what Cleanup, Move and Copy do.             *)
(*                                                                         *)
(* An operation on an any whose handler would destroy or read an object    *)
(* that is not there is undefined behaviour: the model describes no step   *)
(* for it (the Usable guards), and UsableUnlessTorn says when that cannot  *)
(* happen.                                                                 *)
(***************************************************************************)
CONSTANTS
  Slot,       \* the any objects
  FundT,      \* fundamental and pointer types:  Accessor<T, true,  true>
  SmallT,     \* classes that fit the buffer:    Accessor<T, false, true>
  BigT,       \* classes that do not fit it:     Accessor<T, false, false>
  Copyable,   \* the types with a copy constructor
  Throwing,   \* the types whose copy may throw: those without a copy
              \* constructor, and those with one that is not noexcept
  SelfRef,    \* the types of which the program assigns an any from itself
  Val,        \* values that are told apart
  Moved,      \* value of an object that was moved from
  Block,      \* blocks the memory pools can hand out (bounds the heap)
  Pool,       \* memory pools
  NoType,     \* typeid(void), and default_control as a handler
  NoBlock, NoPool

Type == FundT \cup SmallT \cup BigT

ASSUME TypeAssumption ==
  /\ FundT \cap SmallT = {} /\ FundT \cap BigT = {} /\ SmallT \cap BigT = {}
  /\ FundT \subseteq Copyable /\ Copyable \subseteq Type
  /\ Type \ Copyable \subseteq Throwing /\ Throwing \subseteq SmallT \cup BigT
  /\ SelfRef \subseteq SmallT \cup BigT
  /\ NoType \notin Type /\ NoBlock \notin Block /\ NoPool \notin Pool
  /\ Moved \notin Val

VARIABLES
  alive,      \* the any objects constructed and not destroyed
  type_info,  \* [Slot -> type_info_]
  control,    \* [Slot -> control_], named by the type it was made for
  data,       \* [Slot -> data_]
  heap,       \* [Block -> the block's owner and the object in it]
  local,      \* GlobalMemPool::get_default() of the thread
  torn,       \* history: any objects left without an object that can be used,
              \* by a throwing copy assignment or one from their own content
  lost        \* history: blocks a throwing copy left behind

vars == <<alive, type_info, control, data, heap, local, torn, lost>>

-----------------------------------------------------------------------------
(* The buffer: an object constructed in place, or a block and its pool.    *)
Inline(t, v)  == [inst |-> t, val |-> v, ptr |-> NoBlock, pool |-> NoPool]
Pointer(b, p) == [inst |-> NoType, val |-> Moved, ptr |-> b, pool |-> p]

(* A heap block: its pool and the object living in it.                     *)
Used(t, v, p) == [inst |-> t, val |-> v, pool |-> p]
Free          == Used(NoType, Moved, NoPool)

(* The object the handler of s works on is there: Cleanup destroys it,     *)
(* Move and Copy read it, and its block goes back where it came from.      *)
Usable(s) ==
  /\ control[s] \in SmallT => data[s].inst = control[s]
  /\ control[s] \in BigT =>
       /\ data[s].ptr \in Block
       /\ heap[data[s].ptr].inst = control[s]
       /\ heap[data[s].ptr].pool = data[s].pool

(* The value any_cast<T>(&s) points to.                                    *)
Content(s) ==
  IF control[s] \in BigT
  THEN IF data[s].ptr \in Block THEN heap[data[s].ptr].val ELSE Moved
  ELSE data[s].val

(* control_(Cleanup, s, s): what it leaves in the buffers and on the heap. *)
CleanDataKeeps(s) == data     \* mutant: no ~T() of an object in the buffer
CleanData(s) ==
  IF control[s] \in SmallT THEN [data EXCEPT ![s].inst = NoType] ELSE data
CleanHeapForgets(s) == heap   \* mutant: no deallocate()
CleanHeap(s) ==
  IF control[s] \in BigT THEN [heap EXCEPT ![data[s].ptr] = Free] ELSE heap

(* Accessor<T>::set(s, v) and control_(Copy, ...): a new object of type t  *)
(* in s, in a block of pool p when it is too big for the buffer; d and h   *)
(* are the buffers and the heap it starts from.                            *)
Place(s, t, v, p, d, h) ==
  \/ /\ t \in FundT \cup SmallT
     /\ data' = [d EXCEPT ![s] = Inline(t, v)]
     /\ heap' = h
  \/ /\ t \in BigT
     /\ \E b \in Block :
          /\ h[b] = Free
          /\ heap' = [h EXCEPT ![b] = Used(t, v, p)]
          /\ data' = [d EXCEPT ![s] = Pointer(b, p)]

(* Mutant: the pool of the block is not handed over with it.               *)
MoveDataForgetsPool(s, o, d) ==
  CASE control[o] \in BigT ->
         [d EXCEPT ![s].ptr = d[o].ptr, ![o] = Pointer(NoBlock, NoPool)]
    [] control[o] \in Type \ BigT ->
         [d EXCEPT ![s] = Inline(control[o], d[o].val)]
    [] OTHER -> d

(* control_(Move, o, s): the block changes hands, the object in a buffer   *)
(* is move-constructed and the one moved from stays where it is.           *)
MoveData(s, o, d) ==
  CASE control[o] \in BigT ->
         [d EXCEPT ![s] = Pointer(d[o].ptr, d[o].pool),
                   ![o] = Pointer(NoBlock, NoPool)]
    [] control[o] \in SmallT ->
         [d EXCEPT ![s] = Inline(control[o], d[o].val), ![o].val = Moved]
    [] control[o] \in FundT ->
         [d EXCEPT ![s] = Inline(control[o], d[o].val)]
    [] OTHER -> d

SetType(s, t) ==
  /\ type_info' = [type_info EXCEPT ![s] = t]
  /\ control'   = [control   EXCEPT ![s] = t]

-----------------------------------------------------------------------------
(* any()                                                                   *)
Construct(s) ==
  /\ s \notin alive
  /\ alive' = alive \cup {s}
  /\ SetType(s, NoType)
  /\ UNCHANGED <<data, heap, local, torn, lost>>

(* any(T&&) and any(const T&)                                              *)
ConstructValue(s, t, v) ==
  /\ s \notin alive
  /\ alive' = alive \cup {s}
  /\ SetType(s, t)
  /\ Place(s, t, v, local, data, heap)
  /\ UNCHANGED <<local, torn, lost>>

(* Mutant: the buffer is copied, not the object its pointer leads to.      *)
CopyFromShares(s, o, d, h) == data' = [d EXCEPT ![s] = d[o]] /\ heap' = h

(* The copy of an object too big for the buffer comes from the pool of the *)
(* original; an empty any copies nothing.                                  *)
CopyFrom(s, o, d, h) ==
  IF control[o] = NoType
  THEN data' = d /\ heap' = h
  ELSE Place(s, control[o], Content(o), data[o].pool, d, h)

(* any(const any&)                                                         *)
ConstructCopy(s, o) ==
  /\ s \notin alive /\ o \in alive /\ Usable(o)
  /\ control[o] \in Copyable \cup {NoType}
  /\ alive' = alive \cup {s}
  /\ SetType(s, control[o])
  /\ CopyFrom(s, o, data, heap)
  /\ UNCHANGED <<local, torn, lost>>

(* any(any&&)                                                              *)
ConstructMove(s, o) ==
  /\ s \notin alive /\ o \in alive /\ Usable(o)
  /\ alive' = alive \cup {s}
  /\ type_info' = [type_info EXCEPT ![s] = type_info[o], ![o] = NoType]
  /\ control'   = [control   EXCEPT ![s] = control[o],   ![o] = NoType]
  /\ data' = MoveData(s, o, data)
  /\ UNCHANGED <<heap, local, torn, lost>>

(* operator=(any&&); assigning an any to itself does nothing.              *)
AssignMove(s, o) ==
  /\ s # o /\ {s, o} \subseteq alive /\ Usable(s) /\ Usable(o)
  /\ type_info' = [type_info EXCEPT ![s] = type_info[o], ![o] = NoType]
  /\ control'   = [control   EXCEPT ![s] = control[o],   ![o] = NoType]
  /\ data' = MoveData(s, o, CleanData(s))
  /\ heap' = CleanHeap(s)
  /\ UNCHANGED <<alive, local, torn, lost>>

(* operator=(const any&)                                                   *)
AssignCopy(s, o) ==
  /\ s # o /\ {s, o} \subseteq alive /\ Usable(s) /\ Usable(o)
  /\ control[o] \in Copyable \cup {NoType}
  /\ SetType(s, control[o])
  /\ CopyFrom(s, o, CleanData(s), CleanHeap(s))
  /\ UNCHANGED <<alive, local, torn, lost>>

(* operator=(T&&) and operator=(const T&)                                  *)
AssignValue(s, t, v) ==
  /\ s \in alive /\ Usable(s)
  /\ SetType(s, t)
  /\ Place(s, t, v, local, CleanData(s), CleanHeap(s))
  /\ UNCHANGED <<alive, local, torn, lost>>

(* Mutant: reset() leaves type_info_ as it was.                            *)
ResetKeepsType(s) ==
  /\ s \in alive /\ Usable(s)
  /\ control' = [control EXCEPT ![s] = NoType]
  /\ data' = CleanData(s)
  /\ heap' = CleanHeap(s)
  /\ UNCHANGED <<alive, type_info, local, torn, lost>>

(* reset()                                                                 *)
Reset(s) ==
  /\ s \in alive /\ Usable(s)
  /\ SetType(s, NoType)
  /\ data' = CleanData(s)
  /\ heap' = CleanHeap(s)
  /\ UNCHANGED <<alive, local, torn, lost>>

(* ~any()                                                                  *)
Destroy(s) ==
  /\ s \in alive /\ Usable(s)
  /\ alive' = alive \ {s}
  /\ SetType(s, NoType)
  /\ data' = [data EXCEPT ![s] = Inline(NoType, Moved)]
  /\ heap' = CleanHeap(s)
  /\ UNCHANGED <<local, torn, lost>>

(* any_cast<T&>(s) = v, or a callee moving the value out of the reference  *)
(* that any_cast<T&&>(s) returned (v = Moved).  A cast to another type     *)
(* throws bad_cast and changes nothing.                                    *)
Write(s, t, v) ==
  /\ s \in alive /\ Usable(s)
  /\ type_info[s] = t /\ t # NoType
  /\ v = Moved => t \notin FundT
  /\ IF control[s] \in BigT
     THEN /\ heap' = [heap EXCEPT ![data[s].ptr].val = v]
          /\ UNCHANGED data
     ELSE /\ data' = [data EXCEPT ![s].val = v]
          /\ UNCHANGED heap
  /\ UNCHANGED <<alive, type_info, control, local, torn, lost>>

(* The object of o after a move out of it, in the buffers d and heap h.    *)
SpoilData(o, d) == IF control[o] \in SmallT THEN [d EXCEPT ![o].val = Moved] ELSE d
SpoilHeap(o, h) ==
  IF control[o] \in BigT THEN [h EXCEPT ![data[o].ptr].val = Moved] ELSE h

(* any(T&&) with an lvalue, the object any_cast<U&>(o) refers to: the type *)
(* T is U&, but set() gets std::forward<U>(v), so that the object is moved *)
(* and not copied.                                                         *)
ConstructFromRef(s, o) ==
  /\ s \notin alive /\ o \in alive /\ Usable(o) /\ type_info[o] # NoType
  /\ alive' = alive \cup {s}
  /\ SetType(s, type_info[o])
  /\ Place(s, type_info[o], Content(o), local, SpoilData(o, data), SpoilHeap(o, heap))
  /\ UNCHANGED <<local, torn, lost>>

(* operator=(T&&) with an lvalue, the object of another any.               *)
AssignFromRef(s, o) ==
  /\ s # o /\ {s, o} \subseteq alive /\ Usable(s) /\ Usable(o)
  /\ type_info[o] # NoType
  /\ SetType(s, type_info[o])
  /\ Place(s, type_info[o], Content(o), local,
           SpoilData(o, CleanData(s)), SpoilHeap(o, CleanHeap(s)))
  /\ UNCHANGED <<alive, local, torn, lost>>

(* s = any_cast<T&>(s): Cleanup has destroyed the object by the time set() *)
(* makes a new one of it, with a value nobody knows.  (A fundamental value *)
(* is still in the buffer: nothing changes.)                               *)
AssignFromItself(s) ==
  /\ s \in alive /\ Usable(s) /\ type_info[s] \in SelfRef
  /\ \E v \in Val \cup {Moved} :
       Place(s, type_info[s], v, local, CleanData(s), CleanHeap(s))
  /\ SetType(s, type_info[s])
  /\ torn' = torn \cup {s}
  /\ UNCHANGED <<alive, local, lost>>

-----------------------------------------------------------------------------
(* new_copy() of a type without copy constructor throws, and one whose     *)
(* copy constructor throws passes that on; the block for the copy, if one  *)
(* is needed, is allocated by then and nobody frees it.                    *)
LoseBlock(t, p, h) ==
  \/ t \notin BigT /\ heap' = h /\ UNCHANGED lost
  \/ /\ t \in BigT
     /\ \E b \in Block :
          /\ h[b] = Free
          /\ heap' = [h EXCEPT ![b] = Used(NoType, Moved, p)]
          /\ lost' = lost \cup {b}

(* any(const any&) that throws: the new any was never constructed.         *)
ConstructCopyThrows(s, o) ==
  /\ s \notin alive /\ o \in alive /\ Usable(o)
  /\ control[o] \in Throwing
  /\ LoseBlock(control[o], data[o].pool, heap)
  /\ UNCHANGED <<alive, type_info, control, data, local, torn>>

(* operator=(const any&) that throws: Cleanup has run and type_info_ and   *)
(* control_ are those of the source, but no object was constructed.        *)
AssignCopyThrows(s, o) ==
  /\ s # o /\ {s, o} \subseteq alive /\ Usable(s) /\ Usable(o)
  /\ control[o] \in Throwing
  /\ SetType(s, control[o])
  /\ data' = CleanData(s)
  /\ LoseBlock(control[o], data[o].pool, CleanHeap(s))
  /\ torn' = torn \cup {s}
  /\ UNCHANGED <<alive, local>>

(* Mutant: the thread is left without a default pool.                      *)
SetThreadDefaultNull(p) ==
  /\ local' = NoPool
  /\ UNCHANGED <<alive, type_info, control, data, heap, torn, lost>>

(* GlobalMemPool::set_thread_default(p)                                    *)
SetThreadDefault(p) ==
  /\ local' = p
  /\ UNCHANGED <<alive, type_info, control, data, heap, torn, lost>>

-----------------------------------------------------------------------------
Init ==
  /\ alive = {} /\ torn = {} /\ lost = {}
  /\ type_info = [s \in Slot |-> NoType]
  /\ control = [s \in Slot |-> NoType]
  /\ data = [s \in Slot |-> Inline(NoType, Moved)]
  /\ heap = [b \in Block |-> Free]
  /\ local \in Pool

Next ==
  \/ \E s \in Slot : Construct(s) \/ Reset(s) \/ Destroy(s) \/ AssignFromItself(s)
  \/ \E s \in Slot, t \in Type, v \in Val :
       ConstructValue(s, t, v) \/ AssignValue(s, t, v)
  \/ \E s \in Slot, t \in Type, v \in Val \cup {Moved} : Write(s, t, v)
  \/ \E s, o \in Slot :
       \/ ConstructCopy(s, o) \/ ConstructMove(s, o)
       \/ AssignCopy(s, o) \/ AssignMove(s, o)
       \/ ConstructFromRef(s, o) \/ AssignFromRef(s, o)
       \/ ConstructCopyThrows(s, o) \/ AssignCopyThrows(s, o)
  \/ \E p \in Pool : SetThreadDefault(p)

Spec == Init /\ [][Next]_vars

-----------------------------------------------------------------------------
TypeOK ==
  /\ alive \subseteq Slot /\ torn \subseteq Slot /\ lost \subseteq Block
  /\ type_info \in [Slot -> Type \cup {NoType}]
  /\ control \in [Slot -> Type \cup {NoType}]
  /\ data \in [Slot -> [inst : Type \cup {NoType}, val : Val \cup {Moved},
                        ptr : Block \cup {NoBlock},
                        pool : Pool \cup {NoPool}]]
  /\ heap \in [Block -> [inst : Type \cup {NoType}, val : Val \cup {Moved},
                         pool : Pool \cup {NoPool}]]
  /\ local \in Pool

(* s owns block b: its handler will destroy and free what is in b.         *)
Owns(s, b) == s \in alive /\ control[s] \in BigT /\ data[s].ptr = b

(* As long as no copy assignment has thrown, the handler of every live any *)
(* finds the object it was made for, and frees a block to the pool that    *)
(* handed it out, whatever was moved, copied, reset or assigned before and *)
(* however the thread's default pool changed since (any.hpp 378-434).      *)
UsableUnlessTorn == torn = {} => \A s \in alive : Usable(s)

(* No block is owned by two any objects: copies never share an object and  *)
(* a move gives it away, so no Cleanup can free a block twice.             *)
UniqueOwner ==
  torn = {} => \A b \in Block, s, o \in Slot : Owns(s, b) /\ Owns(o, b) => s = o

(* No memory is lost but by a copy that threw: every other allocated block *)
(* is owned by a live any, whose destructor frees it.                      *)
NoLeak ==
  torn = {} => \A b \in Block :
    heap[b].pool # NoPool => b \in lost \/ \E s \in Slot : Owns(s, b)

(* A step gives an object a handler or takes it away only together with    *)
(* its type_info: has_value(), type() and any_cast() describe the object   *)
(* the handler will destroy, in every live any and also in a torn one.     *)
TypeMatchesControl == \A s \in alive : type_info[s] = control[s]

(* A live any without a value holds no object but one that was moved from: *)
(* no operation drops a value without its destructor.                      *)
OnlyShellsLeft ==
  \A s \in alive :
    control[s] = NoType /\ data[s].inst \in SmallT => data[s].val = Moved

(* What the any objects hold, as their users see it.                       *)
Dead  == <<"dead">>
Empty == <<"empty">>
Contents == [s \in Slot |-> CASE s \notin alive -> Dead
                              [] s \in alive /\ type_info[s] = NoType -> Empty
                              [] OTHER -> <<type_info[s], Content(s)>>]
Abs == INSTANCE AnyAbs WITH content <- Contents

(* Value semantics: the any objects implement AnyAbs, from one any that is *)
(* torn on no longer (the values of its bytes are anyone's).               *)
AbsUnlessTorn == Abs!Init /\ [][torn' = {} => Abs!Next]_Contents

-----------------------------------------------------------------------------
(* Stated of the code by its documentation, and not so: see the README.    *)

(* any is an implementation of std::any, whose assignment leaves a usable  *)
(* object behind also when the copy throws.                                *)
EveryLiveAnyUsable == \A s \in alive : Usable(s)
=============================================================================
