------------------------------ MODULE MemPool ------------------------------
(***************************************************************************)
(* imempool.hpp: memory pools and IMemPool::Allocator<T>.  Each thread has *)
(* a default pool, and for each type T a cache of the pool tailored to T,  *)
(* which the first default constructed Allocator<T> fills.  A program may  *)
(* change either at any time, and a static object may ask for optimized    *)
(* pools of a type late; allocators, and containers with memory, live on.  *)
(*                                                                         *)
(* The containers are those of the standard library, modelled by what they *)
(* do with an allocator: they keep a copy, take over the memory of another *)
(* one if the allocators are equal, and some rebind their allocator anew   *)
(* for the table beside their elements, to allocate it and to free it.     *)
(***************************************************************************)
CONSTANTS
  Thread,
  Type,        \* element types
  Held,        \* those of them a default constructed container holds
  Rebound,     \* [Type -> the type of the table beside the elements]
  Container,
  Pool,        \* IMemPool objects
  Root,        \* those of them a program sets or passes
  Common,      \* GlobalMemPool::common, a PassthroughMemPool
  MemPoolOf,   \* [Pool \X Type \X BOOLEAN -> Pool]: mem_pool(sizeof(T), optimize)
  None         \* nullptr, no allocator, no memory

ASSUME MemPoolAssumption ==
  /\ Held \subseteq Type /\ Rebound \in [Type -> Type]
  /\ Root \subseteq Pool /\ Common \in Pool
  /\ None \notin Type \cup Pool \cup Thread
  /\ MemPoolOf \in [Pool \X Type \X BOOLEAN -> Pool]

VARIABLES
  thread_default,    \* [Thread -> GlobalMemPoolT::local]
  local,             \* [Thread \X Type -> Allocator<T>::local]
  ensure_optimized,  \* types with Allocator<T>::ensure_optimized
  alloc,             \* [Container -> its allocator]
  block,             \* [Container -> the allocator that gave its memory]
  table,             \* [Container -> the one that gave the table beside it]
  given,             \* history: [Thread -> pools set for it]
  switched,          \* history: caches that do not follow the thread's pool:
                     \* filled when it changed, or set to another one
  default_of,        \* history: [Container -> the thread whose default its
                     \* allocator is, if nobody set another one since]
  reoptimized        \* history: containers whose table was there already when
                     \* a type it depends on became optimized

threadVars    == <<thread_default, local, given, switched>>
containerVars == <<alloc, block, table, default_of, reoptimized>>
vars == <<threadVars, containerVars, ensure_optimized>>

Allocator == [type : Type, pool : Pool]
Nothing   == [type |-> None, pool |-> None]

Tailored(p, T, optimize) == MemPoolOf[<<p, T, optimize>>]

(* Allocator<T>(const Allocator<OT>&); for T = OT the copy constructor.    *)
Rebind(a, T) ==
  IF a.type = T THEN a
  ELSE [type |-> T,
        pool |-> Tailored(a.pool, T, a.type \in ensure_optimized \/ T \in ensure_optimized)]

TableAllocator(a) == Rebind(a, Rebound[a.type])

(* Mutant: all allocators are equal, as those of std::allocator are.       *)
AlwaysEqual(a, b) == TRUE

(* operator==                                                              *)
Equal(a, b) == a.pool = b.pool

-----------------------------------------------------------------------------
(* Mutant: the pointer is cleared, not set to the common pool.             *)
ResetThreadDefaultToNull(t) ==
  /\ thread_default' = [thread_default EXCEPT ![t] = None]
  /\ switched' = switched \cup {k \in {t} \X Type : local[k] # None}
  /\ UNCHANGED <<local, given, ensure_optimized, containerVars>>

(* GlobalMemPool::set_thread_default(p): the caches stay.                  *)
SetThreadDefault(t, p) ==
  /\ thread_default' = [thread_default EXCEPT ![t] = p]
  /\ switched' = switched \cup {k \in {t} \X Type : local[k] # None}
  /\ given' = [given EXCEPT ![t] = @ \cup {p}]
  /\ UNCHANGED <<local, ensure_optimized, containerVars>>

(* GlobalMemPool::reset_thread_default()                                   *)
ResetThreadDefault(t) ==
  /\ thread_default' = [thread_default EXCEPT ![t] = Common]
  /\ switched' = switched \cup {k \in {t} \X Type : local[k] # None}
  /\ UNCHANGED <<local, given, ensure_optimized, containerVars>>

(* Containers of t that hold T no longer have the default allocator.       *)
ForgetDefaults(t, T) ==
  default_of' = [c \in Container |->
    IF default_of[c] = t /\ alloc[c].type = T THEN None ELSE default_of[c]]

(* Allocator<T>::set_thread_default(p): p is not tailored to T.            *)
SetAllocatorDefault(t, T, p) ==
  /\ local' = [local EXCEPT ![<<t, T>>] = p]
  /\ switched' = switched \cup {<<t, T>>}
  /\ given' = [given EXCEPT ![t] = @ \cup {p}]
  /\ ForgetDefaults(t, T)
  /\ UNCHANGED <<thread_default, ensure_optimized, alloc, block, table, reoptimized>>

(* Mutant: the cache is set to the common pool, as that of the thread is.  *)
ResetAllocatorDefaultToCommon(t, T) ==
  /\ local' = [local EXCEPT ![<<t, T>>] = Common]
  /\ switched' = switched \ {<<t, T>>}
  /\ ForgetDefaults(t, T)
  /\ UNCHANGED <<thread_default, given, ensure_optimized, alloc, block, table, reoptimized>>

(* Allocator<T>::reset_thread_default(): the next one fills the cache.     *)
ResetAllocatorDefault(t, T) ==
  /\ local' = [local EXCEPT ![<<t, T>>] = None]
  /\ switched' = switched \ {<<t, T>>}
  /\ ForgetDefaults(t, T)
  /\ UNCHANGED <<thread_default, given, ensure_optimized, alloc, block, table, reoptimized>>

(* EnsureOptimized(), a static object of any part of the program.          *)
EnsureOptimized(T) ==
  /\ T \notin ensure_optimized
  /\ ensure_optimized' = ensure_optimized \cup {T}
  /\ switched' = switched \cup {k \in Thread \X {T} : local[k] # None}
  /\ reoptimized' = reoptimized \cup
       {c \in Container : /\ table[c] # Nothing
                          /\ T \in {alloc[c].type, Rebound[alloc[c].type]}}
  /\ UNCHANGED <<thread_default, local, given, alloc, block, table, default_of>>

-----------------------------------------------------------------------------
(* The pool of Allocator<T>::get_default() on thread t.                    *)
Default(t, T) ==
  IF local[<<t, T>>] # None THEN local[<<t, T>>]
  ELSE Tailored(thread_default[t], T, T \in ensure_optimized)

(* Mutant: the cache is not thread_local.                                  *)
FillSharedCache(t, T) ==
  local' = [k \in Thread \X Type |-> IF k[2] = T THEN Default(t, T) ELSE local[k]]

(* Mutant: nothing is cached.                                              *)
FillNoCache(t, T) == local' = local

(* What get_default() leaves behind.                                       *)
FillCache(t, T) == local' = [local EXCEPT ![<<t, T>>] = Default(t, T)]

(* A container that has no memory yet, with allocator a.                   *)
Starts(c, a) ==
  /\ alloc[c] = Nothing
  /\ alloc' = [alloc EXCEPT ![c] = a]

(* Allocator(), on thread t.                                               *)
MakeDefault(t, c, T) ==
  /\ Starts(c, [type |-> T, pool |-> Default(t, T)])
  /\ FillCache(t, T)
  /\ default_of' = [default_of EXCEPT ![c] = t]
  /\ UNCHANGED <<thread_default, given, switched, ensure_optimized, block, table, reoptimized>>

(* Allocator(IMemPool&)                                                    *)
MakeIn(c, T, p) ==
  /\ Starts(c, [type |-> T, pool |-> Tailored(p, T, T \in ensure_optimized)])
  /\ UNCHANGED <<threadVars, ensure_optimized, block, table, default_of, reoptimized>>

(* Allocator(const Allocator<OT>&), from the container d.                  *)
MakeFrom(c, d, T) ==
  /\ alloc[d] # Nothing /\ alloc[d].type # T
  /\ Starts(c, Rebind(alloc[d], T))
  /\ UNCHANGED <<threadVars, ensure_optimized, block, table, default_of, reoptimized>>

(* The memory of c comes from a, the allocator of c, if some is needed.    *)
Allocates(c, a, needed) ==
  /\ block' = [block EXCEPT ![c] = IF needed THEN a ELSE Nothing]
  /\ table' = [table EXCEPT ![c] = IF needed THEN TableAllocator(a) ELSE Nothing]
  /\ reoptimized' = reoptimized \ {c}

(* The memory of d goes to c.                                              *)
TakesOver(c, d) ==
  /\ block' = [block EXCEPT ![c] = block[d], ![d] = Nothing]
  /\ table' = [table EXCEPT ![c] = table[d], ![d] = Nothing]
  /\ reoptimized' = (reoptimized \ {c, d}) \cup (IF d \in reoptimized THEN {c} ELSE {})

(* The first element, and clear() with the release of the memory.          *)
Fill(c) ==
  /\ alloc[c] # Nothing
  /\ Allocates(c, alloc[c], block[c] = Nothing)
  /\ UNCHANGED <<threadVars, ensure_optimized, alloc, default_of>>

(* Copy and move construction: Allocator(const Allocator&) and its move.   *)
Copy(c, d) ==
  /\ alloc[d] # Nothing
  /\ Starts(c, alloc[d])
  /\ Allocates(c, alloc[d], block[d] # Nothing)
  /\ default_of' = [default_of EXCEPT ![c] = default_of[d]]
  /\ UNCHANGED <<threadVars, ensure_optimized>>

Move(c, d) ==
  /\ alloc[d] # Nothing
  /\ Starts(c, alloc[d])
  /\ TakesOver(c, d)
  /\ default_of' = [default_of EXCEPT ![c] = default_of[d]]
  /\ UNCHANGED <<threadVars, ensure_optimized>>

(* Move assignment: the allocator stays, and so the memory of d cannot be  *)
(* taken over if that of c is another one: the elements are moved then.    *)
MoveAssign(c, d) ==
  /\ c # d /\ alloc[c] # Nothing /\ alloc[c].type = alloc[d].type
  /\ \/ Equal(alloc[c], alloc[d]) /\ TakesOver(c, d)
     \/ ~Equal(alloc[c], alloc[d]) /\ Allocates(c, alloc[c], block[d] # Nothing)
  /\ UNCHANGED <<threadVars, ensure_optimized, alloc, default_of>>

Destroy(c) ==
  /\ alloc[c] # Nothing
  /\ alloc' = [alloc EXCEPT ![c] = Nothing]
  /\ Allocates(c, alloc[c], FALSE)
  /\ default_of' = [default_of EXCEPT ![c] = None]
  /\ UNCHANGED <<threadVars, ensure_optimized>>

-----------------------------------------------------------------------------
Init ==
  /\ thread_default = [t \in Thread |-> Common]
  /\ local = [k \in Thread \X Type |-> None]
  /\ ensure_optimized = {}
  /\ alloc = [c \in Container |-> Nothing]
  /\ block = [c \in Container |-> Nothing]
  /\ table = [c \in Container |-> Nothing]
  /\ given = [t \in Thread |-> {Common}]
  /\ switched = {} /\ reoptimized = {}
  /\ default_of = [c \in Container |-> None]

Next ==
  \/ \E t \in Thread : ResetThreadDefault(t) \/ \E p \in Root : SetThreadDefault(t, p)
  \/ \E t \in Thread, T \in Held :
       ResetAllocatorDefault(t, T) \/ \E p \in Root : SetAllocatorDefault(t, T, p)
  \/ \E T \in Type : EnsureOptimized(T)
  \/ \E c \in Container :
       \/ Fill(c) \/ Destroy(c)
       \/ \E T \in Held : \/ \E t \in Thread : MakeDefault(t, c, T)
                          \/ \E p \in Root : MakeIn(c, T, p)
       \/ \E d \in Container : \/ Copy(c, d) \/ Move(c, d) \/ MoveAssign(c, d)
                               \/ \E T \in Type : MakeFrom(c, d, T)

Spec == Init /\ [][Next]_vars

-----------------------------------------------------------------------------
TypeOK ==
  /\ thread_default \in [Thread -> Pool]
  /\ local \in [Thread \X Type -> Pool \cup {None}]
  /\ ensure_optimized \subseteq Type
  /\ alloc \in [Container -> Allocator \cup {Nothing}]
  /\ block \in [Container -> Allocator \cup {Nothing}]
  /\ table \in [Container -> Allocator \cup {Nothing}]
  /\ given \in [Thread -> SUBSET Pool]
  /\ switched \subseteq Thread \X Type
  /\ default_of \in [Container -> Thread \cup {None}]
  /\ reoptimized \subseteq Container

(* deallocate() hands every block to the pool it came from, with the size  *)
(* it was allocated with, although defaults change and memory moves from   *)
(* container to container, and from thread to thread.                      *)
FreedWhereAllocated ==
  \A c \in Container : block[c] # Nothing => block[c] = alloc[c]

(* So it is with memory that goes through a rebound allocator each time,   *)
(* unless a type it is for became optimized in between: then the converting*)
(* constructor (imempool.hpp 177-182) may arrive at another pool.          *)
TableFreedWhereAllocated ==
  \A c \in Container \ reoptimized :
    table[c] # Nothing => table[c] = TableAllocator(alloc[c])

(* The default allocators of a thread use only pools set for this thread,  *)
(* or tailored by one of them: other threads are not in the way, which is  *)
(* what a pool without locks relies on (README.md:586-588).                *)
OwnPoolsOnly ==
  \A t \in Thread, T \in Type : local[<<t, T>>] # None =>
    \E p \in given[t] :
      local[<<t, T>>] \in {p, Tailored(p, T, TRUE), Tailored(p, T, FALSE)}

(* Default constructed containers of one thread and type can exchange      *)
(* their memory: their allocators are equal, whatever happened to the pool *)
(* of the thread between their constructions.                              *)
DefaultsAreEqual ==
  \A c, d \in Container :
    default_of[c] # None /\ default_of[c] = default_of[d] /\ alloc[c].type = alloc[d].type
      => Equal(alloc[c], alloc[d])

(* The pool of a thread is the one its default constructed allocators use, *)
(* tailored to their type, except where it changed after the first of them *)
(* (get_default(), imempool.hpp 220-228).                                  *)
FollowsThreadDefault ==
  \A t \in Thread, T \in Type : local[<<t, T>>] # None /\ <<t, T>> \notin switched =>
    local[<<t, T>>] = Tailored(thread_default[t], T, T \in ensure_optimized)
=============================================================================
