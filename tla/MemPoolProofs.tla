--------------------------- MODULE MemPoolProofs ---------------------------
(***************************************************************************)
(* For any threads, types, containers and pools, and any way the pools     *)
(* tailor themselves: memory goes back where it came from, and the default *)
(* pools of threads stay apart.  The inductive invariant has a part for    *)
(* each container, Sound, which is about its own variables alone, so that  *)
(* a step has to be looked at only where it changes one; a part for the    *)
(* caches, and Cached, which ties the two: a default allocator has the pool*)
(* that is in the cache of its thread.                                     *)
(***************************************************************************)
EXTENDS MemPool, TLAPS

Sound(a, b, tb, late) ==
  /\ b # Nothing => b = a
  /\ ~late /\ tb # Nothing => tb = TableAllocator(a)
  /\ a = Nothing => b = Nothing /\ tb = Nothing

AllSound ==
  \A c \in Container : Sound(alloc[c], block[c], table[c], c \in reoptimized)

Cached ==
  \A c \in Container : default_of[c] # None =>
    /\ alloc[c] # Nothing
    /\ local[<<default_of[c], alloc[c].type>>] = alloc[c].pool

DefaultGiven ==
  \A t \in Thread : thread_default[t] \in given[t] /\ Common \in given[t]

CachesInv == DefaultGiven /\ OwnPoolsOnly /\ FollowsThreadDefault

IInv == TypeOK /\ AllSound /\ Cached /\ CachesInv

LEMMA TailoredType ==
  ASSUME NEW p \in Pool, NEW T \in Type, NEW o \in BOOLEAN
  PROVE  Tailored(p, T, o) \in Pool
BY MemPoolAssumption DEF Tailored

LEMMA NothingIsNone ==
  /\ Nothing.type = None /\ Nothing.pool = None /\ Nothing \notin Allocator
  /\ \A a \in Allocator : a.type \in Type /\ a.pool \in Pool
  /\ \A a \in Allocator, b \in Allocator : a.type = b.type /\ a.pool = b.pool => a = b
BY MemPoolAssumption DEF Nothing, Allocator

LEMMA TableAllocatorType ==
  ASSUME NEW a \in Allocator
  PROVE  TableAllocator(a) \in Allocator
<1>1. a.type \in Type /\ a.pool \in Pool /\ Rebound[a.type] \in Type
  BY MemPoolAssumption DEF Allocator
<1>2. \A o \in BOOLEAN : Tailored(a.pool, Rebound[a.type], o) \in Pool
  BY <1>1, TailoredType
<1> QED BY <1>1, <1>2 DEF TableAllocator, Rebind, Allocator

LEMMA InitInv == Init => IInv
<1> SUFFICES ASSUME Init PROVE IInv
  OBVIOUS
<1>1. TypeOK
  BY MemPoolAssumption DEF Init, TypeOK
<1>2. AllSound /\ Cached
  BY DEF Init, AllSound, Sound, Cached
<1>3. CachesInv
  BY DEF Init, CachesInv, DefaultGiven, OwnPoolsOnly, FollowsThreadDefault
<1> QED BY <1>1, <1>2, <1>3 DEF IInv

-----------------------------------------------------------------------------
(* The thread's own settings: the containers stay as they are.             *)
LEMMA SettingKeepsContainers ==
  ASSUME IInv, UNCHANGED <<alloc, block, table, reoptimized, ensure_optimized>>
  PROVE  AllSound'
BY DEF IInv, AllSound, Sound, TableAllocator, Rebind

(* More pools may be given; nothing else is said of them.                  *)
LEMMA MoreGiven ==
  ASSUME OwnPoolsOnly, UNCHANGED local,
         \A u \in Thread : given[u] \subseteq given'[u]
  PROVE  OwnPoolsOnly'
BY DEF OwnPoolsOnly, Tailored

LEMMA ThreadDefaultInv ==
  ASSUME IInv, NEW t \in Thread,
         ResetThreadDefault(t) \/ \E p \in Root : SetThreadDefault(t, p)
  PROVE  IInv'
<1>1. /\ UNCHANGED <<local, ensure_optimized, alloc, block, table, default_of, reoptimized>>
      /\ switched' = switched \cup {k \in {t} \X Type : local[k] # None}
  BY DEF ResetThreadDefault, SetThreadDefault, containerVars
<1>2. PICK p \in Pool : /\ thread_default' = [thread_default EXCEPT ![t] = p]
                        /\ \/ p = Common /\ given' = given
                           \/ given' = [given EXCEPT ![t] = @ \cup {p}]
  BY MemPoolAssumption DEF ResetThreadDefault, SetThreadDefault
<1>3. thread_default \in [Thread -> Pool] /\ given \in [Thread -> SUBSET Pool]
      /\ \A u \in Thread : thread_default[u] \in given[u] /\ Common \in given[u]
  BY DEF IInv, TypeOK, CachesInv, DefaultGiven
<1>4. /\ thread_default' \in [Thread -> Pool] /\ thread_default'[t] = p
      /\ \A u \in Thread \ {t} : thread_default'[u] = thread_default[u]
  BY <1>2, <1>3
<1>5. /\ given' \in [Thread -> SUBSET Pool]
      /\ p \in given'[t] /\ \A u \in Thread : given[u] \subseteq given'[u]
  BY <1>2, <1>3
<1>6. TypeOK'
  BY <1>1, <1>4, <1>5 DEF IInv, TypeOK
<1>7. DefaultGiven'
  BY <1>3, <1>4, <1>5 DEF DefaultGiven
<1>8. OwnPoolsOnly'
  BY <1>1, <1>5, MoreGiven DEF IInv, CachesInv
<1>9. FollowsThreadDefault'
  <2> SUFFICES ASSUME NEW u \in Thread, NEW T \in Type,
                      local[<<u, T>>] # None, <<u, T>> \notin switched'
               PROVE  local[<<u, T>>] = Tailored(thread_default'[u], T, T \in ensure_optimized)
    BY <1>1 DEF FollowsThreadDefault, Tailored
  <2>1. u # t /\ <<u, T>> \notin switched
    BY <1>1
  <2> QED BY <1>4, <2>1 DEF IInv, CachesInv, FollowsThreadDefault
<1>10. Cached'
  BY <1>1 DEF IInv, Cached
<1> QED BY <1>1, <1>6, <1>7, <1>8, <1>9, <1>10, SettingKeepsContainers DEF IInv, CachesInv

LEMMA AllocatorDefaultInv ==
  ASSUME IInv, NEW t \in Thread, NEW T \in Type,
         ResetAllocatorDefault(t, T) \/ \E p \in Root : SetAllocatorDefault(t, T, p)
  PROVE  IInv'
<1>1. /\ UNCHANGED <<thread_default, ensure_optimized, alloc, block, table, reoptimized>>
      /\ ForgetDefaults(t, T)
  BY DEF ResetAllocatorDefault, SetAllocatorDefault
<1>2. PICK p \in Pool \cup {None} :
        /\ local' = [local EXCEPT ![<<t, T>>] = p]
        /\ \/ p = None /\ given' = given /\ switched' = switched \ {<<t, T>>}
           \/ p # None /\ given' = [given EXCEPT ![t] = @ \cup {p}]
              /\ switched' = switched \cup {<<t, T>>}
  BY MemPoolAssumption DEF ResetAllocatorDefault, SetAllocatorDefault
<1>3. /\ local \in [Thread \X Type -> Pool \cup {None}] /\ given \in [Thread -> SUBSET Pool]
      /\ switched \subseteq Thread \X Type
      /\ default_of \in [Container -> Thread \cup {None}]
  BY DEF IInv, TypeOK
<1>4. /\ local' \in [Thread \X Type -> Pool \cup {None}] /\ local'[<<t, T>>] = p
      /\ \A k \in Thread \X Type : k # <<t, T>> => local'[k] = local[k]
      /\ switched' \subseteq Thread \X Type
      /\ \A k \in Thread \X Type : k # <<t, T>> => (k \in switched' <=> k \in switched)
  BY <1>2, <1>3
<1>5. /\ given' \in [Thread -> SUBSET Pool]
      /\ p # None => p \in given'[t]
      /\ \A u \in Thread : given[u] \subseteq given'[u]
  BY <1>2, <1>3
<1>6. /\ default_of' \in [Container -> Thread \cup {None}]
      /\ \A c \in Container : default_of'[c] # None =>
           default_of'[c] = default_of[c] /\ ~(default_of[c] = t /\ alloc[c].type = T)
  BY <1>1, <1>3 DEF ForgetDefaults
<1>7. TypeOK'
  BY <1>1, <1>4, <1>5, <1>6 DEF IInv, TypeOK
<1>8. DefaultGiven'
  BY <1>1, <1>5 DEF IInv, CachesInv, DefaultGiven
<1>9. OwnPoolsOnly'
  <2> SUFFICES ASSUME NEW u \in Thread, NEW U \in Type, local'[<<u, U>>] # None
               PROVE  \E q \in given'[u] :
                        local'[<<u, U>>] \in {q, Tailored(q, U, TRUE), Tailored(q, U, FALSE)}
    BY DEF OwnPoolsOnly, Tailored
  <2>1. CASE u = t /\ U = T
    BY <1>4, <1>5, <2>1
  <2>2. CASE ~(u = t /\ U = T)
    <3>1. local'[<<u, U>>] = local[<<u, U>>]
      BY <1>4, <2>2
    <3> QED BY <1>5, <3>1 DEF IInv, CachesInv, OwnPoolsOnly
  <2> QED BY <2>1, <2>2
<1>10. FollowsThreadDefault'
  <2> SUFFICES ASSUME NEW u \in Thread, NEW U \in Type,
                      local'[<<u, U>>] # None, <<u, U>> \notin switched'
               PROVE  local'[<<u, U>>] = Tailored(thread_default[u], U, U \in ensure_optimized)
    BY <1>1 DEF FollowsThreadDefault, Tailored
  <2>1. ~(u = t /\ U = T)
    BY <1>2, <1>4
  <2>2. local'[<<u, U>>] = local[<<u, U>>] /\ <<u, U>> \notin switched
    BY <1>4, <2>1
  <2> QED BY <2>2 DEF IInv, CachesInv, FollowsThreadDefault
<1>11. Cached'
  <2> SUFFICES ASSUME NEW c \in Container, default_of'[c] # None
               PROVE  alloc[c] # Nothing /\ local'[<<default_of'[c], alloc[c].type>>] = alloc[c].pool
    BY <1>1 DEF Cached
  <2>1. /\ default_of'[c] = default_of[c] /\ default_of[c] \in Thread
        /\ ~(default_of[c] = t /\ alloc[c].type = T)
    BY <1>3, <1>6
  <2>2. alloc[c] # Nothing /\ local[<<default_of[c], alloc[c].type>>] = alloc[c].pool
    BY <2>1 DEF IInv, Cached
  <2>3. alloc[c].type \in Type
    BY <2>2, NothingIsNone DEF IInv, TypeOK
  <2>4. local'[<<default_of[c], alloc[c].type>>] = local[<<default_of[c], alloc[c].type>>]
    BY <1>4, <2>1, <2>3
  <2> QED BY <2>1, <2>2, <2>4
<1> QED BY <1>1, <1>7, <1>8, <1>9, <1>10, <1>11, SettingKeepsContainers DEF IInv, CachesInv

LEMMA EnsureOptimizedInv ==
  ASSUME IInv, NEW T \in Type, EnsureOptimized(T)
  PROVE  IInv'
<1>1. /\ UNCHANGED <<thread_default, local, given, alloc, block, table, default_of>>
      /\ ensure_optimized' = ensure_optimized \cup {T}
      /\ switched' = switched \cup {k \in Thread \X {T} : local[k] # None}
      /\ reoptimized' = reoptimized \cup
           {c \in Container : /\ table[c] # Nothing
                              /\ T \in {alloc[c].type, Rebound[alloc[c].type]}}
  BY DEF EnsureOptimized
<1>2. TypeOK'
  BY <1>1 DEF IInv, TypeOK
<1>3. AllSound'
  <2>1. \A c \in Container : Sound(alloc[c], block[c], table[c], c \in reoptimized)
    BY DEF IInv, AllSound
  <2>2. ASSUME NEW c \in Container, c \notin reoptimized', table[c] # Nothing
        PROVE  c \notin reoptimized /\ TableAllocator(alloc[c])' = TableAllocator(alloc[c])
    <3>1. T # alloc[c].type /\ T # Rebound[alloc[c].type] /\ c \notin reoptimized
      BY <1>1, <2>2
    <3> QED BY <1>1, <3>1 DEF TableAllocator, Rebind, Tailored
  <2>3. \A c \in Container : c \notin reoptimized' /\ table[c] # Nothing =>
          c \notin reoptimized /\ TableAllocator(alloc[c])' = TableAllocator(alloc[c])
    BY <2>2
  <2> QED BY <1>1, <2>1, <2>3 DEF AllSound, Sound, TableAllocator, Rebind, Tailored
<1>4. FollowsThreadDefault'
  <2> SUFFICES ASSUME NEW u \in Thread, NEW U \in Type,
                      local[<<u, U>>] # None, <<u, U>> \notin switched'
               PROVE  local[<<u, U>>] = Tailored(thread_default[u], U, U \in ensure_optimized')
    BY <1>1 DEF FollowsThreadDefault, Tailored
  <2>1. U # T /\ <<u, U>> \notin switched
    BY <1>1
  <2>2. U \in ensure_optimized' <=> U \in ensure_optimized
    BY <1>1, <2>1
  <2>3. local[<<u, U>>] = Tailored(thread_default[u], U, U \in ensure_optimized)
    BY <2>1 DEF IInv, CachesInv, FollowsThreadDefault
  <2> QED BY <2>2, <2>3
<1>5. Cached' /\ DefaultGiven'
  BY <1>1 DEF IInv, Cached, CachesInv, DefaultGiven
<1>6. OwnPoolsOnly'
  BY <1>1, MoreGiven DEF IInv, CachesInv
<1> QED BY <1>2, <1>3, <1>4, <1>5, <1>6 DEF IInv, CachesInv

-----------------------------------------------------------------------------
LEMMA DefaultType ==
  ASSUME IInv, NEW t \in Thread, NEW T \in Type
  PROVE  /\ Default(t, T) \in Pool
         /\ local[<<t, T>>] # None => Default(t, T) = local[<<t, T>>]
<1>1. local[<<t, T>>] \in Pool \cup {None} /\ thread_default[t] \in Pool
  BY DEF IInv, TypeOK
<1>2. (T \in ensure_optimized) \in BOOLEAN
  OBVIOUS
<1>3. Tailored(thread_default[t], T, T \in ensure_optimized) \in Pool
  BY <1>1, <1>2, TailoredType
<1> QED BY <1>1, <1>3 DEF Default

(* What get_default() does to the caches: it fills one, with what the      *)
(* thread's pool is now.                                                   *)
LEMMA FillCacheInv ==
  ASSUME IInv, NEW t \in Thread, NEW T \in Type, FillCache(t, T),
         UNCHANGED <<thread_default, given, switched, ensure_optimized>>
  PROVE  /\ CachesInv' /\ local' \in [Thread \X Type -> Pool \cup {None}]
         /\ local'[<<t, T>>] = Default(t, T)
         /\ \A k \in Thread \X Type : local[k] # None => local'[k] = local[k]
<1>1. local \in [Thread \X Type -> Pool \cup {None}] /\ local' = [local EXCEPT ![<<t, T>>] = Default(t, T)]
  BY DEF IInv, TypeOK, FillCache
<1>2. Default(t, T) \in Pool
      /\ (local[<<t, T>>] # None => Default(t, T) = local[<<t, T>>])
  BY DefaultType
<1>3. /\ local' \in [Thread \X Type -> Pool \cup {None}]
      /\ local'[<<t, T>>] = Default(t, T)
      /\ \A k \in Thread \X Type : k # <<t, T>> => local'[k] = local[k]
  BY <1>1, <1>2
<1>4. \A k \in Thread \X Type : local[k] # None => local'[k] = local[k]
  BY <1>2, <1>3
<1>5. ASSUME NEW u \in Thread, NEW U \in Type, local'[<<u, U>>] # None
      PROVE  \/ local[<<u, U>>] # None /\ local'[<<u, U>>] = local[<<u, U>>]
             \/ local'[<<u, U>>] = Tailored(thread_default[u], U, U \in ensure_optimized)
  <2>1. CASE local[<<u, U>>] # None
    BY <1>4, <2>1
  <2>2. CASE local[<<u, U>>] = None
    <3>1. u = t /\ U = T
      BY <1>3, <1>5, <2>2
    <3> QED BY <1>3, <2>2, <3>1 DEF Default
  <2> QED BY <2>1, <2>2
<1>6. OwnPoolsOnly'
  <2> SUFFICES ASSUME NEW u \in Thread, NEW U \in Type, local'[<<u, U>>] # None
               PROVE  \E q \in given[u] :
                        local'[<<u, U>>] \in {q, Tailored(q, U, TRUE), Tailored(q, U, FALSE)}
    BY DEF OwnPoolsOnly, Tailored
  <2>1. CASE local[<<u, U>>] # None /\ local'[<<u, U>>] = local[<<u, U>>]
    BY <2>1 DEF IInv, CachesInv, OwnPoolsOnly
  <2>2. CASE local'[<<u, U>>] = Tailored(thread_default[u], U, U \in ensure_optimized)
    <3>1. thread_default[u] \in given[u]
      BY DEF IInv, CachesInv, DefaultGiven
    <3>2. (U \in ensure_optimized) = TRUE \/ (U \in ensure_optimized) = FALSE
      OBVIOUS
    <3>3. local'[<<u, U>>] = Tailored(thread_default[u], U, TRUE)
          \/ local'[<<u, U>>] = Tailored(thread_default[u], U, FALSE)
      BY <2>2, <3>2
    <3> QED BY <3>1, <3>3
  <2> QED BY <1>5, <2>1, <2>2
<1>7. FollowsThreadDefault'
  <2> SUFFICES ASSUME NEW u \in Thread, NEW U \in Type,
                      local'[<<u, U>>] # None, <<u, U>> \notin switched
               PROVE  local'[<<u, U>>] = Tailored(thread_default[u], U, U \in ensure_optimized)
    BY DEF FollowsThreadDefault, Tailored
  <2> QED BY <1>5 DEF IInv, CachesInv, FollowsThreadDefault
<1>8. DefaultGiven'
  BY DEF IInv, CachesInv, DefaultGiven
<1> QED BY <1>3, <1>4, <1>6, <1>7, <1>8 DEF CachesInv

LEMMA CachesUnchanged ==
  ASSUME CachesInv, UNCHANGED <<threadVars, ensure_optimized>>
  PROVE  CachesInv'
<1>1. UNCHANGED <<thread_default, local, given, switched>>
  BY DEF threadVars
<1> QED BY <1>1 DEF CachesInv, DefaultGiven, OwnPoolsOnly, FollowsThreadDefault, Tailored

(* A container that starts with an allocator and nothing else.             *)
LEMMA StartsInv ==
  ASSUME IInv, NEW c \in Container, NEW a \in Allocator, Starts(c, a),
         UNCHANGED <<ensure_optimized, block, table, reoptimized>>
  PROVE  /\ AllSound' /\ alloc' \in [Container -> Allocator \cup {Nothing}]
         /\ alloc'[c] = a /\ \A d \in Container : d # c => alloc'[d] = alloc[d]
         /\ default_of[c] = None
<1>1. alloc \in [Container -> Allocator \cup {Nothing}] /\ alloc[c] = Nothing
      /\ alloc' = [alloc EXCEPT ![c] = a]
  BY DEF Starts, IInv, TypeOK
<1>2. /\ alloc' \in [Container -> Allocator \cup {Nothing}]
      /\ alloc'[c] = a /\ \A d \in Container : d # c => alloc'[d] = alloc[d]
  BY <1>1
<1>3. default_of[c] = None
  BY <1>1 DEF IInv, Cached
<1>4. ASSUME NEW d \in Container
      PROVE  Sound(alloc'[d], block[d], table[d], d \in reoptimized)
  <2>1. Sound(alloc[d], block[d], table[d], d \in reoptimized)
    BY DEF IInv, AllSound
  <2>2. CASE d = c
    BY <1>1, <1>2, <2>1, <2>2, NothingIsNone DEF Sound
  <2>3. CASE d # c
    BY <1>2, <2>1, <2>3
  <2> QED BY <2>2, <2>3
<1>5. AllSound'
  BY <1>4 DEF AllSound, Sound, TableAllocator, Rebind, Tailored
<1> QED BY <1>2, <1>3, <1>5

LEMMA MakeDefaultInv ==
  ASSUME IInv, NEW t \in Thread, NEW c \in Container, NEW T \in Type, MakeDefault(t, c, T)
  PROVE  IInv'
<1> DEFINE a == [type |-> T, pool |-> Default(t, T)]
<1>1. /\ Starts(c, a) /\ FillCache(t, T)
      /\ default_of' = [default_of EXCEPT ![c] = t]
      /\ UNCHANGED <<thread_default, given, switched, ensure_optimized, block, table, reoptimized>>
  BY DEF MakeDefault
<1>2. a \in Allocator /\ a.type = T /\ a.pool = Default(t, T) /\ a # Nothing
  <2>1. Default(t, T) \in Pool
    BY DefaultType
  <2>2. a \in Allocator /\ a.type = T /\ a.pool = Default(t, T)
    BY <2>1 DEF Allocator
  <2> QED BY <2>2, NothingIsNone
<1> HIDE DEF a
<1>3. /\ CachesInv' /\ local' \in [Thread \X Type -> Pool \cup {None}]
      /\ local'[<<t, T>>] = Default(t, T)
      /\ \A k \in Thread \X Type : local[k] # None => local'[k] = local[k]
  BY <1>1, FillCacheInv
<1>4. /\ AllSound' /\ alloc' \in [Container -> Allocator \cup {Nothing}]
      /\ alloc'[c] = a /\ \A d \in Container : d # c => alloc'[d] = alloc[d]
  BY <1>1, <1>2, StartsInv
<1>5. default_of' \in [Container -> Thread \cup {None}] /\ default_of'[c] = t
      /\ \A d \in Container : d # c => default_of'[d] = default_of[d]
  BY <1>1 DEF IInv, TypeOK
<1>6. TypeOK'
  BY <1>1, <1>3, <1>4, <1>5 DEF IInv, TypeOK
<1>7. Cached'
  <2> SUFFICES ASSUME NEW d \in Container, default_of'[d] # None
               PROVE  alloc'[d] # Nothing
                      /\ local'[<<default_of'[d], alloc'[d].type>>] = alloc'[d].pool
    BY DEF Cached
  <2>1. CASE d = c
    BY <1>2, <1>3, <1>4, <1>5, <2>1
  <2>2. CASE d # c
    <3>1. default_of'[d] = default_of[d] /\ alloc'[d] = alloc[d] /\ default_of[d] \in Thread
      BY <1>4, <1>5, <2>2
    <3>2. alloc[d] # Nothing /\ local[<<default_of[d], alloc[d].type>>] = alloc[d].pool
      BY <3>1 DEF IInv, Cached
    <3>3. alloc[d].type \in Type /\ alloc[d].pool \in Pool
      BY <3>2, NothingIsNone DEF IInv, TypeOK
    <3>4. local[<<default_of[d], alloc[d].type>>] # None
      BY <3>2, <3>3, MemPoolAssumption
    <3> QED BY <1>3, <3>1, <3>2, <3>3, <3>4
  <2> QED BY <2>1, <2>2
<1> QED BY <1>3, <1>4, <1>6, <1>7 DEF IInv

(* Construction with a given pool, or with the allocator of another type.  *)
LEMMA MakeOtherInv ==
  ASSUME IInv, NEW c \in Container, NEW a \in Allocator, Starts(c, a),
         UNCHANGED <<threadVars, ensure_optimized, block, table, default_of, reoptimized>>
  PROVE  IInv'
<1>1. /\ AllSound' /\ alloc' \in [Container -> Allocator \cup {Nothing}]
      /\ alloc'[c] = a /\ \A d \in Container : d # c => alloc'[d] = alloc[d]
      /\ default_of[c] = None
  BY StartsInv
<1>2. CachesInv'
  BY CachesUnchanged DEF IInv
<1>3. TypeOK'
  BY <1>1 DEF IInv, TypeOK, threadVars
<1>4. Cached'
  <2> SUFFICES ASSUME NEW d \in Container, default_of[d] # None
               PROVE  alloc'[d] # Nothing /\ local[<<default_of[d], alloc'[d].type>>] = alloc'[d].pool
    BY DEF Cached, threadVars
  <2>1. d # c
    BY <1>1
  <2> QED BY <1>1, <2>1 DEF IInv, Cached
<1> QED BY <1>1, <1>2, <1>3, <1>4 DEF IInv

(* The memory a container gets of its allocator, or gives back.            *)
LEMMA AllocatedSound ==
  ASSUME NEW a \in Allocator, NEW b, NEW tb,
         \/ b = a /\ tb = TableAllocator(a)
         \/ b = Nothing /\ tb = Nothing
  PROVE  Sound(a, b, tb, FALSE)
BY NothingIsNone DEF Sound

(* Steps of containers: the caches stay, each container is sound after it, *)
(* and the default ones have the allocators they had.                      *)
LEMMA ContainerInv ==
  ASSUME IInv, UNCHANGED <<threadVars, ensure_optimized>>,
         alloc' \in [Container -> Allocator \cup {Nothing}],
         block' \in [Container -> Allocator \cup {Nothing}],
         table' \in [Container -> Allocator \cup {Nothing}],
         default_of' \in [Container -> Thread \cup {None}],
         reoptimized' \subseteq Container,
         \A c \in Container : Sound(alloc'[c], block'[c], table'[c], c \in reoptimized'),
         \A c \in Container : default_of'[c] # None =>
           \E d \in Container : default_of[d] = default_of'[c] /\ alloc[d] = alloc'[c]
  PROVE  IInv'
<1>1. TypeOK'
  BY DEF IInv, TypeOK, threadVars
<1>2. AllSound'
  BY DEF AllSound, Sound, TableAllocator, Rebind, Tailored
<1>3. Cached'
  BY DEF IInv, Cached, threadVars
<1>4. CachesInv'
  BY CachesUnchanged DEF IInv
<1> QED BY <1>1, <1>2, <1>3, <1>4 DEF IInv

Untouched(e) ==
  /\ block'[e] = block[e] /\ table'[e] = table[e]
  /\ e \in reoptimized' <=> e \in reoptimized

LEMMA AllocatesGives ==
  ASSUME IInv, NEW c \in Container, NEW a \in Allocator, NEW needed \in BOOLEAN,
         Allocates(c, a, needed)
  PROVE  /\ block' \in [Container -> Allocator \cup {Nothing}]
         /\ table' \in [Container -> Allocator \cup {Nothing}]
         /\ reoptimized' \subseteq Container /\ c \notin reoptimized'
         /\ Sound(a, block'[c], table'[c], FALSE)
         /\ ~needed => block'[c] = Nothing /\ table'[c] = Nothing
         /\ \A d \in Container \ {c} : Untouched(d)
<1> DEFINE b == IF needed THEN a ELSE Nothing
           tb == IF needed THEN TableAllocator(a) ELSE Nothing
<1>1. /\ block \in [Container -> Allocator \cup {Nothing}]
      /\ table \in [Container -> Allocator \cup {Nothing}]
      /\ block' = [block EXCEPT ![c] = b] /\ table' = [table EXCEPT ![c] = tb]
      /\ reoptimized \subseteq Container /\ reoptimized' = reoptimized \ {c}
  BY DEF IInv, TypeOK, Allocates
<1>2. /\ b \in Allocator \cup {Nothing} /\ tb \in Allocator \cup {Nothing}
      /\ \/ b = a /\ tb = TableAllocator(a)
         \/ b = Nothing /\ tb = Nothing
      /\ (~needed => b = Nothing /\ tb = Nothing)
  BY TableAllocatorType
<1> HIDE DEF b, tb
<1>3. Sound(a, b, tb, FALSE)
  BY <1>2, AllocatedSound
<1>4. block'[c] = b /\ table'[c] = tb
  BY <1>1
<1>5. \A d \in Container \ {c} : Untouched(d)
  BY <1>1 DEF Untouched
<1> QED BY <1>1, <1>2, <1>3, <1>4, <1>5

LEMMA TakesOverGives ==
  ASSUME IInv, NEW c \in Container, NEW d \in Container, c # d, TakesOver(c, d),
         NEW a \in Allocator, a = alloc[d]
  PROVE  /\ block' \in [Container -> Allocator \cup {Nothing}]
         /\ table' \in [Container -> Allocator \cup {Nothing}]
         /\ reoptimized' \subseteq Container
         /\ Sound(a, block'[c], table'[c], c \in reoptimized')
         /\ Sound(a, block'[d], table'[d], d \in reoptimized')
         /\ \A e \in Container \ {c, d} : Untouched(e)
<1>1. /\ block \in [Container -> Allocator \cup {Nothing}]
      /\ table \in [Container -> Allocator \cup {Nothing}]
      /\ block' = [block EXCEPT ![c] = block[d], ![d] = Nothing]
      /\ table' = [table EXCEPT ![c] = table[d], ![d] = Nothing]
      /\ reoptimized \subseteq Container
      /\ reoptimized' = (reoptimized \ {c, d}) \cup (IF d \in reoptimized THEN {c} ELSE {})
  BY DEF IInv, TypeOK, TakesOver
<1>2. /\ block'[c] = block[d] /\ table'[c] = table[d] /\ block'[d] = Nothing /\ table'[d] = Nothing
      /\ \A e \in Container \ {c, d} : block'[e] = block[e] /\ table'[e] = table[e]
  BY <1>1
<1>3. /\ (c \in reoptimized' <=> d \in reoptimized)
      /\ d \notin reoptimized'
      /\ \A e \in Container \ {c, d} : e \in reoptimized' <=> e \in reoptimized
      /\ reoptimized' \subseteq Container
  BY <1>1
<1>4. Sound(a, block[d], table[d], d \in reoptimized)
  BY DEF IInv, AllSound
<1>5. Sound(a, block'[c], table'[c], c \in reoptimized')
  BY <1>2, <1>3, <1>4 DEF Sound
<1>6. Sound(a, block'[d], table'[d], d \in reoptimized')
  BY <1>2, <1>3, NothingIsNone DEF Sound
<1> QED BY <1>1, <1>2, <1>3, <1>5, <1>6 DEF Untouched

LEMMA StartsGives ==
  ASSUME IInv, NEW c \in Container, NEW a \in Allocator, Starts(c, a)
  PROVE  /\ alloc' \in [Container -> Allocator \cup {Nothing}]
         /\ alloc[c] = Nothing /\ alloc'[c] = a
         /\ \A e \in Container \ {c} : alloc'[e] = alloc[e]
BY DEF Starts, IInv, TypeOK

LEMMA OthersSound ==
  ASSUME IInv, NEW e \in Container, alloc'[e] = alloc[e], Untouched(e)
  PROVE  Sound(alloc'[e], block'[e], table'[e], e \in reoptimized')
<1>1. Sound(alloc[e], block[e], table[e], e \in reoptimized)
  BY DEF IInv, AllSound
<1> QED BY <1>1 DEF Untouched

LEMMA FillInv ==
  ASSUME IInv, NEW c \in Container, Fill(c) \/ Destroy(c)
  PROVE  IInv'
<1>1. /\ alloc \in [Container -> Allocator \cup {Nothing}] /\ alloc[c] \in Allocator
      /\ default_of \in [Container -> Thread \cup {None}]
  BY DEF IInv, TypeOK, Fill, Destroy
<1>2. PICK needed \in BOOLEAN :
        /\ Allocates(c, alloc[c], needed) /\ UNCHANGED <<threadVars, ensure_optimized>>
        /\ \/ UNCHANGED <<alloc, default_of>>
           \/ /\ ~needed /\ alloc' = [alloc EXCEPT ![c] = Nothing]
              /\ default_of' = [default_of EXCEPT ![c] = None]
  BY DEF Fill, Destroy
<1>3. /\ block' \in [Container -> Allocator \cup {Nothing}]
      /\ table' \in [Container -> Allocator \cup {Nothing}]
      /\ reoptimized' \subseteq Container /\ c \notin reoptimized'
      /\ Sound(alloc[c], block'[c], table'[c], FALSE)
      /\ ~needed => block'[c] = Nothing /\ table'[c] = Nothing
      /\ \A d \in Container \ {c} : Untouched(d)
  <2>1. Allocates(c, alloc[c], needed)
    BY <1>2
  <2>2. alloc[c] \in Allocator
    BY <1>1
  <2> QED BY <2>1, <2>2, AllocatesGives
<1>4. /\ alloc' \in [Container -> Allocator \cup {Nothing}]
      /\ default_of' \in [Container -> Thread \cup {None}]
      /\ \A e \in Container \ {c} : alloc'[e] = alloc[e] /\ default_of'[e] = default_of[e]
      /\ \/ alloc'[c] = alloc[c] /\ default_of'[c] = default_of[c]
         \/ alloc'[c] = Nothing /\ default_of'[c] = None /\ ~needed
  BY <1>1, <1>2
<1>5. Sound(alloc'[c], block'[c], table'[c], c \in reoptimized')
  BY <1>3, <1>4 DEF Sound
<1>6. \A e \in Container : Sound(alloc'[e], block'[e], table'[e], e \in reoptimized')
  BY <1>3, <1>4, <1>5, OthersSound
<1>7. \A e \in Container : default_of'[e] # None =>
        \E d \in Container : default_of[d] = default_of'[e] /\ alloc[d] = alloc'[e]
  BY <1>4
<1> QED BY <1>2, <1>3, <1>4, <1>6, <1>7, ContainerInv

LEMMA CopyInv ==
  ASSUME IInv, NEW c \in Container, NEW d \in Container, Copy(c, d) \/ Move(c, d)
  PROVE  IInv'
<1>1. /\ alloc[d] \in Allocator /\ Starts(c, alloc[d])
      /\ default_of \in [Container -> Thread \cup {None}]
      /\ default_of' = [default_of EXCEPT ![c] = default_of[d]]
      /\ UNCHANGED <<threadVars, ensure_optimized>>
  BY DEF IInv, TypeOK, Copy, Move
<1>2. /\ alloc' \in [Container -> Allocator \cup {Nothing}]
      /\ alloc[c] = Nothing /\ alloc'[c] = alloc[d]
      /\ \A e \in Container \ {c} : alloc'[e] = alloc[e]
  BY <1>1, StartsGives
<1>3. c # d /\ alloc'[d] = alloc[d]
  BY <1>1, <1>2, NothingIsNone
<1>4. /\ default_of' \in [Container -> Thread \cup {None}] /\ default_of'[c] = default_of[d]
      /\ \A e \in Container \ {c} : default_of'[e] = default_of[e]
  BY <1>1
<1>5. \A e \in Container : default_of'[e] # None =>
        \E f \in Container : default_of[f] = default_of'[e] /\ alloc[f] = alloc'[e]
  BY <1>2, <1>4
<1>6. CASE Copy(c, d)
  <2>1. PICK needed \in BOOLEAN : Allocates(c, alloc[d], needed)
    BY <1>6 DEF Copy
  <2>2. /\ block' \in [Container -> Allocator \cup {Nothing}]
        /\ table' \in [Container -> Allocator \cup {Nothing}]
        /\ reoptimized' \subseteq Container /\ c \notin reoptimized'
        /\ Sound(alloc[d], block'[c], table'[c], FALSE)
        /\ \A e \in Container \ {c} : Untouched(e)
    BY <1>1, <2>1, AllocatesGives
  <2>3. Sound(alloc'[c], block'[c], table'[c], c \in reoptimized')
    BY <1>2, <2>2 DEF Sound
  <2>4. \A e \in Container : Sound(alloc'[e], block'[e], table'[e], e \in reoptimized')
    BY <1>2, <2>2, <2>3, OthersSound
  <2> QED BY <1>1, <1>2, <1>4, <1>5, <2>2, <2>4, ContainerInv
<1>7. CASE Move(c, d)
  <2>1. TakesOver(c, d)
    BY <1>7 DEF Move
  <2>2. /\ block' \in [Container -> Allocator \cup {Nothing}]
        /\ table' \in [Container -> Allocator \cup {Nothing}]
        /\ reoptimized' \subseteq Container
        /\ Sound(alloc[d], block'[c], table'[c], c \in reoptimized')
        /\ Sound(alloc[d], block'[d], table'[d], d \in reoptimized')
        /\ \A e \in Container \ {c, d} : Untouched(e)
    BY <1>1, <1>3, <2>1, TakesOverGives
  <2>3. \A e \in Container : Sound(alloc'[e], block'[e], table'[e], e \in reoptimized')
    BY <1>2, <1>3, <2>2, OthersSound
  <2> QED BY <1>1, <1>2, <1>4, <1>5, <2>2, <2>3, ContainerInv
<1> QED BY <1>6, <1>7

LEMMA MoveAssignInv ==
  ASSUME IInv, NEW c \in Container, NEW d \in Container, MoveAssign(c, d)
  PROVE  IInv'
<1>1. /\ alloc \in [Container -> Allocator \cup {Nothing}]
      /\ default_of \in [Container -> Thread \cup {None}]
      /\ UNCHANGED <<threadVars, ensure_optimized, alloc, default_of>> /\ c # d
      /\ alloc[c] \in Allocator /\ alloc[c].type = alloc[d].type
  BY DEF IInv, TypeOK, MoveAssign
<1>2. alloc[d] \in Allocator
  <2>1. alloc[c].type # None
    BY <1>1, MemPoolAssumption, NothingIsNone
  <2> QED BY <1>1, <2>1, NothingIsNone
<1>3. \A e \in Container : default_of'[e] # None =>
        \E f \in Container : default_of[f] = default_of'[e] /\ alloc[f] = alloc'[e]
  BY <1>1
<1>4. CASE Equal(alloc[c], alloc[d]) /\ TakesOver(c, d)
  <2>1. alloc[c] = alloc[d]
    BY <1>1, <1>2, <1>4, NothingIsNone DEF Equal
  <2>2. /\ block' \in [Container -> Allocator \cup {Nothing}]
        /\ table' \in [Container -> Allocator \cup {Nothing}]
        /\ reoptimized' \subseteq Container
        /\ Sound(alloc[d], block'[c], table'[c], c \in reoptimized')
        /\ Sound(alloc[d], block'[d], table'[d], d \in reoptimized')
        /\ \A e \in Container \ {c, d} : Untouched(e)
    BY <1>1, <1>2, <1>4, TakesOverGives
  <2>3. \A e \in Container : Sound(alloc'[e], block'[e], table'[e], e \in reoptimized')
    BY <1>1, <2>1, <2>2, OthersSound
  <2> QED BY <1>1, <1>3, <2>2, <2>3, ContainerInv
<1>5. ASSUME NEW needed \in BOOLEAN, Allocates(c, alloc[c], needed)
      PROVE  IInv'
  <2>1. /\ block' \in [Container -> Allocator \cup {Nothing}]
        /\ table' \in [Container -> Allocator \cup {Nothing}]
        /\ reoptimized' \subseteq Container /\ c \notin reoptimized'
        /\ Sound(alloc[c], block'[c], table'[c], FALSE)
        /\ \A e \in Container \ {c} : Untouched(e)
    <3>1. alloc[c] \in Allocator
      BY <1>1
    <3> QED BY <1>5, <3>1, AllocatesGives
  <2>2. Sound(alloc'[c], block'[c], table'[c], c \in reoptimized')
    BY <1>1, <2>1 DEF Sound
  <2>3. \A e \in Container : Sound(alloc'[e], block'[e], table'[e], e \in reoptimized')
    BY <1>1, <2>1, <2>2, OthersSound
  <2> QED BY <1>1, <1>3, <2>1, <2>3, ContainerInv
<1> QED BY <1>4, <1>5 DEF MoveAssign

THEOREM NextInv == IInv /\ [Next]_vars => IInv'
<1> SUFFICES ASSUME IInv, [Next]_vars PROVE IInv'
  OBVIOUS
<1>1. ASSUME NEW c \in Container, NEW T \in Held, NEW p \in Root, MakeIn(c, T, p)
      PROVE  IInv'
  <2> DEFINE a == [type |-> T, pool |-> Tailored(p, T, T \in ensure_optimized)]
  <2>1. (T \in ensure_optimized) \in BOOLEAN /\ p \in Pool /\ T \in Type
    BY MemPoolAssumption
  <2>2. a \in Allocator
    BY <2>1, TailoredType DEF Allocator
  <2> QED BY <1>1, <2>2, MakeOtherInv DEF MakeIn
<1>2. ASSUME NEW c \in Container, NEW d \in Container, NEW T \in Type, MakeFrom(c, d, T)
      PROVE  IInv'
  <2>1. alloc[d] \in Allocator
    BY <1>2 DEF MakeFrom, IInv, TypeOK
  <2>2. alloc[d].type \in Type /\ alloc[d].pool \in Pool
    BY <2>1, NothingIsNone
  <2>3. \A o \in BOOLEAN : Tailored(alloc[d].pool, T, o) \in Pool
    BY <2>2, TailoredType
  <2>4. Rebind(alloc[d], T) \in Allocator
    BY <2>1, <2>3 DEF Rebind, Allocator
  <2> QED BY <1>2, <2>4, MakeOtherInv DEF MakeFrom
<1>3. CASE UNCHANGED vars
  <2>1. /\ UNCHANGED <<threadVars, ensure_optimized>>
        /\ UNCHANGED <<alloc, block, table, default_of, reoptimized>>
    BY <1>3 DEF vars, containerVars
  <2> QED BY <2>1, CachesUnchanged, SettingKeepsContainers
          DEF IInv, TypeOK, Cached, threadVars
<1>4. Held \subseteq Type
  BY MemPoolAssumption
<1> QED BY <1>1, <1>2, <1>3, <1>4, ThreadDefaultInv, AllocatorDefaultInv, EnsureOptimizedInv,
           MakeDefaultInv, FillInv, CopyInv, MoveAssignInv DEF Next

THEOREM Invariant == Spec => []IInv
BY InitInv, NextInv, PTL DEF Spec

-----------------------------------------------------------------------------
(* The variables keep their types.                                         *)
THEOREM TypeCorrect == Spec => []TypeOK
<1>1. IInv => TypeOK
  BY DEF IInv
<1> QED BY <1>1, Invariant, PTL

(* Every block goes back to the pool that gave it, with its size.          *)
THEOREM BlocksReturn == Spec => []FreedWhereAllocated
<1>1. IInv => FreedWhereAllocated
  BY DEF IInv, AllSound, Sound, FreedWhereAllocated
<1> QED BY <1>1, Invariant, PTL

(* And so does memory that is allocated through a rebound allocator, if no *)
(* type it depends on became optimized while it was there.                 *)
THEOREM TablesReturn == Spec => []TableFreedWhereAllocated
<1>1. IInv => TableFreedWhereAllocated
  BY DEF IInv, AllSound, Sound, TableFreedWhereAllocated
<1> QED BY <1>1, Invariant, PTL

(* The default pools of a thread are its own.                              *)
THEOREM ThreadsApart == Spec => []OwnPoolsOnly
<1>1. IInv => OwnPoolsOnly
  BY DEF IInv, CachesInv
<1> QED BY <1>1, Invariant, PTL

(* Default constructed allocators of one thread and type are equal.        *)
THEOREM DefaultsEqual == Spec => []DefaultsAreEqual
<1>1. IInv => DefaultsAreEqual
  BY DEF IInv, Cached, DefaultsAreEqual, Equal
<1> QED BY <1>1, Invariant, PTL

(* A cache that nothing was changed behind has the pool of its thread.     *)
THEOREM CachesFollow == Spec => []FollowsThreadDefault
<1>1. IInv => FollowsThreadDefault
  BY DEF IInv, CachesInv
<1> QED BY <1>1, Invariant, PTL

-----------------------------------------------------------------------------
(* Where optimized pools are the plain ones, as those of the common pool   *)
(* are, it makes no difference when a type became optimized: the argument  *)
(* is the one for Sound, with the table allocator a function of the        *)
(* container's own allocator alone.                                        *)
PlainTable(a) ==
  IF a.type = Rebound[a.type] THEN a
  ELSE [type |-> Rebound[a.type], pool |-> Tailored(a.pool, Rebound[a.type], FALSE)]

TablesPlain ==
  \A c \in Container : table[c] # Nothing => table[c] = PlainTable(alloc[c])

EveryTableReturns ==
  \A c \in Container : table[c] # Nothing => table[c] = TableAllocator(alloc[c])

OptimizedIsPlain ==
  \A p \in Pool, T \in Type : Tailored(p, T, TRUE) = Tailored(p, T, FALSE)

LEMMA TableIsPlain ==
  ASSUME OptimizedIsPlain, NEW a \in Allocator
  PROVE  TableAllocator(a) = PlainTable(a)
<1>1. a.type \in Type /\ a.pool \in Pool /\ Rebound[a.type] \in Type
  BY MemPoolAssumption DEF Allocator
<1>2. \A o \in BOOLEAN : Tailored(a.pool, Rebound[a.type], o)
                           = Tailored(a.pool, Rebound[a.type], FALSE)
  BY <1>1 DEF OptimizedIsPlain
<1>3. (a.type \in ensure_optimized \/ Rebound[a.type] \in ensure_optimized) \in BOOLEAN
  OBVIOUS
<1> QED BY <1>2, <1>3 DEF TableAllocator, Rebind, PlainTable

LEMMA TableHasAllocator ==
  ASSUME IInv, NEW c \in Container, table[c] # Nothing
  PROVE  alloc[c] \in Allocator
BY DEF IInv, TypeOK, AllSound, Sound

(* A container that gets memory of its allocator a, or gives it back.      *)
LEMMA AllocatesPlain ==
  ASSUME OptimizedIsPlain, IInv, TablesPlain, NEW c \in Container,
         NEW a \in Allocator, NEW needed \in BOOLEAN, Allocates(c, a, needed),
         alloc'[c] = a \/ ~needed,
         \A d \in Container \ {c} : alloc'[d] = alloc[d]
  PROVE  TablesPlain'
<1>1. /\ table \in [Container -> Allocator \cup {Nothing}]
      /\ table' = [table EXCEPT ![c] = IF needed THEN TableAllocator(a) ELSE Nothing]
  BY DEF Allocates, IInv, TypeOK
<1>2. TableAllocator(a) = PlainTable(a)
  BY TableIsPlain
<1> QED BY <1>1, <1>2 DEF TablesPlain, PlainTable, Tailored

(* A table that goes with the memory of d to a container with the          *)
(* allocator of d.                                                         *)
LEMMA TakesOverPlain ==
  ASSUME IInv, TablesPlain, NEW c \in Container, NEW d \in Container,
         c # d, TakesOver(c, d), alloc'[c] = alloc[d],
         \A e \in Container \ {c} : alloc'[e] = alloc[e]
  PROVE  TablesPlain'
<1>1. /\ table \in [Container -> Allocator \cup {Nothing}]
      /\ table' = [table EXCEPT ![c] = table[d], ![d] = Nothing]
  BY DEF TakesOver, IInv, TypeOK
<1>2. /\ table'[c] = table[d] /\ table'[d] = Nothing
      /\ \A e \in Container \ {c, d} : table'[e] = table[e]
  BY <1>1
<1>3. \A e \in Container : table[e] # Nothing => table[e] = PlainTable(alloc[e])
  BY DEF TablesPlain
<1>4. \A e \in Container : table'[e] # Nothing => table'[e] = PlainTable(alloc'[e])
  BY <1>2, <1>3
<1> QED BY <1>4 DEF TablesPlain, PlainTable, Tailored

LEMMA PlainNext ==
  ASSUME OptimizedIsPlain, IInv, TablesPlain, [Next]_vars
  PROVE  TablesPlain'
<1>1. alloc \in [Container -> Allocator \cup {Nothing}]
  BY DEF IInv, TypeOK
<1>2. ASSUME NEW c \in Container, Fill(c) \/ Destroy(c)
      PROVE  TablesPlain'
  <2>1. alloc[c] \in Allocator
    BY <1>1, <1>2 DEF Fill, Destroy
  <2>2. PICK needed \in BOOLEAN :
          /\ Allocates(c, alloc[c], needed)
          /\ alloc'[c] = alloc[c] \/ ~needed
          /\ \A d \in Container \ {c} : alloc'[d] = alloc[d]
    BY <1>1, <1>2 DEF Fill, Destroy
  <2> QED BY <2>1, <2>2, AllocatesPlain
<1>3. ASSUME NEW c \in Container, NEW d \in Container, Copy(c, d) \/ Move(c, d)
      PROVE  TablesPlain'
  <2>1. alloc[d] \in Allocator /\ Starts(c, alloc[d])
    BY <1>1, <1>3 DEF Copy, Move
  <2>2. /\ alloc[c] = Nothing /\ alloc'[c] = alloc[d]
        /\ \A e \in Container \ {c} : alloc'[e] = alloc[e]
    BY <2>1, StartsGives
  <2>3. CASE Copy(c, d)
    <3>1. PICK needed \in BOOLEAN : Allocates(c, alloc[d], needed)
      BY <2>3 DEF Copy
    <3> QED BY <2>1, <2>2, <3>1, AllocatesPlain
  <2>4. CASE Move(c, d)
    <3>1. TakesOver(c, d) /\ c # d
      BY <2>1, <2>2, <2>4, NothingIsNone DEF Move
    <3> QED BY <2>2, <3>1, TakesOverPlain
  <2> QED BY <1>3, <2>3, <2>4
<1>4. ASSUME NEW c \in Container, NEW d \in Container, MoveAssign(c, d)
      PROVE  TablesPlain'
  <2>1. /\ alloc' = alloc /\ c # d /\ alloc[c] \in Allocator
        /\ alloc[c].type = alloc[d].type
    BY <1>1, <1>4 DEF MoveAssign
  <2>2. CASE Equal(alloc[c], alloc[d]) /\ TakesOver(c, d)
    <3>1. alloc[d] \in Allocator
      BY <1>1, <2>1, MemPoolAssumption, NothingIsNone
    <3>2. alloc[c] = alloc[d]
      BY <2>1, <2>2, <3>1, NothingIsNone DEF Equal
    <3> QED BY <2>1, <2>2, <3>2, TakesOverPlain
  <2>3. ASSUME NEW needed \in BOOLEAN, Allocates(c, alloc[c], needed)
        PROVE  TablesPlain'
    BY <2>1, <2>3, AllocatesPlain
  <2> QED BY <1>4, <2>2, <2>3 DEF MoveAssign
<1>5. ASSUME NEW c \in Container, NEW a, Starts(c, a), table' = table
      PROVE  TablesPlain'
  <2>1. table[c] = Nothing /\ \A e \in Container \ {c} : alloc'[e] = alloc[e]
    BY <1>1, <1>5, NothingIsNone DEF Starts, IInv, AllSound, Sound
  <2> QED BY <1>5, <2>1 DEF TablesPlain, PlainTable, Tailored
<1>6. ASSUME table' = table, alloc' = alloc
      PROVE  TablesPlain'
  BY <1>6 DEF TablesPlain, PlainTable, Tailored
<1>7. ASSUME NEW t \in Thread, ResetThreadDefault(t) \/ \E p \in Root : SetThreadDefault(t, p)
      PROVE  TablesPlain'
  BY <1>6, <1>7 DEF ResetThreadDefault, SetThreadDefault, containerVars
<1>8. ASSUME NEW t \in Thread, NEW T \in Type,
             ResetAllocatorDefault(t, T) \/ \E p \in Root : SetAllocatorDefault(t, T, p)
      PROVE  TablesPlain'
  BY <1>6, <1>8 DEF ResetAllocatorDefault, SetAllocatorDefault
<1>9. ASSUME NEW T \in Type, EnsureOptimized(T) PROVE TablesPlain'
  BY <1>6, <1>9 DEF EnsureOptimized
<1>10. ASSUME NEW t \in Thread, NEW c \in Container, NEW T \in Held, MakeDefault(t, c, T)
       PROVE  TablesPlain'
  BY <1>5, <1>10 DEF MakeDefault
<1>11. ASSUME NEW c \in Container, NEW T \in Held, NEW p \in Root, MakeIn(c, T, p)
       PROVE  TablesPlain'
  BY <1>5, <1>11 DEF MakeIn
<1>12. ASSUME NEW c \in Container, NEW d \in Container, NEW T \in Type, MakeFrom(c, d, T)
       PROVE  TablesPlain'
  BY <1>5, <1>12 DEF MakeFrom
<1>13. CASE UNCHANGED vars
  BY <1>6, <1>13 DEF vars, containerVars
<1>14. Held \subseteq Type
  BY MemPoolAssumption
<1> QED BY <1>2, <1>3, <1>4, <1>7, <1>8, <1>9, <1>10, <1>11, <1>12, <1>13, <1>14 DEF Next

(* With pools that give every request for a type the same tailored pool,   *)
(* optimized or not, as IMemPool::mem_pool() does unless it is overridden  *)
(* (imempool.hpp 63-68), a table always goes back to where it came from: it*)
(* takes a pool that tells the two apart to get to what                    *)
(* TableFreedWhereAllocated has to except.                                 *)
THEOREM PlainPoolsReturnTables ==
  ASSUME OptimizedIsPlain
  PROVE  Spec => []EveryTableReturns
<1>1. Init => TablesPlain
  BY DEF Init, TablesPlain
<1>2. IInv /\ TablesPlain /\ [Next]_vars => TablesPlain'
  BY PlainNext
<1>3. IInv /\ TablesPlain => EveryTableReturns
  <2> SUFFICES ASSUME IInv, TablesPlain, NEW c \in Container, table[c] # Nothing
               PROVE  table[c] = TableAllocator(alloc[c])
    BY DEF EveryTableReturns
  <2>1. alloc[c] \in Allocator
    BY TableHasAllocator
  <2> QED BY <2>1, TableIsPlain DEF TablesPlain
<1> QED BY <1>1, <1>2, <1>3, Invariant, PTL DEF Spec
=============================================================================
