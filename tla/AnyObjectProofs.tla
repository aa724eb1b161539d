-------------------------- MODULE AnyObjectProofs --------------------------
(***************************************************************************)
(* Type correctness and memory safety of futoin::any, for every number of  *)
(* objects, types, blocks and pools.                                       *)
(*                                                                         *)
(* None of UsableUnlessTorn, UniqueOwner and NoLeak is inductive alone: an *)
(* assignment frees the block of its destination, so that the handlers of  *)
(* the other objects still find theirs only if no two objects own the same *)
(* block; a block taken for a copy must not be one that a throwing copy    *)
(* left behind.  IInv joins them.  Every operation is a composition of the *)
(* control modes, so the lemmas are about those: Cleanup makes an object   *)
(* empty, Place and MoveData fill an empty one.                            *)
(***************************************************************************)
EXTENDS AnyLvalue, TLAPS

TypeOrNone == Type \cup {NoType}

Buffers == [inst : TypeOrNone, val : Val \cup {Moved},
            ptr : Block \cup {NoBlock}, pool : Pool \cup {NoPool}]
Cells   == [inst : TypeOrNone, val : Val \cup {Moved}, pool : Pool \cup {NoPool}]

(* Handlers c, buffers d and heap h are well typed.                        *)
Typed(c, d, h) ==
  /\ c \in [Slot -> TypeOrNone]
  /\ d \in [Slot -> Buffers]
  /\ h \in [Block -> Cells]

(* Every handler finds its object.                                         *)
Found(c, d, h) ==
  /\ \A s \in Slot : c[s] \in SmallT => d[s].inst = c[s]
  /\ \A s \in Slot : c[s] \in BigT =>
       /\ d[s].ptr \in Block /\ d[s].pool \in Pool
       /\ h[d[s].ptr].inst = c[s] /\ h[d[s].ptr].pool = d[s].pool

Apart(c, d) ==
  \A s, o \in Slot :
    c[s] \in BigT /\ c[o] \in BigT /\ d[s].ptr = d[o].ptr => s = o

Reached(c, d, h, l) ==
  \A b \in Block : h[b].pool # NoPool =>
    b \in l \/ \E s \in Slot : c[s] \in BigT /\ d[s].ptr = b

Abandoned(h, l) == \A b \in l : h[b].inst = NoType /\ h[b].pool \in Pool

Sound(c, d, h, l) ==
  /\ Found(c, d, h) /\ Apart(c, d) /\ Reached(c, d, h, l) /\ Abandoned(h, l)

IInv ==
  /\ TypeOK
  /\ type_info = control
  /\ \A s \in Slot \ alive : control[s] = NoType
  /\ torn = {} => Sound(control, data, heap, lost)

-----------------------------------------------------------------------------
(* control_(Cleanup, s, s) keeps the types of the buffers and the heap.    *)
LEMMA CleanTyped ==
  ASSUME NEW s \in Slot, Typed(control, data, heap), Usable(s)
  PROVE  Typed(control, CleanData(s), CleanHeap(s))
BY TypeAssumption
DEF Typed, Usable, CleanData, CleanHeap, Free, Used, Buffers, Cells, TypeOrNone, Type

(* After control_(Cleanup, s, s), with s empty, every other object is as   *)
(* sound as before and no block is lost.                                   *)
LEMMA CleanSound ==
  ASSUME NEW s \in Slot, Typed(control, data, heap), lost \subseteq Block,
         Sound(control, data, heap, lost)
  PROVE  Sound([control EXCEPT ![s] = NoType], CleanData(s), CleanHeap(s), lost)
<1> DEFINE c == [control EXCEPT ![s] = NoType]
           d == CleanData(s)
           h == CleanHeap(s)
<1> USE TypeAssumption
<1>0. NoType \notin SmallT \cup BigT /\ SmallT \cap BigT = {}
  BY DEF Type
<1>1. CASE control[s] \in BigT
  <2>1. d = data /\ h = [heap EXCEPT ![data[s].ptr] = Free]
    BY <1>0, <1>1 DEF CleanData, CleanHeap
  <2>2. \A o \in Slot : c[o] \in BigT => o # s /\ control[o] \in BigT
                                         /\ data[o].ptr # data[s].ptr
    BY <1>0, <1>1 DEF Typed, Sound, Apart
  <2>3. data[s].ptr \in Block /\ heap[data[s].ptr].inst # NoType
    BY <1>0, <1>1 DEF Sound, Found
  <2>4. Found(c, d, h)
    BY <1>0, <2>1, <2>2, <2>3 DEF Sound, Found, Typed
  <2>5. Apart(c, d)
    BY <2>1, <2>2 DEF Sound, Apart
  <2>6. Reached(c, d, h, lost)
    <3> SUFFICES ASSUME NEW b \in Block, h[b].pool # NoPool, b \notin lost
                 PROVE  \E o \in Slot : c[o] \in BigT /\ d[o].ptr = b
      BY DEF Reached
    <3>1. b # data[s].ptr
      BY <2>1, <2>3 DEF Free, Used, Typed
    <3>2. heap[b].pool # NoPool
      BY <2>1, <3>1 DEF Typed
    <3>3. PICK o \in Slot : control[o] \in BigT /\ data[o].ptr = b
      BY <3>2 DEF Sound, Reached
    <3> QED BY <2>1, <3>1, <3>3 DEF Typed
  <2>7. Abandoned(h, lost)
    BY <2>1, <2>3 DEF Sound, Abandoned, Typed
  <2> QED BY <2>4, <2>5, <2>6, <2>7 DEF Sound
<1>2. CASE control[s] \notin BigT
  <2>1. h = heap /\ \A o \in Slot : d[o].ptr = data[o].ptr /\ d[o].pool = data[o].pool
                                    /\ (o # s => d[o].inst = data[o].inst)
    BY <1>2 DEF CleanData, CleanHeap, Typed, Buffers
  <2>2. \A o \in Slot : /\ c[o] \in BigT <=> control[o] \in BigT
                        /\ c[o] \in SmallT => o # s /\ control[o] \in SmallT
                        /\ o # s => c[o] = control[o]
    BY <1>0, <1>2 DEF Typed
  <2>3. Found(c, d, h)
    BY <1>2, <2>1, <2>2 DEF Sound, Found
  <2>4. Apart(c, d)
    BY <2>1, <2>2 DEF Sound, Apart
  <2>5. Reached(c, d, h, lost)
    BY <2>1, <2>2 DEF Sound, Reached
  <2> QED BY <2>1, <2>3, <2>4, <2>5 DEF Sound
<1> QED BY <1>1, <1>2

-----------------------------------------------------------------------------
(* Accessor<T>::set into an empty object.                                  *)
LEMMA PlaceTyped ==
  ASSUME NEW s \in Slot, NEW t \in Type, NEW v \in Val \cup {Moved},
         NEW p \in Pool \cup {NoPool}, NEW c, NEW d, NEW h, Typed(c, d, h),
         Place(s, t, v, p, d, h)
  PROVE  Typed([c EXCEPT ![s] = t], data', heap')
<1>1. [c EXCEPT ![s] = t] \in [Slot -> TypeOrNone]
  BY DEF Typed, TypeOrNone
<1>2. CASE t \in FundT \cup SmallT /\ data' = [d EXCEPT ![s] = Inline(t, v)] /\ heap' = h
  BY <1>1, <1>2 DEF Typed, Inline, Buffers, TypeOrNone
<1>3. ASSUME NEW b \in Block, heap' = [h EXCEPT ![b] = Used(t, v, p)],
             data' = [d EXCEPT ![s] = Pointer(b, p)]
      PROVE  Typed([c EXCEPT ![s] = t], data', heap')
  BY <1>1, <1>3 DEF Typed, Used, Pointer, Buffers, Cells, TypeOrNone
<1> QED BY <1>2, <1>3 DEF Place

LEMMA PlaceSound ==
  ASSUME NEW s \in Slot, NEW t \in Type, NEW v \in Val \cup {Moved}, NEW p,
         t \in BigT => p \in Pool,
         NEW c, NEW d, NEW h, NEW l \in SUBSET Block, Typed(c, d, h),
         c[s] = NoType, Sound(c, d, h, l), Place(s, t, v, p, d, h)
  PROVE  Sound([c EXCEPT ![s] = t], data', heap', l)
<1> DEFINE cc == [c EXCEPT ![s] = t]
<1> USE TypeAssumption
<1>0. NoType \notin SmallT \cup BigT /\ SmallT \cap BigT = {} /\ FundT \cap BigT = {}
      /\ FundT \cap SmallT = {}
  BY DEF Type
<1>1. CASE t \in FundT \cup SmallT /\ data' = [d EXCEPT ![s] = Inline(t, v)] /\ heap' = h
  <2>1. \A o \in Slot : cc[o] \in BigT <=> c[o] \in BigT
    BY <1>0, <1>1 DEF Typed
  <2>2. \A o \in Slot : o # s => cc[o] = c[o] /\ data'[o] = d[o]
    BY <1>1 DEF Typed
  <2>3. cc[s] = t /\ data'[s].inst = t
    BY <1>1 DEF Typed, Inline
  <2>4. t \notin BigT /\ c[s] \notin BigT
    BY <1>0, <1>1
  <2>5. Found(cc, data', heap')
    BY <1>1, <2>2, <2>3, <2>4 DEF Sound, Found
  <2>6. Apart(cc, data')
    BY <2>1, <2>2, <2>3, <2>4 DEF Sound, Apart
  <2>7. Reached(cc, data', heap', l)
    BY <1>1, <2>1, <2>2, <2>4 DEF Sound, Reached
  <2> QED BY <1>1, <2>5, <2>6, <2>7 DEF Sound
<1>2. ASSUME t \in BigT, NEW b \in Block, h[b] = Free,
             heap' = [h EXCEPT ![b] = Used(t, v, p)],
             data' = [d EXCEPT ![s] = Pointer(b, p)]
      PROVE  Sound(cc, data', heap', l)
  <2>1. \A o \in Slot : o # s => cc[o] = c[o] /\ data'[o] = d[o]
    BY <1>2 DEF Typed
  <2>2. cc[s] = t /\ data'[s].ptr = b /\ data'[s].pool = p
    BY <1>2 DEF Typed, Pointer
  <2>3. heap'[b].inst = t /\ heap'[b].pool = p /\ \A e \in Block : e # b => heap'[e] = h[e]
    BY <1>2 DEF Typed, Used
  <2>4. h[b].inst = NoType /\ h[b].pool = NoPool
    BY <1>2 DEF Free, Used
  <2>5. \A o \in Slot : c[o] \in BigT => d[o].ptr # b /\ o # s
    BY <1>0, <2>4 DEF Sound, Found
  <2>6. Found(cc, data', heap')
    BY <1>0, <1>2, <2>1, <2>2, <2>3, <2>5 DEF Sound, Found
  <2>7. Apart(cc, data')
    BY <2>1, <2>2, <2>5 DEF Sound, Apart
  <2>8. Reached(cc, data', heap', l)
    <3> SUFFICES ASSUME NEW e \in Block, heap'[e].pool # NoPool, e \notin l
                 PROVE  \E o \in Slot : cc[o] \in BigT /\ data'[o].ptr = e
      BY DEF Reached
    <3>1. CASE e = b
      BY <1>2, <2>2, <3>1
    <3>2. CASE e # b
      <4>1. PICK o \in Slot : c[o] \in BigT /\ d[o].ptr = e
        BY <2>3, <3>2 DEF Sound, Reached
      <4> QED BY <2>1, <2>5, <4>1
    <3> QED BY <3>1, <3>2
  <2>9. Abandoned(heap', l)
    BY <2>3, <2>4 DEF Sound, Abandoned
  <2> QED BY <2>6, <2>7, <2>8, <2>9 DEF Sound
<1> QED BY <1>1, <1>2 DEF Place

-----------------------------------------------------------------------------
(* control_(Move, o, s) into an empty object, which leaves o empty.        *)
LEMMA MoveTyped ==
  ASSUME NEW s \in Slot, NEW o \in Slot, s # o, NEW c, NEW d, NEW h,
         Typed(c, d, h), control[o] = c[o]
  PROVE  Typed([c EXCEPT ![s] = c[o], ![o] = NoType], MoveData(s, o, d), h)
<1>1. [c EXCEPT ![s] = c[o], ![o] = NoType] \in [Slot -> TypeOrNone]
  BY DEF Typed, TypeOrNone
<1>2. MoveData(s, o, d) \in [Slot -> Buffers]
  BY DEF Typed, MoveData, Inline, Pointer, Buffers, TypeOrNone
<1> QED BY <1>1, <1>2 DEF Typed

LEMMA MoveSound ==
  ASSUME NEW s \in Slot, NEW o \in Slot, s # o, NEW c, NEW d, NEW h,
         NEW l \in SUBSET Block, Typed(c, d, h), control[o] = c[o],
         c[s] = NoType, Sound(c, d, h, l)
  PROVE  Sound([c EXCEPT ![s] = c[o], ![o] = NoType], MoveData(s, o, d), h, l)
<1> DEFINE cc == [c EXCEPT ![s] = c[o], ![o] = NoType]
           dd == MoveData(s, o, d)
<1> USE TypeAssumption
<1>0. NoType \notin SmallT \cup BigT /\ SmallT \cap BigT = {} /\ FundT \cap BigT = {}
      /\ FundT \cap SmallT = {}
  BY DEF Type
<1>1. \A e \in Slot : e # s /\ e # o => cc[e] = c[e] /\ dd[e] = d[e]
  BY DEF Typed, MoveData
<1>2. cc[s] = c[o] /\ cc[o] = NoType
  BY DEF Typed
<1>3. c[o] \in SmallT => dd[s].inst = c[o]
  BY <1>0 DEF Typed, MoveData, Inline
<1>4. c[o] \in BigT => dd[s].ptr = d[o].ptr /\ dd[s].pool = d[o].pool
  BY DEF Typed, MoveData, Pointer
<1>5. Found(cc, dd, h)
  <2> SUFFICES ASSUME NEW e \in Slot
               PROVE  /\ cc[e] \in SmallT => dd[e].inst = cc[e]
                      /\ cc[e] \in BigT =>
                           /\ dd[e].ptr \in Block /\ dd[e].pool \in Pool
                           /\ h[dd[e].ptr].inst = cc[e]
                           /\ h[dd[e].ptr].pool = dd[e].pool
    BY DEF Found
  <2>1. CASE e = s
    BY <1>2, <1>3, <1>4, <2>1 DEF Sound, Found
  <2>2. CASE e = o
    BY <1>0, <1>2, <2>2
  <2>3. CASE e # s /\ e # o
    BY <1>1, <2>3 DEF Sound, Found
  <2> QED BY <2>1, <2>2, <2>3
<1>6. Apart(cc, dd)
  <2> SUFFICES ASSUME NEW e \in Slot, NEW f \in Slot, cc[e] \in BigT, cc[f] \in BigT,
                      dd[e].ptr = dd[f].ptr
               PROVE  e = f
    BY DEF Apart
  <2>1. e # o /\ f # o
    BY <1>0, <1>2
  <2>2. CASE e = s /\ f # s
    BY <1>1, <1>2, <1>4, <2>1, <2>2 DEF Sound, Apart
  <2>3. CASE f = s /\ e # s
    BY <1>1, <1>2, <1>4, <2>1, <2>3 DEF Sound, Apart
  <2>4. CASE e # s /\ f # s
    BY <1>1, <2>1, <2>4 DEF Sound, Apart
  <2> QED BY <2>2, <2>3, <2>4
<1>7. Reached(cc, dd, h, l)
  <2> SUFFICES ASSUME NEW b \in Block, h[b].pool # NoPool, b \notin l
               PROVE  \E e \in Slot : cc[e] \in BigT /\ dd[e].ptr = b
    BY DEF Reached
  <2>1. PICK e \in Slot : c[e] \in BigT /\ d[e].ptr = b
    BY DEF Sound, Reached
  <2>2. e # s
    BY <1>0, <2>1
  <2>3. CASE e = o
    BY <1>2, <1>4, <2>1, <2>3
  <2>4. CASE e # o
    BY <1>1, <2>1, <2>2, <2>4
  <2> QED BY <2>3, <2>4
<1> QED BY <1>5, <1>6, <1>7 DEF Sound

-----------------------------------------------------------------------------
(* A copy that throws abandons the block it was meant for.                 *)
LEMMA LoseTyped ==
  ASSUME NEW t \in Type, NEW p \in Pool \cup {NoPool}, NEW c, NEW d, NEW h,
         Typed(c, d, h), lost \subseteq Block, LoseBlock(t, p, h)
  PROVE  Typed(c, d, heap') /\ lost' \subseteq Block
BY DEF LoseBlock, Typed, Used, Cells, TypeOrNone

LEMMA LoseSound ==
  ASSUME NEW t \in Type, NEW p, t \in BigT => p \in Pool, NEW c, NEW d, NEW h,
         Typed(c, d, h), lost \subseteq Block, Sound(c, d, h, lost),
         LoseBlock(t, p, h)
  PROVE  Sound(c, d, heap', lost')
<1> USE TypeAssumption
<1>1. CASE heap' = h /\ lost' = lost
  BY <1>1
<1>2. ASSUME t \in BigT, NEW b \in Block, h[b] = Free,
             heap' = [h EXCEPT ![b] = Used(NoType, Moved, p)],
             lost' = lost \cup {b}
      PROVE  Sound(c, d, heap', lost')
  <2>1. h[b].inst = NoType /\ heap'[b].inst = NoType /\ heap'[b].pool \in Pool
    BY <1>2 DEF Free, Used, Typed
  <2>2. \A e \in Block : e # b => heap'[e] = h[e]
    BY <1>2 DEF Typed
  <2>3. \A o \in Slot : c[o] \in BigT => d[o].ptr # b
    BY <2>1 DEF Sound, Found, Type
  <2>4. Found(c, d, heap')
    BY <2>2, <2>3 DEF Sound, Found
  <2>5. Reached(c, d, heap', lost')
    BY <1>2, <2>2 DEF Sound, Reached
  <2>6. Abandoned(heap', lost')
    BY <1>2, <2>1, <2>2 DEF Sound, Abandoned
  <2> QED BY <2>4, <2>5, <2>6 DEF Sound
<1> QED BY <1>1, <1>2 DEF LoseBlock

-----------------------------------------------------------------------------
(* new_copy() into an empty object s, from the buffers d and the heap h    *)
(* that an assignment may have cleaned before.                             *)
LEMMA CopyTyped ==
  ASSUME NEW s \in Slot, NEW o \in Slot, TypeOK, NEW c, NEW d, NEW h,
         Typed(c, d, h), c[s] = NoType, d[o].pool = data[o].pool,
         CopyFrom(s, o, d, h)
  PROVE  Typed([c EXCEPT ![s] = control[o]], data', heap')
<1>1. CASE control[o] = NoType
  BY <1>1 DEF CopyFrom, Typed
<1>2. CASE control[o] # NoType
  <2>1. control[o] \in Type /\ data[o].pool \in Pool \cup {NoPool}
        /\ Content(o) \in Val \cup {Moved}
    BY <1>2 DEF TypeOK, Content
  <2> QED BY <1>2, <2>1, PlaceTyped DEF CopyFrom
<1> QED BY <1>1, <1>2

LEMMA CopySound ==
  ASSUME NEW s \in Slot, NEW o \in Slot, TypeOK, NEW c, NEW d, NEW h,
         Typed(c, d, h), c[s] = NoType, c[o] = control[o],
         d[o].pool = data[o].pool, Sound(c, d, h, lost), CopyFrom(s, o, d, h)
  PROVE  Sound([c EXCEPT ![s] = control[o]], data', heap', lost)
<1>1. CASE control[o] = NoType
  <2>1. [c EXCEPT ![s] = control[o]] = c
    BY <1>1 DEF Typed
  <2> QED BY <1>1, <2>1 DEF CopyFrom
<1>2. CASE control[o] # NoType
  <2>1. control[o] \in Type /\ lost \in SUBSET Block
        /\ Content(o) \in Val \cup {Moved}
    BY <1>2 DEF TypeOK, Content
  <2>2. control[o] \in BigT => data[o].pool \in Pool
    BY DEF Sound, Found
  <2> QED BY <1>2, <2>1, <2>2, PlaceSound DEF CopyFrom
<1> QED BY <1>1, <1>2

(* What is in the buffer of an empty object does not matter.               *)
LEMMA ForgetSound ==
  ASSUME NEW s \in Slot, NEW x \in Buffers, NEW c, NEW d, NEW h, NEW l,
         Typed(c, d, h), c[s] = NoType, Sound(c, d, h, l)
  PROVE  /\ Typed(c, [d EXCEPT ![s] = x], h)
         /\ Sound(c, [d EXCEPT ![s] = x], h, l)
<1> DEFINE dd == [d EXCEPT ![s] = x]
<1>1. \A o \in Slot : o # s => dd[o] = d[o]
  BY DEF Typed
<1>2. c[s] \notin SmallT \cup BigT
  BY TypeAssumption DEF Type
<1>3. Found(c, dd, h)
  BY <1>1, <1>2 DEF Sound, Found
<1>4. Apart(c, dd)
  BY <1>1, <1>2 DEF Sound, Apart
<1>5. Reached(c, dd, h, l)
  BY <1>1, <1>2 DEF Sound, Reached
<1> QED BY <1>3, <1>4, <1>5 DEF Sound, Typed

(* A move out of the object of o changes nothing but its value.            *)
LEMMA SpoilSound ==
  ASSUME NEW o \in Slot, Usable(o), NEW c, NEW d, NEW h,
         NEW l \in SUBSET Block, Typed(c, d, h)
  PROVE  /\ Typed(c, SpoilData(o, d), SpoilHeap(o, h))
         /\ Sound(c, d, h, l) => Sound(c, SpoilData(o, d), SpoilHeap(o, h), l)
<1> DEFINE dd == SpoilData(o, d)
           hh == SpoilHeap(o, h)
<1>1. dd \in [Slot -> Buffers] /\ \A s \in Slot : /\ dd[s].inst = d[s].inst
                                                 /\ dd[s].ptr = d[s].ptr
                                                 /\ dd[s].pool = d[s].pool
  BY DEF Typed, SpoilData, Buffers
<1>2. hh \in [Block -> Cells] /\ \A b \in Block : /\ hh[b].inst = h[b].inst
                                                 /\ hh[b].pool = h[b].pool
  BY DEF Typed, SpoilHeap, Usable, Cells
<1> HIDE DEF dd, hh
<1>3. Sound(c, d, h, l) => Found(c, dd, hh)
  BY <1>1, <1>2 DEF Sound, Found
<1>4. Sound(c, d, h, l) => Apart(c, dd)
  BY <1>1 DEF Sound, Apart
<1>5. Sound(c, d, h, l) => Reached(c, dd, hh, l)
  BY <1>1, <1>2 DEF Sound, Reached
<1>6. Sound(c, d, h, l) => Abandoned(hh, l)
  BY <1>2 DEF Sound, Abandoned
<1>7. Typed(c, dd, hh)
  BY <1>1, <1>2 DEF Typed
<1> QED BY <1>3, <1>4, <1>5, <1>6, <1>7 DEF Sound, dd, hh

-----------------------------------------------------------------------------
LEMMA InvParts ==
  ASSUME IInv
  PROVE  /\ TypeOK /\ Typed(control, data, heap) /\ lost \subseteq Block
         /\ type_info = control
BY DEF IInv, TypeOK, Typed, TypeOrNone, Buffers, Cells

(* What a step has to show to keep IInv.                                   *)
LEMMA InvNext ==
  ASSUME alive' \subseteq Slot, torn' \subseteq Slot, lost' \subseteq Block,
         local' \in Pool, type_info' = control', Typed(control', data', heap'),
         \A s \in Slot \ alive' : control'[s] = NoType,
         torn' = {} => Sound(control', data', heap', lost')
  PROVE  IInv'
BY DEF IInv, TypeOK, Typed, TypeOrNone, Buffers, Cells, Sound, Found, Apart,
       Reached, Abandoned

(* An any that is not alive is empty, and so is one after Cleanup.         *)
LEMMA Emptied ==
  ASSUME NEW s \in Slot, IInv
  PROVE  /\ s \notin alive =>
              control[s] = NoType /\ [control EXCEPT ![s] = NoType] = control
         /\ [control EXCEPT ![s] = NoType][s] = NoType
BY InvParts DEF IInv, Typed

THEOREM InitInv == Init => IInv
<1> SUFFICES ASSUME Init PROVE IInv
  OBVIOUS
<1> USE DEF Init
<1>1. TypeOK
  BY DEF TypeOK, Inline, Free, Used
<1>2. \A s \in Slot : control[s] \notin SmallT \cup BigT
  BY TypeAssumption DEF Type
<1>3. \A b \in Block : heap[b].pool = NoPool
  BY DEF Free, Used
<1>4. Sound(control, data, heap, lost)
  BY <1>2, <1>3 DEF Sound, Found, Apart, Reached, Abandoned
<1> QED BY <1>1, <1>4 DEF IInv

LEMMA ConstructInv ==
  ASSUME IInv, NEW s \in Slot, Construct(s) PROVE IInv'
<1>1. control' = control /\ type_info' = control
  BY InvParts, Emptied DEF Construct, SetType
<1> QED BY <1>1, InvParts, InvNext DEF Construct, IInv, TypeOK

LEMMA ConstructValueInv ==
  ASSUME IInv, NEW s \in Slot, NEW t \in Type, NEW v \in Val,
         ConstructValue(s, t, v)
  PROVE  IInv'
<1>1. control' = [control EXCEPT ![s] = t] /\ type_info' = control'
  BY InvParts DEF ConstructValue, SetType
<1>2. Typed(control', data', heap')
  BY <1>1, InvParts, PlaceTyped DEF ConstructValue, TypeOK
<1>3. torn' = {} => Sound(control', data', heap', lost')
  BY <1>1, InvParts, Emptied, PlaceSound DEF ConstructValue, IInv, TypeOK
<1>4. \A o \in Slot \ alive' : control'[o] = NoType
  BY <1>1, InvParts DEF ConstructValue, IInv, Typed
<1> QED BY <1>1, <1>2, <1>3, <1>4, InvNext DEF ConstructValue, IInv, TypeOK

LEMMA ConstructCopyInv ==
  ASSUME IInv, NEW s \in Slot, NEW o \in Slot, ConstructCopy(s, o)
  PROVE  IInv'
<1>1. control' = [control EXCEPT ![s] = control[o]] /\ type_info' = control'
  BY InvParts DEF ConstructCopy, SetType
<1>2. control[s] = NoType
  BY Emptied DEF ConstructCopy
<1>3. Typed(control', data', heap')
  BY <1>1, <1>2, InvParts, CopyTyped DEF ConstructCopy
<1>4. torn' = {} => Sound(control', data', heap', lost')
  BY <1>1, <1>2, InvParts, CopySound DEF ConstructCopy, IInv
<1>5. \A e \in Slot \ alive' : control'[e] = NoType
  BY <1>1, InvParts DEF ConstructCopy, IInv, Typed
<1> QED BY <1>1, <1>3, <1>4, <1>5, InvNext DEF ConstructCopy, IInv, TypeOK

LEMMA ConstructMoveInv ==
  ASSUME IInv, NEW s \in Slot, NEW o \in Slot, ConstructMove(s, o)
  PROVE  IInv'
<1>1. control' = [control EXCEPT ![s] = control[o], ![o] = NoType]
      /\ type_info' = control'
  BY InvParts DEF ConstructMove
<1>2. s # o /\ control[s] = NoType
  BY Emptied DEF ConstructMove
<1>3. data' = MoveData(s, o, data) /\ heap' = heap /\ lost' = lost
  BY DEF ConstructMove
<1>4. Typed(control', data', heap')
  <2>1. Typed([control EXCEPT ![s] = control[o], ![o] = NoType],
              MoveData(s, o, data), heap)
    BY <1>2, InvParts, MoveTyped
  <2> QED BY <1>1, <1>3, <2>1
<1>5. torn' = {} => Sound(control', data', heap', lost')
  <2> SUFFICES ASSUME torn = {}
               PROVE  Sound(control', data', heap', lost')
    BY DEF ConstructMove
  <2>1. Sound([control EXCEPT ![s] = control[o], ![o] = NoType],
              MoveData(s, o, data), heap, lost)
    BY <1>2, InvParts, MoveSound DEF IInv
  <2> QED BY <1>1, <1>3, <2>1
<1>6. \A e \in Slot \ alive' : control'[e] = NoType
  BY <1>1, InvParts DEF ConstructMove, IInv, Typed
<1> QED BY <1>1, <1>4, <1>5, <1>6, InvNext DEF ConstructMove, IInv, TypeOK

(* What Cleanup leaves behind in a live any, before it is filled again.    *)
LEMMA Cleaned ==
  ASSUME IInv, NEW s \in Slot, Usable(s)
  PROVE  /\ Typed([control EXCEPT ![s] = NoType], CleanData(s), CleanHeap(s))
         /\ torn = {} => Sound([control EXCEPT ![s] = NoType], CleanData(s),
                               CleanHeap(s), lost)
<1>1. Typed(control, CleanData(s), CleanHeap(s))
  BY InvParts, CleanTyped
<1>2. Typed([control EXCEPT ![s] = NoType], CleanData(s), CleanHeap(s))
  BY <1>1 DEF Typed, TypeOrNone
<1> QED BY <1>2, InvParts, CleanSound DEF IInv

LEMMA AssignMoveInv ==
  ASSUME IInv, NEW s \in Slot, NEW o \in Slot, AssignMove(s, o)
  PROVE  IInv'
<1> DEFINE c == [control EXCEPT ![s] = NoType]
           d == CleanData(s)
           h == CleanHeap(s)
<1>1. control' = [control EXCEPT ![s] = control[o], ![o] = NoType]
      /\ type_info' = control'
  BY InvParts DEF AssignMove
<1>2. s # o /\ s \in alive /\ o \in alive /\ Usable(s)
  BY DEF AssignMove
<1>3. control' = [c EXCEPT ![s] = c[o], ![o] = NoType] /\ c[o] = control[o]
      /\ c[s] = NoType
  BY <1>1, <1>2, InvParts DEF Typed
<1>4. data' = MoveData(s, o, d) /\ heap' = h /\ lost' = lost /\ torn' = torn
  BY DEF AssignMove
<1>5. Typed(c, d, h) /\ (torn = {} => Sound(c, d, h, lost))
  BY <1>2, Cleaned
<1> HIDE DEF c, d, h
<1>6. Typed([c EXCEPT ![s] = c[o], ![o] = NoType], MoveData(s, o, d), h)
  BY <1>2, <1>3, <1>5, MoveTyped
<1>7. torn = {} => Sound([c EXCEPT ![s] = c[o], ![o] = NoType],
                         MoveData(s, o, d), h, lost)
  BY <1>2, <1>3, <1>5, InvParts, MoveSound
<1>8. \A e \in Slot \ alive' : control'[e] = NoType
  BY <1>1, <1>2, InvParts DEF AssignMove, IInv, Typed
<1> QED BY <1>1, <1>3, <1>4, <1>6, <1>7, <1>8, InvNext DEF AssignMove, IInv, TypeOK

LEMMA AssignCopyInv ==
  ASSUME IInv, NEW s \in Slot, NEW o \in Slot, AssignCopy(s, o)
  PROVE  IInv'
<1> DEFINE c == [control EXCEPT ![s] = NoType]
           d == CleanData(s)
           h == CleanHeap(s)
<1>1. control' = [control EXCEPT ![s] = control[o]] /\ type_info' = control'
  BY InvParts DEF AssignCopy, SetType
<1>2. s # o /\ s \in alive /\ Usable(s)
  BY DEF AssignCopy
<1>3. control' = [c EXCEPT ![s] = control[o]] /\ c[o] = control[o] /\ c[s] = NoType
  BY <1>1, <1>2, InvParts DEF Typed
<1>4. CopyFrom(s, o, d, h) /\ lost' = lost /\ torn' = torn
  BY DEF AssignCopy
<1>5. Typed(c, d, h) /\ (torn = {} => Sound(c, d, h, lost))
  BY <1>2, Cleaned
<1>6. d[o].pool = data[o].pool
  BY <1>2, InvParts DEF Typed, CleanData
<1> HIDE DEF c, d, h
<1>7. Typed(control', data', heap')
  BY <1>3, <1>4, <1>5, <1>6, InvParts, CopyTyped
<1>8. torn = {} => Sound(control', data', heap', lost)
  BY <1>3, <1>4, <1>5, <1>6, InvParts, CopySound
<1>9. \A e \in Slot \ alive' : control'[e] = NoType
  BY <1>1, <1>2, InvParts DEF AssignCopy, IInv, Typed
<1> QED BY <1>1, <1>4, <1>7, <1>8, <1>9, InvNext DEF AssignCopy, IInv, TypeOK

LEMMA AssignValueInv ==
  ASSUME IInv, NEW s \in Slot, NEW t \in Type, NEW v \in Val,
         AssignValue(s, t, v)
  PROVE  IInv'
<1> DEFINE c == [control EXCEPT ![s] = NoType]
           d == CleanData(s)
           h == CleanHeap(s)
<1>1. control' = [control EXCEPT ![s] = t] /\ type_info' = control'
  BY InvParts DEF AssignValue, SetType
<1>2. control' = [c EXCEPT ![s] = t] /\ c[s] = NoType
  BY <1>1, InvParts DEF Typed
<1>3. Place(s, t, v, local, d, h) /\ lost' = lost /\ torn' = torn /\ local \in Pool
  BY DEF AssignValue, IInv, TypeOK
<1>4. Typed(c, d, h) /\ (torn = {} => Sound(c, d, h, lost))
  BY Cleaned DEF AssignValue
<1> HIDE DEF c, d, h
<1>5. Typed(control', data', heap')
  BY <1>2, <1>3, <1>4, PlaceTyped
<1>6. torn = {} => Sound(control', data', heap', lost)
  BY <1>2, <1>3, <1>4, InvParts, PlaceSound
<1>7. \A e \in Slot \ alive' : control'[e] = NoType
  BY <1>1, InvParts DEF AssignValue, IInv, Typed
<1> QED BY <1>1, <1>3, <1>5, <1>6, <1>7, InvNext DEF AssignValue, IInv, TypeOK

LEMMA ResetInv ==
  ASSUME IInv, NEW s \in Slot, Reset(s) PROVE IInv'
<1>1. control' = [control EXCEPT ![s] = NoType] /\ type_info' = control'
  BY InvParts DEF Reset, SetType
<1>2. \A e \in Slot \ alive' : control'[e] = NoType
  BY <1>1, InvParts DEF Reset, IInv, Typed
<1> QED BY <1>1, <1>2, Cleaned, InvNext DEF Reset, IInv, TypeOK

LEMMA DestroyInv ==
  ASSUME IInv, NEW s \in Slot, Destroy(s) PROVE IInv'
<1> DEFINE c == [control EXCEPT ![s] = NoType]
           d == CleanData(s)
           h == CleanHeap(s)
           x == Inline(NoType, Moved)
<1>1. control' = c /\ type_info' = control' /\ heap' = h /\ lost' = lost /\ torn' = torn
  BY InvParts DEF Destroy, SetType
<1>2. data' = [d EXCEPT ![s] = x]
  BY InvParts DEF Destroy, CleanData, Typed
<1>3. Typed(c, d, h) /\ (torn = {} => Sound(c, d, h, lost))
  BY Cleaned DEF Destroy
<1>4. c[s] = NoType /\ x \in Buffers
  BY InvParts DEF Typed, Inline, Buffers, TypeOrNone
<1>5. \A e \in Slot \ alive' : control'[e] = NoType
  BY <1>1, InvParts DEF Destroy, IInv, Typed
<1> HIDE DEF c, d, h, x
<1>6. Typed(control', data', heap')
  <2>1. [d EXCEPT ![s] = x] \in [Slot -> Buffers]
    BY <1>3, <1>4 DEF Typed
  <2> QED BY <1>1, <1>2, <1>3, <2>1 DEF Typed
<1>7. torn = {} => Sound(control', data', heap', lost)
  BY <1>1, <1>2, <1>3, <1>4, ForgetSound
<1> QED BY <1>1, <1>5, <1>6, <1>7, InvNext DEF Destroy, IInv, TypeOK

LEMMA WriteInv ==
  ASSUME IInv, NEW s \in Slot, NEW t \in Type, NEW v \in Val \cup {Moved},
         Write(s, t, v)
  PROVE  IInv'
<1>1. UNCHANGED <<alive, type_info, control, local, torn, lost>>
  BY DEF Write
<1>2. CASE control[s] \in BigT
  <2>1. data' = data /\ heap' = [heap EXCEPT ![data[s].ptr].val = v]
    BY <1>2 DEF Write
  <2>2. data[s].ptr \in Block
    BY <1>2 DEF Write, Usable
  <2>3. heap' \in [Block -> Cells]
    BY <2>1, <2>2, InvParts DEF Typed, Cells
  <2>4. \A b \in Block : heap'[b].inst = heap[b].inst /\ heap'[b].pool = heap[b].pool
    BY <2>1, <2>2, InvParts DEF Typed, Cells
  <2>5. torn' = {} => Sound(control', data', heap', lost')
    BY <1>1, <2>1, <2>4, InvParts DEF IInv, Sound, Found, Apart, Reached, Abandoned
  <2>6. Typed(control', data', heap')
    BY <1>1, <2>1, <2>3, InvParts DEF Typed
  <2> QED BY <1>1, <2>5, <2>6, InvNext DEF IInv, TypeOK
<1>3. CASE control[s] \notin BigT
  <2>1. heap' = heap /\ data' = [data EXCEPT ![s].val = v]
    BY <1>3 DEF Write
  <2>2. data' \in [Slot -> Buffers]
    BY <2>1, InvParts DEF Typed, Buffers
  <2>3. \A o \in Slot : /\ data'[o].inst = data[o].inst
                        /\ data'[o].ptr = data[o].ptr
                        /\ data'[o].pool = data[o].pool
    BY <2>1, InvParts DEF Typed, Buffers
  <2>4. torn' = {} => Sound(control', data', heap', lost')
    BY <1>1, <2>1, <2>3, InvParts DEF IInv, Sound, Found, Apart, Reached, Abandoned
  <2>5. Typed(control', data', heap')
    BY <1>1, <2>1, <2>2, InvParts DEF Typed
  <2> QED BY <1>1, <2>4, <2>5, InvNext DEF IInv, TypeOK
<1> QED BY <1>2, <1>3

(* What any_cast<T&>(o) refers to is a value of the type of o.             *)
LEMMA RefTyped ==
  ASSUME IInv, NEW o \in Slot, type_info[o] # NoType
  PROVE  /\ type_info[o] \in Type /\ Content(o) \in Val \cup {Moved}
         /\ local \in Pool /\ lost \in SUBSET Block
BY DEF IInv, TypeOK, Content

LEMMA ConstructFromRefInv ==
  ASSUME IInv, NEW s \in Slot, NEW o \in Slot, ConstructFromRef(s, o)
  PROVE  IInv'
<1> DEFINE t == type_info[o]
           d == SpoilData(o, data)
           h == SpoilHeap(o, heap)
<1>1. control' = [control EXCEPT ![s] = t] /\ type_info' = control'
  BY InvParts DEF ConstructFromRef, SetType
<1>2. Place(s, t, Content(o), local, d, h) /\ lost' = lost /\ torn' = torn
      /\ control[s] = NoType
  BY Emptied DEF ConstructFromRef
<1>3. t \in Type /\ Content(o) \in Val \cup {Moved} /\ local \in Pool
      /\ lost \in SUBSET Block
  BY RefTyped DEF ConstructFromRef
<1>4. Typed(control, d, h) /\ (torn = {} => Sound(control, d, h, lost))
  BY <1>3, InvParts, SpoilSound DEF ConstructFromRef, IInv
<1>5. \A e \in Slot \ alive' : control'[e] = NoType
  BY <1>1, InvParts DEF ConstructFromRef, IInv, Typed
<1> HIDE DEF t, d, h
<1>6. Typed(control', data', heap')
  BY <1>1, <1>2, <1>3, <1>4, PlaceTyped
<1>7. torn' = {} => Sound(control', data', heap', lost')
  BY <1>1, <1>2, <1>3, <1>4, PlaceSound
<1> QED BY <1>1, <1>5, <1>6, <1>7, InvNext DEF ConstructFromRef, IInv, TypeOK

LEMMA AssignFromRefInv ==
  ASSUME IInv, NEW s \in Slot, NEW o \in Slot, AssignFromRef(s, o)
  PROVE  IInv'
<1> DEFINE t == type_info[o]
           c == [control EXCEPT ![s] = NoType]
           d == SpoilData(o, CleanData(s))
           h == SpoilHeap(o, CleanHeap(s))
<1>1. control' = [control EXCEPT ![s] = t] /\ type_info' = control'
  BY InvParts DEF AssignFromRef, SetType
<1>2. control' = [c EXCEPT ![s] = t] /\ c[s] = NoType
  BY <1>1, InvParts DEF Typed
<1>3. Place(s, t, Content(o), local, d, h) /\ lost' = lost /\ torn' = torn
  BY DEF AssignFromRef
<1>4. t \in Type /\ Content(o) \in Val \cup {Moved} /\ local \in Pool
      /\ lost \in SUBSET Block
  BY RefTyped DEF AssignFromRef
<1>5. Typed(c, CleanData(s), CleanHeap(s))
      /\ (torn = {} => Sound(c, CleanData(s), CleanHeap(s), lost))
  BY Cleaned DEF AssignFromRef
<1>6. Typed(c, d, h) /\ (torn = {} => Sound(c, d, h, lost))
  BY <1>4, <1>5, SpoilSound DEF AssignFromRef
<1>7. \A e \in Slot \ alive' : control'[e] = NoType
  BY <1>1, InvParts DEF AssignFromRef, IInv, Typed
<1> HIDE DEF t, c, d, h
<1>8. Typed(control', data', heap')
  BY <1>2, <1>3, <1>4, <1>6, PlaceTyped
<1>9. torn' = {} => Sound(control', data', heap', lost')
  BY <1>2, <1>3, <1>4, <1>6, PlaceSound
<1> QED BY <1>1, <1>7, <1>8, <1>9, InvNext DEF AssignFromRef, IInv, TypeOK

LEMMA AssignFromItselfInv ==
  ASSUME IInv, NEW s \in Slot, AssignFromItself(s)
  PROVE  IInv' /\ torn' # {}
<1> DEFINE t == type_info[s]
           c == [control EXCEPT ![s] = NoType]
           d == CleanData(s)
           h == CleanHeap(s)
<1>1. control' = [c EXCEPT ![s] = t] /\ type_info' = control'
  BY InvParts DEF AssignFromItself, SetType, Typed
<1>2. PICK v \in Val \cup {Moved} : Place(s, t, v, local, d, h)
  BY DEF AssignFromItself
<1>3. t \in Type /\ local \in Pool
  BY TypeAssumption DEF AssignFromItself, IInv, TypeOK, Type
<1>4. Typed(c, d, h)
  BY Cleaned DEF AssignFromItself
<1>5. \A e \in Slot \ alive' : control'[e] = NoType
  BY <1>1, InvParts DEF AssignFromItself, IInv, Typed
<1> HIDE DEF t, c, d, h
<1>6. Typed(control', data', heap')
  BY <1>1, <1>2, <1>3, <1>4, PlaceTyped
<1> QED BY <1>1, <1>5, <1>6, InvNext DEF AssignFromItself, IInv, TypeOK

LEMMA ConstructCopyThrowsInv ==
  ASSUME IInv, NEW s \in Slot, NEW o \in Slot, ConstructCopyThrows(s, o)
  PROVE  IInv'
<1>1. LoseBlock(control[o], data[o].pool, heap)
      /\ UNCHANGED <<alive, type_info, control, data, local, torn>>
  BY DEF ConstructCopyThrows
<1>2. control[o] \in Type /\ data[o].pool \in Pool \cup {NoPool}
  BY InvParts, TypeAssumption DEF ConstructCopyThrows, Typed, Buffers, Type
<1>3. Typed(control, data, heap') /\ lost' \subseteq Block
  BY <1>1, <1>2, InvParts, LoseTyped
<1>4. ASSUME torn = {}
      PROVE  Sound(control, data, heap', lost')
  <2>1. control[o] \in BigT => data[o].pool \in Pool
    BY <1>4 DEF IInv, Sound, Found
  <2> QED BY <1>1, <1>2, <1>4, <2>1, InvParts, LoseSound DEF IInv
<1> QED BY <1>1, <1>3, <1>4, InvNext DEF IInv, TypeOK

LEMMA AssignCopyThrowsInv ==
  ASSUME IInv, NEW s \in Slot, NEW o \in Slot, AssignCopyThrows(s, o)
  PROVE  IInv' /\ torn' # {}
<1>1. control' = [control EXCEPT ![s] = control[o]] /\ type_info' = control'
  BY InvParts DEF AssignCopyThrows, SetType
<1>2. data' = CleanData(s) /\ LoseBlock(control[o], data[o].pool, CleanHeap(s))
      /\ torn' = torn \cup {s} /\ alive' = alive /\ local' = local
  BY DEF AssignCopyThrows
<1>3. Typed(control, CleanData(s), CleanHeap(s))
  BY InvParts, CleanTyped DEF AssignCopyThrows
<1>4. control[o] \in Type /\ data[o].pool \in Pool \cup {NoPool}
  BY InvParts, TypeAssumption DEF AssignCopyThrows, Typed, Buffers, Type
<1>5. Typed(control, CleanData(s), heap') /\ lost' \subseteq Block
  BY <1>2, <1>3, <1>4, InvParts, LoseTyped
<1>6. Typed(control', data', heap')
  BY <1>1, <1>2, <1>4, <1>5 DEF Typed, TypeOrNone
<1>7. \A e \in Slot \ alive' : control'[e] = NoType
  BY <1>1, <1>2, InvParts DEF AssignCopyThrows, IInv, Typed
<1> QED BY <1>1, <1>2, <1>5, <1>6, <1>7, InvNext DEF IInv, TypeOK

LEMMA SetThreadDefaultInv ==
  ASSUME IInv, NEW p \in Pool, SetThreadDefault(p)
  PROVE  IInv'
BY InvParts, InvNext DEF SetThreadDefault, IInv, TypeOK

LEMMA StutterInv == ASSUME IInv, UNCHANGED vars PROVE IInv'
BY InvParts, InvNext DEF vars, IInv, TypeOK

THEOREM NextInv == IInv /\ [Next]_vars => IInv'
<1> SUFFICES ASSUME IInv, [Next]_vars PROVE IInv'
  OBVIOUS
<1>1. ASSUME NEW s \in Slot,
             Construct(s) \/ Reset(s) \/ Destroy(s) \/ AssignFromItself(s)
      PROVE  IInv'
  BY <1>1, ConstructInv, ResetInv, DestroyInv, AssignFromItselfInv
<1>2. ASSUME NEW s \in Slot, NEW t \in Type, NEW v \in Val,
             ConstructValue(s, t, v) \/ AssignValue(s, t, v)
      PROVE  IInv'
  BY <1>2, ConstructValueInv, AssignValueInv
<1>3. ASSUME NEW s \in Slot, NEW t \in Type, NEW v \in Val \cup {Moved},
             Write(s, t, v)
      PROVE  IInv'
  BY <1>3, WriteInv
<1>4. ASSUME NEW s \in Slot, NEW o \in Slot,
             \/ ConstructCopy(s, o) \/ ConstructMove(s, o)
             \/ AssignCopy(s, o) \/ AssignMove(s, o)
      PROVE  IInv'
  BY <1>4, ConstructCopyInv, ConstructMoveInv, AssignCopyInv, AssignMoveInv
<1>5. ASSUME NEW s \in Slot, NEW o \in Slot,
             \/ ConstructFromRef(s, o) \/ AssignFromRef(s, o)
             \/ ConstructCopyThrows(s, o) \/ AssignCopyThrows(s, o)
      PROVE  IInv'
  BY <1>5, ConstructFromRefInv, AssignFromRefInv, ConstructCopyThrowsInv,
     AssignCopyThrowsInv
<1>6. ASSUME NEW p \in Pool, SetThreadDefault(p) PROVE IInv'
  BY <1>6, SetThreadDefaultInv
<1> QED BY <1>1, <1>2, <1>3, <1>4, <1>5, <1>6, StutterInv DEF Next

(* The invariant every theorem below follows from.                         *)
THEOREM Invariance == Spec => []IInv
BY InitInv, NextInv, PTL DEF Spec

-----------------------------------------------------------------------------
(* Every any operation keeps the four words of an any object, the heap and *)
(* the thread's default pool within their types.                           *)
THEOREM TypeCorrect == Spec => []TypeOK
<1>1. IInv => TypeOK
  BY DEF IInv
<1> QED BY <1>1, Invariance, PTL

(* has_value(), type() and any_cast() describe the object that the control *)
(* handler destroys, torn objects included.                                *)
THEOREM TypeAgrees == Spec => []TypeMatchesControl
<1>1. IInv => TypeMatchesControl
  BY DEF IInv, TypeMatchesControl
<1> QED BY <1>1, Invariance, PTL

(* Until a copy assignment throws, every control handler finds the object  *)
(* it destroys, and frees it to the pool it came from.                     *)
THEOREM NoBadCleanup == Spec => []UsableUnlessTorn
<1>1. IInv => UsableUnlessTorn
  BY DEF IInv, UsableUnlessTorn, Usable, Sound, Found, TypeOK
<1> QED BY <1>1, Invariance, PTL

(* Until a copy assignment throws, no block has two owners: none is freed  *)
(* twice.                                                                  *)
THEOREM NoDoubleFree == Spec => []UniqueOwner
<1>1. IInv => UniqueOwner
  BY DEF IInv, UniqueOwner, Owns, Sound, Apart
<1> QED BY <1>1, Invariance, PTL

(* Until a copy assignment throws, every allocated block is owned by a     *)
(* live any or was abandoned by a throwing copy constructor.               *)
THEOREM NothingLost == Spec => []NoLeak
<1>1. ASSUME IInv PROVE NoLeak
  <2> SUFFICES ASSUME torn = {}, NEW b \in Block, heap[b].pool # NoPool,
                      b \notin lost
               PROVE  \E s \in Slot : Owns(s, b)
    BY DEF NoLeak
  <2>1. PICK s \in Slot : control[s] \in BigT /\ data[s].ptr = b
    BY <1>1 DEF IInv, Sound, Reached
  <2>2. s \in alive
    BY <1>1, <2>1, TypeAssumption DEF IInv, Type
  <2> QED BY <2>1, <2>2 DEF Owns
<1> QED BY <1>1, Invariance, PTL

-----------------------------------------------------------------------------
(* A buffer whose handler is of another type holds nothing but a shell.    *)
Shells(c, d) ==
  \A s \in Slot : /\ d[s].inst \in SmallT /\ d[s].inst # c[s] => d[s].val = Moved
                  /\ c[s] \in FundT => d[s].inst = c[s]

LEMMA CleanShells ==
  ASSUME NEW s \in Slot, Typed(control, data, heap), Shells(control, data), Usable(s)
  PROVE  Shells([control EXCEPT ![s] = NoType], CleanData(s))
<1> DEFINE c == [control EXCEPT ![s] = NoType]
           d == CleanData(s)
<1> USE TypeAssumption DEF Type
<1>1. \A o \in Slot : o # s => c[o] = control[o] /\ d[o] = data[o]
  BY DEF Typed, CleanData
<1>2. c[s] = NoType /\ NoType \notin SmallT \cup FundT
  BY DEF Typed
<1>3. d[s].val = data[s].val
      /\ d[s].inst = IF control[s] \in SmallT THEN NoType ELSE data[s].inst
  BY DEF Typed, CleanData, Buffers
<1>4. d[s].inst \in SmallT => d[s].val = Moved
  BY <1>2, <1>3 DEF Shells
<1> HIDE DEF c, d
<1>5. Shells(c, d)
  BY <1>1, <1>2, <1>4 DEF Shells
<1> QED BY <1>5 DEF c, d

LEMMA PlaceShells ==
  ASSUME NEW s \in Slot, NEW t \in Type, NEW v, NEW p, NEW c, NEW d, NEW h,
         Typed(c, d, h), Shells(c, d), Place(s, t, v, p, d, h)
  PROVE  Shells([c EXCEPT ![s] = t], data')
<1>1. CASE t \in FundT \cup SmallT /\ data' = [d EXCEPT ![s] = Inline(t, v)]
  BY <1>1 DEF Typed, Shells, Inline
<1>2. CASE t \in BigT /\ \E b \in Block : data' = [d EXCEPT ![s] = Pointer(b, p)]
  BY <1>2, TypeAssumption DEF Typed, Shells, Pointer, Type
<1> QED BY <1>1, <1>2 DEF Place

LEMMA MoveShells ==
  ASSUME NEW s \in Slot, NEW o \in Slot, s # o, NEW c, NEW d, NEW h,
         Typed(c, d, h), c[s] = NoType, control[o] = c[o], Shells(c, d)
  PROVE  Shells([c EXCEPT ![s] = c[o], ![o] = NoType], MoveData(s, o, d))
<1> DEFINE cc == [c EXCEPT ![s] = c[o], ![o] = NoType]
           dd == MoveData(s, o, d)
<1> USE TypeAssumption DEF Type
<1>1. \A e \in Slot : e # s /\ e # o => cc[e] = c[e] /\ dd[e] = d[e]
  BY DEF Typed, MoveData
<1>2. cc[s] = c[o] /\ cc[o] = NoType /\ NoType \notin SmallT \cup FundT \cup BigT
  BY DEF Typed
<1>3. /\ dd[s].inst \in SmallT /\ dd[s].inst # c[o] => dd[s].val = Moved
      /\ c[o] \in FundT => dd[s].inst = c[o]
      /\ dd[o].inst \in SmallT => dd[o].val = Moved
  <2>1. CASE c[o] \in BigT
    <3>1. dd = [d EXCEPT ![s] = Pointer(d[o].ptr, d[o].pool),
                         ![o] = Pointer(NoBlock, NoPool)]
      BY <2>1 DEF MoveData
    <3> QED BY <1>2, <2>1, <3>1 DEF Typed, Pointer
  <2>2. CASE c[o] \in SmallT
    <3>1. dd = [d EXCEPT ![s] = Inline(c[o], d[o].val), ![o].val = Moved]
      BY <2>2 DEF MoveData
    <3> QED BY <2>2, <3>1 DEF Typed, Inline, Buffers
  <2>3. CASE c[o] \in FundT
    <3>1. dd = [d EXCEPT ![s] = Inline(c[o], d[o].val)]
      BY <2>3 DEF MoveData
    <3> QED BY <2>3, <3>1 DEF Typed, Inline, Shells
  <2>4. CASE c[o] = NoType
    <3>1. dd = d
      BY <1>2, <2>4 DEF MoveData
    <3> QED BY <1>2, <2>4, <3>1 DEF Shells
  <2> QED BY <2>1, <2>2, <2>3, <2>4 DEF Typed, TypeOrNone
<1> HIDE DEF cc, dd
<1>4. Shells(cc, dd)
  BY <1>1, <1>2, <1>3 DEF Shells
<1> QED BY <1>4 DEF cc, dd

LEMMA SpoilShells ==
  ASSUME NEW o \in Slot, NEW c, NEW d, NEW h, Typed(c, d, h), Shells(c, d)
  PROVE  Shells(c, SpoilData(o, d))
BY DEF Typed, Shells, SpoilData, Buffers

SInv == IInv /\ Shells(control, data)

LEMMA CopyShells ==
  ASSUME IInv, NEW s \in Slot, NEW o \in Slot, NEW c, NEW d, NEW h,
         Typed(c, d, h), Shells(c, d), c[s] = NoType, CopyFrom(s, o, d, h)
  PROVE  Shells([c EXCEPT ![s] = control[o]], data')
<1>1. CASE control[o] = NoType
  BY <1>1 DEF CopyFrom, Typed, Shells
<1>2. CASE control[o] # NoType
  <2>1. control[o] \in Type
    BY <1>2 DEF IInv, TypeOK
  <2> QED BY <1>2, <2>1, PlaceShells DEF CopyFrom
<1> QED BY <1>1, <1>2

LEMMA NextShells ==
  ASSUME SInv, [Next]_vars
  PROVE  Shells(control', data')
<1> USE DEF SInv
<1>0. ASSUME NEW s \in Slot, Usable(s)
      PROVE  LET c == [control EXCEPT ![s] = NoType]
             IN /\ Typed(c, CleanData(s), CleanHeap(s)) /\ Shells(c, CleanData(s))
                /\ c[s] = NoType /\ \A t : [c EXCEPT ![s] = t] = [control EXCEPT ![s] = t]
  BY <1>0, Cleaned, CleanShells, InvParts DEF Typed
<1>1. ASSUME NEW s \in Slot, s \notin alive
      PROVE  control[s] = NoType
  BY <1>1 DEF IInv
<1>2. ASSUME NEW s \in Slot, Construct(s) \/ Reset(s) \/ Destroy(s)
      PROVE  Shells(control', data')
  <2>1. CASE Construct(s)
    BY <1>1, <2>1, InvParts DEF Construct, SetType, Typed, Shells
  <2>2. CASE Reset(s)
    BY <1>0, <2>2 DEF Reset, SetType
  <2>3. CASE Destroy(s)
    BY <2>3, InvParts, TypeAssumption
    DEF Destroy, SetType, Typed, Shells, Inline, Type
  <2> QED BY <1>2, <2>1, <2>2, <2>3
<1>3. ASSUME NEW s \in Slot, NEW t \in Type, NEW v \in Val,
             ConstructValue(s, t, v) \/ AssignValue(s, t, v)
      PROVE  Shells(control', data')
  <2>1. CASE ConstructValue(s, t, v)
    BY <2>1, InvParts, PlaceShells DEF ConstructValue, SetType
  <2>2. CASE AssignValue(s, t, v)
    BY <1>0, <2>2, PlaceShells DEF AssignValue, SetType
  <2> QED BY <1>3, <2>1, <2>2
<1>4. ASSUME NEW s \in Slot, NEW t \in Type, NEW v \in Val \cup {Moved}, Write(s, t, v)
      PROVE  Shells(control', data')
  <2>1. CASE control[s] \in BigT
    BY <1>4, <2>1 DEF Write
  <2>2. CASE control[s] \notin BigT
    <3>1. data' = [data EXCEPT ![s].val = v] /\ control' = control
          /\ control[s] = t /\ t # NoType
      BY <1>4, <2>2 DEF Write, IInv
    <3>2. control[s] \in FundT \cup SmallT /\ data[s].inst = control[s]
      BY <1>4, <2>2, <3>1 DEF Write, Usable, Shells, Type
    <3> QED BY <3>1, <3>2, InvParts DEF Typed, Shells, Buffers
  <2> QED BY <2>1, <2>2
<1>5. ASSUME NEW s \in Slot, NEW o \in Slot, ConstructCopy(s, o) \/ AssignCopy(s, o)
      PROVE  Shells(control', data')
  <2>1. CASE ConstructCopy(s, o)
    BY <1>1, <2>1, InvParts, CopyShells DEF ConstructCopy, SetType
  <2>2. CASE AssignCopy(s, o)
    BY <1>0, <2>2, CopyShells DEF AssignCopy, SetType
  <2> QED BY <1>5, <2>1, <2>2
<1>6. ASSUME NEW s \in Slot, NEW o \in Slot, ConstructMove(s, o) \/ AssignMove(s, o)
      PROVE  Shells(control', data')
  <2>1. CASE ConstructMove(s, o)
    BY <1>1, <2>1, InvParts, MoveShells DEF ConstructMove
  <2>2. CASE AssignMove(s, o)
    <3> DEFINE c == [control EXCEPT ![s] = NoType]
    <3>1. /\ Typed(c, CleanData(s), CleanHeap(s)) /\ Shells(c, CleanData(s))
          /\ c[s] = NoType /\ s # o
      BY <1>0, <2>2 DEF AssignMove
    <3>2. c[o] = control[o] /\ control' = [c EXCEPT ![s] = c[o], ![o] = NoType]
      BY <2>2, <3>1, InvParts DEF AssignMove, Typed
    <3>3. data' = MoveData(s, o, CleanData(s))
      BY <2>2 DEF AssignMove
    <3> HIDE DEF c
    <3> QED BY <3>1, <3>2, <3>3, MoveShells
  <2> QED BY <1>6, <2>1, <2>2
<1>7. ASSUME NEW s \in Slot, NEW o \in Slot,
             ConstructFromRef(s, o) \/ AssignFromRef(s, o)
      PROVE  Shells(control', data')
  <2>1. CASE ConstructFromRef(s, o)
    <3>1. /\ Typed(control, SpoilData(o, data), SpoilHeap(o, heap))
          /\ Shells(control, SpoilData(o, data))
      BY <2>1, InvParts, SpoilSound, SpoilShells DEF ConstructFromRef
    <3> QED BY <2>1, <3>1, RefTyped, PlaceShells DEF ConstructFromRef, SetType
  <2>2. CASE AssignFromRef(s, o)
    <3> DEFINE c == [control EXCEPT ![s] = NoType]
               d == SpoilData(o, CleanData(s))
               h == SpoilHeap(o, CleanHeap(s))
    <3>1. Typed(c, d, h) /\ Shells(c, d)
      BY <1>0, <2>2, InvParts, SpoilSound, SpoilShells DEF AssignFromRef
    <3>2. control' = [c EXCEPT ![s] = type_info[o]] /\ type_info[o] \in Type
      BY <1>0, <2>2, RefTyped DEF AssignFromRef, SetType
    <3>3. Place(s, type_info[o], Content(o), local, d, h)
      BY <2>2 DEF AssignFromRef
    <3> HIDE DEF c, d, h
    <3> QED BY <3>1, <3>2, <3>3, PlaceShells
  <2> QED BY <1>7, <2>1, <2>2
<1>8. ASSUME NEW s \in Slot, AssignFromItself(s)
      PROVE  Shells(control', data')
  <2>1. PICK v \in Val \cup {Moved} :
          Place(s, type_info[s], v, local, CleanData(s), CleanHeap(s))
    BY <1>8 DEF AssignFromItself
  <2>2. type_info[s] \in Type
    BY <1>8, TypeAssumption DEF AssignFromItself, Type
  <2> QED BY <1>0, <1>8, <2>1, <2>2, PlaceShells DEF AssignFromItself, SetType
<1>9. ASSUME NEW s \in Slot, NEW o \in Slot, AssignCopyThrows(s, o)
      PROVE  Shells(control', data')
  <2>1. Shells([control EXCEPT ![s] = NoType], CleanData(s)) /\ data' = CleanData(s)
    BY <1>0, <1>9 DEF AssignCopyThrows
  <2>2. control' = [control EXCEPT ![s] = control[o]] /\ control[o] \notin FundT
    BY <1>9, TypeAssumption DEF AssignCopyThrows, SetType
  <2> QED BY <2>1, <2>2, InvParts, TypeAssumption DEF Shells, Typed, Type
<1>10. ASSUME UNCHANGED <<control, data>> PROVE Shells(control', data')
  BY <1>10
<1> QED
  BY <1>2, <1>3, <1>4, <1>5, <1>6, <1>7, <1>8, <1>9, <1>10
  DEF Next, vars, ConstructCopyThrows, SetThreadDefault

(* A live any without a value holds no object but one that was moved from, *)
(* torn objects or not: every operation that drops a value destroys it.    *)
THEOREM NothingDropped == Spec => []OnlyShellsLeft
<1>1. Init => SInv
  BY InitInv, TypeAssumption DEF Init, SInv, Shells, Inline, Type
<1>2. SInv /\ [Next]_vars => SInv'
  BY NextInv, NextShells DEF SInv
<1>3. SInv => OnlyShellsLeft
  BY TypeAssumption DEF SInv, IInv, TypeOK, Shells, OnlyShellsLeft, Type
<1> QED BY <1>1, <1>2, <1>3, PTL DEF Spec

-----------------------------------------------------------------------------
(* Refinement of AnyAbs.  Value is Content for any handlers, buffers and   *)
(* heap; the control modes give the destination its value and leave that   *)
(* of every other object alone, because no block has two owners.           *)
Value(c, d, h, s) ==
  IF c[s] \in BigT
  THEN IF d[s].ptr \in Block THEN h[d[s].ptr].val ELSE Moved
  ELSE d[s].val

LEMMA CleanValue ==
  ASSUME NEW s \in Slot, Typed(control, data, heap), NEW c,
         Sound(control, data, heap, lost)
  PROVE  \A o \in Slot : o # s /\ c[o] = control[o] =>
           Value(c, CleanData(s), CleanHeap(s), o) = Value(control, data, heap, o)
<1> SUFFICES ASSUME NEW o \in Slot, o # s, c[o] = control[o]
             PROVE  Value(c, CleanData(s), CleanHeap(s), o)
                    = Value(control, data, heap, o)
  OBVIOUS
<1>1. CleanData(s)[o] = data[o]
  BY DEF CleanData, Typed
<1>2. control[o] \in BigT => CleanHeap(s)[data[o].ptr] = heap[data[o].ptr]
  BY DEF CleanHeap, Typed, Sound, Found, Apart
<1> QED BY <1>1, <1>2 DEF Value

LEMMA PlaceValue ==
  ASSUME NEW s \in Slot, NEW t \in Type, NEW v, NEW p, NEW c, NEW d, NEW h,
         NEW l, Typed(c, d, h), c[s] = NoType, Sound(c, d, h, l),
         Place(s, t, v, p, d, h), NEW cc, cc[s] = t,
         \A o \in Slot : o # s => cc[o] = c[o]
  PROVE  /\ Value(cc, data', heap', s) = v
         /\ \A o \in Slot : o # s => Value(cc, data', heap', o) = Value(c, d, h, o)
<1> USE TypeAssumption
<1>1. CASE t \in FundT \cup SmallT /\ data' = [d EXCEPT ![s] = Inline(t, v)] /\ heap' = h
  <2>1. t \notin BigT /\ data'[s].val = v /\ \A o \in Slot : o # s => data'[o] = d[o]
    BY <1>1 DEF Typed, Inline
  <2> QED BY <1>1, <2>1 DEF Value
<1>2. ASSUME t \in BigT, NEW b \in Block, h[b] = Free,
             heap' = [h EXCEPT ![b] = Used(t, v, p)],
             data' = [d EXCEPT ![s] = Pointer(b, p)]
      PROVE  /\ Value(cc, data', heap', s) = v
             /\ \A o \in Slot : o # s => Value(cc, data', heap', o) = Value(c, d, h, o)
  <2>1. data'[s].ptr = b /\ \A o \in Slot : o # s => data'[o] = d[o]
    BY <1>2 DEF Typed, Pointer
  <2>2. heap'[b].val = v /\ \A e \in Block : e # b => heap'[e] = h[e]
    BY <1>2 DEF Typed, Used
  <2>3. \A o \in Slot : c[o] \in BigT => d[o].ptr # b
    BY <1>2 DEF Sound, Found, Free, Used, Type
  <2> QED BY <1>2, <2>1, <2>2, <2>3 DEF Value
<1> QED BY <1>1, <1>2 DEF Place

LEMMA MoveValue ==
  ASSUME NEW s \in Slot, NEW o \in Slot, s # o, NEW c, NEW d, NEW h,
         Typed(c, d, h), control[o] = c[o],
         NEW cc, cc[s] = c[o], \A e \in Slot : e # s /\ e # o => cc[e] = c[e]
  PROVE  LET dd == MoveData(s, o, d)
         IN  /\ c[o] # NoType => Value(cc, dd, h, s) = Value(c, d, h, o)
             /\ \A e \in Slot : e # s /\ e # o =>
                  Value(cc, dd, h, e) = Value(c, d, h, e)
<1> DEFINE dd == MoveData(s, o, d)
<1>1. \A e \in Slot : e # s /\ e # o => dd[e] = d[e]
  BY DEF Typed, MoveData
<1>3. ASSUME c[o] \in BigT PROVE dd[s].ptr = d[o].ptr
  <2>1. dd = [d EXCEPT ![s] = Pointer(d[o].ptr, d[o].pool),
                       ![o] = Pointer(NoBlock, NoPool)]
    BY <1>3, TypeAssumption DEF MoveData, Type
  <2> QED BY <2>1 DEF Typed, Pointer
<1>4. c[o] \in Type \ BigT => dd[s].val = d[o].val
  BY TypeAssumption DEF Typed, MoveData, Inline, Type
<1>5. c[o] # NoType => c[o] \in Type
  BY DEF Typed, TypeOrNone
<1> HIDE DEF dd
<1>6. /\ c[o] # NoType => Value(cc, dd, h, s) = Value(c, d, h, o)
      /\ \A e \in Slot : e # s /\ e # o => Value(cc, dd, h, e) = Value(c, d, h, e)
  BY <1>1, <1>3, <1>4, <1>5 DEF Value
<1> QED BY <1>6 DEF dd

LEMMA SpoilValue ==
  ASSUME NEW o \in Slot, Usable(o), NEW c, NEW d, NEW h, NEW l, Typed(c, d, h),
         c[o] = control[o], c[o] # NoType, d[o].ptr = data[o].ptr, Sound(c, d, h, l)
  PROVE  LET dd == SpoilData(o, d)
             hh == SpoilHeap(o, h)
         IN  /\ \/ Value(c, dd, hh, o) = Moved
                \/ Value(c, dd, hh, o) = Value(c, d, h, o)
             /\ \A e \in Slot : e # o => Value(c, dd, hh, e) = Value(c, d, h, e)
<1> DEFINE dd == SpoilData(o, d)
           hh == SpoilHeap(o, h)
<1> USE TypeAssumption DEF Type
<1>1. CASE c[o] \in BigT
  <2>1. dd = d /\ hh = [h EXCEPT ![d[o].ptr].val = Moved] /\ d[o].ptr \in Block
    BY <1>1 DEF SpoilData, SpoilHeap, Usable
  <2>2. hh[d[o].ptr].val = Moved /\ \A b \in Block : b # d[o].ptr => hh[b] = h[b]
    BY <2>1 DEF Typed, Cells
  <2>3. \A e \in Slot : e # o /\ c[e] \in BigT => d[e].ptr # d[o].ptr
    BY <1>1 DEF Sound, Apart
  <2> QED BY <1>1, <2>1, <2>2, <2>3 DEF Value
<1>2. CASE c[o] \notin BigT
  <2>1. hh = h /\ \A e \in Slot : e # o => dd[e] = d[e]
    BY <1>2 DEF Typed, SpoilData, SpoilHeap
  <2>2. dd[o].val = Moved \/ dd[o] = d[o]
    BY DEF Typed, SpoilData, Buffers
  <2> QED BY <1>2, <2>1, <2>2 DEF Value
<1> QED BY <1>1, <1>2

-----------------------------------------------------------------------------
(* How the contents of the objects follow from the variables.              *)
LEMMA Seen ==
  ASSUME IInv, NEW s \in Slot
  PROVE  /\ s \notin alive => Contents[s] = Dead
         /\ s \in alive /\ control[s] = NoType => Contents[s] = Empty
         /\ s \in alive /\ control[s] # NoType =>
              Contents[s] = <<control[s], Value(control, data, heap, s)>>
BY InvParts DEF Contents, Content, Value

LEMMA SeenNext ==
  ASSUME IInv', NEW s \in Slot
  PROVE  /\ s \notin alive' => Contents'[s] = Dead
         /\ s \in alive' /\ control'[s] = NoType => Contents'[s] = Empty
         /\ s \in alive' /\ control'[s] # NoType =>
              Contents'[s] = <<control'[s], Value(control', data', heap', s)>>
BY DEF Contents, Content, Value, IInv

LEMMA TupleNotDead == \A t, v : <<t, v>> # Dead /\ <<t, v>> # Empty
BY DEF Dead, Empty

LEMMA ValueTyped ==
  ASSUME IInv, NEW s \in Slot
  PROVE  Value(control, data, heap, s) \in Val \cup {Moved}
BY InvParts DEF Value, Typed, Buffers, Cells

(* An object that keeps its life, handler and value is seen as it was.     *)
LEMMA Kept ==
  ASSUME IInv, IInv', NEW e \in Slot, e \in alive' <=> e \in alive,
         control'[e] = control[e],
         control[e] # NoType =>
           Value(control', data', heap', e) = Value(control, data, heap, e)
  PROVE  Contents'[e] = Contents[e]
BY Seen, SeenNext

LEMMA OneChanged ==
  ASSUME NEW s \in Slot, NEW x, Contents'[s] = x,
         \A e \in Slot : e # s => Contents'[e] = Contents[e]
  PROVE  Contents' = [Contents EXCEPT ![s] = x]
<1>1. Contents = [e \in Slot |-> Contents[e]] /\ Contents' = [e \in Slot |-> Contents'[e]]
  BY DEF Contents
<1> HIDE DEF Contents
<1> QED BY <1>1

LEMMA TwoChanged ==
  ASSUME NEW s \in Slot, NEW o \in Slot, s # o, NEW x, NEW y,
         Contents'[s] = x, Contents'[o] = y,
         \A e \in Slot : e # s /\ e # o => Contents'[e] = Contents[e]
  PROVE  Contents' = [Contents EXCEPT ![s] = x, ![o] = y]
<1>1. Contents = [e \in Slot |-> Contents[e]] /\ Contents' = [e \in Slot |-> Contents'[e]]
  BY DEF Contents
<1> HIDE DEF Contents
<1> QED BY <1>1

(* A new object of type t and value v in s, made after the objects were    *)
(* brought to the state c, d, h in which all others are what they were.    *)
LEMMA Filled ==
  ASSUME IInv, IInv', NEW s \in Slot, alive' = alive \cup {s},
         NEW c, NEW d, NEW h, NEW l, Typed(c, d, h), Sound(c, d, h, l),
         c[s] = NoType, \A e \in Slot : e # s =>
           c[e] = control[e] /\ Value(c, d, h, e) = Value(control, data, heap, e),
         NEW t \in Type, NEW v, NEW p, Place(s, t, v, p, d, h),
         control'[s] = t, \A e \in Slot : e # s => control'[e] = control[e]
  PROVE  Contents' = [Contents EXCEPT ![s] = <<t, v>>]
<1>1. t # NoType
  BY TypeAssumption
<1>2. \A e \in Slot : e # s => control'[e] = c[e]
  OBVIOUS
<1>3. /\ Value(control', data', heap', s) = v
      /\ \A e \in Slot : e # s =>
           Value(control', data', heap', e) = Value(control, data, heap, e)
  <2>1. /\ Value(control', data', heap', s) = v
        /\ \A e \in Slot : e # s =>
             Value(control', data', heap', e) = Value(c, d, h, e)
    BY <1>2, PlaceValue
  <2> QED BY <2>1
<1>4. Contents'[s] = <<t, v>>
  BY <1>1, <1>3, SeenNext
<1>5. \A e \in Slot : e # s => Contents'[e] = Contents[e]
  BY <1>1, <1>3, Kept
<1> QED BY <1>4, <1>5, OneChanged

(* What Cleanup of s leaves of the others, for Filled.                     *)
LEMMA CleanedOthers ==
  ASSUME IInv, torn = {}, NEW s \in Slot, Usable(s)
  PROVE  LET c == [control EXCEPT ![s] = NoType] IN
         /\ Typed(c, CleanData(s), CleanHeap(s))
         /\ Sound(c, CleanData(s), CleanHeap(s), lost)
         /\ c[s] = NoType /\ \A e \in Slot : e # s =>
              /\ c[e] = control[e]
              /\ Value(c, CleanData(s), CleanHeap(s), e) = Value(control, data, heap, e)
BY InvParts, Cleaned, CleanValue DEF IInv, Typed

(* Likewise after a move out of o.                                         *)
LEMMA SpoiltOthers ==
  ASSUME NEW s \in Slot, NEW o \in Slot, Usable(o), s # o, lost \subseteq Block,
         NEW c, NEW d, NEW h, Typed(c, d, h), Sound(c, d, h, lost),
         c[o] = control[o], c[o] # NoType, d[o].ptr = data[o].ptr
  PROVE  LET dd == SpoilData(o, d)
             hh == SpoilHeap(o, h)
         IN  /\ Typed(c, dd, hh) /\ Sound(c, dd, hh, lost)
             /\ \/ Value(c, dd, hh, o) = Moved
                \/ Value(c, dd, hh, o) = Value(c, d, h, o)
             /\ \A e \in Slot : e # o => Value(c, dd, hh, e) = Value(c, d, h, e)
BY SpoilSound, SpoilValue

LEMMA StepPut ==
  ASSUME IInv, IInv', torn = {}, NEW s \in Slot,
         \/ Construct(s) \/ Reset(s)
         \/ \E t \in Type, v \in Val : ConstructValue(s, t, v) \/ AssignValue(s, t, v)
  PROVE  Abs!Put(s)
<1>1. CASE Construct(s)
  <2>1. \A e \in Slot : e # s => Contents'[e] = Contents[e]
    BY <1>1, Kept, InvParts DEF Construct, SetType, Typed, Value
  <2>2. Contents'[s] = Empty
    BY <1>1, SeenNext, InvParts DEF Construct, SetType, Typed
  <2>3. Contents' = [Contents EXCEPT ![s] = Empty]
    BY <2>1, <2>2, OneChanged
  <2> QED BY <2>3 DEF Abs!Put
<1>2. CASE Reset(s)
  <2>1. \A e \in Slot : e # s => Contents'[e] = Contents[e]
    BY <1>2, Kept, CleanedOthers DEF Reset, SetType
  <2>2. Contents'[s] = Empty
    BY <1>2, SeenNext, InvParts DEF Reset, SetType, Typed
  <2>3. Contents' = [Contents EXCEPT ![s] = Empty]
    BY <2>1, <2>2, OneChanged
  <2> QED BY <2>3 DEF Abs!Put
<1>3. ASSUME NEW t \in Type, NEW v \in Val, ConstructValue(s, t, v)
      PROVE  Abs!Put(s)
  <2>1. control[s] = NoType
    BY <1>3, Emptied DEF ConstructValue
  <2>2. Contents' = [Contents EXCEPT ![s] = <<t, v>>]
    <3>1. /\ Place(s, t, v, local, data, heap) /\ alive' = alive \cup {s}
          /\ control'[s] = t /\ \A e \in Slot : e # s => control'[e] = control[e]
      BY <1>3, InvParts DEF ConstructValue, SetType, Typed
    <3>2. Typed(control, data, heap) /\ Sound(control, data, heap, lost)
      BY InvParts DEF IInv
    <3> QED BY <2>1, <3>1, <3>2, Filled
  <2> QED BY <2>2 DEF Abs!Put
<1>4. ASSUME NEW t \in Type, NEW v \in Val, AssignValue(s, t, v)
      PROVE  Abs!Put(s)
  <2> DEFINE c == [control EXCEPT ![s] = NoType]
             d == CleanData(s)
             h == CleanHeap(s)
  <2>1. /\ Typed(c, d, h) /\ Sound(c, d, h, lost)
        /\ c[s] = NoType /\ \A e \in Slot : e # s =>
             c[e] = control[e] /\ Value(c, d, h, e) = Value(control, data, heap, e)
    BY <1>4, CleanedOthers DEF AssignValue
  <2>2. /\ Place(s, t, v, local, d, h) /\ alive' = alive \cup {s}
        /\ control'[s] = t /\ \A e \in Slot : e # s => control'[e] = control[e]
    BY <1>4, InvParts DEF AssignValue, SetType, Typed
  <2> HIDE DEF c, d, h
  <2>3. Contents' = [Contents EXCEPT ![s] = <<t, v>>]
    BY <2>1, <2>2, Filled
  <2> QED BY <2>3 DEF Abs!Put
<1> QED BY <1>1, <1>2, <1>3, <1>4

LEMMA StepDestroy ==
  ASSUME IInv, IInv', torn = {}, NEW s \in Slot, Destroy(s)
  PROVE  Abs!Destroy(s)
<1>1. s \notin alive' /\ control'[s] = NoType
      /\ \A e \in Slot : e # s => control'[e] = control[e] /\ (e \in alive' <=> e \in alive)
  BY InvParts DEF Destroy, SetType, Typed
<1>2. \A e \in Slot : e # s =>
        Value(control, CleanData(s), CleanHeap(s), e) = Value(control, data, heap, e)
  BY InvParts, CleanValue DEF IInv
<1>3. \A e \in Slot : e # s => data'[e] = CleanData(s)[e]
  BY InvParts DEF Destroy, CleanData, Typed
<1>4. heap' = CleanHeap(s)
  BY DEF Destroy
<1>5. \A e \in Slot : e # s =>
        Value(control', data', heap', e) = Value(control, data, heap, e)
  BY <1>1, <1>2, <1>3, <1>4 DEF Value
<1>6. \A e \in Slot : e # s => Contents'[e] = Contents[e]
  BY <1>1, <1>5, Kept
<1>7. Contents' = [Contents EXCEPT ![s] = Dead]
  BY <1>1, <1>6, SeenNext, OneChanged
<1>8. Contents[s] # Dead
  BY Seen, TupleNotDead DEF Destroy, Dead, Empty
<1> QED BY <1>7, <1>8 DEF Abs!Destroy

LEMMA StepWrite ==
  ASSUME IInv, IInv', torn = {}, NEW s \in Slot, NEW t \in Type,
         NEW v \in Val \cup {Moved}, Write(s, t, v)
  PROVE  Abs!Write(s) /\ Contents'[s] = <<t, v>>
<1>1. UNCHANGED <<alive, control>> /\ control[s] = t /\ s \in alive /\ t # NoType
  BY InvParts DEF Write
<1>2. /\ Value(control', data', heap', s) = v
      /\ \A e \in Slot : e # s =>
           Value(control', data', heap', e) = Value(control, data, heap, e)
  <2>1. CASE control[s] \in BigT
    <3>1. data' = data /\ heap' = [heap EXCEPT ![data[s].ptr].val = v]
          /\ data[s].ptr \in Block
      BY <2>1 DEF Write, Usable
    <3>2. heap'[data[s].ptr].val = v
          /\ \A b \in Block : b # data[s].ptr => heap'[b] = heap[b]
      BY <3>1, InvParts DEF Typed, Cells
    <3>3. \A e \in Slot : e # s /\ control[e] \in BigT => data[e].ptr # data[s].ptr
      BY <2>1 DEF IInv, Sound, Apart
    <3> QED BY <1>1, <2>1, <3>1, <3>2, <3>3 DEF Value
  <2>2. CASE control[s] \notin BigT
    <3>1. heap' = heap /\ data'[s].val = v
          /\ \A e \in Slot : e # s => data'[e] = data[e]
      BY <2>2, InvParts DEF Write, Typed, Buffers
    <3> QED BY <1>1, <2>2, <3>1 DEF Value
  <2> QED BY <2>1, <2>2
<1>3. \A e \in Slot : e # s => Contents'[e] = Contents[e]
  BY <1>1, <1>2, Kept
<1>4. Contents[s] = <<t, Value(control, data, heap, s)>> /\ Contents'[s] = <<t, v>>
  BY <1>1, <1>2, Seen, SeenNext
<1>5. Contents[s] \in Type \X (Val \cup {Moved}) /\ Contents'[s] = <<Contents[s][1], v>>
  BY <1>4, ValueTyped
<1>6. Contents' = [Contents EXCEPT ![s] = <<Contents[s][1], v>>]
  BY <1>3, <1>5, OneChanged
<1> QED BY <1>4, <1>5, <1>6 DEF Abs!Write, Abs!Held

(* A copy of o in s, from the state c, d, h the destination was brought to.*)
LEMMA CopySeen ==
  ASSUME IInv, IInv', NEW s \in Slot, NEW o \in Slot, s # o, o \in alive,
         alive' = alive \cup {s},
         NEW c, NEW d, NEW h, NEW l, Typed(c, d, h), Sound(c, d, h, l),
         c[s] = NoType, \A e \in Slot : e # s =>
           c[e] = control[e] /\ Value(c, d, h, e) = Value(control, data, heap, e),
         CopyFrom(s, o, d, h), control'[s] = control[o],
         \A e \in Slot : e # s => control'[e] = control[e]
  PROVE  Abs!Copy(s, o)
<1>1. Contents[o] # Dead
  BY Seen, TupleNotDead DEF Dead, Empty
<1>2. CASE control[o] = NoType
  <2>1. data' = d /\ heap' = h
    BY <1>2 DEF CopyFrom
  <2>2. \A e \in Slot : e # s =>
          Value(control', d, h, e) = Value(control, data, heap, e)
    BY DEF Value
  <2>3. \A e \in Slot : e # s => Contents'[e] = Contents[e]
    BY <2>1, <2>2, Kept
  <2>4. Contents'[s] = Contents[o]
    BY <1>2, Seen, SeenNext
  <2> QED BY <1>1, <2>3, <2>4, OneChanged DEF Abs!Copy
<1>3. CASE control[o] # NoType
  <2>1. Place(s, control[o], Content(o), data[o].pool, d, h) /\ control[o] \in Type
    BY <1>3, InvParts DEF CopyFrom, Typed, TypeOrNone
  <2>2. Content(o) = Value(control, data, heap, o)
    BY DEF Content, Value
  <2>3. Contents' = [Contents EXCEPT ![s] = <<control[o], Content(o)>>]
    BY <2>1, Filled
  <2>4. Contents[o] = <<control[o], Content(o)>>
    BY <1>3, <2>2, Seen
  <2> QED BY <1>1, <2>3, <2>4 DEF Abs!Copy
<1> QED BY <1>2, <1>3

LEMMA StepCopy ==
  ASSUME IInv, IInv', torn = {}, NEW s \in Slot, NEW o \in Slot,
         ConstructCopy(s, o) \/ AssignCopy(s, o)
  PROVE  Abs!Copy(s, o)
<1>1. CASE ConstructCopy(s, o)
  <2>1. s # o /\ o \in alive /\ alive' = alive \cup {s} /\ CopyFrom(s, o, data, heap)
    BY <1>1 DEF ConstructCopy
  <2>2. control[s] = NoType /\ Typed(control, data, heap)
        /\ Sound(control, data, heap, lost)
    BY <1>1, Emptied, InvParts DEF ConstructCopy, IInv
  <2>3. control'[s] = control[o] /\ \A e \in Slot : e # s => control'[e] = control[e]
    BY <1>1, InvParts DEF ConstructCopy, SetType, Typed
  <2> QED BY <2>1, <2>2, <2>3, CopySeen
<1>2. CASE AssignCopy(s, o)
  <2> DEFINE c == [control EXCEPT ![s] = NoType]
             d == CleanData(s)
             h == CleanHeap(s)
  <2>1. /\ Typed(c, d, h) /\ Sound(c, d, h, lost)
        /\ c[s] = NoType /\ \A e \in Slot : e # s =>
             c[e] = control[e] /\ Value(c, d, h, e) = Value(control, data, heap, e)
    BY <1>2, CleanedOthers DEF AssignCopy
  <2>2. s # o /\ o \in alive /\ alive' = alive \cup {s} /\ CopyFrom(s, o, d, h)
    BY <1>2 DEF AssignCopy
  <2>3. control'[s] = control[o] /\ \A e \in Slot : e # s => control'[e] = control[e]
    BY <1>2, InvParts DEF AssignCopy, SetType, Typed
  <2> HIDE DEF c, d, h
  <2> QED BY <2>1, <2>2, <2>3, CopySeen
<1> QED BY <1>1, <1>2

LEMMA StepMove ==
  ASSUME IInv, IInv', torn = {}, NEW s \in Slot, NEW o \in Slot,
         ConstructMove(s, o) \/ AssignMove(s, o)
  PROVE  Abs!Move(s, o)
<1> SUFFICES ASSUME s # o, o \in alive, o \in alive', s \in alive',
                    control'[s] = control[o], control'[o] = NoType,
                    control[o] # NoType =>
                      Value(control', data', heap', s) = Value(control, data, heap, o),
                    \A e \in Slot : e # s /\ e # o =>
                      /\ control'[e] = control[e] /\ (e \in alive' <=> e \in alive)
                      /\ Value(control', data', heap', e) = Value(control, data, heap, e)
             PROVE  Abs!Move(s, o)
  <2> DEFINE c == [control EXCEPT ![s] = NoType]
             d == CleanData(s)
             h == CleanHeap(s)
  <2>1. /\ s # o /\ o \in alive /\ alive' = alive \cup {s}
        /\ control'[s] = control[o] /\ control'[o] = NoType
        /\ \A e \in Slot : e # s /\ e # o => control'[e] = control[e]
    BY InvParts DEF ConstructMove, AssignMove, Typed
  <2>2. CASE ConstructMove(s, o)
    <3>1. data' = MoveData(s, o, data) /\ heap' = heap
      BY <2>2 DEF ConstructMove
    <3> QED BY <2>1, <3>1, MoveValue, InvParts
  <2>3. CASE AssignMove(s, o)
    <3>1. /\ Typed(c, d, h) /\ c[s] = NoType /\ \A e \in Slot : e # s =>
               c[e] = control[e] /\ Value(c, d, h, e) = Value(control, data, heap, e)
      BY <2>3, CleanedOthers DEF AssignMove
    <3>2. data' = MoveData(s, o, d) /\ heap' = h
      BY <2>3 DEF AssignMove
    <3> HIDE DEF c, d, h
    <3> QED BY <2>1, <3>1, <3>2, MoveValue
  <2> QED BY <2>2, <2>3
<1>1. Contents[o] # Dead
  BY Seen, TupleNotDead DEF Dead, Empty
<1>2. Contents'[s] = Contents[o] /\ Contents'[o] = Empty
  BY Seen, SeenNext
<1>3. \A e \in Slot : e # s /\ e # o => Contents'[e] = Contents[e]
  BY Kept
<1>4. Contents' = [Contents EXCEPT ![s] = Contents[o], ![o] = Empty]
  BY <1>2, <1>3, TwoChanged
<1> QED BY <1>1, <1>4 DEF Abs!Move

(* The object of o, taken through an lvalue, in s.                         *)
LEMMA TakeSeen ==
  ASSUME IInv, IInv', NEW s \in Slot, NEW o \in Slot, s # o, o \in alive, Usable(o),
         alive' = alive \cup {s}, control[o] # NoType,
         NEW c, NEW d, NEW h, Typed(c, d, h), Sound(c, d, h, lost),
         c[s] = NoType, \A e \in Slot : e # s =>
           c[e] = control[e] /\ Value(c, d, h, e) = Value(control, data, heap, e),
         d[o].ptr = data[o].ptr, control'[s] = control[o],
         \A e \in Slot : e # s => control'[e] = control[e],
         Place(s, control[o], Content(o), local, SpoilData(o, d), SpoilHeap(o, h))
  PROVE  Abs!Take(s, o) \/ Abs!Copy(s, o)
<1> DEFINE dd == SpoilData(o, d)
           hh == SpoilHeap(o, h)
<1>1. /\ Typed(c, dd, hh) /\ Sound(c, dd, hh, lost)
      /\ \/ Value(c, dd, hh, o) = Moved
         \/ Value(c, dd, hh, o) = Value(c, d, h, o)
      /\ \A e \in Slot : e # o => Value(c, dd, hh, e) = Value(c, d, h, e)
  BY InvParts, SpoiltOthers
<1>2. control[o] \in Type /\ Content(o) = Value(control, data, heap, o)
  BY InvParts DEF Typed, TypeOrNone, Content, Value
<1> HIDE DEF dd, hh
<1>3. Place(s, control[o], Content(o), local, dd, hh)
  BY DEF dd, hh
<1>4. /\ Value(control', data', heap', s) = Content(o)
      /\ \A e \in Slot : e # s => Value(control', data', heap', e) = Value(c, dd, hh, e)
  BY <1>1, <1>2, <1>3, PlaceValue
<1>5. Contents[o] = <<control[o], Content(o)>> /\ Contents'[s] = <<control[o], Content(o)>>
  BY <1>2, <1>4, Seen, SeenNext
<1>6. \A e \in Slot : e # s /\ e # o => Contents'[e] = Contents[e]
  BY <1>1, <1>4, Kept
<1>7. CASE Value(c, dd, hh, o) = Moved
  <2>1. Contents'[o] = <<control[o], Moved>>
    BY <1>4, <1>7, SeenNext
  <2>2. Contents'[s] = Contents[o] /\ Contents'[o] = <<Contents[o][1], Moved>>
    BY <1>5, <2>1
  <2>3. Contents' = [Contents EXCEPT ![s] = Contents[o], ![o] = <<Contents[o][1], Moved>>]
    BY <1>6, <2>2, TwoChanged, SMTT(30)
  <2>4. Contents[o] \in Type \X (Val \cup {Moved})
    BY <1>2, <1>5, ValueTyped
  <2> QED BY <2>3, <2>4 DEF Abs!Take, Abs!Held
<1>8. CASE Value(c, dd, hh, o) = Value(c, d, h, o)
  <2>1. Contents'[o] = Contents[o]
    BY <1>4, <1>8, Kept
  <2>2. Contents' = [Contents EXCEPT ![s] = Contents[o]]
    BY <1>5, <1>6, <2>1, OneChanged
  <2>3. Contents[o] # Dead
    BY <1>5, TupleNotDead
  <2> QED BY <2>2, <2>3 DEF Abs!Copy
<1> QED BY <1>1, <1>7, <1>8

LEMMA StepTake ==
  ASSUME IInv, IInv', torn = {}, NEW s \in Slot, NEW o \in Slot,
         ConstructFromRef(s, o) \/ AssignFromRef(s, o)
  PROVE  Abs!Take(s, o) \/ Abs!Copy(s, o)
<1>0. s # o /\ o \in alive /\ Usable(o) /\ alive' = alive \cup {s} /\ control[o] # NoType
      /\ control'[s] = control[o] /\ \A e \in Slot : e # s => control'[e] = control[e]
  BY InvParts DEF ConstructFromRef, AssignFromRef, SetType, Typed
<1>1. CASE ConstructFromRef(s, o)
  <2>1. control[s] = NoType /\ Typed(control, data, heap)
        /\ Sound(control, data, heap, lost)
    BY <1>1, Emptied, InvParts DEF ConstructFromRef, IInv
  <2>2. Place(s, control[o], Content(o), local, SpoilData(o, data), SpoilHeap(o, heap))
    BY <1>1, InvParts DEF ConstructFromRef
  <2> QED BY <1>0, <2>1, <2>2, TakeSeen
<1>2. CASE AssignFromRef(s, o)
  <2> DEFINE c == [control EXCEPT ![s] = NoType]
             d == CleanData(s)
             h == CleanHeap(s)
  <2>1. /\ Typed(c, d, h) /\ Sound(c, d, h, lost)
        /\ c[s] = NoType /\ \A e \in Slot : e # s =>
             c[e] = control[e] /\ Value(c, d, h, e) = Value(control, data, heap, e)
    BY <1>2, CleanedOthers DEF AssignFromRef
  <2>2. Place(s, control[o], Content(o), local, SpoilData(o, d), SpoilHeap(o, h))
    BY <1>2, InvParts DEF AssignFromRef
  <2>3. d[o].ptr = data[o].ptr
    BY <1>0, InvParts DEF Typed, CleanData
  <2> HIDE DEF c, d, h
  <2> QED BY <1>0, <2>1, <2>2, <2>3, TakeSeen
<1> QED BY <1>1, <1>2

(* A copy construction that throws is not seen in any object.              *)
LEMMA StepThrow ==
  ASSUME IInv, IInv', torn = {}, NEW s \in Slot, NEW o \in Slot,
         ConstructCopyThrows(s, o)
  PROVE  UNCHANGED Contents
<1>1. UNCHANGED <<alive, type_info, control, data>>
  BY DEF ConstructCopyThrows
<1>2. heap' = heap \/ \E b \in Block : heap[b] = Free
        /\ heap' = [heap EXCEPT ![b] = Used(NoType, Moved, data[o].pool)]
  BY DEF ConstructCopyThrows, LoseBlock
<1>3. \A e \in Slot : control[e] \in BigT => heap'[data[e].ptr] = heap[data[e].ptr]
  <2> SUFFICES ASSUME NEW e \in Slot, control[e] \in BigT
               PROVE  heap'[data[e].ptr] = heap[data[e].ptr]
    OBVIOUS
  <2>1. data[e].ptr \in Block /\ heap[data[e].ptr] # Free
    BY TypeAssumption DEF IInv, Sound, Found, Free, Used, Type
  <2> QED BY <1>2, <2>1, InvParts DEF Typed
<1>4. \A e \in Slot : Content(e)' = Content(e)
  BY <1>1, <1>3 DEF Content
<1> QED BY <1>1, <1>4 DEF Contents

(* One step of the objects, as AnyAbs sees it.                             *)
THEOREM StepImplements ==
  ASSUME IInv, [Next]_vars, torn' = {}
  PROVE  Abs!Next \/ UNCHANGED Contents
<1>1. IInv'
  BY NextInv
<1>2. \A s, o \in Slot : ~AssignFromItself(s) /\ ~AssignCopyThrows(s, o)
  BY DEF AssignFromItself, AssignCopyThrows
<1>3. ASSUME NEW s \in Slot, Construct(s) \/ Reset(s) \/ Destroy(s)
      PROVE  Abs!Next
  <2>1. torn = {}
    BY <1>3 DEF Construct, Reset, Destroy
  <2> QED BY <1>1, <1>3, <2>1, StepPut, StepDestroy DEF Abs!Next
<1>4. ASSUME NEW s \in Slot, NEW t \in Type, NEW v \in Val,
             ConstructValue(s, t, v) \/ AssignValue(s, t, v)
      PROVE  Abs!Next
  <2>1. torn = {}
    BY <1>4 DEF ConstructValue, AssignValue
  <2> QED BY <1>1, <1>4, <2>1, StepPut DEF Abs!Next
<1>5. ASSUME NEW s \in Slot, NEW t \in Type, NEW v \in Val \cup {Moved}, Write(s, t, v)
      PROVE  Abs!Next
  <2>1. torn = {}
    BY <1>5 DEF Write
  <2> QED BY <1>1, <1>5, <2>1, StepWrite DEF Abs!Next
<1>6. ASSUME NEW s \in Slot, NEW o \in Slot,
             \/ ConstructCopy(s, o) \/ ConstructMove(s, o)
             \/ AssignCopy(s, o) \/ AssignMove(s, o)
             \/ ConstructFromRef(s, o) \/ AssignFromRef(s, o)
      PROVE  Abs!Next
  <2>1. torn = {}
    BY <1>6 DEF ConstructCopy, ConstructMove, AssignCopy, AssignMove,
                ConstructFromRef, AssignFromRef
  <2>2. Abs!Copy(s, o) \/ Abs!Move(s, o) \/ Abs!Take(s, o)
    BY <1>1, <1>6, <2>1, StepCopy, StepMove, StepTake
  <2> QED BY <2>2 DEF Abs!Next
<1>7. ASSUME NEW s \in Slot, NEW o \in Slot, ConstructCopyThrows(s, o)
      PROVE  UNCHANGED Contents
  <2>1. torn = {}
    BY <1>7 DEF ConstructCopyThrows
  <2> QED BY <1>1, <1>7, <2>1, StepThrow
<1>8. (\E p \in Pool : SetThreadDefault(p)) \/ UNCHANGED vars => UNCHANGED Contents
  BY DEF SetThreadDefault, vars, Contents, Content
<1> QED BY <1>2, <1>3, <1>4, <1>5, <1>6, <1>7, <1>8 DEF Next

(* Value semantics: until an any is torn, every step of every operation is *)
(* one of AnyAbs or invisible.                                             *)
THEOREM ImplementsUnlessTorn == Spec => AbsUnlessTorn
<1>1. Init => Abs!Init
  BY DEF Init, Abs!Init, Contents
<1>2. IInv /\ [Next]_vars => [torn' = {} => Abs!Next]_Contents
  BY StepImplements
<1> QED BY <1>1, <1>2, Invariance, PTL DEF Spec, AbsUnlessTorn

-----------------------------------------------------------------------------
(* AnyLvalue: which steps take an object the program did not give up.      *)
(* Content that was moved from belongs to a released any; as the steps act *)
(* on contents as AnyAbs says, that is a matter of contents and released.  *)
Released ==
  \A s \in Slot, t \in SmallT \cup BigT : Contents[s] = <<t, Moved>> => s \in released

LvalueVars == <<vars, released>>

TakenThroughLvalue ==
  \E s, o \in Slot : ConstructFromRef(s, o) \/ AssignFromRef(s, o)

LEMMA ReleasedMeans ==
  ASSUME IInv, torn = {}
  PROVE  MovedOnlyOnRequest <=> Released
<1>1. ASSUME NEW s \in Slot, NEW t \in SmallT \cup BigT
      PROVE  Contents[s] = <<t, Moved>>
               <=> s \in alive /\ type_info[s] = t /\ Content(s) = Moved
  <2>1. t # NoType
    BY TypeAssumption DEF Type
  <2>2. Content(s) = Value(control, data, heap, s) /\ type_info = control
    BY DEF Content, Value, IInv
  <2> QED BY <2>1, <2>2, Seen, TupleNotDead
<1>2. alive \subseteq Slot
  BY DEF IInv, TypeOK
<1> QED BY <1>1, <1>2 DEF MovedOnlyOnRequest, Released

LEMMA ReleasedMeansNext == IInv' /\ (torn = {})' => (MovedOnlyOnRequest <=> Released)'
<1>1. IInv /\ torn = {} => (MovedOnlyOnRequest <=> Released)
  BY ReleasedMeans
<1> QED BY <1>1, PTL

LEMMA LvalueIsAny == [LvalueNext]_LvalueVars => [Next]_vars
<1>1. LvalueNext => Next
  BY DEF LvalueNext, Next
<1> QED BY <1>1 DEF LvalueVars

LEMMA LvalueKeepsWhole == [LvalueNext]_LvalueVars => torn' = torn
<1> SUFFICES ASSUME [LvalueNext]_LvalueVars PROVE torn' = torn
  OBVIOUS
<1>1. ASSUME NEW s \in Slot, Construct(s) \/ Reset(s) \/ Destroy(s)
      PROVE  torn' = torn
  BY <1>1 DEF Construct, Reset, Destroy
<1>2. ASSUME NEW s \in Slot, NEW t, NEW v,
             ConstructValue(s, t, v) \/ AssignValue(s, t, v) \/ Write(s, t, v)
      PROVE  torn' = torn
  BY <1>2 DEF ConstructValue, AssignValue, Write
<1>3. ASSUME NEW s \in Slot, NEW o \in Slot,
             \/ ConstructCopy(s, o) \/ ConstructMove(s, o)
             \/ AssignCopy(s, o) \/ AssignMove(s, o)
             \/ ConstructFromRef(s, o) \/ AssignFromRef(s, o)
      PROVE  torn' = torn
  BY <1>3 DEF ConstructCopy, ConstructMove, AssignCopy, AssignMove,
              ConstructFromRef, AssignFromRef
<1>4. UNCHANGED LvalueVars => torn' = torn
  BY DEF LvalueVars, vars
<1> QED BY <1>1, <1>2, <1>3, <1>4 DEF LvalueNext

(* A new value in s, or none, is one nobody moved from.                    *)
LEMMA NewReleased ==
  ASSUME Released, NEW s \in Slot, Abs!Put(s) \/ Abs!Destroy(s), New(s)
  PROVE  Released'
<1>1. PICK c \in {Dead, Empty} \cup (Type \X Val) : Contents' = [Contents EXCEPT ![s] = c]
  BY DEF Abs!Put, Abs!Destroy
<1>2. \A t : c # <<t, Moved>>
  BY TupleNotDead, TypeAssumption
<1>3. Contents'[s] = c /\ \A e \in Slot : e # s => Contents'[e] = Contents[e]
  BY <1>1 DEF Contents
<1>4. \A e \in Slot : e # s => (e \in released' <=> e \in released)
  BY DEF New
<1> QED BY <1>2, <1>3, <1>4 DEF Released

LEMMA CopyReleased ==
  ASSUME Released, NEW s \in Slot, NEW o \in Slot, Abs!Copy(s, o), CopyOf(s, o)
  PROVE  Released'
<1>1. /\ Contents'[s] = Contents[o] /\ s # o
      /\ \A e \in Slot : e # s => Contents'[e] = Contents[e]
  BY DEF Abs!Copy, Contents
<1>2. /\ o \in released => s \in released'
      /\ \A e \in Slot : e # s => (e \in released' <=> e \in released)
  BY DEF CopyOf
<1> QED BY <1>1, <1>2 DEF Released

LEMMA MoveReleased ==
  ASSUME Released, NEW s \in Slot, NEW o \in Slot, Abs!Move(s, o), MovedTo(s, o)
  PROVE  Released'
<1>1. /\ Contents'[s] = Contents[o] /\ Contents'[o] = Empty /\ s # o
      /\ \A e \in Slot : e # s /\ e # o => Contents'[e] = Contents[e]
  BY DEF Abs!Move, Contents
<1>2. /\ o \in released => s \in released'
      /\ \A e \in Slot : e # s /\ e # o => (e \in released' <=> e \in released)
  BY <1>1 DEF MovedTo
<1> QED BY <1>1, <1>2, TupleNotDead DEF Released

LEMMA WriteReleased ==
  ASSUME Released, NEW s \in Slot, NEW t, NEW v, Abs!Write(s),
         Contents'[s] = <<t, v>>, Given(s, v)
  PROVE  Released'
<1>1. \A e \in Slot : e # s => Contents'[e] = Contents[e]
  BY DEF Abs!Write, Contents
<1>2. /\ v = Moved => s \in released'
      /\ \A e \in Slot : e # s => (e \in released' <=> e \in released)
  BY DEF Given
<1>3. \A u : <<t, v>> = <<u, Moved>> => v = Moved
  OBVIOUS
<1> QED BY <1>1, <1>2, <1>3 DEF Released

LEMMA StepReleases ==
  ASSUME IInv, torn = {}, Released, LvalueNext, ~TakenThroughLvalue
  PROVE  Released'
<1>1. IInv'
  BY NextInv, LvalueIsAny
<1>2. ASSUME NEW s \in Slot, Construct(s) \/ Reset(s) \/ Destroy(s), New(s)
      PROVE  Released'
  BY <1>1, <1>2, StepPut, StepDestroy, NewReleased
<1>3. ASSUME NEW s \in Slot, NEW t \in Type, NEW v \in Val,
             ConstructValue(s, t, v) \/ AssignValue(s, t, v), New(s)
      PROVE  Released'
  BY <1>1, <1>3, StepPut, NewReleased
<1>4. ASSUME NEW s \in Slot, NEW t \in Type, NEW v \in Val \cup {Moved},
             Write(s, t, v), Given(s, v)
      PROVE  Released'
  BY <1>1, <1>4, StepWrite, WriteReleased
<1>5. ASSUME NEW s \in Slot, NEW o \in Slot,
             ConstructCopy(s, o) \/ AssignCopy(s, o), CopyOf(s, o)
      PROVE  Released'
  BY <1>1, <1>5, StepCopy, CopyReleased
<1>6. ASSUME NEW s \in Slot, NEW o \in Slot,
             ConstructMove(s, o) \/ AssignMove(s, o), MovedTo(s, o)
      PROVE  Released'
  BY <1>1, <1>6, StepMove, MoveReleased
<1> QED BY <1>2, <1>3, <1>4, <1>5, <1>6 DEF LvalueNext, TakenThroughLvalue

(* Whatever a program does with its any objects, the only steps after      *)
(* which one holds an object that was moved from, although nobody asked    *)
(* for it, are construction and assignment from an lvalue (any.hpp 103-107,*)
(* 155-163): copies, moves, writes and resets never do that.  In a program *)
(* that does not use an lvalue so, an object is moved from only on request.*)
THEOREM OnlyLvaluesAreTaken ==
  LvalueSpec =>
    [][MovedOnlyOnRequest => MovedOnlyOnRequest' \/ TakenThroughLvalue]_LvalueVars
<1> DEFINE J == IInv /\ torn = {}
<1>1. LvalueInit => J
  BY InitInv DEF LvalueInit, Init
<1>2. J /\ [LvalueNext]_LvalueVars => J'
  BY LvalueIsAny, LvalueKeepsWhole, NextInv
<1>3. J /\ J' /\ [LvalueNext]_LvalueVars =>
        [MovedOnlyOnRequest => MovedOnlyOnRequest' \/ TakenThroughLvalue]_LvalueVars
  BY ReleasedMeans, ReleasedMeansNext, StepReleases
<1> HIDE DEF J
<1> QED BY <1>1, <1>2, <1>3, PTL DEF LvalueSpec, LvalueVars
=============================================================================
