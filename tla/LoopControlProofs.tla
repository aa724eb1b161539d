------------------------- MODULE LoopControlProofs -------------------------
(***************************************************************************)
(* Loops visit every element once, for loops nested to any depth over      *)
(* containers of any size.                                                 *)
(*                                                                         *)
(* The invariant of one loop, Progress, is the conjunction of the          *)
(* properties, for one level.  It is kept by what happens at the level     *)
(* itself, by changes of the container, and by the end of loops inside.    *)
(* Inductive it is with Shape: a level that is not in use is as if it had  *)
(* never been, and the handler runs only after the condition held.         *)
(***************************************************************************)
EXTENDS LoopControl, TLAPS

Limited == ForEach \cup {"repeat"}

Progress(l) ==
  ls[l].kind \in Limited =>
    /\ ls[l].kind = "repeat" => ls[l].i <= ls[l].count
    /\ ls[l].kind \in ForEach => ls[l].data \in Elements(l) \cup {End}
    /\ \A x \in seen[l] : x < Position(l)
    /\ \A x \in Scope(l) : x < Position(l) => x \in seen[l] \cup late[l]

Shape ==
  /\ \A l \in Level : l > depth => ls[l] = Gone /\ seen[l] = {} /\ late[l] = {}
  /\ pc = "handler" => Cond(depth)

IInv == TypeOK /\ Shape /\ \A l \in Level : Progress(l)

-----------------------------------------------------------------------------
LEMMA GoneType == Gone \in LoopState
BY LoopAssumption DEF Gone, Made, LoopState, End, Element

LEMMA Numbers == Level \subseteq Nat /\ Element \subseteq Nat /\ End \in Nat
                 /\ Count \cup {0} \subseteq Nat
BY LoopAssumption DEF Level, Element, End

(* Unwinding leaves the loops that go on alone.                            *)
LEMMA UnwindInv ==
  ASSUME IInv, NEW d \in 0 .. depth, Unwind(d), UNCHANGED container,
         pc' \in {"idle", "cond"}, d = 0 <=> pc' = "idle"
  PROVE  IInv'
<1>1. /\ depth' = d /\ d \in 0 .. D
      /\ \A l \in Level : l <= d => ls'[l] = ls[l] /\ seen'[l] = seen[l] /\ late'[l] = late[l]
      /\ \A l \in Level : ~(l <= d) => ls'[l] = Gone /\ seen'[l] = {} /\ late'[l] = {}
  BY LoopAssumption DEF Unwind, IInv, TypeOK
<1>2. TypeOK'
  BY <1>1, GoneType DEF IInv, TypeOK, Unwind
<1>3. Shape'
  BY <1>1, LoopAssumption DEF Shape, Level
<1>4. ASSUME NEW l \in Level
      PROVE  Progress(l)'
  <2>1. CASE l <= d
    BY <1>1, <2>1 DEF IInv, Progress, Elements, Scope, Position
  <2>2. CASE ~(l <= d)
    BY <1>1, <2>2 DEF Progress, Limited, ForEach, Gone, Made
  <2> QED BY <2>1, <2>2
<1> QED BY <1>2, <1>3, <1>4 DEF IInv

LEMMA InitInv == Init => IInv
<1> SUFFICES ASSUME Init PROVE IInv
  OBVIOUS
<1>1. TypeOK
  BY GoneType, LoopAssumption DEF Init, TypeOK
<1>2. Shape
  BY DEF Init, Shape
<1>3. \A l \in Level : Progress(l)
  BY DEF Init, Progress, Limited, ForEach, Gone, Made
<1> QED BY <1>1, <1>2, <1>3 DEF IInv

(* A new loop is at its first element and has visited nothing.             *)
LEMMA AddLoopInv ==
  ASSUME IInv, NEW k \in Kinds, NEW lb \in Label \cup {NoLabel}, AddLoop(k, lb)
  PROVE  IInv'
<1> PICK l : l = depth + 1
  OBVIOUS
<1>1. l \in Level /\ l > depth /\ depth' = l /\ pc' = "cond" /\ depth \in Nat
      /\ UNCHANGED <<container, seen, late>>
  BY LoopAssumption DEF AddLoop, IInv, TypeOK, Level
<1>2. seen[l] = {} /\ late[l] = {}
  BY <1>1 DEF IInv, Shape
<1>3. PICK n \in Count \cup {0}, r \in BOOLEAN, c \in SUBSET Element, b \in Element \cup {End} :
        /\ ls' = [ls EXCEPT ![l] = Made(k, lb, n, r, c, b)]
        /\ k \in ForEach => IsFirst(b, container) /\ (~r => c = container)
  <2>1. End \in Element \cup {End} /\ container \in SUBSET Element /\ {} \in SUBSET Element
    BY DEF IInv, TypeOK
  <2> QED BY <2>1 DEF AddLoop, ForEach
<1> DEFINE m == Made(k, lb, n, r, c, b)
<1>4. m \in LoopState
  BY DEF Made, LoopState
<1>5. ls' \in [Level -> LoopState] /\ ls'[l] = m /\ \A j \in Level \ {l} : ls'[j] = ls[j]
  BY <1>1, <1>3, <1>4 DEF IInv, TypeOK
<1>6. TypeOK'
  <2>1. l \in 0 .. D /\ l # 0
    BY <1>1, LoopAssumption DEF Level
  <2> QED BY <1>1, <1>5, <2>1 DEF IInv, TypeOK
<1>7. Shape'
  BY <1>1, <1>5 DEF IInv, Shape, Level
<1>8. ASSUME NEW j \in Level
      PROVE  Progress(j)'
  <2>1. CASE j # l
    BY <1>1, <1>5, <2>1 DEF IInv, Progress, Elements, Scope, Position
  <2>2. CASE j = l
    <3>1. /\ m.kind = k /\ m.count = n /\ m.byRef = r /\ m.held = c
          /\ m.i = 0 /\ m.data = b
      BY DEF Made
    <3>2. n \in Nat /\ Element \subseteq Nat /\ End \in Nat /\ container \subseteq Element
      BY Numbers, LoopAssumption DEF IInv, TypeOK
    <3>3. CASE k = "repeat"
      BY <1>1, <1>2, <1>5, <2>2, <3>1, <3>2, <3>3 DEF Progress, Scope, Position, ForEach
    <3>4. CASE k \in ForEach
      <4>1. Elements(l)' = container
        BY <1>1, <1>3, <1>5, <3>1, <3>4 DEF Elements
      <4>2. Position(l)' = b /\ Scope(l)' = container
        BY <1>5, <3>1, <3>4, <4>1 DEF Position, Scope, ForEach
      <4>3. b \in container \cup {End} /\ \A y \in container : b <= y
        BY <1>3, <3>4 DEF IsFirst
      <4>4. \A x \in container : ~(x < b)
        BY <3>2, <4>3
      <4> QED BY <1>1, <1>2, <1>5, <2>2, <3>1, <3>4, <4>1, <4>2, <4>3, <4>4 DEF Progress, ForEach
    <3> QED BY <1>5, <2>2, <3>1, <3>3, <3>4 DEF Progress, Limited
  <2> QED BY <2>1, <2>2
<1> QED BY <1>6, <1>7, <1>8 DEF IInv

(* The handler moves one loop on by one element.                           *)
LEMMA HandlerInv == IInv /\ Handler => IInv'
<1> SUFFICES ASSUME IInv, Handler PROVE IInv'
  OBVIOUS
<1> PICK l : l = depth
  OBVIOUS
<1>1. l \in Level /\ pc' = "body" /\ Cond(l) /\ UNCHANGED <<container, depth, late>>
  BY LoopAssumption DEF Handler, IInv, TypeOK, Shape, Level
<1>2. l \in Nat /\ ls[l] \in LoopState /\ seen[l] \subseteq Nat
  BY <1>1, Numbers DEF IInv, TypeOK
<1>3. CASE ls[l].kind = "loop" /\ UNCHANGED <<ls, seen>>
  <2>1. TypeOK' /\ Shape'
    BY <1>1, <1>3 DEF IInv, TypeOK, Shape, Handler
  <2>2. \A j \in Level : Progress(j)'
    BY <1>1, <1>3 DEF IInv, Progress, Elements, Scope, Position
  <2> QED BY <2>1, <2>2 DEF IInv
<1>4. ASSUME NEW s \in LoopState, NEW v \in Nat,
             ls' = [ls EXCEPT ![l] = s], seen' = [seen EXCEPT ![l] = @ \cup {v}],
             Progress(l)'
      PROVE  IInv'
  <2>1. /\ ls' \in [Level -> LoopState] /\ ls'[l] = s
        /\ \A j \in Level \ {l} : ls'[j] = ls[j] /\ seen'[j] = seen[j]
        /\ seen' \in [Level -> SUBSET Nat]
    BY <1>1, <1>4 DEF IInv, TypeOK
  <2>2. TypeOK'
    BY <1>1, <2>1 DEF IInv, TypeOK, Handler
  <2>3. Shape'
    BY <1>1, <1>2, <2>1, Numbers DEF IInv, Shape
  <2>4. \A j \in Level \ {l} : Progress(j)'
    BY <1>1, <2>1 DEF IInv, Progress, Elements, Scope, Position
  <2> QED BY <1>4, <2>2, <2>3, <2>4 DEF IInv
<1>5. CASE /\ ls[l].kind = "repeat"
           /\ ls' = [ls EXCEPT ![l].i = @ + 1]
           /\ seen' = [seen EXCEPT ![l] = @ \cup {Position(l)}]
  <2> DEFINE s == [ls[l] EXCEPT !.i = @ + 1]
  <2>1. /\ s \in LoopState /\ s.kind = "repeat" /\ s.i = ls[l].i + 1 /\ s.count = ls[l].count
        /\ ls[l].i \in Nat /\ ls[l].count \in Nat /\ Position(l) = ls[l].i
    BY <1>2, <1>5, LoopAssumption DEF LoopState, Position
  <2>2. ls' = [ls EXCEPT ![l] = s] /\ ls'[l] = s /\ seen'[l] = seen[l] \cup {ls[l].i}
    BY <1>1, <1>5, <2>1 DEF IInv, TypeOK
  <2>3. ls[l].i < ls[l].count
    BY <1>1, <1>5 DEF Cond
  <2>4. Position(l)' = ls[l].i + 1 /\ Scope(l)' = 0 .. ls[l].count - 1
        /\ Scope(l) = 0 .. ls[l].count - 1
    BY <1>1, <1>5, <2>1, <2>2 DEF Position, Scope
  <2>5. /\ \A x \in seen[l] : x < ls[l].i
        /\ \A x \in Scope(l) : x < ls[l].i => x \in seen[l] \cup late[l]
    BY <1>1, <1>5, <2>1 DEF IInv, Progress, Limited
  <2>6. \A x \in seen'[l] : x < ls[l].i + 1
    BY <1>2, <2>1, <2>2, <2>5
  <2>7. \A x \in Scope(l) : x < ls[l].i + 1 => x \in seen'[l] \cup late[l]
    BY <2>1, <2>2, <2>4, <2>5
  <2>8. Progress(l)'
    <3> HIDE DEF s
    <3> QED BY <1>1, <2>1, <2>2, <2>3, <2>4, <2>6, <2>7 DEF Progress, ForEach
  <2> QED BY <1>4, <1>5, <2>1, <2>2, <2>8
<1>6. ASSUME NEW y \in Element \cup {End}, ls[l].kind \in ForEach,
             IsNext(ls[l].data, y, Elements(l)),
             ls' = [ls EXCEPT ![l].data = y,
                      ![l].i = IF ls[l].kind = "list" THEN @ + 1 ELSE @],
             seen' = [seen EXCEPT ![l] = @ \cup {Position(l)}]
      PROVE  IInv'
  <2> DEFINE s == [ls[l] EXCEPT !.data = y,
                      !.i = IF ls[l].kind = "list" THEN @ + 1 ELSE @]
             p == ls[l].data
  <2>1. /\ s \in LoopState /\ s.kind = ls[l].kind /\ s.data = y
        /\ s.byRef = ls[l].byRef /\ s.held = ls[l].held
        /\ p \in Nat /\ y \in Nat /\ Position(l) = p
    <3>1. p \in Element \cup {End} /\ ls[l].i \in Nat /\ ls[l].kind # "repeat"
      BY <1>2, <1>6 DEF LoopState, ForEach
    <3>2. p \in Nat /\ y \in Nat /\ Position(l) = p
      BY <3>1, Numbers DEF Position
    <3>3. PICK q \in Nat : q = IF ls[l].kind = "list" THEN ls[l].i + 1 ELSE ls[l].i
      BY <3>1
    <3>4. s = [ls[l] EXCEPT !.data = y, !.i = q]
      BY <3>3
    <3>5. /\ s \in LoopState /\ s.kind = ls[l].kind /\ s.data = y
          /\ s.byRef = ls[l].byRef /\ s.held = ls[l].held
      BY <1>2, <3>4 DEF LoopState
    <3> QED BY <3>2, <3>5
  <2>2. ls' = [ls EXCEPT ![l] = s] /\ ls'[l] = s /\ seen'[l] = seen[l] \cup {p}
    BY <1>1, <1>6, <2>1 DEF IInv, TypeOK
  <2>3. /\ Elements(l)' = Elements(l) /\ Elements(l) \subseteq Nat
        /\ Scope(l)' = Elements(l) /\ Scope(l) = Elements(l) /\ Position(l)' = y
    <3>1. Elements(l)' = Elements(l) /\ Elements(l) \subseteq Element
      BY <1>1, <1>2, <2>1, <2>2 DEF Elements, IInv, TypeOK, LoopState
    <3> QED BY <1>6, <2>1, <2>2, <3>1, Numbers DEF Scope, Position, ForEach
  <2>4. /\ p < y /\ y \in Elements(l) \cup {End} /\ \A z \in Elements(l) : z > p => y <= z
    BY <1>6, <2>1 DEF IsNext
  <2>5. /\ \A x \in seen[l] : x < p
        /\ \A x \in Elements(l) : x < p => x \in seen[l] \cup late[l]
    BY <1>1, <1>6, <2>1, <2>3 DEF IInv, Progress, Limited
  <2>6. \A x \in seen'[l] : x < y
    BY <1>2, <2>1, <2>2, <2>4, <2>5
  <2>7. \A x \in Elements(l) : x < y => x \in seen'[l] \cup late[l]
    BY <2>1, <2>2, <2>3, <2>4, <2>5
  <2>8. Progress(l)'
    <3> HIDE DEF s
    <3> QED BY <1>1, <1>6, <2>1, <2>2, <2>3, <2>4, <2>6, <2>7 DEF Progress, ForEach
  <2> QED BY <1>4, <1>6, <2>1, <2>2, <2>8
<1> QED BY <1>3, <1>5, <1>6 DEF Handler

(* What the program may erase is not what the iterator is at: what the     *)
(* function was given is behind it, and what the function has yet to be    *)
(* given is not.                                                           *)
LEMMA NextIsKept ==
  ASSUME IInv, NEW l \in Level, ls[l].kind \in ForEach, ls[l].byRef,
         NEW x \in Element, MayErase(l, x)
  PROVE  ls[l].data # x
<1>1. /\ Position(l) = ls[l].data /\ Scope(l) = container
      /\ container \subseteq Nat /\ x \in Nat /\ ls[l].data \in Nat
  <2>1. ls[l] \in LoopState /\ container \subseteq Element
    BY DEF IInv, TypeOK
  <2> QED BY <2>1, Numbers DEF Position, Scope, Elements, ForEach, LoopState
<1>2. /\ \A y \in seen[l] : y < ls[l].data
      /\ \A y \in container : y < ls[l].data => y \in seen[l] \cup late[l]
  BY <1>1 DEF IInv, Progress, Limited
<1> QED BY <1>1, <1>2 DEF MayErase

(* Somebody changes the program's container.                               *)
LEMMA EraseInv ==
  ASSUME IInv, NEW x \in Element, Erase(x)
  PROVE  IInv'
<1>1. /\ container' = container \ {x} /\ UNCHANGED <<depth, ls, pc, seen, late>>
      /\ \A l \in 1 .. depth : ls[l].kind \in ForEach /\ ls[l].byRef => MayErase(l, x)
  BY DEF Erase
<1>2. TypeOK' /\ Shape'
  BY <1>1 DEF IInv, TypeOK, Shape, Cond
<1>3. ASSUME NEW l \in Level
      PROVE  Progress(l)'
  <2>1. CASE l > depth
    BY <1>1, <2>1 DEF IInv, Shape, Progress, Limited, ForEach, Gone, Made
  <2>2. CASE ~(l > depth)
    <3>1. l \in 1 .. depth
      BY <2>2, LoopAssumption DEF Level, IInv, TypeOK
    <3>2. \/ Elements(l)' = Elements(l)
          \/ ls[l].byRef /\ Elements(l)' = Elements(l) \ {x}
      BY <1>1 DEF Elements
    <3>3. /\ Scope(l)' \subseteq Scope(l) /\ Position(l)' = Position(l)
          /\ seen'[l] = seen[l] /\ late'[l] = late[l] /\ ls'[l] = ls[l]
      BY <1>1, <3>2 DEF Scope, Position
    <3>4. ls[l].kind \in ForEach /\ ls[l].data \in Elements(l) \cup {End}
            => ls'[l].data \in Elements(l)' \cup {End}
      BY <1>1, <3>1, <3>2, <3>3, NextIsKept
    <3> QED BY <3>3, <3>4 DEF IInv, Progress
  <2> QED BY <2>1, <2>2
<1> QED BY <1>2, <1>3 DEF IInv

LEMMA InsertInv ==
  ASSUME IInv, NEW x \in Element, Insert(x)
  PROVE  IInv'
<1>1. /\ container' = container \cup {x} /\ UNCHANGED <<depth, ls, pc, seen>>
      /\ late' = [l \in Level |-> IF ls[l].byRef THEN late[l] \cup {x} ELSE late[l]]
  BY DEF Insert
<1>2. TypeOK'
  BY <1>1 DEF IInv, TypeOK
<1>3. Shape'
  <2>1. \A l \in Level : l > depth => late'[l] = late[l]
    BY <1>1 DEF IInv, Shape, Gone, Made
  <2>2. Cond(depth)' = Cond(depth)
    BY <1>1 DEF Cond
  <2> QED BY <1>1, <2>1, <2>2 DEF IInv, Shape
<1>4. ASSUME NEW l \in Level
      PROVE  Progress(l)'
  <2>1. /\ Position(l)' = Position(l) /\ seen'[l] = seen[l] /\ ls'[l] = ls[l]
        /\ late[l] \subseteq late'[l] /\ Elements(l) \subseteq Elements(l)'
        /\ \A y \in Elements(l)' \ Elements(l) : y \in late'[l]
    BY <1>1 DEF Elements, Position
  <2>2. \A y \in Scope(l)' \ Scope(l) : y \in late'[l]
    BY <2>1 DEF Scope
  <2> QED BY <2>1, <2>2 DEF IInv, Progress
<1> QED BY <1>2, <1>3, <1>4 DEF IInv

LEMMA NextInv == IInv /\ [Next]_vars => IInv'
<1> SUFFICES ASSUME IInv, [Next]_vars PROVE IInv'
  OBVIOUS
<1>1. depth \in Nat /\ (pc # "idle" => depth \in 1 .. depth) /\ depth \in 0 .. depth
  BY LoopAssumption DEF IInv, TypeOK
<1>2. CASE Check
  <2>1. CASE Cond(depth) /\ pc' = "handler" /\ UNCHANGED <<depth, ls, seen, late>>
    <3>1. UNCHANGED container /\ pc = "cond"
      BY <1>2 DEF Check
    <3>2. TypeOK' /\ Shape'
      BY <2>1, <3>1 DEF IInv, TypeOK, Shape, Cond
    <3>3. \A l \in Level : Progress(l)'
      BY <2>1, <3>1 DEF IInv, Progress, Elements, Scope, Position
    <3> QED BY <3>2, <3>3 DEF IInv
  <2>2. CASE Leave(depth)
    <3>1. depth \in 1 .. depth
      BY <1>1, <1>2 DEF Check
    <3>2. depth - 1 \in 0 .. depth /\ (depth - 1 = 0 <=> depth = 1)
      BY <3>1
    <3> QED BY <1>2, <2>2, <3>2, UnwindInv DEF Leave, Check
  <2> QED BY <1>2, <2>1, <2>2 DEF Check
<1>3. CASE Handler
  BY <1>3, HandlerInv
<1>4. CASE Return
  <2>1. TypeOK' /\ Shape'
    BY <1>4 DEF Return, IInv, TypeOK, Shape
  <2>2. \A l \in Level : Progress(l)'
    BY <1>4 DEF Return, IInv, Progress, Elements, Scope, Position
  <2> QED BY <2>1, <2>2 DEF IInv
<1>5. CASE Error
  <2>1. 0 \in 0 .. depth
    BY <1>1
  <2> QED BY <1>5, <2>1, UnwindInv DEF Error
<1>6. ASSUME NEW lb \in Label \cup {NoLabel}, ContinueLoop(lb)
      PROVE  IInv'
  <2>1. PICK l \in Level : l \in 1 .. depth /\ Unwind(l)
    BY <1>6 DEF ContinueLoop, Named
  <2>2. l \in 0 .. depth /\ l # 0
    BY <1>1, <2>1
  <2> QED BY <1>6, <2>1, <2>2, UnwindInv DEF ContinueLoop
<1>7. ASSUME NEW lb \in Label \cup {NoLabel}, BreakLoop(lb)
      PROVE  IInv'
  <2>1. PICK l \in Level : l \in 1 .. depth /\ Leave(l)
    BY <1>7 DEF BreakLoop, Named
  <2>2. l - 1 \in 0 .. depth /\ (l - 1 = 0 <=> l = 1)
    BY <1>1, <2>1
  <2> QED BY <1>7, <2>1, <2>2, UnwindInv DEF BreakLoop, Leave
<1>8. CASE \E k \in Kinds, lb \in Label \cup {NoLabel} : AddLoop(k, lb)
  BY <1>8, AddLoopInv
<1>9. CASE \E x \in Element : Erase(x) \/ Insert(x)
  BY <1>9, EraseInv, InsertInv
<1>10. CASE UNCHANGED vars
  <2>1. TypeOK' /\ Shape'
    BY <1>10 DEF vars, IInv, TypeOK, Shape, Cond
  <2>2. \A l \in Level : Progress(l)'
    BY <1>10 DEF vars, IInv, Progress, Elements, Scope, Position
  <2> QED BY <2>1, <2>2 DEF IInv
<1> QED BY <1>2, <1>3, <1>4, <1>5, <1>6, <1>7, <1>8, <1>9, <1>10 DEF Next, Function

(* The inductive invariant holds in every reachable state.                 *)
THEOREM Invariance == Spec => []IInv
BY InitInv, NextInv, PTL DEF Spec

-----------------------------------------------------------------------------
LEMMA FiniteLevels ==
  ASSUME IInv, NEW l \in Finite
  PROVE  Progress(l) /\ ls[l].kind \in Limited
BY LoopAssumption DEF Finite, IInv, TypeOK, Level, Limited

(* The variables keep their types: also the flow is outside of all loops   *)
(* exactly when the engine has nothing to do with a loop.                  *)
THEOREM TypeCorrect == Spec => []TypeOK
<1>1. IInv => TypeOK
  BY DEF IInv
<1> QED BY <1>1, Invariance, PTL

(* Every iterator stays at an element that is there, or at the end, as     *)
(* long as nobody erases the element a loop is to give next.               *)
THEOREM IteratorsStayValid == Spec => []IteratorValid
<1>1. IInv => IteratorValid
  <2> SUFFICES ASSUME IInv, NEW l \in 1 .. depth, ls[l].kind \in ForEach
               PROVE  ls[l].data \in Elements(l) \cup {End}
    BY DEF IteratorValid
  <2>1. l \in Level
    BY LoopAssumption DEF IInv, TypeOK, Level
  <2> QED BY <2>1 DEF IInv, Progress, Limited
<1> QED BY <1>1, Invariance, PTL

(* No iteration is repeated, whatever errors, breaks and continues.        *)
THEOREM NoIterationTwice == Spec => []NothingTwice
<1>1. IInv => NothingTwice
  BY FiniteLevels DEF NothingTwice, Progress
<1> QED BY <1>1, Invariance, PTL

(* No element is skipped by a loop, whatever is erased or inserted.        *)
THEOREM NoElementSkipped == Spec => []NothingSkipped
<1>1. IInv => NothingSkipped
  BY FiniteLevels DEF NothingSkipped, Progress
<1> QED BY <1>1, Invariance, PTL
-----------------------------------------------------------------------------
(* What a loop has left is never negative: there is no iteration after the *)
(* one of the limit, and no element after the end.                         *)
LEMMA LeftIsCounted ==
  ASSUME IInv, NEW l \in Level
  PROVE  Left(l) \in Nat
<1>1. ls[l] \in LoopState /\ Progress(l)
  BY DEF IInv, TypeOK
<1>2. CASE ls[l].kind = "repeat"
  <2>1. ls[l].count \in Nat /\ ls[l].i \in Nat /\ ls[l].i <= ls[l].count
    BY <1>1, <1>2, Numbers DEF LoopState, Progress, Limited
  <2> QED BY <1>2, <2>1 DEF Left, ForEach
<1>3. CASE ls[l].kind \in ForEach
  <2>1. ls[l].data \in 0 .. K
    BY <1>1, LoopAssumption DEF LoopState, Element, End
  <2> QED BY <1>3, <2>1, LoopAssumption DEF Left, End, ForEach
<1>4. CASE ls[l].kind \notin ForEach \cup {"repeat"}
  BY <1>4 DEF Left
<1> QED BY <1>2, <1>3, <1>4

LeftCounted == \A l \in Level : Left(l) \in Nat

LEMMA LeftsAreCounted == IInv => LeftCounted
BY LeftIsCounted DEF LeftCounted

LEMMA LeftsStayCounted == IInv' => LeftCounted'
BY LeftsAreCounted, PTL

(* The rank of a loop in progress, by what the flow does.                  *)
LEMMA RankIs ==
  ASSUME IInv, NEW l \in 1 .. depth
  PROVE  /\ Left(l) \in Nat /\ Rank(l) = 4 * Left(l) + InIteration(l)
         /\ Rank(0) = 1
         /\ l < depth => InIteration(l) = 2
         /\ l = depth /\ pc = "body" => InIteration(l) = 3
<1>1. l \in Level /\ l # 0 /\ depth # 0 /\ depth \in Nat
  BY LoopAssumption DEF IInv, TypeOK, Level
<1>2. Left(l) \in Nat
  BY <1>1, LeftIsCounted
<1>3. /\ l < depth => InIteration(l) = 2
      /\ l = depth /\ pc = "body" => InIteration(l) = 3
  <2>1. CASE l < depth
    BY <1>1, <2>1 DEF InIteration
  <2>2. CASE ~(l < depth)
    BY <1>1, <2>2 DEF InIteration
  <2> QED BY <2>1, <2>2
<1>4. Rank(0) = 1 /\ Rank(l) = 4 * Left(l) + InIteration(l)
  BY <1>1 DEF Rank
<1> QED BY <1>2, <1>3, <1>4

(* Leaving loops, or the iteration of one, brings the loop that goes on    *)
(* nearer to its end.                                                      *)
LEMMA UnwoundIsNearer ==
  ASSUME IInv, IInv', NEW d \in 0 .. depth, Unwind(d),
         d < depth \/ pc = "body",
         IF d = 0 THEN depth # 0 /\ pc' = "idle" ELSE pc' = "cond"
  PROVE  NearerToTheEnd
<1>1. /\ depth' = d /\ depth \in 0 .. D
      /\ \A l \in Level : l <= d => ls'[l] = ls[l]
  BY LoopAssumption DEF Unwind, IInv, TypeOK
<1>2. CASE d = 0
  <2>1. Rank(0) = 1 /\ Rank(0)' = 0
    BY <1>1, <1>2 DEF Rank
  <2>2. 0 \in 0 .. depth /\ \A m \in 0 .. 0 - 1 : Rank(m)' = Rank(m)
    BY <1>1
  <2> QED BY <2>1, <2>2 DEF NearerToTheEnd
<1>3. CASE d # 0
  <2>1. d \in 1 .. depth /\ d \in (1 .. depth)'
    BY <1>1, <1>3
  <2>2. ASSUME NEW l \in 1 .. d
        PROVE  Left(l)' = Left(l)
    <3>1. l \in Level /\ l <= d
      BY <1>1, <2>1, LoopAssumption DEF Level
    <3> QED BY <1>1, <3>1 DEF Left
  <2>3. Rank(d)' = 4 * Left(d) + 1 /\ Left(d) \in Nat
    <3>1. InIteration(d)' = 1
      BY <1>1, <1>3 DEF InIteration
    <3>2. Rank(d)' = 4 * Left(d)' + InIteration(d)'
      BY <1>3 DEF Rank
    <3>3. Left(d)' = Left(d) /\ Left(d) \in Nat
      BY <2>1, <2>2, RankIs
    <3> QED BY <3>1, <3>2, <3>3
  <2>4. Rank(d) = 4 * Left(d) + 2 \/ Rank(d) = 4 * Left(d) + 3
    <3>1. CASE d < depth
      BY <2>1, <3>1, RankIs
    <3>2. CASE ~(d < depth)
      <4>1. d = depth /\ pc = "body"
        BY <1>1, <2>1, <3>2
      <4> QED BY <2>1, <4>1, RankIs
    <3> QED BY <3>1, <3>2
  <2>5. ASSUME NEW m \in 0 .. d - 1
        PROVE  Rank(m)' = Rank(m)
    <3>1. CASE m = 0
      BY <1>1, <1>3, <2>1, <3>1 DEF Rank
    <3>2. CASE m # 0
      <4>1. m \in 1 .. d /\ m < d /\ m < depth /\ m < depth'
        BY <1>1, <2>1, <3>2
      <4>2. Left(m)' = Left(m) /\ InIteration(m)' = 2 /\ InIteration(m) = 2
        BY <2>2, <4>1 DEF InIteration
      <4> QED BY <3>2, <4>2 DEF Rank
    <3> QED BY <3>1, <3>2
  <2>6. Rank(d)' \in Nat /\ Rank(d)' < Rank(d)
    BY <2>3, <2>4
  <2> QED BY <2>5, <2>6 DEF NearerToTheEnd
<1> QED BY <1>2, <1>3

(* What the flow does in its innermost loop, which is loop l, and leaves   *)
(* the others alone.                                                       *)
LEMMA InnermostIsNearer ==
  ASSUME IInv, NEW l \in 1 .. depth, l = depth, depth' \in {l, l + 1},
         \A m \in 1 .. l - 1 : ls'[m] = ls[m],
         Rank(l)' \in Nat, Rank(l)' < Rank(l)
  PROVE  NearerToTheEnd
<1>1. l \in Nat /\ l # 0 /\ l \in 0 .. depth
  BY LoopAssumption DEF IInv, TypeOK
<1>2. ASSUME NEW m \in 0 .. l - 1
      PROVE  Rank(m)' = Rank(m)
  <2>1. CASE m = 0
    BY <1>1, <2>1 DEF Rank
  <2>2. CASE m # 0
    <3>1. m \in 1 .. l - 1 /\ m < depth /\ m < depth'
      BY <1>1, <2>2
    <3>2. Left(m)' = Left(m) /\ InIteration(m)' = 2 /\ InIteration(m) = 2
      BY <3>1 DEF Left, InIteration
    <3> QED BY <2>2, <3>2 DEF Rank
  <2> QED BY <2>1, <2>2
<1> QED BY <1>1, <1>2 DEF NearerToTheEnd

(* The handler takes the loop on before it calls the function, so that the *)
(* iteration counts however the function ends.                             *)
LEMMA HandlerIsNearer ==
  ASSUME IInv, IInv', Handler, ls[depth].kind # "loop"
  PROVE  NearerToTheEnd
<1> PICK l : l = depth
  OBVIOUS
<1>1. /\ l \in 1 .. depth /\ l \in Level /\ l # 0 /\ depth' = l /\ pc = "handler" /\ pc' = "body"
      /\ Cond(l) /\ ls[l] \in LoopState /\ ls'[l] \in LoopState
  BY LoopAssumption DEF Handler, IInv, TypeOK, Shape, Level
<1>2. /\ \A m \in 1 .. l - 1 : ls'[m] = ls[m]
      /\ Left(l)' \in Int /\ Left(l)' < Left(l)
  <2>1. CASE /\ ls[l].kind = "repeat"
             /\ ls' = [ls EXCEPT ![l].i = @ + 1]
    <3>1. ls[l].i \in Nat /\ ls[l].count \in Nat /\ ls[l].i < ls[l].count
      BY <1>1, <2>1, Numbers DEF LoopState, Cond
    <3>2. /\ ls'[l].kind = "repeat" /\ ls'[l].count = ls[l].count /\ ls'[l].i = ls[l].i + 1
          /\ \A m \in 1 .. l - 1 : ls'[m] = ls[m]
      BY <1>1, <2>1, LoopAssumption DEF IInv, TypeOK, LoopState, Level
    <3>3. Left(l) = ls[l].count - ls[l].i /\ Left(l)' = ls[l].count - (ls[l].i + 1)
      BY <2>1, <3>2 DEF Left, ForEach
    <3> QED BY <3>1, <3>2, <3>3
  <2>2. ASSUME NEW y \in Element \cup {End}, ls[l].kind \in ForEach,
               IsNext(ls[l].data, y, Elements(l)),
               ls' = [ls EXCEPT ![l].data = y,
                        ![l].i = IF ls[l].kind = "list" THEN @ + 1 ELSE @]
        PROVE  /\ \A m \in 1 .. l - 1 : ls'[m] = ls[m]
               /\ Left(l)' \in Int /\ Left(l)' < Left(l)
    <3>1. ls[l].data \in Nat /\ y \in Nat /\ End \in Nat /\ y > ls[l].data
      BY <1>1, <2>2, Numbers DEF LoopState, IsNext
    <3>2. /\ ls'[l].kind = ls[l].kind /\ ls'[l].data = y
          /\ \A m \in 1 .. l - 1 : ls'[m] = ls[m]
      BY <1>1, <2>2, LoopAssumption DEF IInv, TypeOK, LoopState, Level
    <3>3. Left(l) = End - ls[l].data /\ Left(l)' = End - y
      BY <2>2, <3>2 DEF Left, ForEach
    <3> QED BY <3>1, <3>2, <3>3
  <2>3. \/ ls[l].kind = "repeat" /\ ls' = [ls EXCEPT ![l].i = @ + 1]
        \/ /\ ls[l].kind \in ForEach
           /\ \E y \in Element \cup {End} :
                /\ IsNext(ls[l].data, y, Elements(l))
                /\ ls' = [ls EXCEPT ![l].data = y,
                     ![l].i = IF ls[l].kind = "list" THEN @ + 1 ELSE @]
    BY DEF Handler
  <2> QED BY <2>1, <2>2, <2>3
<1>3. Left(l) \in Nat /\ Left(l)' \in Nat
  BY <1>1, LeftsAreCounted, LeftsStayCounted DEF LeftCounted, Level
<1>4. Rank(l) = 4 * Left(l) /\ Rank(l)' = 4 * Left(l)' + 3
  <2>1. InIteration(l) = 0 /\ InIteration(l)' = 3
    BY <1>1, LoopAssumption DEF InIteration
  <2> QED BY <1>1, <1>3, <2>1 DEF Rank
<1>5. Rank(l)' \in Nat /\ Rank(l)' < Rank(l)
  BY <1>2, <1>3, <1>4
<1> QED BY <1>1, <1>2, <1>5, InnermostIsNearer

(* One step: whatever happens in a loop brings one nearer to its end.      *)
LEMMA StepIsNearer ==
  ASSUME IInv, IInv', [Next]_vars, pc # "idle",
         ~(pc = "handler" /\ ls[depth].kind = "loop")
  PROVE  NearerToTheEnd \/ UNCHANGED <<depth, ls, pc, seen>>
<1> PICK l : l = depth
  OBVIOUS
<1>1. l \in 1 .. depth /\ l \in Level /\ l \in Nat /\ l # 0 /\ depth \in Nat
  BY LoopAssumption DEF IInv, TypeOK, Level
<1>2. ASSUME UNCHANGED ls, depth' \in {l, l + 1}, InIteration(l)' \in Nat,
             InIteration(l)' < InIteration(l)
      PROVE  NearerToTheEnd
  <2>1. Left(l)' = Left(l) /\ Left(l) \in Nat
    BY <1>1, <1>2, LeftIsCounted DEF Left
  <2>2. Rank(l)' = 4 * Left(l) + InIteration(l)' /\ Rank(l) = 4 * Left(l) + InIteration(l)
    BY <1>1, <2>1 DEF Rank
  <2>3. InIteration(l) \in Nat
    BY DEF InIteration
  <2>4. Rank(l)' \in Nat /\ Rank(l)' < Rank(l)
    BY <1>2, <2>1, <2>2, <2>3
  <2> QED BY <1>1, <1>2, <2>4, InnermostIsNearer
<1>3. CASE Check
  <2>1. CASE Cond(depth) /\ pc' = "handler" /\ UNCHANGED <<depth, ls, seen, late>>
    <3>1. InIteration(l) = 1 /\ InIteration(l)' = 0
      BY <1>1, <1>3, <2>1 DEF InIteration, Check
    <3> QED BY <1>2, <2>1, <3>1
  <2>2. CASE Leave(depth)
    <3>1. depth - 1 \in 0 .. depth /\ depth - 1 < depth /\ (depth - 1 = 0 <=> depth = 1)
      BY <1>1
    <3> QED BY <1>1, <2>2, <3>1, UnwoundIsNearer DEF Leave
  <2> QED BY <1>3, <2>1, <2>2 DEF Check
<1>4. CASE Handler
  <2>1. ls[depth].kind # "loop"
    BY <1>4 DEF Handler
  <2> QED BY <1>4, <2>1, HandlerIsNearer
<1>5. CASE Return
  <2>1. InIteration(l) = 3 /\ InIteration(l)' = 1
    BY <1>1, <1>5 DEF InIteration, Return
  <2> QED BY <1>2, <1>5, <2>1 DEF Return
<1>6. CASE Error
  <2>1. 0 \in 0 .. depth /\ 0 < depth
    BY <1>1
  <2> QED BY <1>6, <2>1, UnwoundIsNearer DEF Error
<1>7. ASSUME NEW lb \in Label \cup {NoLabel}, ContinueLoop(lb)
      PROVE  NearerToTheEnd
  <2>1. PICK j \in Level : j \in 1 .. depth /\ Unwind(j)
    BY <1>7 DEF ContinueLoop, Named
  <2>2. j \in 0 .. depth /\ j # 0
    BY <1>1, <2>1
  <2> QED BY <1>7, <2>1, <2>2, UnwoundIsNearer DEF ContinueLoop
<1>8. ASSUME NEW lb \in Label \cup {NoLabel}, BreakLoop(lb)
      PROVE  NearerToTheEnd
  <2>1. PICK j \in Level : j \in 1 .. depth /\ Leave(j)
    BY <1>8 DEF BreakLoop, Named
  <2>2. j - 1 \in 0 .. depth /\ j - 1 < depth /\ (j - 1 = 0 <=> j = 1) /\ depth # 0
    BY <1>1, <2>1
  <2> QED BY <2>1, <2>2, UnwoundIsNearer DEF Leave
<1>9. ASSUME NEW k \in Kinds, NEW lb \in Label \cup {NoLabel}, AddLoop(k, lb)
      PROVE  NearerToTheEnd
  <2>1. pc = "body" /\ depth' = l + 1
    BY <1>9 DEF AddLoop
  <2>2. \A m \in 1 .. l : ls'[m] = ls[m]
    <3>1. \A m \in Level \ {l + 1} : ls'[m] = ls[m]
      BY <1>9 DEF AddLoop, IInv, TypeOK
    <3>2. \A m \in 1 .. l : m \in Level \ {l + 1}
      BY <1>1, LoopAssumption DEF Level
    <3> QED BY <3>1, <3>2
  <2>3. ls'[l] = ls[l] /\ \A m \in 1 .. l - 1 : ls'[m] = ls[m]
    BY <1>1, <2>2
  <2>4. Left(l)' = Left(l) /\ Left(l) \in Nat
    BY <1>1, <2>3, LeftIsCounted DEF Left
  <2>5. InIteration(l) = 3 /\ InIteration(l)' = 2
    BY <1>1, <2>1 DEF InIteration
  <2>6. Rank(l) = 4 * Left(l) + 3 /\ Rank(l)' = 4 * Left(l) + 2
    BY <1>1, <2>4, <2>5 DEF Rank
  <2>7. Rank(l)' \in Nat /\ Rank(l)' < Rank(l)
    BY <2>4, <2>6
  <2> QED BY <1>1, <2>1, <2>3, <2>7, InnermostIsNearer
<1>10. CASE \E x \in Element : Erase(x) \/ Insert(x)
  BY <1>10 DEF Erase, Insert
<1>11. CASE UNCHANGED vars
  BY <1>11 DEF vars
<1> QED BY <1>3, <1>4, <1>5, <1>6, <1>7, <1>8, <1>9, <1>10, <1>11 DEF Next, Function

(* Loops that are not endless run out: every step of the engine and of the *)
(* functions lowers the ranks, which are natural numbers, in their order,  *)
(* and no error, label or change of a container raises them.               *)
THEOREM LoopsRunOut == Spec => StepsTowardsTheEnd
<1>1. IInv /\ IInv' /\ [Next]_vars =>
        [pc # "idle" /\ ~(pc = "handler" /\ ls[depth].kind = "loop") =>
           NearerToTheEnd \/ UNCHANGED <<depth, ls, pc, seen>>]_vars
  BY StepIsNearer
<1> QED BY <1>1, Invariance, PTL DEF Spec, StepsTowardsTheEnd
=============================================================================
