---------------------------- MODULE LoopControl ----------------------------
(***************************************************************************)
(* loop(), repeat() and forEach() of IAsyncSteps (iasyncsteps.hpp 655-900) *)
(* and what breakLoop() and continueLoop() do to them, nested and with     *)
(* labels.  A loop keeps its progress in LoopState: the counter i, and the *)
(* iterator in data.  Each iteration evaluates the condition, then runs    *)
(* the handler, which advances LoopState before it calls the user's        *)
(* function, so that the function may leave by an error or may erase the   *)
(* element it was given.                                                   *)
(*                                                                         *)
(* forEach() goes over a container the program keeps (reference_wrapper),  *)
(* which the function and other flows may change between two iterations,   *)
(* or over one that was moved or copied into LoopState.  Containers are    *)
(* the node based ones, std::map and std::list: an iterator stays valid    *)
(* until its element is erased.  Elements are numbered in their order.     *)
(*                                                                         *)
(* External: the engine, which runs cond and handler in turn and ends the  *)
(* iteration or the loop the error of continueLoop() or breakLoop() names. *)
(***************************************************************************)
EXTENDS Integers, FiniteSets

CONSTANTS
  D,          \* how deep loops are nested (bound)
  K,          \* elements of containers are 0 .. K - 1 (bound)
  Count,      \* iteration limits of repeat()
  Label,      \* labels of loops
  NoLabel,    \* a null label
  Kinds       \* the kinds of loops a flow makes

ASSUME LoopAssumption ==
  /\ D \in Nat /\ K \in Nat /\ Count \subseteq Nat
  /\ NoLabel \notin Label
  /\ Kinds \subseteq {"loop", "repeat", "map", "list"}

Level   == 1 .. D
Element == 0 .. K - 1
End     == K                  \* std::end()

VARIABLES
  container,  \* the container the program keeps
  depth,      \* number of loops the flow is in
  ls,         \* [Level -> LoopState, and what the closures captured]
  pc,         \* what the engine does next with the innermost loop
  seen,       \* history: [Level -> what the user's function was called with]
  late        \* history: [Level -> elements inserted since the loop began]

vars == <<container, depth, ls, pc, seen, late>>

(* A loop: what it was made with, the limit of repeat(), whether it goes   *)
(* over the program's container or over one in container_data, i and data. *)
LoopState ==
  [kind : Kinds \cup {"none"}, label : Label \cup {NoLabel}, count : Count \cup {0},
   byRef : BOOLEAN, held : SUBSET Element, i : Nat, data : Element \cup {End}]

Made(k, lb, n, r, c, b) ==
  [kind |-> k, label |-> lb, count |-> n, byRef |-> r, held |-> c, i |-> 0, data |-> b]
Gone == Made("none", NoLabel, 0, FALSE, {}, End)

ForEach == {"map", "list"}
Elements(l) == IF ls[l].byRef THEN container ELSE ls[l].held

(* What a loop goes through, and where it is.                              *)
Scope(l)    == IF ls[l].kind = "repeat" THEN 0 .. ls[l].count - 1 ELSE Elements(l)
Position(l) == IF ls[l].kind = "repeat" THEN ls[l].i ELSE ls[l].data

(* std::begin(c), and where ++ takes an iterator at x.                     *)
IsFirst(x, c)   == x \in c \cup {End} /\ \A y \in c : x <= y
IsNext(x, y, c) == y > x /\ y \in c \cup {End} /\ \A z \in c : z > x => y <= z

-----------------------------------------------------------------------------
(* add_loop() and the members the call sets: a step of its own, run when   *)
(* the function that calls loop(), repeat() or forEach() has returned.     *)
AddLoop(k, lb) ==
  LET l == depth + 1 IN
  /\ pc \in {"idle", "body"} /\ depth < D
  /\ depth' = l /\ pc' = "cond"
  /\ \/ /\ k = "loop"
        /\ ls' = [ls EXCEPT ![l] = Made(k, lb, 0, FALSE, {}, End)]
     \/ /\ k = "repeat"
        /\ \E n \in Count : ls' = [ls EXCEPT ![l] = Made(k, lb, n, FALSE, {}, End)]
     \/ /\ k \in ForEach
        /\ \E r \in BOOLEAN, b \in Element \cup {End} :
             /\ IsFirst(b, container)
             /\ ls' = [ls EXCEPT ![l] =
                         Made(k, lb, 0, r, IF r THEN {} ELSE container, b)]
  /\ UNCHANGED <<container, seen, late>>

(* LoopState::cond; that of loop() is null, and the loop endless.          *)
Cond(l) ==
  CASE ls[l].kind = "loop"   -> TRUE
    [] ls[l].kind = "repeat" -> ls[l].i < ls[l].count
    [] OTHER                -> ls[l].data # End

(* The engine unwinds the flow to d loops and destroys the LoopState of    *)
(* the others.                                                             *)
Unwind(d) ==
  /\ depth' = d
  /\ ls'   = [l \in Level |-> IF l <= d THEN ls[l] ELSE Gone]
  /\ seen' = [l \in Level |-> IF l <= d THEN seen[l] ELSE {}]
  /\ late' = [l \in Level |-> IF l <= d THEN late[l] ELSE {}]

(* The step that made loop l is done, and the loop around it goes on.      *)
Leave(l) == Unwind(l - 1) /\ pc' = IF l = 1 THEN "idle" ELSE "cond"

Check ==
  /\ pc = "cond"
  /\ \/ Cond(depth) /\ pc' = "handler" /\ UNCHANGED <<depth, ls, seen, late>>
     \/ ~Cond(depth) /\ Leave(depth)
  /\ UNCHANGED container

(* Mutant: the handler calls the function before ++iter and i++, which an  *)
(* error out of the function skips.                                        *)
HandlerBeforeAdvance ==
  /\ pc = "handler" /\ pc' = "body"
  /\ seen' = [seen EXCEPT ![depth] = @ \cup {Position(depth)}]
  /\ UNCHANGED <<container, depth, ls, late>>

(* Mutant: the element is taken from the iterator after ++iter.            *)
HandlerReadsAfterAdvance ==
  /\ pc = "handler" /\ pc' = "body"
  /\ \/ ls[depth].kind = "loop" /\ UNCHANGED <<ls, seen>>
     \/ /\ ls[depth].kind = "repeat"
        /\ ls' = [ls EXCEPT ![depth].i = @ + 1]
        /\ seen' = [seen EXCEPT ![depth] = @ \cup {ls[depth].i + 1}]
     \/ /\ ls[depth].kind \in ForEach
        /\ \E y \in Element \cup {End} :
             /\ IsNext(ls[depth].data, y, Elements(depth))
             /\ ls' = [ls EXCEPT ![depth].data = y]
             /\ seen' = [seen EXCEPT ![depth] = @ \cup {y}]
  /\ UNCHANGED <<container, depth, late>>

(* LoopState::handler: advance, then call the user's function.             *)
Handler ==
  /\ pc = "handler" /\ pc' = "body"
  /\ \/ ls[depth].kind = "loop" /\ UNCHANGED <<ls, seen>>
     \/ /\ ls[depth].kind = "repeat"
        /\ ls' = [ls EXCEPT ![depth].i = @ + 1]
        /\ seen' = [seen EXCEPT ![depth] = @ \cup {Position(depth)}]
     \/ /\ ls[depth].kind \in ForEach
        /\ \E y \in Element \cup {End} :
             /\ IsNext(ls[depth].data, y, Elements(depth))
             /\ ls' = [ls EXCEPT ![depth].data = y,
                  ![depth].i = IF ls[depth].kind = "list" THEN @ + 1 ELSE @]
        /\ seen' = [seen EXCEPT ![depth] = @ \cup {Position(depth)}]
  /\ UNCHANGED <<container, depth, late>>

(* The user's function returns without a new step.                         *)
Return ==
  /\ pc = "body" /\ pc' = "cond"
  /\ UNCHANGED <<container, depth, ls, seen, late>>

(* The loop a label names for breakLoop() and continueLoop(): the inner-   *)
(* most one, when there is no label, or the innermost one that has it.     *)
Named(l, lb) ==
  /\ l \in 1 .. depth
  /\ lb \in {NoLabel, ls[l].label}
  /\ \A m \in l + 1 .. depth : lb # NoLabel /\ ls[m].label # lb

(* continueLoop(lb): the error LoopCont ends the iteration of the loop     *)
(* named and the loops inside it.                                          *)
ContinueLoop(lb) ==
  /\ pc = "body" /\ pc' = "cond"
  /\ \E l \in Level : Named(l, lb) /\ Unwind(l)
  /\ UNCHANGED container

(* breakLoop(lb): the error LoopBreak ends the loop.                       *)
BreakLoop(lb) ==
  /\ pc = "body"
  /\ \E l \in Level : Named(l, lb) /\ Leave(l)
  /\ UNCHANGED container

(* Any other error, or a label no loop has, leaves all the loops.          *)
Error ==
  /\ pc = "body" /\ pc' = "idle" /\ Unwind(0)
  /\ UNCHANGED container

(* What the program may erase while loop l goes over its container: what   *)
(* the function was given, the element of the present iteration included,  *)
(* and what comes after an element it has yet to be given.  Only the next  *)
(* element has to stay ("Mind lifetime of the container!").  Where the     *)
(* iterator is does not matter here: the program does not know.            *)
MayErase(l, x) ==
  \/ x \in seen[l]
  \/ \E y \in container \ (seen[l] \cup late[l]) : y < x

(* The user's function or another flow of the event loop changes the       *)
(* program's container.                                                    *)
Erase(x) ==
  /\ x \in container
  /\ \A l \in 1 .. depth : ls[l].kind \in ForEach /\ ls[l].byRef => MayErase(l, x)
  /\ container' = container \ {x}
  /\ UNCHANGED <<depth, ls, pc, seen, late>>

Insert(x) ==
  /\ x \notin container
  /\ container' = container \cup {x}
  /\ late' = [l \in Level |-> IF ls[l].byRef THEN late[l] \cup {x} ELSE late[l]]
  /\ UNCHANGED <<depth, ls, pc, seen>>

Init ==
  /\ container \in SUBSET Element
  /\ depth = 0 /\ pc = "idle"
  /\ ls = [l \in Level |-> Gone]
  /\ seen = [l \in Level |-> {}]
  /\ late = [l \in Level |-> {}]

Function ==
  \/ Return \/ Error
  \/ \E lb \in Label \cup {NoLabel} : ContinueLoop(lb) \/ BreakLoop(lb)
  \/ \E k \in Kinds, lb \in Label \cup {NoLabel} : AddLoop(k, lb)

Engine == Check \/ Handler \/ (pc # "idle" /\ Function)

Next ==
  \/ Check \/ Handler \/ Function
  \/ \E x \in Element : Erase(x) \/ Insert(x)

Spec == Init /\ [][Next]_vars

(* The engine goes on with the loops of a flow, and the user's functions   *)
(* return; nothing makes a flow begin a loop.                              *)
FairSpec == Spec /\ WF_vars(Engine)

-----------------------------------------------------------------------------
TypeOK ==
  /\ container \subseteq Element
  /\ depth \in 0 .. D
  /\ ls \in [Level -> LoopState]
  /\ pc \in {"idle", "cond", "handler", "body"}
  /\ (depth = 0 <=> pc = "idle")
  /\ seen \in [Level -> SUBSET Nat]
  /\ late \in [Level -> SUBSET Element]

Finite == {l \in 1 .. depth : ls[l].kind \in ForEach \cup {"repeat"}}

(* The iterator of every forEach() in progress is at an element that is    *)
(* there or at the end, although the element the function was given, and   *)
(* any other but the next one, may be erased at any time (iasyncsteps.hpp  *)
(* 730, 772: "make sure to increment before handler call").                *)
IteratorValid ==
  \A l \in 1 .. depth :
    ls[l].kind \in ForEach => ls[l].data \in Elements(l) \cup {End}

(* No element is visited twice, also not after continueLoop(): everything  *)
(* the user's function got is behind the position of the loop.             *)
NothingTwice == \A l \in Finite : \A x \in seen[l] : x < Position(l)

(* Nothing is skipped: what is behind the position of a loop has been      *)
(* visited, unless it was inserted there while the loop was going on.  A   *)
(* loop that ends by its condition has visited everything.                 *)
NothingSkipped ==
  \A l \in Finite : \A x \in Scope(l) :
    x < Position(l) => x \in seen[l] \cup late[l]

(* How far a flow is from the end of loop l: the iterations it has left at *)
(* most, and what is left of the one it is in.  Level 0 is the flow.       *)
Left(l) ==
  CASE ls[l].kind = "repeat"    -> ls[l].count - ls[l].i
    [] ls[l].kind \in ForEach -> End - ls[l].data
    [] OTHER                    -> 0

InIteration(l) ==
  IF l < depth THEN 2          \* in a loop inside
  ELSE CASE pc = "body" -> 3
         [] pc = "cond" -> 1
         [] OTHER       -> 0

Rank(l) ==
  IF l = 0 THEN IF depth = 0 THEN 0 ELSE 1 ELSE 4 * Left(l) + InIteration(l)

(* Everything the engine and a user's function do in a loop, nested loops, *)
(* labels and errors included, brings some loop nearer to its end and      *)
(* leaves those around it as far as they were; only loop() begins another  *)
(* iteration for nothing.  So loops end, by the order of these numbers     *)
(* from the outermost loop inwards, and changes of a container do not      *)
(* count.                                                                  *)
NearerToTheEnd ==
  \E l \in 0 .. depth :
    /\ Rank(l)' \in Nat /\ Rank(l)' < Rank(l)
    /\ \A m \in 0 .. l - 1 : Rank(m)' = Rank(m)

StepsTowardsTheEnd ==
  [][pc # "idle" /\ ~(pc = "handler" /\ ls[depth].kind = "loop") =>
       NearerToTheEnd \/ UNCHANGED <<depth, ls, pc, seen>>]_vars

(* Loops with an end come to it, although their functions continue every   *)
(* time, and other flows keep changing the container; loop() has none.     *)
LoopsEnd ==
  [](\A l \in Level : ls[l].kind # "loop") => (pc # "idle" ~> pc = "idle")
=============================================================================
