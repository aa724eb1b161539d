------------------------- MODULE PromiseAwaitProofs -------------------------
(***************************************************************************)
(* Safety of promise() and await() for chains of any length.               *)
(*                                                                         *)
(* The key is that a flow that can still do something has a pending        *)
(* promise and everything promise() had to do for it done.  A callback of  *)
(* the queue makes its flow runnable without looking at where it is, so    *)
(* this needs that callbacks and waiting flows match one to one, which     *)
(* cancellation has to preserve, and that a flow no callback is for was    *)
(* not executed yet.  ValueMeansValue is kept when a flow goes from        *)
(* "complete" to "done", so it is stated of flows in "complete" already.   *)
(***************************************************************************)
EXTENDS PromiseAwait, TLAPS

Active == Runnable \cup Waiting

Matched ==
  /\ \A i \in DOMAIN queue :
       queue[i] # Cancelled => step[queue[i].flow] = queue[i].kind
  /\ \A i, j \in DOMAIN queue :
       queue[i] # Cancelled /\ queue[i].flow = queue[j].flow => i = j

(* How far promise() has got for flow f: what can run is all there, and    *)
(* what is not all there has a caller that is still in promise().          *)
Built(f) ==
  /\ step[f] = "none" <=> made[f] < 4
  /\ promise[f] = "none" <=> made[f] = 0
  /\ step[f] \in Active => promise[f] = "pending"
  /\ made[f] \in 1 .. 3 => promise[f] = "pending" /\ Calling(f)

Pending == \A f \in Flow : Built(f)

(* A flow that has not got past its first step has no other.               *)
Once ==
  \A f \in 1 .. N - 1 : step[f] \in {"none", "scheduled", "body"} => made[f + 1] = 0

Earned ==
  \A f \in 1 .. N - 1 :
    (promise[f] = "value" \/ step[f] = "complete") /\ f \notin recovered
      => promise[f + 1] = "value"

LastWaits == \A f \in Flow : step[f] = "external" => f = N

IInv == TypeOK /\ Matched /\ Pending /\ Once /\ Earned /\ LastWaits /\ ~fatal

-----------------------------------------------------------------------------
LEMMA CallbackTypes ==
  /\ Cancelled \notin [flow : Flow, kind : Waiting]
  /\ \A c \in [flow : Flow, kind : Waiting] \cup {Cancelled} :
       c.flow \in Flow <=> c # Cancelled
  /\ \A f \in Flow, k \in Waiting :
       Callback(f, k) \in [flow : Flow, kind : Waiting] /\ Callback(f, k) # Cancelled
BY ChainAssumption DEF Cancelled, Callback, Flow, Waiting

(* A flow that has no callback in the queue gets one.                      *)
LEMMA ScheduleMatched ==
  ASSUME TypeOK, NEW f \in Flow, NEW k \in Waiting,
         NEW st \in [Flow -> Where],
         \A i \in DOMAIN queue : queue[i].flow # f,
         \A g \in Flow \ {f} : (\E i \in DOMAIN queue : queue[i].flow = g)
                                 => st[g] = step[g],
         Matched, st[f] = k, queue' = Schedule(queue, f, k), step' = st
  PROVE  /\ queue' \in Seq([flow : Flow, kind : Waiting] \cup {Cancelled})
         /\ Matched'
<1> DEFINE T == [flow : Flow, kind : Waiting] \cup {Cancelled}
<1>1. queue \in Seq(T) /\ Callback(f, k) \in T /\ Callback(f, k).flow = f
      /\ Callback(f, k).kind = k
  BY CallbackTypes DEF TypeOK, Callback
<1>2. queue' = Append(queue, Callback(f, k))
  BY DEF Schedule
<1>3. /\ queue' \in Seq(T) /\ Len(queue') = Len(queue) + 1
      /\ Len(queue) \in Nat /\ DOMAIN queue = 1 .. Len(queue)
      /\ DOMAIN queue' = 1 .. Len(queue) + 1
      /\ queue'[Len(queue) + 1] = Callback(f, k)
      /\ \A i \in DOMAIN queue : queue'[i] = queue[i] /\ queue[i] \in T
  <2> HIDE DEF T
  <2> QED BY <1>1, <1>2
<1>4. \A i \in DOMAIN queue : queue[i] # Cancelled => queue[i].flow \in Flow \ {f}
  BY <1>3, CallbackTypes
<1>5. ASSUME NEW i \in DOMAIN queue', queue'[i] # Cancelled
      PROVE  step'[queue'[i].flow] = queue'[i].kind
  <2>1. CASE i = Len(queue) + 1
    BY <1>1, <1>3, <2>1
  <2>2. CASE i \in DOMAIN queue
    BY <1>3, <1>4, <1>5, <2>2 DEF Matched
  <2> QED BY <1>3, <2>1, <2>2
<1>6. ASSUME NEW i \in DOMAIN queue', NEW j \in DOMAIN queue',
             queue'[i] # Cancelled, queue'[i].flow = queue'[j].flow
      PROVE  i = j
  BY <1>1, <1>3, <1>6 DEF Matched
<1> QED BY <1>3, <1>5, <1>6 DEF Matched

(* Cancellation only takes callbacks out.                                  *)
LEMMA CancelMatched ==
  ASSUME TypeOK, NEW F \in SUBSET Flow, Matched, queue' = Cancel(queue, F),
         \A g \in Flow \ F : step'[g] = step[g]
  PROVE  /\ queue' \in Seq([flow : Flow, kind : Waiting] \cup {Cancelled})
         /\ Matched'
         /\ \A i \in DOMAIN queue' : queue'[i].flow \notin F
<1> DEFINE T == [flow : Flow, kind : Waiting] \cup {Cancelled}
<1>1. queue \in Seq(T) /\ Cancelled \in T /\ Cancelled.flow = 0 /\ 0 \notin Flow
  BY DEF TypeOK, Cancelled, Callback, Flow
<1>2. Len(queue) \in Nat /\ DOMAIN queue = 1 .. Len(queue)
      /\ \A i \in DOMAIN queue : queue[i] \in T
  <2> HIDE DEF T
  <2> QED BY <1>1
<1>3. queue' = [i \in 1 .. Len(queue) |-> IF queue[i].flow \in F THEN Cancelled ELSE queue[i]]
  BY <1>2 DEF Cancel
<1>4. queue' \in Seq(T)
  <2> HIDE DEF T
  <2> QED BY <1>1, <1>2, <1>3
<1>5. DOMAIN queue' = DOMAIN queue
      /\ \A i \in DOMAIN queue : queue'[i] = IF queue[i].flow \in F THEN Cancelled ELSE queue[i]
  BY <1>2, <1>3
<1>6. \A i \in DOMAIN queue' : queue'[i] # Cancelled =>
         queue'[i] = queue[i] /\ queue[i].flow \in Flow \ F
  BY <1>2, <1>5, CallbackTypes
<1>7. ASSUME NEW i \in DOMAIN queue', NEW j \in DOMAIN queue', queue'[i] # Cancelled,
             queue'[i].flow = queue'[j].flow
      PROVE  i = j
  <2>1. queue'[j] # Cancelled
    BY <1>1, <1>6, <1>7
  <2> QED BY <1>5, <1>6, <1>7, <2>1 DEF Matched
<1>8. \A i \in DOMAIN queue' : queue'[i] # Cancelled => step'[queue'[i].flow] = queue'[i].kind
  BY <1>5, <1>6 DEF Matched
<1> QED BY <1>1, <1>4, <1>5, <1>7, <1>8 DEF Matched

(* The first callback leaves, and its flow has no other.                   *)
LEMMA TailMatched ==
  ASSUME TypeOK, Matched, queue # <<>>, queue' = Tail(queue),
         \A g \in Flow \ {Head(queue).flow} : step'[g] = step[g]
  PROVE  /\ queue' \in Seq([flow : Flow, kind : Waiting] \cup {Cancelled})
         /\ Matched'
         /\ \A i \in DOMAIN queue' : queue'[i] # Cancelled => queue'[i].flow # Head(queue).flow
         /\ Head(queue) \in [flow : Flow, kind : Waiting] \cup {Cancelled}
         /\ Head(queue) # Cancelled => step[Head(queue).flow] = Head(queue).kind
<1> DEFINE T == [flow : Flow, kind : Waiting] \cup {Cancelled}
<1>1. queue \in Seq(T)
  BY DEF TypeOK
<1>2. /\ Len(queue) \in Nat \ {0} /\ DOMAIN queue = 1 .. Len(queue)
      /\ \A i \in DOMAIN queue : queue[i] \in T
      /\ queue' \in Seq(T) /\ Head(queue) = queue[1]
      /\ DOMAIN queue' = 1 .. Len(queue) - 1
      /\ \A i \in DOMAIN queue' : queue'[i] = queue[i + 1]
  <2> HIDE DEF T
  <2> QED BY <1>1
<1>3. 1 \in DOMAIN queue /\ \A i \in DOMAIN queue' : i + 1 \in DOMAIN queue /\ i + 1 # 1
  BY <1>2
<1>4. \A i \in DOMAIN queue' : queue'[i] # Cancelled =>
         queue'[i].flow \in Flow /\ queue'[i].flow # Head(queue).flow
  BY <1>2, <1>3, CallbackTypes DEF Matched
<1>5. \A i \in DOMAIN queue' : queue'[i] # Cancelled => step'[queue'[i].flow] = queue'[i].kind
  BY <1>2, <1>3, <1>4 DEF Matched
<1>6. ASSUME NEW i \in DOMAIN queue', NEW j \in DOMAIN queue', queue'[i] # Cancelled,
             queue'[i].flow = queue'[j].flow
      PROVE  i = j
  <2>1. i + 1 = j + 1
    BY <1>2, <1>3, <1>6 DEF Matched
  <2> QED BY <1>2, <2>1
<1> QED BY <1>2, <1>3, <1>4, <1>5, <1>6 DEF Matched

-----------------------------------------------------------------------------
(* What a step that touches the queue has to show of it.                   *)
QueueInv ==
  /\ queue \in Seq([flow : Flow, kind : Waiting] \cup {Cancelled})
  /\ Matched

(* The loop thread does something else than promise(): no flow but the     *)
(* first is half made.                                                     *)
Idle(f) == current \in {0, f} /\ step[f] # "promise"

LEMMA IdleMade ==
  ASSUME IInv, NEW f \in Flow, Idle(f)
  PROVE  \A g \in Flow \ {1} : made[g] \in {0, 4}
<1> SUFFICES ASSUME NEW g \in Flow \ {1}, made[g] \in 1 .. 3 PROVE FALSE
  BY DEF IInv, TypeOK
<1>1. current = g - 1 /\ step[g - 1] = "promise"
  BY DEF IInv, Pending, Built, Calling
<1> QED BY <1>1, ChainAssumption DEF Idle, Flow

LEMMA ActiveMade ==
  ASSUME IInv, NEW f \in Flow, step[f] \in Active
  PROVE  made[f] = 4 /\ promise[f] = "pending" /\ Has(f, "handler") /\ Has(f, "complete")
<1>1. made[f] = 4 /\ promise[f] = "pending"
  BY DEF IInv, TypeOK, Pending, Built, Active, Runnable, Waiting
<1> QED BY <1>1 DEF Has, Order

(* A step of one flow that leaves what promise() has made alone.           *)
LEMMA BuiltKept ==
  ASSUME IInv, NEW f \in Flow, Idle(f), step[f] \in Active,
         NEW w \in Where \ {"none"}, step' = [step EXCEPT ![f] = w],
         NEW r \in {"pending"} \cup Satisfied, w \in Active => r = "pending",
         promise' = [promise EXCEPT ![f] = r],
         w \in {"scheduled", "body"} => step[f] = "scheduled",
         UNCHANGED <<made, client>>
  PROVE  Pending' /\ Once'
<1>1. /\ step'[f] = w /\ \A g \in Flow \ {f} : step'[g] = step[g]
      /\ promise'[f] = r /\ \A g \in Flow \ {f} : promise'[g] = promise[g]
  BY DEF IInv, TypeOK
<1>2. made[f] = 4 /\ promise[f] = "pending"
  BY ActiveMade
<1>3. ASSUME NEW g \in Flow PROVE Built(g)'
  <2>1. made[g] \in 1 .. 3 => g = 1
    BY IdleMade
  <2>2. /\ step[g] = "none" <=> made[g] < 4
        /\ promise[g] = "none" <=> made[g] = 0
        /\ step[g] \in Active => promise[g] = "pending"
        /\ made[g] \in 1 .. 3 => promise[g] = "pending" /\ Calling(g)
    BY DEF IInv, Pending, Built
  <2>3. CASE g = f
    BY <1>1, <1>2, <2>3 DEF Built, Satisfied
  <2>4. CASE g # f
    BY <1>1, <2>1, <2>2, <2>4 DEF Built, Calling
  <2> QED BY <2>3, <2>4
<1>4. Once'
  BY <1>1, ChainAssumption DEF IInv, Once, Flow, Active, Runnable, Waiting
<1> QED BY <1>3, <1>4 DEF Pending

(* The flow that runs goes on with a step; it completes its promise only   *)
(* after the flow it awaits, or after a recovery.                          *)
LEMMA ContinueInv ==
  ASSUME IInv, NEW f \in Flow, Idle(f), step[f] \in Active, NEW w \in Runnable,
         Continue(f, w), QueueInv',
         w = "complete" /\ f < N /\ f \notin recovered' => promise[f + 1] = "value",
         w = "body" => step[f] = "scheduled",
         recovered \subseteq recovered', recovered' \subseteq Flow,
         UNCHANGED <<promise, made, client, fatal>>
  PROVE  IInv'
<1>1. step' = [step EXCEPT ![f] = w] /\ current' = f
  BY DEF Continue
<1>2. /\ step' \in [Flow -> Where] /\ step'[f] = w
      /\ \A g \in Flow \ {f} : step'[g] = step[g]
  BY <1>1 DEF IInv, TypeOK, Where
<1>3. TypeOK'
  BY <1>1, <1>2 DEF IInv, TypeOK, QueueInv
<1>4. Pending' /\ Once'
  <2>1. promise[f] = "pending" /\ promise' = [promise EXCEPT ![f] = "pending"]
    BY ActiveMade DEF IInv, TypeOK
  <2> QED BY <1>1, <2>1, BuiltKept DEF Where, Runnable
<1>5. Earned'
  BY <1>2, ChainAssumption DEF IInv, Earned, Flow
<1>6. LastWaits'
  BY <1>2 DEF IInv, LastWaits, Runnable
<1> QED BY <1>3, <1>4, <1>5, <1>6 DEF IInv, QueueInv

(* The flow that runs ends, and its promise gets the result.               *)
LEMMA EndInv ==
  ASSUME IInv, NEW f \in Flow, Idle(f), step[f] \in Active, NEW r \in Satisfied,
         step' = [step EXCEPT ![f] = "done"], current' = 0,
         promise' = [promise EXCEPT ![f] = r], QueueInv',
         r = "value" /\ f < N /\ f \notin recovered => promise[f + 1] = "value",
         UNCHANGED <<made, recovered, client, fatal>>
  PROVE  IInv'
<1>1. /\ step' \in [Flow -> Where] /\ step'[f] = "done"
      /\ \A g \in Flow \ {f} : step'[g] = step[g]
  BY DEF IInv, TypeOK, Where
<1>2. /\ promise' \in [Flow -> {"none", "pending", "broken"} \cup Satisfied]
      /\ promise'[f] = r /\ \A g \in Flow \ {f} : promise'[g] = promise[g]
  BY DEF IInv, TypeOK
<1>3. TypeOK'
  BY <1>1, <1>2 DEF IInv, TypeOK, QueueInv
<1>4. Pending' /\ Once'
  <2>1. "done" \in Where \ {"none"} /\ "done" \notin Active
    BY DEF Where, Active, Runnable, Waiting
  <2> QED BY <2>1, BuiltKept
<1>5. promise[f] = "pending"
  BY ActiveMade
<1>6. ASSUME NEW g \in 1 .. N - 1,
             (promise'[g] = "value" \/ step'[g] = "complete") /\ g \notin recovered'
      PROVE  promise'[g + 1] = "value"
  <2>1. g \in Flow /\ g + 1 \in Flow /\ g + 1 # g /\ g < N
    BY ChainAssumption DEF Flow
  <2>2. CASE g = f
    BY <1>1, <1>2, <1>6, <2>1, <2>2
  <2>3. CASE g # f
    <3>1. promise[g + 1] = "value"
      BY <1>1, <1>2, <1>6, <2>1, <2>3 DEF IInv, Earned
    <3> QED BY <1>2, <1>5, <2>1, <3>1
  <2> QED BY <2>2, <2>3
<1>7. Earned'
  BY <1>6 DEF Earned
<1>8. LastWaits'
  BY <1>1 DEF IInv, LastWaits
<1> QED BY <1>3, <1>4, <1>7, <1>8 DEF IInv, QueueInv

(* An error in a flow that can do something finds its handler.             *)
LEMMA UnhandledInv ==
  ASSUME IInv, NEW f \in Flow, Idle(f), step[f] \in Active, Unhandled(f), QueueInv',
         UNCHANGED <<made, recovered, client>>
  PROVE  IInv'
<1>1. Has(f, "handler")
  BY ActiveMade
<1> QED BY <1>1, EndInv DEF Unhandled, Satisfied

LEMMA FailInv ==
  ASSUME IInv, NEW f \in Flow, Idle(f), step[f] \in Active, Fail(f), QueueInv',
         UNCHANGED <<made, client>>
  PROVE  IInv'
<1>1. CASE recovered' = recovered \cup {f} /\ Continue(f, "complete")
           /\ UNCHANGED <<promise, fatal>>
  BY <1>1, ContinueInv DEF IInv, TypeOK, Runnable
<1>2. CASE Unhandled(f) /\ UNCHANGED recovered
  BY <1>2, UnhandledInv
<1> QED BY <1>1, <1>2 DEF Fail

-----------------------------------------------------------------------------
(* A step that leaves the queue alone and changes no flow that has a       *)
(* callback in it.                                                         *)
LEMMA QueueKept ==
  ASSUME IInv, UNCHANGED queue, NEW f \in Flow,
         \A i \in DOMAIN queue : queue[i].flow # f,
         \A g \in Flow \ {f} : step'[g] = step[g]
  PROVE  QueueInv'
<1> DEFINE T == [flow : Flow, kind : Waiting] \cup {Cancelled}
<1>1. queue \in Seq(T)
  BY DEF IInv, TypeOK
<1>2. \A i \in DOMAIN queue : queue[i] # Cancelled => queue[i].flow \in Flow \ {f}
  <2>1. \A i \in DOMAIN queue : queue[i] \in T
    <3> HIDE DEF T
    <3> QED BY <1>1
  <2> QED BY <2>1, CallbackTypes
<1> QED BY <1>1, <1>2 DEF IInv, Matched, QueueInv

(* A flow that is not waiting has no callback in the queue.                *)
LEMMA NoCallback ==
  ASSUME IInv, NEW f \in Flow, step[f] \notin Waiting
  PROVE  \A i \in DOMAIN queue : queue[i].flow # f
<1> DEFINE T == [flow : Flow, kind : Waiting] \cup {Cancelled}
<1>1. queue \in Seq(T)
  BY DEF IInv, TypeOK
<1>2. \A i \in DOMAIN queue : queue[i] \in T
  <2> HIDE DEF T
  <2> QED BY <1>1
<1>3. ASSUME NEW i \in DOMAIN queue, queue[i].flow = f
      PROVE  FALSE
  <2>1. queue[i] # Cancelled
    BY <1>2, <1>3, CallbackTypes
  <2>2. queue[i].kind \in Waiting
    BY <1>2, <2>1
  <2> QED BY <1>3, <2>1, <2>2 DEF IInv, Matched
<1> QED BY <1>3

(* One call of promise(), by the client or in the flow before.  Only the   *)
(* last one, execute(), lets the flow run.                                 *)
LEMMA PromiseCallInv ==
  ASSUME IInv, NEW f \in Flow, PromiseCall(f)
  PROVE  IInv'
<1>1. /\ Calling(f) /\ made' = [made EXCEPT ![f] = @ + 1]
      /\ StackPromise(f) \/ Prepare(f) \/ Execute(f)
      /\ UNCHANGED <<recovered, current, client, fatal>>
  BY DEF PromiseCall
<1>2. /\ StackPromise(f) => made[f] = 0 /\ UNCHANGED <<step, queue>>
                            /\ promise' = [promise EXCEPT ![f] = "pending"]
      /\ Prepare(f) => made[f] \in {1, 2} /\ UNCHANGED <<step, promise, queue>>
      /\ Execute(f) => /\ made[f] = 3 /\ step' = [step EXCEPT ![f] = "scheduled"]
                       /\ queue' = Schedule(queue, f, "scheduled") /\ UNCHANGED promise
  BY DEF StackPromise, Prepare, Execute, Turn, Order, IInv, TypeOK
<1>3. /\ made[f] \in 0 .. 3 /\ made' \in [Flow -> 0 .. 4] /\ made'[f] = made[f] + 1
      /\ \A g \in Flow \ {f} : made'[g] = made[g]
  BY <1>1, <1>2 DEF IInv, TypeOK
<1>4. step[f] = "none" /\ (made[f] # 0 => promise[f] = "pending")
  BY <1>3 DEF IInv, Pending, Built
<1>5. /\ step' \in [Flow -> Where]
      /\ \A g \in Flow \ {f} : step'[g] = step[g]
      /\ step'[f] = IF made[f] = 3 THEN "scheduled" ELSE "none"
  BY <1>1, <1>2, <1>4 DEF IInv, TypeOK, Where, Waiting
<1>6. /\ promise' \in [Flow -> {"none", "pending", "broken"} \cup Satisfied]
      /\ promise'[f] = "pending" /\ \A g \in Flow \ {f} : promise'[g] = promise[g]
      /\ promise[f] # "value"
  BY <1>1, <1>2, <1>3, <1>4 DEF IInv, TypeOK, Pending, Built
<1>7. QueueInv'
  <2>1. \A i \in DOMAIN queue : queue[i].flow # f
    BY <1>4, NoCallback DEF Waiting
  <2>2. CASE UNCHANGED queue
    BY <1>5, <2>1, <2>2, QueueKept
  <2>3. CASE Execute(f)
    BY <1>2, <1>5, <2>1, <2>3, ScheduleMatched DEF IInv, QueueInv, Waiting
  <2> QED BY <1>1, <1>2, <2>2, <2>3
<1>8. TypeOK'
  BY <1>1, <1>3, <1>5, <1>6, <1>7 DEF IInv, TypeOK, QueueInv
<1>9. ASSUME NEW g \in Flow PROVE Built(g)'
  <2>1. /\ step[g] = "none" <=> made[g] < 4
        /\ promise[g] = "none" <=> made[g] = 0
        /\ step[g] \in Active => promise[g] = "pending"
        /\ made[g] \in 1 .. 3 => promise[g] = "pending" /\ Calling(g)
    BY DEF IInv, Pending, Built
  <2>2. \A h \in Flow : Calling(h) /\ (h = 1 \/ h - 1 # f) => Calling(h)'
    BY <1>1, <1>5, ChainAssumption DEF Calling, Flow
  <2>3. \A h \in Flow : h # 1 /\ h - 1 = f => ~Calling(h)
    BY <1>4 DEF Calling
  <2>4. CASE g = f
    <3>1. f = 1 \/ f - 1 # f
      BY DEF Flow
    <3> QED BY <1>1, <1>3, <1>5, <1>6, <2>2, <2>4, <3>1 DEF Built
  <2>5. CASE g # f
    BY <1>3, <1>5, <1>6, <2>1, <2>2, <2>3, <2>5 DEF Built
  <2> QED BY <2>4, <2>5
<1>10. ASSUME NEW g \in 1 .. N - 1, step'[g] \in {"none", "scheduled", "body"}
       PROVE  made'[g + 1] = 0
  <2>1. g \in Flow /\ g + 1 \in Flow /\ g + 1 # 1 /\ (g + 1) - 1 = g
    BY ChainAssumption DEF Flow
  <2>2. step[g] \in {"none", "scheduled", "body"}
    BY <1>4, <1>5, <1>10, <2>1
  <2>3. g + 1 # f
    BY <1>1, <2>1, <2>2 DEF Calling
  <2> QED BY <1>3, <2>1, <2>2, <2>3 DEF IInv, Once
<1>11. ASSUME NEW g \in 1 .. N - 1,
              (promise'[g] = "value" \/ step'[g] = "complete") /\ g \notin recovered'
       PROVE  promise'[g + 1] = "value"
  <2>1. g \in Flow /\ g + 1 \in Flow
    BY ChainAssumption DEF Flow
  <2>2. promise[g + 1] = "value"
    BY <1>1, <1>5, <1>6, <1>11, <2>1 DEF IInv, Earned
  <2> QED BY <1>6, <2>1, <2>2
<1>12. LastWaits'
  BY <1>5 DEF IInv, LastWaits
<1> QED BY <1>1, <1>7, <1>8, <1>9, <1>10, <1>11, <1>12 DEF IInv, QueueInv, Pending, Once, Earned

(* get_future(): the caller leaves promise() when it is all done.          *)
LEMMA GetFutureInv ==
  ASSUME IInv, NEW f \in Flow, GetFuture(f)
  PROVE  IInv'
<1>1. /\ Calling(f) /\ Has(f, "execute")
      /\ UNCHANGED <<promise, made, recovered, current, queue, fatal>>
      /\ IF f = 1 THEN client' = "wait" /\ UNCHANGED step
         ELSE step' = [step EXCEPT ![f - 1] = "await"] /\ UNCHANGED client
  BY DEF GetFuture, Order
<1>2. made[f] = 4
  BY <1>1 DEF Has, Order, IInv, TypeOK
<1>3. \A g \in Flow : g # f /\ Calling(g) => Calling(g)'
  BY <1>1, ChainAssumption DEF Calling, Flow, IInv, TypeOK
<1>4. CASE f = 1
  BY <1>1, <1>2, <1>3, <1>4 DEF IInv, TypeOK, Matched, Pending, Built, Once, Earned, LastWaits
<1>5. CASE f # 1
  <2>1. f - 1 \in Flow /\ step[f - 1] = "promise" /\ step[f - 1] \notin Waiting
    BY <1>1, <1>5, ChainAssumption DEF Calling, Flow, Waiting
  <2>2. /\ step' \in [Flow -> Where] /\ step'[f - 1] = "await"
        /\ \A g \in Flow \ {f - 1} : step'[g] = step[g]
    BY <1>1, <1>5, <2>1 DEF IInv, TypeOK, Where, Runnable
  <2>3. QueueInv'
    BY <1>1, <2>1, <2>2, NoCallback, QueueKept
  <2>4. TypeOK'
    BY <1>1, <1>5, <2>2, <2>3 DEF IInv, TypeOK, QueueInv
  <2>5. Pending'
    BY <1>1, <1>2, <1>3, <2>1, <2>2 DEF IInv, Pending, Built, Active, Runnable
  <2>6. Once' /\ Earned' /\ LastWaits'
    BY <1>1, <2>2, ChainAssumption DEF IInv, Once, Earned, LastWaits, Flow
  <2> QED BY <1>1, <2>3, <2>4, <2>5, <2>6 DEF IInv, QueueInv
<1> QED BY <1>4, <1>5

LEMMA InitInv == Init => IInv
<1> SUFFICES ASSUME Init PROVE IInv
  OBVIOUS
<1> DEFINE T == [flow : Flow, kind : Waiting] \cup {Cancelled}
<1>1. TypeOK
  <2>1. queue \in Seq(T)
    <3> HIDE DEF T
    <3> QED BY DEF Init
  <2>2. made \in [Flow -> 0 .. 4]
    BY DEF Init
  <2> QED BY <2>1, <2>2 DEF Init, TypeOK, Where
<1>2. Matched /\ Pending /\ LastWaits
  BY DEF Init, Matched, Pending, Built, LastWaits, Active, Runnable, Waiting
<1>3. Earned /\ Once
  BY ChainAssumption DEF Init, Earned, Once, Flow
<1> QED BY <1>1, <1>2, <1>3 DEF IInv, Init

(* What the client does.                                                   *)
LEMMA ClientInv == IInv /\ Client => IInv'
<1> SUFFICES ASSUME IInv, Client PROVE IInv'
  OBVIOUS
<1>1. CASE ClientPromise
  <2>1. \A f \in Flow : Calling(f) => Calling(f)'
    BY <1>1 DEF ClientPromise, Calling
  <2> QED BY <1>1, <2>1 DEF ClientPromise, IInv, TypeOK, Matched, Pending, Built, Once, Earned,
                            LastWaits
<1>2. CASE PromiseCall(1) \/ GetFuture(1)
  BY <1>2, PromiseCallInv, GetFutureInv, ChainAssumption DEF Flow
<1>3. CASE ClientGet
  <2>1. \A f \in Flow : Calling(f) => Calling(f)'
    BY <1>3 DEF ClientGet, Calling
  <2> QED BY <1>3, <2>1 DEF ClientGet, IInv, TypeOK, Matched, Pending, Built, Once, Earned,
                            LastWaits
<1> QED BY <1>1, <1>2, <1>3 DEF Client

LEMMA ClientDestroyInv == IInv /\ ClientDestroy => IInv'
<1> SUFFICES ASSUME IInv, ClientDestroy PROVE IInv'
  OBVIOUS
<1>1. /\ step' = [f \in Flow |-> IF step[f] = "none" THEN "none" ELSE "gone"]
      /\ promise' = [f \in Flow |-> IF promise[f] = "pending" THEN "broken" ELSE promise[f]]
      /\ queue' = Cancel(queue, Flow) /\ client' \in {client, "abandoned"}
      /\ UNCHANGED <<made, recovered, current, fatal>>
      /\ current = 0 /\ client # "promise"
  BY DEF ClientDestroy, Satisfied
<1>2. QueueInv'
  BY <1>1, CancelMatched DEF IInv, QueueInv
<1>3. TypeOK'
  BY <1>1, <1>2 DEF IInv, TypeOK, QueueInv, Where
<1>4. Pending'
  <2>1. \A f \in Flow : made[f] \notin 1 .. 3
    BY <1>1, ChainAssumption DEF IInv, Pending, Built, Calling, Flow
  <2> QED BY <1>1, <2>1 DEF IInv, Pending, Built, Active, Runnable, Waiting
<1>6. Once' /\ LastWaits'
  BY <1>1, ChainAssumption DEF IInv, Once, LastWaits, Flow
<1>5. ASSUME NEW g \in 1 .. N - 1, promise'[g] = "value" \/ step'[g] = "complete",
             g \notin recovered'
      PROVE  promise'[g + 1] = "value"
  <2>1. g \in Flow /\ g + 1 \in Flow
    BY ChainAssumption DEF Flow
  <2>2. promise[g + 1] = "value"
    BY <1>1, <1>5, <2>1 DEF IInv, Earned
  <2> QED BY <1>1, <2>1, <2>2
<1> QED BY <1>1, <1>2, <1>3, <1>4, <1>5, <1>6 DEF IInv, QueueInv, Earned

-----------------------------------------------------------------------------
(* What the loop thread does, with the flow whose burst it runs.           *)
LEMMA BodyInv ==
  ASSUME IInv, NEW f \in Flow, Body(f)
  PROVE  IInv'
<1>1. /\ step[f] = "body" /\ step[f] \in Active /\ current = f /\ Idle(f)
      /\ UNCHANGED <<made, queue, client>>
  BY DEF Body, Active, Runnable, Idle
<1>2. \A i \in DOMAIN queue : queue[i].flow # f
  BY <1>1, NoCallback DEF Waiting
<1>3. QueueInv'
  <2>1. \A g \in Flow \ {f} : step'[g] = step[g]
    BY DEF Body, Fail, Unhandled, Continue, IInv, TypeOK
  <2> QED BY <1>1, <1>2, <2>1, QueueKept
<1>4. CASE Continue(f, "promise") /\ UNCHANGED <<promise, recovered, fatal>>
  BY <1>1, <1>3, <1>4, ContinueInv DEF IInv, TypeOK, Runnable
<1>5. CASE /\ f = N /\ step' = [step EXCEPT ![f] = "external"] /\ current' = 0
           /\ UNCHANGED <<promise, recovered, fatal>>
  <2>1. /\ step' \in [Flow -> Where] /\ step'[f] = "external"
        /\ \A g \in Flow \ {f} : step'[g] = step[g]
    BY <1>5 DEF IInv, TypeOK, Where, Waiting
  <2>2. TypeOK'
    BY <1>1, <1>3, <1>5, <2>1 DEF IInv, TypeOK, QueueInv
  <2>3. Pending' /\ Once'
    <3>1. promise' = [promise EXCEPT ![f] = "pending"]
      BY <1>1, <1>5, ActiveMade DEF IInv, TypeOK
    <3>2. "external" \in Where \ {"none"}
      BY DEF Where, Waiting
    <3>3. step' = [step EXCEPT ![f] = "external"] /\ UNCHANGED <<made, client>>
      BY <1>1, <1>5
    <3> QED BY <1>1, <3>1, <3>2, <3>3, BuiltKept
  <2>4. Earned' /\ LastWaits'
    BY <1>5, <2>1, ChainAssumption DEF IInv, Earned, LastWaits, Flow
  <2> QED BY <1>3, <1>5, <2>2, <2>3, <2>4 DEF IInv, QueueInv
<1>6. CASE Fail(f)
  BY <1>1, <1>3, <1>6, FailInv
<1> QED BY <1>4, <1>5, <1>6 DEF Body

LEMMA AwaitInv ==
  ASSUME IInv, NEW f \in Flow, Await(f)
  PROVE  IInv'
<1>1. step[f] = "await" /\ step[f] \in Active /\ Idle(f) /\ UNCHANGED <<made, queue, client>>
  BY DEF Await, Active, Runnable, Idle
<1>2. \A i \in DOMAIN queue : queue[i].flow # f
  BY <1>1, NoCallback DEF Waiting
<1>3. \A g \in Flow \ {f} : step'[g] = step[g]
  BY DEF Await, Fail, Unhandled, Continue, IInv, TypeOK
<1>4. QueueInv'
  BY <1>1, <1>2, <1>3, QueueKept
<1>5. CASE Continue(f, "relinquish") /\ UNCHANGED <<promise, recovered, fatal>>
  BY <1>1, <1>4, <1>5, ContinueInv DEF IInv, TypeOK, Runnable
<1>6. CASE promise[f + 1] = "value" /\ Continue(f, "complete")
           /\ UNCHANGED <<promise, recovered, fatal>>
  BY <1>1, <1>4, <1>6, ContinueInv DEF IInv, TypeOK, Runnable
<1>7. CASE Fail(f)
  BY <1>1, <1>4, <1>7, FailInv
<1> QED BY <1>5, <1>6, <1>7 DEF Await

LEMMA RelinquishInv ==
  ASSUME IInv, NEW f \in Flow, Relinquish(f)
  PROVE  IInv'
<1>1. /\ step[f] = "relinquish" /\ queue' = Schedule(queue, f, "sleeping")
      /\ step' = [step EXCEPT ![f] = "sleeping"] /\ current' = 0
      /\ UNCHANGED <<promise, made, recovered, client, fatal>>
      /\ Idle(f) /\ step[f] \in Active
  BY DEF Relinquish, Idle, Active, Runnable
<1>2. /\ step' \in [Flow -> Where] /\ step'[f] = "sleeping"
      /\ \A g \in Flow \ {f} : step'[g] = step[g]
  BY <1>1 DEF IInv, TypeOK, Where, Waiting
<1>3. QueueInv'
  <2>1. \A i \in DOMAIN queue : queue[i].flow # f
    BY <1>1, NoCallback DEF Waiting
  <2> QED BY <1>1, <1>2, <2>1, ScheduleMatched DEF IInv, QueueInv, Waiting
<1>4. TypeOK'
  BY <1>1, <1>2, <1>3 DEF IInv, TypeOK, QueueInv
<1>5. Pending' /\ Once'
  <2>1. promise' = [promise EXCEPT ![f] = "pending"]
    BY <1>1, ActiveMade DEF IInv, TypeOK
  <2>2. "sleeping" \in Where \ {"none"}
    BY DEF Where, Waiting
  <2> QED BY <1>1, <2>1, <2>2, BuiltKept
<1>6. Earned' /\ LastWaits'
  BY <1>1, <1>2, ChainAssumption DEF IInv, Earned, LastWaits, Flow
<1> QED BY <1>1, <1>3, <1>4, <1>5, <1>6 DEF IInv, QueueInv

LEMMA CompleteInv ==
  ASSUME IInv, NEW f \in Flow, Complete(f)
  PROVE  IInv'
<1>1. /\ step[f] = "complete" /\ step[f] \in Active /\ Idle(f)
      /\ UNCHANGED <<made, recovered, queue, client>>
  BY DEF Complete, Active, Runnable, Idle
<1>2. QueueInv'
  <2>1. \A i \in DOMAIN queue : queue[i].flow # f
    BY <1>1, NoCallback DEF Waiting
  <2>2. \A g \in Flow \ {f} : step'[g] = step[g]
    BY DEF Complete, Unhandled, IInv, TypeOK
  <2> QED BY <1>1, <2>1, <2>2, QueueKept
<1>3. f < N /\ f \notin recovered => promise[f + 1] = "value"
  BY <1>1, ChainAssumption DEF IInv, Earned, Flow
<1>4. CASE Unhandled(f)
  BY <1>1, <1>2, <1>4, UnhandledInv
<1>5. CASE /\ promise' = [promise EXCEPT ![f] = "value"]
           /\ step' = [step EXCEPT ![f] = "done"] /\ current' = 0 /\ UNCHANGED fatal
  BY <1>1, <1>2, <1>3, <1>5, EndInv DEF Satisfied
<1>6. Has(f, "complete")
  BY <1>1, ActiveMade
<1> QED BY <1>4, <1>5, <1>6 DEF Complete

(* A callback finds its flow in the step it was scheduled for, and nothing *)
(* else is left in the queue for that flow.                                *)
LEMMA DispatchInv == IInv /\ Dispatch => IInv'
<1> SUFFICES ASSUME IInv, Dispatch PROVE IInv'
  OBVIOUS
<1> DEFINE f == Head(queue).flow
           k == Head(queue).kind
<1>1. queue # <<>> /\ queue' = Tail(queue) /\ UNCHANGED <<made, client>> /\ current = 0
  BY DEF Dispatch
<1>2. CASE k = "cancelled" /\ UNCHANGED <<step, current, promise, recovered, fatal>>
  <2>1. QueueInv'
    BY <1>1, <1>2, TailMatched DEF IInv, QueueInv
  <2> QED BY <1>1, <1>2, <2>1 DEF IInv, QueueInv, TypeOK, Pending, Built, Calling, Once, Earned,
                                  LastWaits
<1>3. ASSUME k \in Waiting,
             \/ k = "scheduled" /\ UNCHANGED <<promise, recovered, fatal>>
                /\ Continue(f, "body")
             \/ k = "sleeping" /\ UNCHANGED <<promise, recovered, fatal>>
                /\ Continue(f, "await")
             \/ k = "external" /\ UNCHANGED <<promise, recovered, fatal>>
                /\ Continue(f, "complete")
             \/ k = "external" /\ Fail(f)
      PROVE  IInv'
  <2>1. \A g \in Flow \ {f} : step'[g] = step[g]
    BY <1>3 DEF Fail, Unhandled, Continue, IInv, TypeOK
  <2>2. QueueInv' /\ Head(queue) \in [flow : Flow, kind : Waiting] \cup {Cancelled}
        /\ (Head(queue) # Cancelled => step[f] = k)
    BY <1>1, <2>1, TailMatched DEF IInv, QueueInv
  <2>3. Head(queue) # Cancelled
    BY <1>3 DEF Cancelled, Callback, Waiting
  <2>4. f \in Flow /\ step[f] = k /\ step[f] \in Active /\ Idle(f)
    BY <1>1, <1>3, <2>2, <2>3 DEF Active, Idle, Waiting
  <2>5. CASE UNCHANGED <<promise, recovered, fatal>>
             /\ \/ k = "scheduled" /\ Continue(f, "body")
                \/ k = "sleeping" /\ Continue(f, "await")
    <3> HIDE DEF f, k
    <3> QED BY <1>1, <2>2, <2>4, <2>5, ContinueInv DEF IInv, TypeOK, Runnable
  <2>6. CASE k = "external" /\ UNCHANGED <<promise, recovered, fatal>>
             /\ Continue(f, "complete")
    <3>1. f = N /\ ~(f < N)
      BY <2>4, <2>6, ChainAssumption DEF IInv, LastWaits
    <3> HIDE DEF f, k
    <3> QED BY <1>1, <2>2, <2>4, <2>6, <3>1, ContinueInv DEF IInv, TypeOK, Runnable
  <2>7. CASE Fail(f)
    <3> HIDE DEF f, k
    <3> QED BY <1>1, <2>2, <2>4, <2>7, FailInv
  <2> QED BY <1>3, <2>5, <2>6, <2>7
<1> QED BY <1>2, <1>3 DEF Dispatch, Waiting

LEMMA ExternalEventInv == IInv /\ ExternalEvent => IInv'
<1> SUFFICES ASSUME IInv, ExternalEvent PROVE IInv'
  OBVIOUS
<1>1. /\ step[N] = "external" /\ queue' = Schedule(queue, N, "external")
      /\ \A i \in DOMAIN queue : queue[i].flow # N
      /\ UNCHANGED <<step, promise, made, recovered, current, client, fatal>>
  BY DEF ExternalEvent
<1>2. N \in Flow
  BY ChainAssumption DEF Flow
<1>3. QueueInv'
  BY <1>1, <1>2, ScheduleMatched DEF IInv, QueueInv, TypeOK, Waiting
<1> QED BY <1>1, <1>3 DEF IInv, QueueInv, TypeOK, Pending, Built, Calling, Once, Earned, LastWaits

LEMMA TimeoutInv ==
  ASSUME IInv, NEW f \in Flow, Timeout(f)
  PROVE  IInv'
<1>1. step[f] \in Active /\ queue' = Cancel(queue, {f}) /\ Fail(f) /\ Idle(f)
      /\ UNCHANGED <<made, client>>
  BY DEF Timeout, Active, Waiting, Idle
<1>2. \A g \in Flow \ {f} : step'[g] = step[g]
  BY <1>1 DEF Fail, Unhandled, Continue, IInv, TypeOK
<1>3. QueueInv'
  BY <1>1, <1>2, CancelMatched DEF IInv, QueueInv
<1> QED BY <1>1, <1>3, FailInv

LEMMA NextInv == IInv /\ [Next]_vars => IInv'
<1> SUFFICES ASSUME IInv, [Next]_vars PROVE IInv'
  OBVIOUS
<1>1. CASE LoopThread
  BY <1>1, DispatchInv, BodyInv, AwaitInv, RelinquishInv, CompleteInv, PromiseCallInv,
     GetFutureInv DEF LoopThread
<1>2. CASE Client
  BY <1>2, ClientInv
<1>3. CASE ClientDestroy
  BY <1>3, ClientDestroyInv
<1>4. CASE ExternalEvent
  BY <1>4, ExternalEventInv
<1>5. CASE \E f \in Flow : Timeout(f)
  BY <1>5, TimeoutInv
<1>6. CASE UNCHANGED vars
  BY <1>6 DEF vars, IInv, TypeOK, Matched, Pending, Built, Calling, Once, Earned, LastWaits
<1> QED BY <1>1, <1>2, <1>3, <1>4, <1>5, <1>6 DEF Next

(* The inductive invariant holds in every reachable state.                 *)
THEOREM Invariance == Spec => []IInv
BY InitInv, NextInv, PTL DEF Spec

-----------------------------------------------------------------------------
(* The variables keep their types, whatever the length of the chain.       *)
THEOREM TypeCorrect == Spec => []TypeOK
<1>1. IInv => TypeOK
  BY DEF IInv
<1> QED BY <1>1, Invariance, PTL

(* No flow that promise() started reaches the default handler, which       *)
(* terminates the program, whatever the loop thread does while the         *)
(* client's thread is in promise(): the handler is set before execute().   *)
THEOREM HandlerAlwaysThere == Spec => []NeverFatal
<1>1. IInv => NeverFatal
  BY DEF IInv, NeverFatal
<1> QED BY <1>1, Invariance, PTL

(* A value at the start of the chain means a value all the way to the      *)
(* external event, except past a flow that recovered from an error.        *)
THEOREM ErrorsReachTheClient == Spec => []ValueMeansValue
<1>1. IInv => ValueMeansValue
  BY DEF IInv, Earned, ValueMeansValue
<1> QED BY <1>1, Invariance, PTL

(* Only a flow that can still do something satisfies its promise.          *)
LEMMA SatisfiedOnceStep ==
  IInv /\ [Next]_vars => \A f \in Flow : promise[f] \in Satisfied => promise'[f] = promise[f]
<1> SUFFICES ASSUME IInv, [Next]_vars, NEW f \in Flow, promise[f] \in Satisfied
             PROVE  promise'[f] = promise[f]
  OBVIOUS
<1>1. step[f] \notin Active /\ step[f] # "none" /\ promise[f] # "pending"
  BY DEF IInv, TypeOK, Pending, Built, Satisfied
<1>2. ASSUME NEW g \in Flow, step[g] \in Active, Fail(g) \/ Unhandled(g)
      PROVE  promise'[f] = promise[f]
  BY <1>1, <1>2 DEF Fail, Unhandled, IInv, TypeOK
<1>3. CASE Dispatch
  <2>1. CASE \E g \in Flow : step[g] \in Active /\ Fail(g)
    BY <1>2, <2>1
  <2>2. CASE Fail(Head(queue).flow) /\ Head(queue).kind = "external"
    <3>1. queue # <<>> /\ queue \in Seq([flow : Flow, kind : Waiting] \cup {Cancelled})
      BY <1>3 DEF Dispatch, IInv, TypeOK
    <3>2. 1 \in DOMAIN queue /\ Head(queue) = queue[1]
          /\ Head(queue) \in [flow : Flow, kind : Waiting] \cup {Cancelled}
      <4> DEFINE T == [flow : Flow, kind : Waiting] \cup {Cancelled}
      <4>1. queue \in Seq(T)
        BY <3>1
      <4> HIDE DEF T
      <4>2. 1 \in DOMAIN queue /\ Head(queue) = queue[1] /\ Head(queue) \in T
        BY <3>1, <4>1
      <4> QED BY <4>2 DEF T
    <3>3. Head(queue) # Cancelled
      BY <2>2 DEF Cancelled, Callback
    <3> QED BY <2>1, <2>2, <3>2, <3>3 DEF IInv, Matched, Active, Waiting
  <2> QED BY <1>3, <2>2 DEF Dispatch
<1>4. ASSUME NEW g \in Flow, Body(g) \/ Await(g) \/ Relinquish(g) \/ Complete(g)
      PROVE  promise'[f] = promise[f]
  <2>1. step[g] \in Active /\ (Fail(g) \/ Unhandled(g) => promise'[f] = promise[f])
    BY <1>2, <1>4 DEF Body, Await, Relinquish, Complete, Active, Runnable
  <2> QED BY <1>1, <1>4, <2>1 DEF Body, Await, Relinquish, Complete, IInv, TypeOK
<1>5. ASSUME NEW g \in Flow, PromiseCall(g) \/ GetFuture(g)
      PROVE  promise'[f] = promise[f]
  <2>1. StackPromise(g) => made[g] = 0 /\ f # g
    BY DEF StackPromise, Turn, Order, IInv, TypeOK, Pending, Built, Satisfied
  <2> QED BY <1>5, <2>1 DEF PromiseCall, StackPromise, Prepare, Execute, GetFuture, IInv, TypeOK
<1>8. CASE Client
  BY <1>5, <1>8, ChainAssumption DEF Client, ClientPromise, ClientGet, Flow
<1>6. CASE ClientDestroy
  BY <1>1, <1>6 DEF ClientDestroy
<1>7. CASE \E g \in Flow : Timeout(g)
  BY <1>2, <1>7 DEF Timeout, Active, Waiting
<1> QED BY <1>3, <1>4, <1>5, <1>6, <1>7, <1>8 DEF Next, LoopThread, ExternalEvent, vars

(* No promise is satisfied a second time: neither a late callback after a  *)
(* timeout nor an error after success() reaches the std::promise again.    *)
THEOREM NeverSatisfiedTwice == Spec => SatisfiedOnce
<1>1. IInv /\ [Next]_vars =>
        [\A f \in Flow : promise[f] \in Satisfied => promise'[f] = promise[f]]_vars
  BY SatisfiedOnceStep
<1> QED BY <1>1, Invariance, PTL DEF Spec, SatisfiedOnce

-----------------------------------------------------------------------------
(* No wake-up is lost: what the queue does with the callback of a flow.    *)
HasCallback(f) == \E i \in DOMAIN queue : queue[i].flow = f

Woken == \A f \in Flow : step[f] \in {"scheduled", "sleeping"} => HasCallback(f)

LEMMA QueueIsSeq ==
  ASSUME TypeOK
  PROVE  Len(queue) \in Nat /\ DOMAIN queue = 1 .. Len(queue)
<1> DEFINE T == [flow : Flow, kind : Waiting] \cup {Cancelled}
<1>1. queue \in Seq(T)
  BY DEF TypeOK
<1> HIDE DEF T
<1> QED BY <1>1

LEMMA ScheduleHas ==
  ASSUME TypeOK, NEW f \in Flow, NEW k, NEW g \in Flow,
         queue' = Schedule(queue, f, k), HasCallback(g) \/ g = f
  PROVE  HasCallback(g)'
<1>1. queue' = Append(queue, Callback(f, k)) /\ Callback(f, k).flow = f
  BY DEF Schedule, Callback
<1>2. /\ DOMAIN queue' = 1 .. Len(queue) + 1 /\ Len(queue) \in Nat
      /\ DOMAIN queue = 1 .. Len(queue)
      /\ queue'[Len(queue) + 1] = Callback(f, k)
      /\ \A i \in DOMAIN queue : queue'[i] = queue[i]
  <2> DEFINE T == [flow : Flow, kind : Waiting] \cup {Cancelled, Callback(f, k)}
  <2>1. queue \in Seq([flow : Flow, kind : Waiting] \cup {Cancelled})
    BY DEF TypeOK
  <2>2. queue \in Seq(T) /\ Callback(f, k) \in T
    BY <2>1
  <2> HIDE DEF T
  <2> QED BY <1>1, <2>2
<1>3. CASE g = f
  BY <1>1, <1>2, <1>3 DEF HasCallback
<1>4. CASE HasCallback(g)
  BY <1>2, <1>4 DEF HasCallback
<1> QED BY <1>3, <1>4

LEMMA CancelHas ==
  ASSUME TypeOK, NEW F \in SUBSET Flow, NEW g \in Flow \ F,
         queue' = Cancel(queue, F), HasCallback(g)
  PROVE  HasCallback(g)'
BY DEF Cancel, HasCallback

LEMMA TailHas ==
  ASSUME TypeOK, NEW g \in Flow, queue # <<>>, queue' = Tail(queue),
         HasCallback(g), g # Head(queue).flow
  PROVE  HasCallback(g)'
<1> DEFINE T == [flow : Flow, kind : Waiting] \cup {Cancelled}
<1>1. queue \in Seq(T)
  BY DEF TypeOK
<1>2. /\ DOMAIN queue = 1 .. Len(queue) /\ DOMAIN queue' = 1 .. Len(queue) - 1
      /\ Len(queue) \in Nat \ {0} /\ Head(queue) = queue[1]
      /\ \A i \in DOMAIN queue' : queue'[i] = queue[i + 1]
  <2> HIDE DEF T
  <2> QED BY <1>1
<1>3. PICK i \in DOMAIN queue : queue[i].flow = g
  BY DEF HasCallback
<1>4. i - 1 \in DOMAIN queue' /\ (i - 1) + 1 = i
  BY <1>2, <1>3
<1> QED BY <1>2, <1>3, <1>4 DEF HasCallback

(* A flow that does not begin to wait keeps its callback if the queue does.*)
LEMMA WokenStep == IInv /\ Woken /\ [Next]_vars => Woken'
<1> SUFFICES ASSUME IInv, Woken, [Next]_vars, NEW f \in Flow,
                    step'[f] \in {"scheduled", "sleeping"}
             PROVE  HasCallback(f)'
  BY DEF Woken
<1>1. TypeOK /\ step \in [Flow -> Where] /\ Len(queue) \in Nat
  BY QueueIsSeq DEF IInv, TypeOK
<1>2. CASE Dispatch
  <2>1. f # Head(queue).flow \/ UNCHANGED step
    BY <1>1, <1>2 DEF Dispatch, Fail, Unhandled, Continue
  <2>2. Head(queue).kind = "cancelled" => Head(queue).flow \notin Flow
    <3> DEFINE T == [flow : Flow, kind : Waiting] \cup {Cancelled}
    <3>1. queue \in Seq(T) /\ queue # <<>>
      BY <1>2 DEF Dispatch, IInv, TypeOK
    <3>2. Head(queue) \in T
      <4> HIDE DEF T
      <4> QED BY <3>1
    <3> QED BY <3>2 DEF Cancelled, Callback, Waiting, Flow
  <2>3. f # Head(queue).flow /\ step'[f] = step[f]
    BY <1>1, <1>2, <2>2 DEF Dispatch, Fail, Unhandled, Continue
  <2> QED BY <1>1, <1>2, <2>3, TailHas DEF Dispatch, Woken
<1>3. ASSUME NEW g \in Flow, PromiseCall(g) \/ GetFuture(g)
      PROVE  HasCallback(f)'
  <2>1. CASE Execute(g)
    <3>1. queue' = Schedule(queue, g, "scheduled") /\ (f = g \/ step'[f] = step[f])
      BY <1>1, <2>1 DEF Execute
    <3> QED BY <1>1, <3>1, ScheduleHas DEF Woken
  <2>2. CASE UNCHANGED queue /\ (UNCHANGED step \/ step' = [step EXCEPT ![g - 1] = "await"])
    BY <1>1, <2>2 DEF Woken, HasCallback
  <2> QED BY <1>3, <2>1, <2>2 DEF PromiseCall, StackPromise, Prepare, GetFuture
<1>4. ASSUME NEW g \in Flow, Body(g) \/ Await(g) \/ Complete(g)
      PROVE  HasCallback(f)'
  BY <1>1, <1>4 DEF Body, Await, Complete, Fail, Unhandled, Continue, Woken, HasCallback
<1>5. ASSUME NEW g \in Flow, Relinquish(g)
      PROVE  HasCallback(f)'
  BY <1>1, <1>5, ScheduleHas DEF Relinquish, Woken
<1>6. CASE Client
  <2>1. CASE PromiseCall(1) \/ GetFuture(1)
    BY <1>3, <2>1, ChainAssumption DEF Flow
  <2>2. CASE UNCHANGED <<step, queue>>
    BY <2>2 DEF Woken, HasCallback
  <2> QED BY <1>6, <2>1, <2>2 DEF Client, ClientPromise, ClientGet
<1>7. CASE ClientDestroy
  BY <1>7 DEF ClientDestroy
<1>8. CASE ExternalEvent
  <2>1. N \in Flow /\ queue' = Schedule(queue, N, "external") /\ step' = step
    BY <1>8, ChainAssumption DEF ExternalEvent, Flow
  <2> QED BY <1>1, <2>1, ScheduleHas DEF Woken
<1>9. ASSUME NEW g \in Flow, Timeout(g)
      PROVE  HasCallback(f)'
  <2>1. f # g /\ step'[f] = step[f] /\ queue' = Cancel(queue, {g})
    BY <1>1, <1>9 DEF Timeout, Fail, Unhandled, Continue
  <2> QED BY <1>1, <2>1, CancelHas DEF Woken
<1>10. CASE UNCHANGED vars
  BY <1>10 DEF vars, Woken, HasCallback
<1> QED BY <1>2, <1>3, <1>4, <1>5, <1>6, <1>7, <1>8, <1>9, <1>10 DEF Next, LoopThread

(* No wake-up is lost, none is doubled, and none comes to a flow that does *)
(* not wait for it, after any timeout, error or destruction of the chain.  *)
THEOREM WakeUpsMatch == Spec => []WakesExactlyTheWaiting
<1>1. Init => Woken
  BY DEF Init, Woken
<1>2. IInv /\ Woken => WakesExactlyTheWaiting
  BY DEF IInv, Matched, Woken, HasCallback, WakesExactlyTheWaiting
<1> QED BY <1>1, <1>2, Invariance, WokenStep, PTL DEF Spec
-----------------------------------------------------------------------------
(* Refinement of Futures.  What it needs beside the invariant: a flow that *)
(* recovered is in its completing step or past it, the chain has a first   *)
(* flow when the client has a future, and a flow polls a good future,      *)
(* which was good since promise() made it.                                 *)
Polling == {"await", "relinquish", "sleeping"}
Good    == {"pending"} \cup Satisfied

RecoveredEnds == \A f \in recovered : step[f] \in {"complete", "done", "gone"}
Started       == client \notin {"start", "promise"} => promise[1] # "none"
Promised      == \A f \in Flow : step[f] = "promise" =>
                   f < N /\ promise[f + 1] \in {"none"} \cup Good

Chained == RecoveredEnds /\ Started /\ Promised /\ AwaitedIsThere

LEMMA AwaitedKept ==
  ASSUME TypeOK, Promised, AwaitedIsThere, NEW f \in Flow,
         \A g \in Flow \ {f} : step'[g] = step[g],
         step'[f] \in Polling => f < N /\ promise'[f + 1] \in Good,
         step'[f] = "promise" => f < N /\ promise'[f + 1] \in {"none"} \cup Good,
         \A g \in Flow : promise[g] \in Good => promise'[g] \in Good,
         \A g \in Flow : promise[g] = "none" => promise'[g] \in {"none"} \cup Good
  PROVE  AwaitedIsThere' /\ Promised'
<1>3. Promised'
  <2>1. \A g \in Flow : g < N => g + 1 \in Flow
    BY ChainAssumption DEF Flow
  <2> QED BY <2>1 DEF Promised
<1> SUFFICES ASSUME NEW g \in Flow, step'[g] \in Polling
             PROVE  g < N /\ promise'[g + 1] \in Good
  BY <1>3 DEF AwaitedIsThere, Polling, Good
<1>1. CASE g # f
  <2>1. g < N /\ promise[g + 1] \in Good
    BY <1>1 DEF AwaitedIsThere, Polling, Good
  <2>2. g + 1 \in Flow
    BY <2>1, ChainAssumption DEF Flow
  <2> QED BY <2>1, <2>2
<1>2. CASE g = f
  BY <1>2
<1> QED BY <1>1, <1>2

(* A promise that is not broken by a step stays good.                      *)
LEMMA GoodKept ==
  ASSUME TypeOK, NEW f \in Flow, NEW r \in Good,
         promise' = [promise EXCEPT ![f] = r]
  PROVE  /\ \A g \in Flow : promise[g] \in Good => promise'[g] \in Good
         /\ \A g \in Flow : promise[g] = "none" => promise'[g] \in {"none"} \cup Good
BY DEF TypeOK

(* The flow goes on with another step: nothing is seen from outside.       *)
LEMMA ContinueChained ==
  ASSUME TypeOK, Chained, NEW f \in Flow, f \notin recovered, NEW w \in Where,
         step' = [step EXCEPT ![f] = w],
         w \in Polling => f < N /\ promise[f + 1] \in Good,
         w = "promise" => f < N /\ promise[f + 1] \in {"none"} \cup Good,
         UNCHANGED <<promise, recovered, client>>
  PROVE  Chained' /\ UNCHANGED Chain!vars
<1>1. step'[f] = w /\ \A g \in Flow \ {f} : step'[g] = step[g]
  BY DEF TypeOK
<1>2. RecoveredEnds' /\ Started'
  BY <1>1 DEF Chained, RecoveredEnds, Started, TypeOK
<1>3. AwaitedIsThere' /\ Promised'
  BY <1>1, AwaitedKept DEF Chained
<1> QED BY <1>2, <1>3 DEF Chained, Chain!vars

(* The flow that runs ends with a result.                                  *)
LEMMA EndChained ==
  ASSUME TypeOK, Chained, NEW f \in Flow, NEW r \in Satisfied,
         step' = [step EXCEPT ![f] = "done"],
         promise' = [promise EXCEPT ![f] = r],
         UNCHANGED <<recovered, client>>
  PROVE  Chained'
<1>1. /\ step'[f] = "done" /\ \A g \in Flow \ {f} : step'[g] = step[g]
      /\ promise'[f] = r /\ \A g \in Flow \ {f} : promise'[g] = promise[g]
  BY DEF TypeOK
<1>2. RecoveredEnds'
  BY <1>1 DEF Chained, RecoveredEnds, TypeOK
<1>3. Started'
  BY <1>1, ChainAssumption DEF Chained, Started, Satisfied, Flow
<1>4. AwaitedIsThere' /\ Promised'
  BY <1>1, AwaitedKept, GoodKept DEF Chained, Polling, Good
<1> QED BY <1>2, <1>3, <1>4 DEF Chained

(* An error of a flow that did not recover yet.                            *)
LEMMA FailChained ==
  ASSUME IInv, Chained, NEW f \in Flow, step[f] \in Active, step[f] # "complete",
         Fail(f), UNCHANGED client
  PROVE  Chained' /\ (Chain!Recover(f) \/ Chain!Fail(f))
<1>1. /\ f \notin recovered /\ Has(f, "handler") /\ promise[f] = "pending" /\ TypeOK
  BY ActiveMade DEF Chained, RecoveredEnds, IInv, Active, Runnable, Waiting
<1>2. CASE /\ recovered' = recovered \cup {f} /\ Continue(f, "complete")
           /\ UNCHANGED <<promise, fatal>>
  <2>1. step'[f] = "complete" /\ \A g \in Flow \ {f} : step'[g] = step[g]
    BY <1>1, <1>2 DEF Continue, TypeOK
  <2>2. RecoveredEnds' /\ Started'
    BY <1>1, <1>2, <2>1 DEF Chained, RecoveredEnds, Started, TypeOK
  <2>3. AwaitedIsThere' /\ Promised'
    BY <1>1, <1>2, <2>1, AwaitedKept DEF Chained, Polling
  <2>4. Chain!Recover(f)
    BY <1>1, <1>2 DEF Chain!Recover
  <2> QED BY <2>2, <2>3, <2>4 DEF Chained
<1>3. CASE /\ step' = [step EXCEPT ![f] = "done"]
           /\ promise' = [promise EXCEPT ![f] = "error"]
           /\ UNCHANGED recovered
  <2>1. Chained'
    BY <1>1, <1>3, EndChained DEF Satisfied
  <2>2. Chain!Fail(f)
    BY <1>1, <1>3 DEF Chain!Fail
  <2> QED BY <2>1, <2>2
<1> QED BY <1>1, <1>2, <1>3 DEF Fail, Unhandled

LEMMA HeadIs ==
  ASSUME IInv, queue # <<>>, Head(queue).kind # "cancelled"
  PROVE  /\ Head(queue).flow \in Flow
         /\ step[Head(queue).flow] = Head(queue).kind /\ Head(queue).kind \in Waiting
<1> DEFINE T == [flow : Flow, kind : Waiting] \cup {Cancelled}
<1>1. queue \in Seq(T)
  BY DEF IInv, TypeOK
<1>2. 1 \in DOMAIN queue /\ Head(queue) = queue[1] /\ Head(queue) \in T
  <2> HIDE DEF T
  <2> QED BY <1>1
<1>3. Head(queue) # Cancelled
  BY DEF Cancelled, Callback
<1> QED BY <1>2, <1>3 DEF IInv, Matched

LEMMA DispatchChained ==
  ASSUME IInv, Chained, Dispatch
  PROVE  Chained' /\ (UNCHANGED Chain!vars
                      \/ \E f \in Flow : Chain!Recover(f) \/ Chain!Fail(f))
<1> DEFINE f == Head(queue).flow
           k == Head(queue).kind
<1>1. queue # <<>> /\ UNCHANGED client /\ TypeOK
  BY DEF Dispatch, IInv
<1>2. CASE k = "cancelled"
  <2>1. UNCHANGED <<step, promise, recovered, client>>
    BY <1>1, <1>2 DEF Dispatch
  <2> QED BY <2>1 DEF Chained, RecoveredEnds, Started, Promised, AwaitedIsThere, Chain!vars
<1>3. CASE k # "cancelled"
  <2>1. f \in Flow /\ step[f] = k /\ k \in Waiting
    BY <1>1, <1>3, HeadIs
  <2>2. f \notin recovered
    BY <2>1 DEF Chained, RecoveredEnds, Waiting
  <2>3. ASSUME NEW w \in {"body", "await", "complete"}, Continue(f, w),
               k = "sleeping" \/ w # "await", UNCHANGED <<promise, recovered>>
        PROVE  Chained' /\ UNCHANGED Chain!vars
    <3>1. w \in Polling => f < N /\ promise[f + 1] \in Good
      BY <2>1, <2>3 DEF Chained, AwaitedIsThere, Polling, Good
    <3> HIDE DEF f, k
    <3> QED BY <1>1, <2>1, <2>2, <2>3, <3>1, ContinueChained DEF Continue, Where, Runnable
  <2>4. CASE k = "external" /\ Fail(f)
    <3>1. step[f] \in Active /\ step[f] # "complete"
      BY <2>1, <2>4 DEF Active
    <3> HIDE DEF f, k
    <3> QED BY <1>1, <2>1, <2>4, <3>1, FailChained
  <2> QED BY <1>3, <2>1, <2>3, <2>4 DEF Dispatch
<1> QED BY <1>2, <1>3

(* One call of promise() for flow f: the promise begins with the first.    *)
LEMMA PromiseCallChained ==
  ASSUME IInv, Chained, NEW f \in Flow, PromiseCall(f)
  PROVE  Chained' /\ (UNCHANGED Chain!vars \/ Chain!Begin(f))
<1>1. /\ TypeOK /\ Calling(f) /\ UNCHANGED <<recovered, client>>
      /\ StackPromise(f) \/ Prepare(f) \/ Execute(f)
  BY DEF PromiseCall, IInv
<1>2. made[f] < 4 /\ step[f] = "none"
  BY <1>1 DEF StackPromise, Prepare, Execute, Turn, Order, IInv, TypeOK, Pending, Built
<1>3. /\ step'[f] \in {"none", "scheduled"} /\ \A g \in Flow \ {f} : step'[g] = step[g]
  BY <1>1, <1>2 DEF StackPromise, Prepare, Execute, TypeOK
<1>4. CASE UNCHANGED promise
  <2>1. AwaitedIsThere' /\ Promised'
    BY <1>1, <1>3, <1>4, AwaitedKept DEF Chained, Polling
  <2>2. RecoveredEnds' /\ Started'
    BY <1>1, <1>2, <1>3, <1>4 DEF Chained, RecoveredEnds, Started, TypeOK
  <2> QED BY <1>1, <1>4, <2>1, <2>2 DEF Chained, Chain!vars
<1>5. CASE StackPromise(f)
  <2>1. promise[f] = "none" /\ promise' = [promise EXCEPT ![f] = "pending"]
    BY <1>5 DEF StackPromise, Turn, Order, IInv, TypeOK, Pending, Built
  <2>2. AwaitedIsThere' /\ Promised'
    BY <1>1, <1>3, <2>1, AwaitedKept, GoodKept DEF Chained, Polling, Good
  <2>3. RecoveredEnds'
    BY <1>1, <1>2, <1>3 DEF Chained, RecoveredEnds, TypeOK
  <2>6. Started'
    <3>1. 1 \in Flow /\ (promise[1] # "none" => promise'[1] # "none")
      BY <1>1, <2>1, ChainAssumption DEF TypeOK, Flow
    <3> QED BY <1>1, <3>1 DEF Chained, Started
  <2>4. f = 1 \/ promise[f - 1] = "pending"
    <3>1. f = 1 \/ (f - 1 \in Flow /\ step[f - 1] \in Active)
      BY <1>1, ChainAssumption DEF Calling, Flow, Active, Runnable
    <3> QED BY <3>1, ActiveMade
  <2>5. Chain!Begin(f)
    BY <1>1, <2>1, <2>4 DEF Chain!Begin
  <2> QED BY <2>2, <2>3, <2>5, <2>6 DEF Chained
<1> QED BY <1>1, <1>4, <1>5 DEF Prepare, Execute

LEMMA GetFutureChained ==
  ASSUME IInv, Chained, NEW f \in Flow, GetFuture(f)
  PROVE  Chained' /\ UNCHANGED Chain!vars
<1>1. TypeOK /\ Calling(f) /\ made[f] = 4 /\ UNCHANGED <<promise, recovered>>
  BY DEF GetFuture, Has, Order, IInv, TypeOK
<1>2. promise[f] # "none"
  BY <1>1 DEF IInv, Pending, Built
<1>3. CASE f = 1
  <2>1. UNCHANGED step /\ client = "promise" /\ client' = "wait"
    BY <1>1, <1>3 DEF GetFuture, Calling
  <2> QED BY <1>1, <1>2, <1>3, <2>1 DEF Chained, RecoveredEnds, Started, Promised, AwaitedIsThere,
                                        Chain!vars
<1>4. CASE f # 1
  <2>1. /\ f - 1 \in Flow /\ (f - 1) + 1 = f /\ f - 1 < N /\ step[f - 1] = "promise"
        /\ step' = [step EXCEPT ![f - 1] = "await"] /\ UNCHANGED client
    BY <1>1, <1>4, ChainAssumption DEF GetFuture, Calling, Flow
  <2>2. promise[f] \in Good
    BY <1>2, <2>1 DEF Chained, Promised
  <2>3. f - 1 \notin recovered
    BY <2>1 DEF Chained, RecoveredEnds
  <2> QED BY <1>1, <2>1, <2>2, <2>3, ContinueChained DEF Where, Runnable
<1> QED BY <1>3, <1>4

LEMMA FlowChained ==
  ASSUME IInv, Chained, NEW f \in Flow,
         Body(f) \/ Await(f) \/ Relinquish(f) \/ Complete(f)
  PROVE  Chained' /\ (UNCHANGED Chain!vars \/ Chain!Next)
<1>1. /\ TypeOK /\ UNCHANGED client /\ step[f] \in Active
      /\ promise[f] = "pending" /\ Has(f, "handler") /\ Has(f, "complete")
      /\ (step[f] # "complete" => f \notin recovered)
  <2>1. step[f] \in Active /\ UNCHANGED client
    BY DEF Body, Await, Relinquish, Complete, Active, Runnable
  <2> QED BY <2>1, ActiveMade DEF IInv, Chained, RecoveredEnds, Active, Runnable, Waiting
<1>2. ASSUME Fail(f), step[f] # "complete"
      PROVE  Chained' /\ Chain!Next
  BY <1>1, <1>2, FailChained DEF Chain!Next, Chain!Flow, Flow
<1>3. ASSUME NEW w \in Runnable \cup Waiting, step[f] # "complete",
             step' = [step EXCEPT ![f] = w],
             w \in Polling => f < N /\ promise[f + 1] \in Good,
             w = "promise" => f < N /\ promise[f + 1] \in {"none"} \cup Good,
             UNCHANGED <<promise, recovered>>
      PROVE  Chained' /\ UNCHANGED Chain!vars
  BY <1>1, <1>3, ContinueChained DEF Where
<1>4. step[f] \in Polling => f < N /\ promise[f + 1] \in Good
  BY DEF Chained, AwaitedIsThere, Polling, Good
<1>5. CASE Body(f)
  <2>1. CASE f < N /\ Continue(f, "promise") /\ UNCHANGED <<promise, recovered>>
    <3>1. promise[f + 1] = "none"
      BY <1>5, <2>1, ChainAssumption DEF Body, IInv, Once, Pending, Built, Flow
    <3> QED BY <1>3, <1>5, <2>1, <3>1 DEF Body, Continue, Polling, Runnable
  <2>2. CASE step' = [step EXCEPT ![f] = "external"] /\ UNCHANGED <<promise, recovered>>
    BY <1>3, <1>5, <2>2 DEF Body, Polling, Waiting
  <2> QED BY <1>2, <1>5, <2>1, <2>2 DEF Body
<1>6. CASE Await(f)
  BY <1>2, <1>3, <1>4, <1>6 DEF Await, Continue, Polling, Runnable
<1>7. CASE Relinquish(f)
  BY <1>3, <1>4, <1>7 DEF Relinquish, Polling, Waiting
<1>8. CASE Complete(f)
  <2>1. UNCHANGED recovered
    BY <1>8 DEF Complete
  <2>2. CASE promise' = [promise EXCEPT ![f] = "value"] /\ step' = [step EXCEPT ![f] = "done"]
    <3>1. f = N \/ f \in recovered \/ promise[f + 1] = "value"
      BY <1>8, ChainAssumption DEF Complete, IInv, Earned, Flow
    <3>2. Chain!Succeed(f)
      BY <1>1, <2>1, <2>2, <3>1 DEF Chain!Succeed
    <3>3. Chained'
      BY <1>1, <2>1, <2>2, EndChained DEF Satisfied
    <3> QED BY <3>2, <3>3 DEF Chain!Next, Chain!Flow, Flow
  <2>3. CASE f \in Typed /\ Unhandled(f)
    <3>1. step' = [step EXCEPT ![f] = "done"] /\ promise' = [promise EXCEPT ![f] = "error"]
      BY <1>1, <2>3 DEF Unhandled
    <3>2. Chain!Fail(f)
      BY <1>1, <2>1, <2>3, <3>1 DEF Chain!Fail
    <3>3. Chained'
      BY <1>1, <2>1, <3>1, EndChained DEF Satisfied
    <3> QED BY <3>2, <3>3 DEF Chain!Next, Chain!Flow, Flow
  <2> QED BY <1>1, <1>8, <2>2, <2>3 DEF Complete
<1> QED BY <1>5, <1>6, <1>7, <1>8

LEMMA ClientChained ==
  ASSUME IInv, Chained, Client \/ ClientDestroy
  PROVE  Chained' /\ (UNCHANGED Chain!vars \/ Chain!Next)
<1>1. TypeOK /\ 1 \in Flow
  BY ChainAssumption DEF IInv, Flow
<1>2. CASE ClientPromise
  BY <1>2 DEF ClientPromise, Chained, RecoveredEnds, Started, Promised, AwaitedIsThere, Chain!vars
<1>3. CASE PromiseCall(1) \/ GetFuture(1)
  BY <1>1, <1>3, PromiseCallChained, GetFutureChained DEF Chain!Next, Chain!Flow, Flow
<1>4. CASE ClientGet
  <2>1. Chained'
    BY <1>4 DEF ClientGet, Chained, RecoveredEnds, Started, Promised, AwaitedIsThere
  <2>2. Chain!Get
    BY <1>4 DEF ClientGet, Chain!Get, Chain!Result, Satisfied
  <2> QED BY <2>1, <2>2 DEF Chain!Next
<1>5. CASE ClientDestroy
  <2>1. /\ \A f \in Flow : step'[f] \in {"none", "gone"} /\ (step[f] # "none" => step'[f] = "gone")
        /\ \A f \in Flow : promise'[f] = IF promise[f] = "pending" THEN "broken" ELSE promise[f]
        /\ client \notin {"start", "promise"} /\ client \in Satisfied \cup {"wait"}
    BY <1>5 DEF ClientDestroy, Satisfied
  <2>2. RecoveredEnds' /\ Started'
    BY <1>1, <1>5, <2>1 DEF ClientDestroy, Chained, RecoveredEnds, Started, TypeOK
  <2>3. AwaitedIsThere' /\ Promised'
    BY <2>1 DEF AwaitedIsThere, Promised
  <2>4. Chain!Destroy
    BY <1>5, <2>1 DEF ClientDestroy, Chained, Started, Chain!Destroy, Chain!Flow, Flow, Satisfied
  <2> QED BY <2>2, <2>3, <2>4 DEF Chained, Chain!Next
<1> QED BY <1>2, <1>3, <1>4, <1>5 DEF Client

(* One step of the flows and the client, as Futures sees it.               *)
LEMMA ChainedStep ==
  IInv /\ Chained /\ [Next]_vars => Chained' /\ [Chain!Next]_Chain!vars
<1> SUFFICES ASSUME IInv, Chained, [Next]_vars
             PROVE  Chained' /\ (UNCHANGED Chain!vars \/ Chain!Next)
  OBVIOUS
<1>1. CASE Dispatch
  BY <1>1, DispatchChained DEF Chain!Next, Chain!Flow, Flow
<1>2. CASE \E f \in Flow : Body(f) \/ Await(f) \/ Relinquish(f) \/ Complete(f)
  BY <1>2, FlowChained
<1>3. CASE Client \/ ClientDestroy
  BY <1>3, ClientChained
<1>6. CASE \E f \in Flow \ {1} : PromiseCall(f) \/ GetFuture(f)
  BY <1>6, PromiseCallChained, GetFutureChained DEF Chain!Next, Chain!Flow, Flow
<1>4. CASE ExternalEvent \/ UNCHANGED vars
  BY <1>4 DEF ExternalEvent, vars, Chained, RecoveredEnds, Started, Promised, AwaitedIsThere,
              Chain!vars
<1>5. ASSUME NEW f \in Flow, Timeout(f)
      PROVE  Chained' /\ Chain!Next
  BY <1>5, FailChained DEF Timeout, Active, Waiting, Chain!Next, Chain!Flow, Flow
<1> QED BY <1>1, <1>2, <1>3, <1>4, <1>5, <1>6 DEF Next, LoopThread

LEMMA ChainedInit == Init => Chained /\ Chain!Init
BY ChainAssumption DEF Init, Chained, RecoveredEnds, Started, Promised, AwaitedIsThere, Chain!Init,
     Chain!Flow, Flow

(* A flow polls a future that somebody satisfies or did: the flow behind   *)
(* it was started with its promise and was not destroyed.                  *)
THEOREM AwaitedFutureIsGood == Spec => []AwaitedIsThere
<1>1. Chained => AwaitedIsThere
  BY DEF Chained
<1> QED BY <1>1, ChainedInit, ChainedStep, Invariance, PTL DEF Spec

(* Chains of any length implement Futures: the loop thread, callbacks,     *)
(* timeouts, polling and destruction give every result once, from below.   *)
THEOREM FuturesImplemented == Spec => ImplementsFutures
BY ChainedInit, ChainedStep, Invariance, PTL DEF Spec, ImplementsFutures, Chain!Spec
=============================================================================
