---------------------------- MODULE PromiseAwait ----------------------------
(***************************************************************************)
(* promise() and await() of IAsyncSteps (iasyncsteps.hpp): flow f awaits   *)
(* the future of flow f + 1, which it created, and a client outside of the *)
(* event loop waits for flow 1.  The last flow waits for an external       *)
(* event.  All flows run on one event loop, whose thread runs one callback *)
(* at a time and keeps running the steps of a flow, a burst, until the     *)
(* flow waits for something.  The client is another thread, so that what   *)
(* promise() does for flow 1 is a step for each of its calls.              *)
(*                                                                         *)
(* In the library: what promise(), FutureWait, relinquish() and the step   *)
(* that completes a promise do.  External: the order in which an engine    *)
(* runs the steps of a flow, the queue of IAsyncTool, timeouts,            *)
(* std::promise and std::future.                                           *)
(***************************************************************************)
EXTENDS Naturals, Sequences

CONSTANTS
  N,          \* number of flows in the chain
  Typed       \* flows whose promise() has a result; the others have void

ASSUME ChainAssumption == N \in Nat \ {0} /\ Typed \subseteq 1 .. N

Flow == 1 .. N

VARIABLES
  step,       \* [Flow -> where the flow is]
  promise,    \* [Flow -> state shared by its std::promise and std::future]
  made,       \* [Flow -> how many of its calls promise() has made for it]
  recovered,  \* the flows whose error handler turned an error into success
  current,    \* the flow whose burst the loop thread runs, or 0
  queue,      \* callbacks scheduled with the tool
  client,     \* where the client is
  fatal       \* the default unhandled error handler was called

vars == <<step, promise, made, recovered, current, queue, client, fatal>>

(* Where a flow is: not created; scheduled by execute(); in a step that    *)
(* can run: its first one, which may go on to promise() of the next flow,  *)
(* the await step, the step relinquish() adds, the one that completes the  *)
(* promise; waiting for the callback of relinquish() or for the external   *)
(* event; finished; destroyed.                                             *)
Runnable == {"body", "promise", "await", "relinquish", "complete"}
Waiting  == {"scheduled", "sleeping", "external"}
Where    == {"none", "done", "gone"} \cup Runnable \cup Waiting

Satisfied == {"value", "error"}

(* A callback in the queue, and what is left of one that was cancelled.    *)
Callback(f, k) == [flow |-> f, kind |-> k]
Cancelled      == Callback(0, "cancelled")

Schedule(q, f, k) == Append(q, Callback(f, k))
Cancel(q, F) ==
  [i \in DOMAIN q |-> IF q[i].flow \in F THEN Cancelled ELSE q[i]]

-----------------------------------------------------------------------------
(* Mutant: the flow is executed before it is complete.                     *)
OrderExecuteFirst == [promise |-> 1, execute |-> 2, handler |-> 3, complete |-> 4]

(* The calls promise() makes for a flow before get_future(): stack() for   *)
(* the std::promise, set_unhandled_error(), add() of the step that         *)
(* completes the promise, execute().                                       *)
Order == [promise |-> 1, handler |-> 2, complete |-> 3, execute |-> 4]
Turn(f, c) == made[f] + 1 = Order[c]
Has(f, c)  == Order[c] <= made[f]

(* promise() of flow f runs in the client's thread or in the flow that     *)
(* awaits f.                                                               *)
Calling(f) ==
  IF f = 1 THEN client = "promise" ELSE current = f - 1 /\ step[f - 1] = "promise"

(* Mutant: the std::promise is a local variable of promise().              *)
LocalPromise(f) ==
  /\ Turn(f, "promise")
  /\ promise' = [promise EXCEPT ![f] = "broken"]
  /\ UNCHANGED <<step, queue>>

StackPromise(f) ==
  /\ Turn(f, "promise")
  /\ promise' = [promise EXCEPT ![f] = "pending"]
  /\ UNCHANGED <<step, queue>>

(* Nobody looks at the handler and the completing step until f runs.       *)
Prepare(f) ==
  /\ Turn(f, "handler") \/ Turn(f, "complete")
  /\ UNCHANGED <<promise, step, queue>>

Execute(f) ==
  /\ Turn(f, "execute")
  /\ step' = [step EXCEPT ![f] = "scheduled"]
  /\ queue' = Schedule(queue, f, "scheduled")
  /\ UNCHANGED promise

PromiseCall(f) ==
  /\ Calling(f)
  /\ made' = [made EXCEPT ![f] = @ + 1]
  /\ StackPromise(f) \/ Prepare(f) \/ Execute(f)
  /\ UNCHANGED <<recovered, current, client, fatal>>

(* get_future() after the last call, when the loop thread may have run     *)
(* flow 1 to its end; the caller waits for the future, or awaits it.       *)
GetFuture(f) ==
  /\ Calling(f) /\ \A c \in DOMAIN Order : Has(f, c)
  /\ IF f = 1 THEN client' = "wait" /\ UNCHANGED step
              ELSE step' = [step EXCEPT ![f - 1] = "await"] /\ UNCHANGED client
  /\ UNCHANGED <<promise, made, recovered, current, queue, fatal>>

(* The client has created flow 1 and calls promise().                      *)
ClientPromise ==
  /\ client = "start"
  /\ client' = "promise"
  /\ UNCHANGED <<step, promise, made, recovered, current, queue, fatal>>

ClientGet ==
  /\ client = "wait" /\ promise[1] \in Satisfied
  /\ client' = promise[1]
  /\ UNCHANGED <<step, promise, made, recovered, current, queue, fatal>>

(* The client destroys flow 1, having its result or not.  A flow is kept   *)
(* in the state of the one that awaits it, so that all of them go, with    *)
(* their callbacks and promises.  The engine lets no burst run meanwhile.  *)
ClientDestroy ==
  /\ client \in Satisfied \cup {"wait"} /\ current = 0
  /\ step[1] # "gone"
  /\ client' = IF client = "wait" THEN "abandoned" ELSE client
  /\ step' = [f \in Flow |-> IF step[f] = "none" THEN "none" ELSE "gone"]
  /\ promise' = [f \in Flow |->
       IF promise[f] = "pending" THEN "broken" ELSE promise[f]]
  /\ queue' = Cancel(queue, Flow)
  /\ UNCHANGED <<made, recovered, current, fatal>>

-----------------------------------------------------------------------------
(* The flow goes on with step w, in the burst of the loop thread.          *)
Continue(f, w) ==
  /\ step' = [step EXCEPT ![f] = w]
  /\ current' = f

(* unhandled_error(): promise()'s handler stores the exception in the      *)
(* promise; the default one terminates the program.                        *)
Unhandled(f) ==
  /\ step' = [step EXCEPT ![f] = "done"]
  /\ current' = 0
  /\ IF Has(f, "handler")
     THEN promise' = [promise EXCEPT ![f] = "error"] /\ UNCHANGED fatal
     ELSE fatal' = TRUE /\ UNCHANGED promise

(* An error in a step of the user: the user's error handler turns it into  *)
(* success, or it leaves the flow.                                         *)
Fail(f) ==
  \/ /\ recovered' = recovered \cup {f}
     /\ Continue(f, "complete")
     /\ UNCHANGED <<promise, fatal>>
  \/ Unhandled(f) /\ UNCHANGED recovered

(* The tool calls the first callback of its queue: a flow starts, the      *)
(* callback of relinquish() calls success() and the await step runs again, *)
(* or the external event completes the step that waits for it.  One that   *)
(* was cancelled is dropped.                                               *)
Dispatch ==
  /\ current = 0 /\ queue # <<>>
  /\ queue' = Tail(queue)
  /\ LET f == Head(queue).flow
         k == Head(queue).kind
     IN  \/ k = "scheduled" /\ Continue(f, "body")
              /\ UNCHANGED <<promise, recovered, fatal>>
         \/ k = "sleeping" /\ Continue(f, "await")
              /\ UNCHANGED <<promise, recovered, fatal>>
         \/ k = "external" /\ Continue(f, "complete")
              /\ UNCHANGED <<promise, recovered, fatal>>
         \/ k = "external" /\ Fail(f)
         \/ k = "cancelled" /\ UNCHANGED <<step, current, promise, recovered, fatal>>
  /\ UNCHANGED <<made, client>>

(* The first step of a flow creates the next one and calls its promise(),  *)
(* waits for the external event when it is the last, or fails.             *)
Body(f) ==
  /\ current = f /\ step[f] = "body"
  /\ \/ f < N /\ Continue(f, "promise") /\ UNCHANGED <<promise, recovered, fatal>>
     \/ /\ f = N
        /\ step' = [step EXCEPT ![f] = "external"] /\ current' = 0
        /\ UNCHANGED <<promise, recovered, fatal>>
     \/ Fail(f)
  /\ UNCHANGED <<made, queue, client>>

(* Mutants: the burst goes on until the future is ready; the result of the *)
(* future is not taken.                                                    *)
AwaitSpins(f) ==
  /\ current = f /\ step[f] = "await"
  /\ \/ promise[f + 1] = "pending" /\ UNCHANGED <<step, current, promise, recovered, fatal>>
     \/ promise[f + 1] = "value" /\ Continue(f, "complete")
          /\ UNCHANGED <<promise, recovered, fatal>>
     \/ promise[f + 1] \notin {"pending", "value"} /\ Fail(f)
  /\ UNCHANGED <<made, queue, client>>
AwaitIgnoresResult(f) ==
  /\ current = f /\ step[f] = "await"
  /\ Continue(f, IF promise[f + 1] = "pending" THEN "relinquish" ELSE "complete")
  /\ UNCHANGED <<promise, recovered, fatal, made, queue, client>>

(* FutureWait::operator()(asi, delay, true), called again and again by the *)
(* await step: relinquish() as long as the future is not ready; then       *)
(* f.get(), which throws when the awaited flow failed.                     *)
Await(f) ==
  /\ current = f /\ step[f] = "await"
  /\ \/ promise[f + 1] = "pending" /\ Continue(f, "relinquish")
          /\ UNCHANGED <<promise, recovered, fatal>>
     \/ promise[f + 1] = "value" /\ Continue(f, "complete")
          /\ UNCHANGED <<promise, recovered, fatal>>
     \/ promise[f + 1] \notin {"pending", "value"} /\ Fail(f)
  /\ UNCHANGED <<made, queue, client>>

(* Mutant: the step waits, but no callback is scheduled.                   *)
RelinquishForgets(f) ==
  /\ current = f /\ step[f] = "relinquish"
  /\ step' = [step EXCEPT ![f] = "sleeping"] /\ current' = 0
  /\ UNCHANGED <<promise, made, recovered, client, fatal, queue>>

(* The step relinquish() adds: immediate(), and a cancel handler for it.   *)
Relinquish(f) ==
  /\ current = f /\ step[f] = "relinquish"
  /\ queue' = Schedule(queue, f, "sleeping")
  /\ step' = [step EXCEPT ![f] = "sleeping"]
  /\ current' = 0
  /\ UNCHANGED <<promise, made, recovered, client, fatal>>

(* promise_complete_step(): set_value(), and the flow ends.  The step of a *)
(* promise with a result takes it as an argument: its adapter throws       *)
(* bad_cast, out of reach of the user's error handlers, when the step      *)
(* before, or the handler that recovered, did not leave such a result.     *)
Complete(f) ==
  /\ current = f /\ step[f] = "complete"
  /\ \/ /\ promise' = IF Has(f, "complete")
                        THEN [promise EXCEPT ![f] = "value"] ELSE promise
        /\ step' = [step EXCEPT ![f] = "done"]
        /\ current' = 0
        /\ UNCHANGED fatal
     \/ f \in Typed /\ Has(f, "complete") /\ Unhandled(f)
  /\ UNCHANGED <<made, recovered, queue, client>>

(* Another thread hands the tool the external event.                       *)
ExternalEvent ==
  /\ step[N] = "external"
  /\ \A i \in DOMAIN queue : queue[i].flow # N
  /\ queue' = Schedule(queue, N, "external")
  /\ UNCHANGED <<step, promise, made, recovered, current, client, fatal>>

(* Mutant: relinquish() has set no cancel handler.                         *)
TimeoutKeepsCallback(f) ==
  /\ current = 0 /\ step[f] \in {"sleeping", "external"}
  /\ Fail(f)
  /\ UNCHANGED <<made, client, queue>>

(* A timeout of the step that waits: its cancel handler, which takes the   *)
(* callback out of the queue, and an error.                                *)
Timeout(f) ==
  /\ current = 0 /\ step[f] \in {"sleeping", "external"}
  /\ queue' = Cancel(queue, {f})
  /\ Fail(f)
  /\ UNCHANGED <<made, client>>

Init ==
  /\ step = [f \in Flow |-> "none"]
  /\ promise = [f \in Flow |-> "none"]
  /\ made = [f \in Flow |-> 0] /\ recovered = {} /\ current = 0 /\ queue = <<>>
  /\ client = "start" /\ fatal = FALSE

LoopThread ==
  \/ Dispatch
  \/ \E f \in Flow : Body(f) \/ Await(f) \/ Relinquish(f) \/ Complete(f)
  \/ \E f \in Flow \ {1} : PromiseCall(f) \/ GetFuture(f)

Client == ClientPromise \/ PromiseCall(1) \/ GetFuture(1) \/ ClientGet

Next ==
  LoopThread \/ Client \/ ClientDestroy \/ ExternalEvent \/ \E f \in Flow : Timeout(f)

Spec == Init /\ [][Next]_vars

(* The loop thread runs as long as it has something to run, the client     *)
(* goes on, and the external event comes.  No timeout has to happen.       *)
FairSpec ==
  Spec /\ WF_vars(LoopThread) /\ WF_vars(Client) /\ WF_vars(ExternalEvent)

-----------------------------------------------------------------------------
TypeOK ==
  /\ step \in [Flow -> Where]
  /\ promise \in [Flow -> {"none", "pending", "broken"} \cup Satisfied]
  /\ made \in [Flow -> 0 .. 4] /\ recovered \subseteq Flow
  /\ current \in Flow \cup {0}
  /\ queue \in Seq([flow : Flow, kind : Waiting] \cup {Cancelled})
  /\ client \in {"start", "promise", "wait", "abandoned"} \cup Satisfied
  /\ fatal \in BOOLEAN

(* A flow that sleeps after relinquish(), or is scheduled, has exactly one *)
(* callback in the queue; a callback in the queue finds its flow in the    *)
(* step it was scheduled for: none is lost, none touches a step that has   *)
(* timed out, or a flow that was destroyed.                                *)
WakesExactlyTheWaiting ==
  /\ \A i \in DOMAIN queue :
       queue[i] # Cancelled => step[queue[i].flow] = queue[i].kind
  /\ \A i, j \in DOMAIN queue :
       queue[i] # Cancelled /\ queue[i].flow = queue[j].flow => i = j
  /\ \A f \in Flow : step[f] \in {"scheduled", "sleeping"} =>
       \E i \in DOMAIN queue : queue[i].flow = f

(* No flow started by promise() ends in the default handler, which         *)
(* terminates the program, although the loop thread may run a flow, and    *)
(* fail it, while the client's thread is still in promise().               *)
NeverFatal == ~fatal

(* A flow ends with a value only if the flow it awaited did, all the way   *)
(* down the chain, or an error handler took care of the error.             *)
ValueMeansValue ==
  \A f \in 1 .. N - 1 :
    promise[f] = "value" /\ f \notin recovered => promise[f + 1] = "value"

(* The future a flow polls stays good as long as the flow does: somebody   *)
(* will satisfy its promise or did, and the flow behind it was not         *)
(* destroyed, although wait() is called again in every step that sleeps    *)
(* and wakes up in between: the promise is on the stack of its flow        *)
(* (iasyncsteps.hpp:972).                                                  *)
AwaitedIsThere ==
  \A f \in Flow : step[f] \in {"await", "relinquish", "sleeping"} =>
    f < N /\ promise[f + 1] \in {"pending"} \cup Satisfied

(* A promise is satisfied at most once: set_value() and set_exception() of *)
(* a satisfied promise throw in a noexcept callback.                       *)
SatisfiedOnce ==
  [][\A f \in Flow : promise[f] \in Satisfied => promise'[f] = promise[f]]_vars

(* Bursts, callbacks and polling are not seen from outside: the flows and  *)
(* the client implement a chain of results, each given once, by the flow   *)
(* it belongs to, and never before the result it is made from.             *)
Chain == INSTANCE Futures WITH
  result <- promise,
  answer <- IF client \in {"start", "promise", "wait"} THEN "none" ELSE client

ImplementsFutures == Chain!Spec

(* The client gets an answer or gives up, although every flow of the chain *)
(* polls on the one thread that the awaited flow needs.                    *)
ClientAnswered == <>(client \in Satisfied \cup {"abandoned"})

(* Every flow that was started finishes or is destroyed, also when nobody  *)
(* waits for it any more.                                                  *)
FlowsFinish ==
  \A f \in Flow : step[f] = "scheduled" ~> step[f] \in {"done", "gone"}
=============================================================================
