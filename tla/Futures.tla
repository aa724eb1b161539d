------------------------------ MODULE Futures ------------------------------
(***************************************************************************)
(* What promise() and await() of IAsyncSteps promise their users: a chain  *)
(* of flows, each started by the one that awaits it, and for each of them  *)
(* one result, which is given once and never changes.  A flow succeeds     *)
(* only after the flow it awaits did, unless it took care of an error.     *)
(* Having done so it does succeed when its promise has no result; one that *)
(* has a result may fail all the same, when it does not get it.  The       *)
(* client gets the result of the first flow, or destroys the chain.  There *)
(* is no event loop here, no queue and no polling: a result is there when  *)
(* it is given.                                                            *)
(***************************************************************************)
EXTENDS Naturals

CONSTANTS
  N,           \* number of flows in the chain
  Typed        \* flows whose promise has a result; the others have void

Flow == 1 .. N

VARIABLES
  result,      \* [Flow -> what its future has to give]
  recovered,   \* the flows that took care of an error
  answer       \* what the client got

vars == <<result, recovered, answer>>

Result == {"value", "error"}

(* The client starts the first flow, a flow that runs the next one.        *)
Begin(f) ==
  /\ result[f] = "none" /\ (f = 1 \/ result[f - 1] = "pending")
  /\ result' = [result EXCEPT ![f] = "pending"]
  /\ UNCHANGED <<recovered, answer>>

(* An error of the flow, or of the one it awaits, ends in its handler.     *)
Recover(f) ==
  /\ result[f] = "pending" /\ f \notin recovered
  /\ recovered' = recovered \cup {f}
  /\ UNCHANGED <<result, answer>>

Succeed(f) ==
  /\ result[f] = "pending"
  /\ f = N \/ f \in recovered \/ result[f + 1] = "value"
  /\ result' = [result EXCEPT ![f] = "value"]
  /\ UNCHANGED <<recovered, answer>>

Fail(f) ==
  /\ result[f] = "pending" /\ (f \in recovered => f \in Typed)
  /\ result' = [result EXCEPT ![f] = "error"]
  /\ UNCHANGED <<recovered, answer>>

Get ==
  /\ answer = "none" /\ result[1] \in Result
  /\ answer' = result[1]
  /\ UNCHANGED <<result, recovered>>

(* The client destroys the chain: what has no result will never have one.  *)
Destroy ==
  /\ result[1] # "none"
  /\ result' = [f \in Flow |->
       IF result[f] = "pending" THEN "broken" ELSE result[f]]
  /\ answer' = IF answer = "none" THEN "abandoned" ELSE answer
  /\ UNCHANGED recovered

Init ==
  /\ result = [f \in Flow |-> "none"]
  /\ recovered = {} /\ answer = "none"

Next ==
  \/ \E f \in Flow : Begin(f) \/ Recover(f) \/ Succeed(f) \/ Fail(f)
  \/ Get \/ Destroy

Spec == Init /\ [][Next]_vars
=============================================================================
