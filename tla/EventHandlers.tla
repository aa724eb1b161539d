--------------------------- MODULE EventHandlers ---------------------------
(***************************************************************************)
(* ieventemitter.hpp: EventHandler objects, each an ErasedFunc and the     *)
(* event it listens to, and an emitter.  The signatures of an event and of *)
(* a handler meet only at run time: register_event() keeps the test cast   *)
(* and the model arguments of the event, on() casts the model to the       *)
(* handler's parameters, emit() casts what is emitted to the event's.  The *)
(* handlers run later, after the code that emits; by then a handler may    *)
(* have been destroyed or given another function.                          *)
(*                                                                         *)
(* on(), once(), off() and emit() are pure virtual.  The emitter here does *)
(* what the interface and README.md:443-467 say of one: it refuses what    *)
(* does not cast, runs a queue of emissions when it is not emitting, and   *)
(* frees a once() handler before it calls it.  A refusal is a bad_cast or  *)
(* a FatalMsg in a noexcept function and ends the program.                 *)
(***************************************************************************)
EXTENDS ErasedFunc, NextArgs

CONSTANTS
  Event,         \* the events of the emitter
  EventParams,   \* [Event -> parameter types given to register_event<T...>()]
  FuncParams,    \* [Functor -> its parameter types]
  Emitted,       \* lists of the types of values given to emit()
  NO_EVENT_ID,
  MaxQueue       \* bound: emissions that wait

ASSUME EventAssumption ==
  /\ EventParams \in [Event -> Signatures]
  /\ FuncParams \in [Functor -> Signatures]
  /\ Emitted \subseteq ListOver(Param \cup {CString})
  /\ NO_EVENT_ID \notin Event

VARIABLES
  event_id,     \* [Cell -> EventHandler::event_type_.event_id_]
  registered,   \* events with a test cast and model arguments
  listeners,    \* [Event -> the emitter's handlers]
  onces,        \* those of them that once() added
  queue,        \* emissions, oldest first
  current,      \* the emission being delivered and the handlers left
  fate,         \* what ended the program: "on", "emit", "call"; or "running"
  swapped       \* history: handlers given a new function while listening

eventVars == <<event_id, registered, listeners, onces, queue, current, fate, swapped>>
allVars   == <<vars, eventVars>>

Emissions == [event : Event, args : Arguments]
Idle      == [event |-> NO_EVENT_ID, args |-> ModelArgs(<<>>), left |-> {}]

(* No cast has failed in a noexcept function yet.                          *)
Running == fate = "running"

(* The parameters of the function h holds, TypedImpl<A...>.                *)
ParamsOf(h) == FuncParams[func[h].impl]

-----------------------------------------------------------------------------
(* register_event<T...>(event)                                             *)
RegisterEvent(e) ==
  /\ Running
  /\ e \notin registered
  /\ registered' = registered \cup {e}
  /\ UNCHANGED <<vars, event_id, listeners, onces, queue, current, fate, swapped>>

(* EventHandler() and EventHandler(functor)                                *)
NewHandler(h) ==
  /\ Running
  /\ ConstructEmpty(h) \/ \E p \in Passed : Construct(h, p)
  /\ UNCHANGED eventVars

(* EventHandler::operator=: nothing keeps it from being called while the   *)
(* handler listens.                                                        *)
AssignHandler(h, p) ==
  /\ Running
  /\ Assign(h, p)
  /\ swapped' = IF event_id[h] # NO_EVENT_ID THEN swapped \cup {h} ELSE swapped
  /\ UNCHANGED <<event_id, registered, listeners, onces, queue, current, fate>>

(* Mutant: the model arguments are not tested.                             *)
ListenUntested(h, e, once) ==
  /\ Running
  /\ e \in registered /\ impl[h] = "typed" /\ event_id[h] = NO_EVENT_ID
  /\ event_id' = [event_id EXCEPT ![h] = e]
  /\ listeners' = [listeners EXCEPT ![e] = @ \cup {h}]
  /\ onces' = IF once THEN onces \cup {h} ELSE onces
  /\ UNCHANGED <<vars, registered, queue, current, fate, swapped>>

(* on(event, h) and once(event, h): test_cast() of an empty handler is     *)
(* fatal, and a cast of the model to parameters the event does not have    *)
(* throws.                                                                 *)
Listen(h, e, once) ==
  /\ Running
  /\ e \in registered /\ impl[h] # "none" /\ event_id[h] = NO_EVENT_ID
  /\ \/ /\ impl[h] = "typed" /\ Casts(ParamsOf(h), ModelArgs(EventParams[e]))
        /\ event_id' = [event_id EXCEPT ![h] = e]
        /\ listeners' = [listeners EXCEPT ![e] = @ \cup {h}]
        /\ onces' = IF once THEN onces \cup {h} ELSE onces
        /\ UNCHANGED fate
     \/ /\ ~(impl[h] = "typed" /\ Casts(ParamsOf(h), ModelArgs(EventParams[e])))
        /\ fate' = "on"
        /\ UNCHANGED <<event_id, listeners, onces>>
  /\ UNCHANGED <<vars, registered, queue, current, swapped>>

(* The emission with handlers hs left to call; done when none is.          *)
Delivering(x, hs) ==
  IF hs = {} THEN Idle ELSE [event |-> x.event, args |-> x.args, left |-> hs]

(* What off(), and the destructor through it, and the call of a once()     *)
(* handler have in common: h is free again.                                *)
Detach(h) ==
  /\ event_id' = [event_id EXCEPT ![h] = NO_EVENT_ID]
  /\ listeners' = [e \in Event |-> listeners[e] \ {h}]
  /\ onces' = onces \ {h}
  /\ current' = Delivering(current, current.left \ {h})
  /\ swapped' = swapped \ {h}

(* off(event, h)                                                           *)
Off(h) ==
  /\ Running
  /\ event_id[h] # NO_EVENT_ID
  /\ Detach(h)
  /\ UNCHANGED <<vars, registered, queue, fate>>

(* Mutant: the emitter is not told.                                        *)
DestroyHandlerSilently(h) ==
  /\ Running
  /\ Destroy(h)
  /\ event_id' = [event_id EXCEPT ![h] = NO_EVENT_ID]
  /\ UNCHANGED <<registered, listeners, onces, queue, current, fate, swapped>>

(* ~EventHandler(): off() first, if it listens, then ~ErasedFunc().        *)
DestroyHandler(h) ==
  /\ Running
  /\ Destroy(h)
  /\ \/ event_id[h] # NO_EVENT_ID /\ Detach(h)
     \/ /\ event_id[h] = NO_EVENT_ID
        /\ UNCHANGED <<event_id, listeners, onces, current, swapped>>
  /\ UNCHANGED <<registered, queue, fate>>

(* emit(event, args...): assign(), then the emitter's own emit().          *)
Emit(e, values) ==
  /\ Running
  /\ e \in registered /\ Len(queue) < MaxQueue
  /\ LET args == AssignArgs(values) IN
     \/ /\ Casts(EventParams[e], args)
        /\ queue' = Append(queue, [event |-> e, args |-> args])
        /\ UNCHANGED fate
     \/ /\ ~Casts(EventParams[e], args)
        /\ fate' = "emit"
        /\ UNCHANGED queue
  /\ UNCHANGED <<vars, event_id, registered, listeners, onces, current, swapped>>

(* The emitter takes the next emission for all that listen by now.         *)
Deliver ==
  /\ Running
  /\ current.left = {} /\ queue # <<>>
  /\ current' = Delivering(Head(queue), listeners[Head(queue).event])
  /\ queue' = Tail(queue)
  /\ UNCHANGED <<vars, event_id, registered, listeners, onces, fate, swapped>>

(* EventHandler::operator()(args), i.e. repeatable().  What the handler's  *)
(* code does to the emitter are steps of their own.                        *)
Call(h) ==
  /\ Running
  /\ h \in current.left /\ CallsLastAssigned(h)
  /\ fate' = IF Casts(ParamsOf(h), current.args) THEN "running" ELSE "call"
  /\ \/ h \in onces /\ Detach(h)
     \/ /\ h \notin onces
        /\ current' = Delivering(current, current.left \ {h})
        /\ UNCHANGED <<event_id, listeners, onces, swapped>>
  /\ UNCHANGED <<vars, registered, queue>>

-----------------------------------------------------------------------------
EventInit ==
  /\ Init
  /\ event_id = [h \in Cell |-> NO_EVENT_ID]
  /\ registered = {} /\ onces = {} /\ swapped = {}
  /\ listeners = [e \in Event |-> {}]
  /\ queue = <<>> /\ current = Idle
  /\ fate = "running"

EventNext ==
  \/ \E e \in Event : RegisterEvent(e) \/ \E values \in Emitted : Emit(e, values)
  \/ \E h \in Cell : NewHandler(h) \/ Off(h) \/ DestroyHandler(h) \/ Call(h)
  \/ \E h \in Cell, p \in Passed : AssignHandler(h, p)
  \/ \E h \in Cell, e \in Event, once \in BOOLEAN : Listen(h, e, once)
  \/ Deliver

EventSpec == EventInit /\ [][EventNext]_allVars

-----------------------------------------------------------------------------
EventTypeOK ==
  /\ event_id \in [Cell -> Event \cup {NO_EVENT_ID}]
  /\ registered \subseteq Event
  /\ listeners \in [Event -> SUBSET Cell]
  /\ onces \subseteq Cell /\ swapped \subseteq Cell
  /\ queue \in Seq(Emissions)
  /\ current \in [event : Event \cup {NO_EVENT_ID}, args : Arguments,
                  left : SUBSET Cell]
  /\ fate \in {"running", "on", "emit", "call"}

(* The emitter never holds a handler that is gone: who is in its lists, or *)
(* still to be called, is alive, has a function, and knows the event it    *)
(* would have to leave (the destructor, ieventemitter.hpp 189-194).        *)
ListenersLive ==
  /\ \A e \in Event, h \in Cell : h \in listeners[e] <=> event_id[h] = e
  /\ \A h \in Cell : event_id[h] # NO_EVENT_ID => impl[h] = "typed"
  /\ current.left # {} =>
       current.event \in Event /\ current.left \subseteq listeners[current.event]

(* The emissions that are to reach the handlers of event e.                *)
Pending(e) ==
  {queue[i] : i \in {j \in DOMAIN queue : queue[j].event = e}}
    \cup {x \in {[event |-> current.event, args |-> current.args]} : x.event = e}

(* What README.md:456 says a signature must do: match the values, of which *)
(* it may omit the last.                                                   *)
Matches(sig, args) == sig = SubSeq(args, 1, Len(sig))

(* What on() and emit() accepted can be delivered: although neither        *)
(* compares the handler with the values, the values that wait match the    *)
(* parameters of every handler that listens, unless the handler was given  *)
(* another function since (nextargs.hpp 199-303, 305-332).                 *)
Deliverable ==
  \A e \in Event : \A x \in Pending(e), h \in listeners[e] \ swapped :
    Matches(ParamsOf(h), x.args)

(* The call of a handler is noexcept: a cast that fails in it ends the     *)
(* program (ieventemitter.hpp 174-177).  Only a handler that was given a   *)
(* function of other parameters after on() had tested it can do so, and    *)
(* none that leaves, joins or is freed in the middle of an emission.       *)
DeliveryNeverFails ==
  [][fate # "call" /\ fate' = "call" =>
       \E h \in current.left \cap swapped :
         ~Casts(ParamsOf(h), current.args)]_allVars

-----------------------------------------------------------------------------
(* README.md:459 says of the signatures that "Language casts are implicitly*)
(* allowed", and README.md:481-487 emits 1.0 for a parameter float: what   *)
(* the example emits for the event it registered is accepted.              *)
ExampleAccepted == fate # "emit"
=============================================================================
