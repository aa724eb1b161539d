------------------------ MODULE EventHandlersProofs ------------------------
(***************************************************************************)
(* What an emitter can rely on, for any number of handlers, events and     *)
(* emissions.  Deliverable compares handlers with values, which no line of *)
(* the code does: on() compares the handler with the model of the event,   *)
(* emit() the values with the event.  EInv keeps both halves, and          *)
(* CastsCompose joins them: it holds because a NoArg is no parameter, so   *)
(* that a handler that casts from the model has no parameter more than the *)
(* event.                                                                  *)
(***************************************************************************)
EXTENDS EventHandlers, ErasedFuncProofs

ListenersCast ==
  \A e \in Event : \A h \in listeners[e] \ swapped :
    Casts(ParamsOf(h), ModelArgs(EventParams[e]))

EmissionsCast ==
  /\ \A i \in DOMAIN queue : Casts(EventParams[queue[i].event], queue[i].args)
  /\ current.event \in Event => Casts(EventParams[current.event], current.args)

TypedHasFunctor == \A h \in Cell : impl[h] = "typed" => func[h].impl \in Functor

EInv ==
  /\ EventTypeOK
  /\ ListenersLive
  /\ ListenersCast
  /\ EmissionsCast
  /\ TypedHasFunctor

LEMMA ListLength ==
  ASSUME NEW S, NEW l \in ListOver(S)
  PROVE  Len(l) \in Arity /\ l \in [1..Len(l) -> S]
<1>1. PICK n \in Arity : l \in [1..n -> S]
  BY DEF ListOver
<1>2. n \in Nat
  BY DEF Arity, MAX_NEXT_ARGS
<1>3. Len(l) = n
  BY <1>1, <1>2
<1> QED BY <1>1, <1>3

LEMMA AssignArgsType ==
  ASSUME NEW values \in ListOver(Param \cup {CString})
  PROVE  AssignArgs(values) \in Arguments
<1>1. values \in [1..Len(values) -> Param \cup {CString}] /\ Len(values) \in Nat
  BY ListLength DEF Arity, MAX_NEXT_ARGS
<1>2. \A t \in Param \cup {CString} : SmartForward(t) \in Param
  BY ParamAssumption DEF SmartForward
<1>3. \A i \in 1..MAX_NEXT_ARGS : i <= Len(values) => SmartForward(values[i]) \in Param
  BY <1>1, <1>2 DEF MAX_NEXT_ARGS
<1> QED BY <1>3 DEF AssignArgs, Arguments

LEMMA ModelArgsType ==
  ASSUME NEW sig \in Signatures
  PROVE  ModelArgs(sig) \in Arguments
<1>1. sig \in [1..Len(sig) -> Param] /\ Len(sig) \in Nat
  BY ListLength DEF Signatures, Arity, MAX_NEXT_ARGS
<1> QED BY <1>1 DEF ModelArgs, Arguments, MAX_NEXT_ARGS

LEMMA IdleType == Idle.args \in Arguments /\ Idle.left = {} /\ Idle.event = NO_EVENT_ID
<1>1. <<>> \in Signatures
  <2>1. <<>> \in [1..0 -> Param] /\ 0 \in Arity
    BY DEF Arity, MAX_NEXT_ARGS
  <2> QED BY <2>1 DEF Signatures, ListOver
<1> QED BY <1>1, ModelArgsType DEF Idle

(* What casts from the model of an event casts from every value the event  *)
(* accepts, and matches it.                                                *)
LEMMA CastsCast ==
  ASSUME NEW sig \in Signatures, NEW params \in Signatures, NEW args \in Arguments,
         Casts(sig, ModelArgs(params)), Casts(params, args)
  PROVE  Casts(sig, args)
<1>1. /\ Len(sig) \in 0..4 /\ sig \in [1..Len(sig) -> Param]
      /\ Len(params) \in 0..4 /\ params \in [1..Len(params) -> Param]
  BY ListLength DEF Signatures, Arity, MAX_NEXT_ARGS
<1>2. ASSUME NEW i \in 1..Len(sig)
      PROVE  args[i] = sig[i]
  <2>1. i \in 1..4 /\ sig[i] \in Param /\ ModelArgs(params)[i] = sig[i]
    BY <1>1 DEF Casts
  <2>2. i <= Len(params) /\ params[i] = sig[i]
    BY <1>1, <2>1, ParamAssumption DEF ModelArgs, MAX_NEXT_ARGS
  <2> QED BY <1>1, <2>1, <2>2 DEF Casts
<1> QED BY <1>1, <1>2 DEF Casts

LEMMA CastsCompose ==
  ASSUME NEW sig \in Signatures, NEW params \in Signatures, NEW args \in Arguments,
         Casts(sig, ModelArgs(params)), Casts(params, args)
  PROVE  Matches(sig, args)
<1>1. Len(sig) \in 0..4 /\ sig \in [1..Len(sig) -> Param]
  BY ListLength DEF Signatures, Arity, MAX_NEXT_ARGS
<1>2. \A i \in 1..Len(sig) : sig[i] = args[i]
  BY <1>1, CastsCast DEF Casts
<1>3. SubSeq(args, 1, Len(sig)) = [i \in 1..Len(sig) |-> args[i]]
  <2>1. args \in [1..4 -> Param \cup {NoArg}] /\ 4 \in Nat
    BY DEF Arguments, MAX_NEXT_ARGS
  <2> QED BY <1>1, <2>1
<1> QED BY <1>1, <1>2, <1>3 DEF Matches

-----------------------------------------------------------------------------
LEMMA EventInitInv == EventInit => EInv
<1> SUFFICES ASSUME EventInit PROVE EInv
  OBVIOUS
<1>1. EventTypeOK
  BY IdleType DEF EventInit, EventTypeOK, Idle
<1>2. current.left = {} /\ current.event \notin Event
  BY IdleType, EventAssumption DEF EventInit
<1>3. ListenersLive /\ ListenersCast
  BY <1>2, EventAssumption DEF EventInit, ListenersLive, ListenersCast
<1>4. EmissionsCast
  BY <1>2 DEF EventInit, EmissionsCast
<1>5. TypedHasFunctor
  BY DEF EventInit, Init, TypedHasFunctor
<1> QED BY <1>1, <1>3, <1>4, <1>5 DEF EInv

(* Delivering keeps the emission or ends it.                               *)
LEMMA DeliveringType ==
  ASSUME NEW x, NEW hs \in SUBSET Cell, x.args \in Arguments,
         x.event \in Event \cup {NO_EVENT_ID}
  PROVE  /\ Delivering(x, hs) \in [event : Event \cup {NO_EVENT_ID},
                                   args : Arguments, left : SUBSET Cell]
         /\ Delivering(x, hs).left = hs
         /\ hs # {} => Delivering(x, hs).event = x.event
         /\ Delivering(x, hs).event \in Event =>
              Delivering(x, hs).event = x.event /\ Delivering(x, hs).args = x.args
<1>1. CASE hs = {}
  BY <1>1, IdleType, EventAssumption DEF Delivering, Idle
<1>2. CASE hs # {}
  BY <1>2 DEF Delivering
<1> QED BY <1>1, <1>2

(* The parts of EInv that name neither impl nor func.                      *)
LEMMA DetachInv ==
  ASSUME EInv, NEW h \in Cell, Detach(h)
  PROVE  /\ event_id' \in [Cell -> Event \cup {NO_EVENT_ID}]
         /\ event_id'[h] = NO_EVENT_ID
         /\ \A g \in Cell \ {h} : event_id'[g] = event_id[g]
         /\ listeners' \in [Event -> SUBSET Cell]
         /\ \A e \in Event : listeners'[e] = listeners[e] \ {h}
         /\ onces' \subseteq Cell /\ swapped' = swapped \ {h}
         /\ current' \in [event : Event \cup {NO_EVENT_ID}, args : Arguments,
                          left : SUBSET Cell]
         /\ current'.left # {} =>
              current'.event \in Event /\ current'.left \subseteq listeners'[current'.event]
         /\ current'.event \in Event => current'.event = current.event
                                        /\ current'.args = current.args
<1> DEFINE hs == current.left \ {h}
<1>1. /\ current.args \in Arguments /\ current.left \subseteq Cell
      /\ current.event \in Event \cup {NO_EVENT_ID}
      /\ event_id \in [Cell -> Event \cup {NO_EVENT_ID}]
      /\ listeners \in [Event -> SUBSET Cell] /\ onces \subseteq Cell
      /\ current.left # {} =>
           current.event \in Event /\ current.left \subseteq listeners[current.event]
  BY DEF EInv, EventTypeOK, ListenersLive
<1>2. /\ current' = Delivering(current, hs)
      /\ event_id' = [event_id EXCEPT ![h] = NO_EVENT_ID]
      /\ listeners' = [e \in Event |-> listeners[e] \ {h}]
      /\ onces' = onces \ {h} /\ swapped' = swapped \ {h}
  BY DEF Detach
<1>3. hs \subseteq Cell
  BY <1>1
<1> HIDE DEF hs
<1>4. /\ current' \in [event : Event \cup {NO_EVENT_ID}, args : Arguments,
                       left : SUBSET Cell]
      /\ current'.left = hs /\ (hs # {} => current'.event = current.event)
      /\ current'.event \in Event => current'.event = current.event
                                     /\ current'.args = current.args
  BY <1>1, <1>2, <1>3, DeliveringType
<1>5. ASSUME current'.left # {}
      PROVE  current'.event \in Event /\ current'.left \subseteq listeners'[current'.event]
  <2>1. /\ current.left # {} /\ current'.event = current.event /\ hs = current.left \ {h}
        /\ current.event \in Event
    BY <1>1, <1>4, <1>5 DEF hs
  <2>2. listeners'[current.event] = listeners[current.event] \ {h}
    BY <1>2, <2>1
  <2> QED BY <1>1, <1>4, <2>1, <2>2
<1> QED BY <1>1, <1>2, <1>4, <1>5

-----------------------------------------------------------------------------
(* A step that gives h another function or none, or makes it.              *)
LEMMA OtherFunctionInv ==
  ASSUME EInv, NEW h \in Cell,
         \A g \in Cell \ {h} : impl'[g] = impl[g] /\ func'[g] = func[g],
         UNCHANGED <<event_id, registered, listeners, onces, queue, current, fate>>,
         swapped' \subseteq Cell, swapped \subseteq swapped',
         event_id[h] # NO_EVENT_ID => h \in swapped' /\ impl'[h] = "typed",
         impl'[h] = "typed" => func'[h].impl \in Functor
  PROVE  EInv'
<1>1. EventTypeOK'
  BY DEF EInv, EventTypeOK
<1>2. ListenersLive'
  BY DEF EInv, ListenersLive
<1>3. ASSUME NEW e \in Event, NEW g \in listeners'[e] \ swapped'
      PROVE  Casts(ParamsOf(g)', ModelArgs(EventParams[e]))
  <2>1. g \in Cell /\ g \in listeners[e] \ swapped /\ event_id[g] = e
    BY <1>3 DEF EInv, EventTypeOK, ListenersLive
  <2>2. g # h
    BY <1>3, <2>1, EventAssumption
  <2> QED BY <2>1, <2>2 DEF EInv, ListenersCast, ParamsOf
<1>4. EmissionsCast'
  BY DEF EInv, EmissionsCast
<1>5. TypedHasFunctor'
  BY DEF EInv, TypedHasFunctor
<1> QED BY <1>1, <1>2, <1>3, <1>4, <1>5 DEF EInv, ListenersCast

(* A step after which h listens to nothing.                                *)
LEMMA DetachedInv ==
  ASSUME EInv, NEW h \in Cell, Detach(h),
         \A g \in Cell \ {h} : impl'[g] = impl[g] /\ func'[g] = func[g],
         UNCHANGED <<registered, queue>>, fate' \in {"running", "on", "emit", "call"},
         impl'[h] = "typed" => func'[h].impl \in Functor
  PROVE  EInv'
<1>1. EventTypeOK'
  BY DetachInv DEF EInv, EventTypeOK
<1>2. ListenersLive'
  <2>1. \A e \in Event, g \in Cell : g \in listeners'[e] <=> event_id'[g] = e
    <3> SUFFICES ASSUME NEW e \in Event, NEW g \in Cell
                 PROVE  g \in listeners'[e] <=> event_id'[g] = e
      OBVIOUS
    <3>1. g \in listeners[e] <=> event_id[g] = e
      BY DEF EInv, ListenersLive
    <3>2. listeners'[e] = listeners[e] \ {h} /\ event_id'[h] = NO_EVENT_ID
          /\ (g # h => event_id'[g] = event_id[g])
      BY DetachInv
    <3> QED BY <3>1, <3>2, EventAssumption
  <2>2. \A g \in Cell : event_id'[g] # NO_EVENT_ID => impl'[g] = "typed"
    BY DetachInv DEF EInv, ListenersLive
  <2>3. current'.left # {} =>
          current'.event \in Event /\ current'.left \subseteq listeners'[current'.event]
    BY DetachInv
  <2> QED BY <2>1, <2>2, <2>3 DEF ListenersLive
<1>3. ListenersCast'
  <2> SUFFICES ASSUME NEW e \in Event, NEW g \in listeners'[e] \ swapped'
               PROVE  Casts(ParamsOf(g)', ModelArgs(EventParams[e]))
    BY DEF ListenersCast
  <2>1. listeners'[e] = listeners[e] \ {h} /\ swapped' = swapped \ {h}
        /\ listeners[e] \subseteq Cell
    BY DetachInv DEF EInv, EventTypeOK
  <2>2. g \in listeners[e] \ swapped /\ g \in Cell \ {h}
    BY <2>1
  <2> QED BY <2>2 DEF EInv, ListenersCast, ParamsOf
<1>4. EmissionsCast'
  <2>1. current'.event \in Event => current'.event = current.event
                                    /\ current'.args = current.args
    BY DetachInv
  <2> QED BY <2>1 DEF EInv, EmissionsCast
<1>5. TypedHasFunctor'
  BY DEF EInv, TypedHasFunctor
<1> QED BY <1>1, <1>2, <1>3, <1>4, <1>5 DEF EInv

LEMMA NewImplGives ==
  ASSUME TypeOK, NEW h \in Cell, NEW p \in Passed, NewImpl(h, p)
  PROVE  /\ impl'[h] = "typed" /\ func'[h].impl \in Functor
         /\ \A g \in Cell \ {h} : impl'[g] = impl[g] /\ func'[g] = func[g]
<1>1. p[1] \in Functor
  BY DEF Passed
<1> QED BY <1>1 DEF TypeOK, NewImpl, Calls

LEMMA HandlerInv ==
  ASSUME EInv, TypeOK, NEW h \in Cell,
         \/ NewHandler(h) \/ \E p \in Passed : AssignHandler(h, p)
         \/ Off(h) \/ DestroyHandler(h)
  PROVE  EInv'
<1>1. swapped \subseteq Cell /\ fate \in {"running", "on", "emit", "call"}
      /\ (event_id[h] # NO_EVENT_ID => impl[h] = "typed")
  BY DEF EInv, EventTypeOK, ListenersLive
<1>2. CASE ConstructEmpty(h) /\ UNCHANGED eventVars
  <2>1. impl'[h] = "invalid" /\ impl[h] = "none"
        /\ \A g \in Cell \ {h} : impl'[g] = impl[g] /\ func'[g] = func[g]
    BY <1>2 DEF ConstructEmpty, TypeOK
  <2>2. UNCHANGED <<event_id, registered, listeners, onces, queue, current, fate>>
        /\ swapped' = swapped
    BY <1>2 DEF eventVars
  <2> QED BY <1>1, <2>1, <2>2, OtherFunctionInv
<1>3. ASSUME NEW p \in Passed, Construct(h, p), UNCHANGED eventVars
      PROVE  EInv'
  <2>1. impl[h] = "none" /\ NewImpl(h, p)
    BY <1>3 DEF Construct
  <2>2. UNCHANGED <<event_id, registered, listeners, onces, queue, current, fate>>
        /\ swapped' = swapped
    BY <1>3 DEF eventVars
  <2> QED BY <1>1, <2>1, <2>2, NewImplGives, OtherFunctionInv
<1>4. ASSUME NEW p \in Passed, AssignHandler(h, p)
      PROVE  EInv'
  <2>1. NewImpl(h, p)
    BY <1>4 DEF AssignHandler, Assign
  <2>2. UNCHANGED <<event_id, registered, listeners, onces, queue, current, fate>>
        /\ swapped \subseteq swapped' /\ swapped' \subseteq Cell
        /\ (event_id[h] # NO_EVENT_ID => h \in swapped')
    BY <1>1, <1>4 DEF AssignHandler
  <2> QED BY <2>1, <2>2, NewImplGives, OtherFunctionInv
<1>5. CASE Off(h)
  <2>1. Detach(h) /\ UNCHANGED <<registered, queue, fate, impl, func>>
    BY <1>5 DEF Off, vars
  <2> QED BY <1>1, <2>1, DetachedInv DEF EInv, TypedHasFunctor
<1>6. CASE DestroyHandler(h)
  <2>1. impl'[h] = "none"
        /\ \A g \in Cell \ {h} : impl'[g] = impl[g] /\ func'[g] = func[g]
    BY <1>6 DEF DestroyHandler, Destroy, TypeOK
  <2>2. CASE Detach(h)
    BY <1>1, <1>6, <2>1, <2>2, DetachedInv DEF DestroyHandler
  <2>3. CASE event_id[h] = NO_EVENT_ID
             /\ UNCHANGED <<event_id, listeners, onces, current, swapped>>
    BY <1>1, <1>6, <2>1, <2>3, OtherFunctionInv DEF DestroyHandler
  <2> QED BY <1>6, <2>2, <2>3 DEF DestroyHandler
<1> QED BY <1>2, <1>3, <1>4, <1>5, <1>6 DEF NewHandler

LEMMA ListenInv ==
  ASSUME EInv, NEW h \in Cell, NEW e \in Event, NEW once \in BOOLEAN, Listen(h, e, once)
  PROVE  EInv'
<1>1. UNCHANGED <<impl, func, registered, queue, current, swapped>> /\ impl[h] # "none"
      /\ event_id[h] = NO_EVENT_ID
  BY DEF Listen, vars
<1>2. CASE fate' = "on" /\ UNCHANGED <<event_id, listeners, onces>>
  BY <1>1, <1>2
  DEF EInv, EventTypeOK, ListenersLive, ListenersCast, EmissionsCast, TypedHasFunctor, ParamsOf
<1>3. CASE /\ impl[h] = "typed" /\ Casts(ParamsOf(h), ModelArgs(EventParams[e]))
           /\ event_id' = [event_id EXCEPT ![h] = e]
           /\ listeners' = [listeners EXCEPT ![e] = @ \cup {h}]
           /\ onces' = IF once THEN onces \cup {h} ELSE onces
           /\ fate' = fate
  <2>1. EventTypeOK'
    BY <1>1, <1>3 DEF EInv, EventTypeOK
  <2>2. /\ event_id'[h] = e /\ \A g \in Cell \ {h} : event_id'[g] = event_id[g]
        /\ listeners'[e] = listeners[e] \cup {h}
        /\ \A x \in Event \ {e} : listeners'[x] = listeners[x]
        /\ \A x \in Event : listeners[x] \subseteq Cell
    BY <1>3 DEF EInv, EventTypeOK
  <2>3. \A x \in Event : h \notin listeners[x]
    BY <1>1, EventAssumption DEF EInv, ListenersLive
  <2>4. ListenersLive'
    BY <1>1, <1>3, <2>2, <2>3 DEF EInv, ListenersLive
  <2>5. ListenersCast'
    <3> SUFFICES ASSUME NEW x \in Event, NEW g \in listeners'[x] \ swapped'
                 PROVE  Casts(ParamsOf(g)', ModelArgs(EventParams[x]))
      BY DEF ListenersCast
    <3>1. ParamsOf(g)' = ParamsOf(g)
      BY <1>1 DEF ParamsOf
    <3>2. CASE g = h /\ x = e
      BY <1>3, <3>1, <3>2
    <3>3. CASE g \in listeners[x] \ swapped
      BY <3>1, <3>3 DEF EInv, ListenersCast
    <3> QED BY <1>1, <2>2, <3>2, <3>3
  <2>6. EmissionsCast' /\ TypedHasFunctor'
    BY <1>1 DEF EInv, EmissionsCast, TypedHasFunctor
  <2> QED BY <2>1, <2>4, <2>5, <2>6 DEF EInv
<1> QED BY <1>2, <1>3 DEF Listen

(* A step of the emitter alone: the handlers stay as they are.             *)
LEMMA EmitterInv ==
  ASSUME EInv, UNCHANGED <<impl, func, event_id, listeners, onces, swapped>>,
         EventTypeOK', EmissionsCast',
         current'.left # {} =>
           current'.event \in Event /\ current'.left \subseteq listeners[current'.event]
  PROVE  EInv'
BY DEF EInv, ListenersLive, ListenersCast, TypedHasFunctor, ParamsOf

LEMMA EmitInv ==
  ASSUME EInv, NEW e \in Event, NEW values \in Emitted, Emit(e, values)
  PROVE  EInv'
<1> DEFINE args == AssignArgs(values)
           x == [event |-> e, args |-> args]
<1>1. UNCHANGED <<impl, func, event_id, registered, listeners, onces, current, swapped>>
  BY DEF Emit, vars
<1>2. args \in Arguments
  BY AssignArgsType, EventAssumption
<1>3. \/ Casts(EventParams[e], args) /\ queue' = Append(queue, x) /\ fate' = fate
      \/ fate' = "emit" /\ queue' = queue
  BY DEF Emit
<1>4. queue \in Seq(Emissions) /\ x \in Emissions
  BY <1>2 DEF Emissions, EInv, EventTypeOK
<1> HIDE DEF args
<1>5. EventTypeOK'
  <2>1. queue' \in Seq(Emissions)
    BY <1>3, <1>4
  <2> QED BY <1>1, <1>3, <2>1 DEF EInv, EventTypeOK
<1>6. EmissionsCast'
  <2>1. CASE Casts(EventParams[e], args) /\ queue' = Append(queue, x)
    <3>1. DOMAIN queue = 1..Len(queue) /\ DOMAIN queue' = 1..(Len(queue) + 1)
          /\ Len(queue) \in Nat
          /\ queue'[Len(queue) + 1] = x /\ \A i \in 1..Len(queue) : queue'[i] = queue[i]
      BY <1>4, <2>1
    <3>2. \A i \in DOMAIN queue' : i \in DOMAIN queue \/ i = Len(queue) + 1
      BY <3>1
    <3>3. Casts(EventParams[x.event], x.args)
      BY <2>1
    <3> QED BY <1>1, <3>1, <3>2, <3>3 DEF EInv, EmissionsCast
  <2>2. CASE queue' = queue
    BY <1>1, <2>2 DEF EInv, EmissionsCast
  <2> QED BY <1>3, <2>1, <2>2
<1>7. current'.left # {} =>
        current'.event \in Event /\ current'.left \subseteq listeners[current'.event]
  BY <1>1 DEF EInv, ListenersLive
<1> QED BY <1>1, <1>5, <1>6, <1>7, EmitterInv

LEMMA DeliverInv ==
  ASSUME EInv, Deliver
  PROVE  EInv'
<1> DEFINE x == Head(queue)
           hs == listeners[x.event]
<1>1. UNCHANGED <<impl, func, event_id, registered, listeners, onces, fate, swapped>>
      /\ queue # <<>> /\ queue' = Tail(queue) /\ current' = Delivering(x, hs)
  BY DEF Deliver, vars
<1>2. queue \in Seq(Emissions)
  BY DEF EInv, EventTypeOK
<1>3. /\ x \in Emissions /\ x = queue[1] /\ 1 \in DOMAIN queue
      /\ queue' \in Seq(Emissions)
      /\ \A i \in DOMAIN queue' : i + 1 \in DOMAIN queue /\ queue'[i] = queue[i + 1]
  BY <1>1, <1>2
<1>4. x.event \in Event /\ x.args \in Arguments /\ hs \in SUBSET Cell
      /\ Casts(EventParams[x.event], x.args)
  BY <1>3 DEF EInv, EventTypeOK, EmissionsCast, Emissions
<1> HIDE DEF x
<1>5. /\ current' \in [event : Event \cup {NO_EVENT_ID}, args : Arguments, left : SUBSET Cell]
      /\ current'.left = hs
      /\ hs # {} => current'.event = x.event
      /\ current'.event \in Event => current'.event = x.event /\ current'.args = x.args
  BY <1>1, <1>4, DeliveringType
<1>6. EventTypeOK'
  BY <1>1, <1>3, <1>5 DEF EInv, EventTypeOK
<1>7. EmissionsCast'
  BY <1>3, <1>4, <1>5 DEF EInv, EmissionsCast
<1> QED BY <1>1, <1>4, <1>5, <1>6, <1>7, EmitterInv

LEMMA CallInv ==
  ASSUME EInv, NEW h \in Cell, Call(h)
  PROVE  EInv'
<1>1. UNCHANGED <<impl, func, registered, queue>> /\ fate' \in {"running", "call"}
  BY DEF Call, vars
<1>2. CASE Detach(h)
  BY <1>1, <1>2, DetachedInv DEF EInv, TypedHasFunctor
<1>3. CASE /\ current' = Delivering(current, current.left \ {h})
           /\ UNCHANGED <<event_id, listeners, onces, swapped>>
  <2> DEFINE hs == current.left \ {h}
  <2>1. current.args \in Arguments /\ current.event \in Event \cup {NO_EVENT_ID}
        /\ hs \in SUBSET Cell
    BY DEF EInv, EventTypeOK
  <2>2. /\ current' \in [event : Event \cup {NO_EVENT_ID}, args : Arguments,
                         left : SUBSET Cell]
        /\ current'.left = hs
        /\ hs # {} => current'.event = current.event
        /\ current'.event \in Event => current'.event = current.event
                                       /\ current'.args = current.args
    BY <1>3, <2>1, DeliveringType
  <2>3. EventTypeOK'
    BY <1>1, <1>3, <2>2 DEF EInv, EventTypeOK
  <2>4. EmissionsCast'
    BY <1>1, <2>2 DEF EInv, EmissionsCast
  <2>5. current'.left # {} =>
          current'.event \in Event /\ current'.left \subseteq listeners[current'.event]
    BY <2>2 DEF EInv, ListenersLive
  <2> QED BY <1>1, <1>3, <2>3, <2>4, <2>5, EmitterInv
<1> QED BY <1>2, <1>3 DEF Call

THEOREM EventNextInv == EInv /\ TypeOK /\ [EventNext]_allVars => EInv'
<1> SUFFICES ASSUME EInv, TypeOK, [EventNext]_allVars PROVE EInv'
  OBVIOUS
<1>1. ASSUME NEW e \in Event, RegisterEvent(e) PROVE EInv'
  <2>1. UNCHANGED <<impl, func, event_id, listeners, onces, queue, current, fate, swapped>>
        /\ registered' \subseteq Event
    BY <1>1 DEF RegisterEvent, vars, EInv, EventTypeOK
  <2>2. EventTypeOK' /\ EmissionsCast'
    BY <2>1 DEF EInv, EventTypeOK, EmissionsCast
  <2>3. current'.left # {} =>
          current'.event \in Event /\ current'.left \subseteq listeners[current'.event]
    BY <2>1 DEF EInv, ListenersLive
  <2> QED BY <2>1, <2>2, <2>3, EmitterInv
<1>2. CASE UNCHANGED allVars
  BY <1>2 DEF allVars, vars, eventVars, EInv, EventTypeOK, ListenersLive, ListenersCast,
              EmissionsCast, TypedHasFunctor, ParamsOf
<1> QED BY <1>1, <1>2, HandlerInv, ListenInv, EmitInv, DeliverInv, CallInv DEF EventNext

(* To the ErasedFunc in it, a step of an EventHandler is one of the steps  *)
(* of an ErasedFunc or none.                                               *)
LEMMA HandlerIsErasedFunc == [EventNext]_allVars => [Next]_vars
<1> SUFFICES ASSUME [EventNext]_allVars PROVE [Next]_vars
  OBVIOUS
<1>1. ASSUME NEW h \in Cell, NewHandler(h) PROVE Next
  BY <1>1 DEF NewHandler, Next
<1>2. ASSUME NEW h \in Cell, NEW p \in Passed, AssignHandler(h, p) PROVE Next
  BY <1>2 DEF AssignHandler, Next
<1>3. ASSUME NEW h \in Cell, DestroyHandler(h) PROVE Next
  BY <1>3 DEF DestroyHandler, Next
<1>4. ASSUME \/ \E e \in Event : RegisterEvent(e) \/ \E values \in Emitted : Emit(e, values)
             \/ \E h \in Cell : Off(h) \/ Call(h)
             \/ \E h \in Cell, e \in Event, once \in BOOLEAN : Listen(h, e, once)
             \/ Deliver
      PROVE  UNCHANGED vars
  BY <1>4 DEF RegisterEvent, Emit, Off, Call, Listen, Deliver
<1>5. CASE UNCHANGED allVars
  BY <1>5 DEF allVars
<1> QED BY <1>1, <1>2, <1>3, <1>4, <1>5 DEF EventNext

THEOREM EventInvariant == EventSpec => [](EInv /\ IInv)
<1>1. EventInit => EInv /\ IInv
  BY EventInitInv, InitInv DEF EventInit
<1>2. EInv /\ IInv /\ [EventNext]_allVars => (EInv /\ IInv)'
  BY EventNextInv, HandlerIsErasedFunc, NextInv DEF IInv
<1> QED BY <1>1, <1>2, PTL DEF EventSpec

(* The variables keep their types through every operation of a handler and *)
(* of the emitter.                                                         *)
THEOREM EventTypeCorrect == EventSpec => []EventTypeOK
<1>1. EInv => EventTypeOK
  BY DEF EInv
<1> QED BY <1>1, EventInvariant, PTL

(* An emitter never holds a handler that is gone, although handlers are    *)
(* destroyed at any time, while the emitter runs through them too.         *)
THEOREM NeverDangles == EventSpec => []ListenersLive
<1>1. EInv => ListenersLive
  BY DEF EInv
<1> QED BY <1>1, EventInvariant, PTL

(* Every value that waits can be delivered to every handler that listens,  *)
(* but for those given another function meanwhile.                         *)
THEOREM AcceptedIsDeliverable == EventSpec => []Deliverable
<1>1. EInv /\ IInv => Deliverable
  <2> SUFFICES ASSUME EInv, IInv, NEW e \in Event, NEW x \in Pending(e),
                      NEW h \in listeners[e] \ swapped
               PROVE  Matches(ParamsOf(h), x.args)
    BY DEF Deliverable
  <2>1. x.args \in Arguments /\ Casts(EventParams[e], x.args)
    <3>1. CASE \E i \in DOMAIN queue : queue[i].event = e /\ x = queue[i]
      <4>1. queue \in Seq(Emissions)
        BY DEF EInv, EventTypeOK
      <4>2. \A i \in DOMAIN queue : queue[i] \in Emissions
        BY <4>1
      <4> QED BY <3>1, <4>2 DEF EInv, EmissionsCast, Emissions
    <3>2. CASE x = [event |-> current.event, args |-> current.args] /\ x.event = e
      BY <3>2 DEF EInv, EventTypeOK, EmissionsCast
    <3> QED BY <3>1, <3>2 DEF Pending
  <2>2. h \in Cell /\ event_id[h] = e
    BY DEF EInv, EventTypeOK, ListenersLive
  <2>3. ParamsOf(h) \in Signatures /\ EventParams[e] \in Signatures
    BY <2>2, EventAssumption DEF EInv, ListenersLive, TypedHasFunctor, ParamsOf
  <2>4. Casts(ParamsOf(h), ModelArgs(EventParams[e]))
    BY DEF EInv, ListenersCast
  <2> QED BY <2>1, <2>3, <2>4, CastsCompose
<1> QED BY <1>1, EventInvariant, PTL

(* A handler calls the function it was given last, whatever the emitter    *)
(* does: the theorem of ErasedFunc holds of the handlers of an emitter.    *)
THEOREM HandlersCallable == EventSpec => []CallableUnlessClobbered
<1>1. IInv => CallableUnlessClobbered
  BY DEF IInv, CallableUnlessClobbered
<1> QED BY <1>1, EventInvariant, PTL

(* A step of an emission that ends the program is the call of a handler    *)
(* that was given another function while it listened, and by then casts no *)
(* more: every other call finds what on() and emit() have tested.          *)
THEOREM DeliveryIsSafe == EventSpec => DeliveryNeverFails
<1> DEFINE A == fate # "call" /\ fate' = "call" =>
                  \E h \in current.left \cap swapped :
                    ~Casts(ParamsOf(h), current.args)
<1>1. EInv /\ [EventNext]_allVars => [A]_allVars
  <2> SUFFICES ASSUME EInv, EventNext, fate # "call", fate' = "call"
               PROVE  \E h \in current.left \cap swapped :
                        ~Casts(ParamsOf(h), current.args)
    OBVIOUS
  <2>1. ASSUME NEW h \in Cell, Call(h)
        PROVE  \E g \in current.left \cap swapped :
                 ~Casts(ParamsOf(g), current.args)
    <3>1. h \in current.left /\ ~Casts(ParamsOf(h), current.args)
      BY <2>1 DEF Call
    <3>2. /\ current.event \in Event /\ h \in listeners[current.event]
          /\ event_id[h] # NO_EVENT_ID
      BY <3>1, EventAssumption DEF EInv, ListenersLive
    <3>3. ParamsOf(h) \in Signatures /\ EventParams[current.event] \in Signatures
      BY <3>2, EventAssumption DEF EInv, ListenersLive, TypedHasFunctor, ParamsOf
    <3>4. current.args \in Arguments /\ Casts(EventParams[current.event], current.args)
      BY <3>2 DEF EInv, EventTypeOK, EmissionsCast
    <3>5. h \in swapped
      BY <3>1, <3>2, <3>3, <3>4, CastsCast DEF EInv, ListenersCast
    <3> QED BY <3>1, <3>5
  <2>2. ASSUME \/ \E e \in Event : RegisterEvent(e) \/ \E values \in Emitted : Emit(e, values)
               \/ \E h \in Cell : NewHandler(h) \/ Off(h) \/ DestroyHandler(h)
               \/ \E h \in Cell, p \in Passed : AssignHandler(h, p)
               \/ \E h \in Cell, e \in Event, once \in BOOLEAN : Listen(h, e, once)
               \/ Deliver
        PROVE  fate' # "call"
    BY <2>2 DEF RegisterEvent, Emit, NewHandler, eventVars, Off, DestroyHandler,
                AssignHandler, Listen, Deliver
  <2> QED BY <2>1, <2>2 DEF EventNext
<1>2. [][A]_allVars <=> DeliveryNeverFails
  BY DEF DeliveryNeverFails
<1> QED BY <1>1, <1>2, EventInvariant, PTL DEF EventSpec

(* To those who hold them, the handlers of an emitter are ErasedFuncs: the *)
(* emitter adds no step that an ErasedFunc alone would not allow, whatever *)
(* order it calls, frees and forgets them in.                              *)
THEOREM HandlersAreErasedFuncs == EventSpec => Spec
<1>1. EventInit => Init
  BY DEF EventInit
<1> QED BY <1>1, HandlerIsErasedFunc, PTL DEF EventSpec, Spec
=============================================================================
