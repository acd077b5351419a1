----------------------------- MODULE Dispatcher -----------------------------
(***************************************************************************)
(* dots::Dispatcher (lib/src/Dispatcher.cpp) with the Subscription objects *)
(* a Transceiver hands out for its handlers.                               *)
(*                                                                         *)
(* A dispatch walks the handlers of a type; while a handler runs, user     *)
(* code may subscribe and unsubscribe, and, in a HostTransceiver, publish: *)
(* HostTransceiver::publish dispatches synchronously, so dispatches nest.  *)
(* In a GuestTransceiver publish only transmits, so they do not.  The call *)
(* stack is explicit: one frame per loop over handlers, or over the        *)
(* instances of a container, that has not ended yet.                       *)
(* MaxDepth is 1 for a guest and larger for a host.                        *)
(***************************************************************************)
EXTENDS Integers, Sequences, FiniteSets, FiniteSetsExt

CONSTANTS
    Type,      \* struct types
    Cached,    \* those that are cached, a subset of Type
    Key,       \* keys of instances, in their order in a container
    MaxIds,    \* bound: handlers ever registered
    MaxDepth   \* how deep dispatches may nest

ASSUME DispatcherAssumption ==
    /\ Cached \subseteq Type
    /\ Key \subseteq Int
    /\ MaxIds \in Nat
    /\ MaxDepth \in Nat \ {0}

VARIABLES
    transmissionHandlers, \* m_transmissionHandlerPool: ids per type
    pooled,               \* the types that pool has an entry for
    eventHandlers,        \* m_eventHandlerPool: ids per type
    nextId,               \* m_nextId
    dispatchingId,        \* m_currentlyDispatchingId
    removeIds,            \* m_removeIds
    container,            \* m_containerPool: keys present, per type
    stack,                \* loops in progress, the innermost last
    sub,                  \* state of the Subscription object of a handler
    view                  \* keys a handler holds present, going by what it
                          \* has been invoked with

handlerVars == <<transmissionHandlers, pooled, eventHandlers, nextId>>
vars == <<handlerVars, dispatchingId, removeIds, container, stack, sub, view>>

NoId == -1   \* std::nullopt
Id == 0..MaxIds - 1

-----------------------------------------------------------------------------
(* A loop in progress.  In the phases "transmission" and "event" it is the *)
(* one of dispatchToHandlers, standing on the handler cur; running says    *)
(* whether that is being invoked.  In the phase "replay" it is the one of  *)
(* addEventHandler, which invokes the new handler cur for the instance key.*)
(* before and seen record which handlers a loop found and invoked.         *)

Frame == [phase : {"transmission", "event", "replay"}, type : Type, key : Key,
          remove : BOOLEAN, cur : Id \cup {NoId}, running : BOOLEAN,
          before : SUBSET Id, seen : SUBSET Id]

Handlers(phase, t) ==
    IF phase = "transmission" THEN transmissionHandlers[t] ELSE eventHandlers[t]

Top == stack[Len(stack)]
Walked == Handlers(Top.phase, Top.type)
Popped == SubSeq(stack, 1, Len(stack) - 1)

(* Seeded fault: handlers kept in ascending order of id, so that a handler *)
(* added during a dispatch is still reached by it.                         *)
FaultAscending(ids, cur) ==
    LET rest == {i \in ids : i > cur} IN IF rest = {} THEN NoId ELSE Min(rest)

(* The handlers are a std::map ordered by std::greater: newest first.      *)
NextHandler(ids, cur) ==
    LET rest == {i \in ids : cur = NoId \/ i < cur}
    IN  IF rest = {} THEN NoId ELSE Max(rest)

(* The loop of dispatchToHandlers starts on the first handler.             *)
Loop(phase, t, k, remove, ids) ==
    [phase |-> phase, type |-> t, key |-> k, remove |-> remove,
     cur |-> NextHandler(ids, NoId), running |-> FALSE,
     before |-> ids, seen |-> {}]

(* User code runs outside of every dispatch, and inside a running handler. *)
UserCode == IF stack = <<>> THEN TRUE ELSE Top.running

(* Transceiver::subscribe, once the handler has been added.                *)
Subscribed(i) == sub' = [sub EXCEPT ![i] = "active"]

(* What a handler for a type knows after it has been told of an instance.  *)
Told(i, t, k, remove) ==
    IF t \notin Cached THEN view
    ELSE [view EXCEPT ![i] = IF remove THEN @ \ {k} ELSE @ \cup {k}]

-----------------------------------------------------------------------------
Init ==
    /\ transmissionHandlers = [t \in Type |-> {}]
    /\ pooled = {}
    /\ eventHandlers = [t \in Type |-> {}]
    /\ nextId = 0
    /\ dispatchingId = NoId
    /\ removeIds = {}
    /\ container = [t \in Type |-> {}]
    /\ stack = <<>>
    /\ sub = [i \in Id |-> "none"]
    /\ view = [i \in Id |-> {}]

(* Seeded fault: the id is incremented before it is used.                  *)
FaultPreIncrement(t) ==
    /\ UserCode
    /\ nextId < MaxIds
    /\ transmissionHandlers' =
           [transmissionHandlers EXCEPT ![t] = @ \cup {nextId + 1}]
    /\ pooled' = pooled \cup {t}
    /\ nextId' = nextId + 1
    /\ Subscribed(nextId)
    /\ UNCHANGED <<eventHandlers, dispatchingId, removeIds, container, stack,
                   view>>

AddTransmissionHandler(t) ==
    /\ UserCode
    /\ nextId < MaxIds
    /\ transmissionHandlers' =
           [transmissionHandlers EXCEPT ![t] = @ \cup {nextId}]
    /\ pooled' = pooled \cup {t}
    /\ nextId' = nextId + 1
    /\ Subscribed(nextId)
    /\ UNCHANGED <<eventHandlers, dispatchingId, removeIds, container, stack,
                   view>>

(* Seeded fault: the instances the container holds are not replayed.       *)
FaultNoReplay(t) ==
    /\ UserCode
    /\ nextId < MaxIds
    /\ eventHandlers' = [eventHandlers EXCEPT ![t] = @ \cup {nextId}]
    /\ nextId' = nextId + 1
    /\ Subscribed(nextId)
    /\ UNCHANGED <<transmissionHandlers, pooled, dispatchingId, removeIds,
                   container, stack, view>>

(* addEventHandler registers the handler and then invokes it with a create *)
(* event for each instance of the container.  The Subscription is made     *)
(* once it has returned.                                                   *)
AddEventHandler(t) ==
    /\ UserCode
    /\ nextId < MaxIds
    /\ eventHandlers' = [eventHandlers EXCEPT ![t] = @ \cup {nextId}]
    /\ nextId' = nextId + 1
    /\ IF container[t] = {}
       THEN /\ Subscribed(nextId)
            /\ UNCHANGED <<stack, view>>
       ELSE LET k == Min(container[t]) IN
            /\ stack' = Append(stack,
                   [phase |-> "replay", type |-> t, key |-> k,
                    remove |-> FALSE, cur |-> nextId, running |-> TRUE,
                    before |-> {}, seen |-> {}])
            /\ view' = Told(nextId, t, k, FALSE)
            /\ UNCHANGED sub
    /\ UNCHANGED <<transmissionHandlers, pooled, dispatchingId, removeIds,
                   container>>

(* The new handler returns: on to the next instance, or done.              *)
Replay ==
    /\ stack # <<>>
    /\ Top.phase = "replay"
    /\ LET t == Top.type
           rest == {k \in container[t] : k > Top.key}
       IN  IF rest = {}
           THEN /\ stack' = Popped
                /\ Subscribed(Top.cur)
                /\ UNCHANGED view
           ELSE /\ stack' = [stack EXCEPT ![Len(stack)].key = Min(rest)]
                /\ view' = Told(Top.cur, t, Min(rest), FALSE)
                /\ UNCHANGED sub
    /\ UNCHANGED <<handlerVars, dispatchingId, removeIds, container>>

(* The new handler throws: the exception leaves subscribe and goes to the  *)
(* code that called it.                                                    *)
ReplayThrows ==
    /\ stack # <<>>
    /\ Top.phase = "replay"
    /\ stack' = Popped
    /\ UNCHANGED <<handlerVars, dispatchingId, removeIds, container, sub, view>>

(* Seeded fault: the current handler is erased at once.                    *)
FaultEraseAtOnce(i) ==
    /\ transmissionHandlers' = [t \in Type |-> transmissionHandlers[t] \ {i}]
    /\ eventHandlers' = [t \in Type |-> eventHandlers[t] \ {i}]
    /\ UNCHANGED removeIds

(* Seeded fault: during a dispatch every removal is put off.               *)
FaultAlwaysLater(i) ==
    IF stack # <<>>
    THEN /\ removeIds' = removeIds \cup {i}
         /\ UNCHANGED <<transmissionHandlers, eventHandlers>>
    ELSE /\ transmissionHandlers' = [t \in Type |-> transmissionHandlers[t] \ {i}]
         /\ eventHandlers' = [t \in Type |-> eventHandlers[t] \ {i}]
         /\ UNCHANGED removeIds

(* removeHandler: the handler being invoked is only noted for removal.     *)
RemoveHandler(i) ==
    IF i = dispatchingId
    THEN /\ removeIds' = removeIds \cup {i}
         /\ UNCHANGED <<transmissionHandlers, eventHandlers>>
    ELSE /\ transmissionHandlers' = [t \in Type |-> transmissionHandlers[t] \ {i}]
         /\ eventHandlers' = [t \in Type |-> eventHandlers[t] \ {i}]
         /\ UNCHANGED removeIds

(* Subscription::unsubscribe, or the end of the object's lifetime.         *)
Unsubscribe(i) ==
    /\ UserCode
    /\ sub[i] = "active"
    /\ RemoveHandler(i)
    /\ sub' = [sub EXCEPT ![i] = "cancelled"]
    /\ UNCHANGED <<pooled, nextId, dispatchingId, container, stack, view>>

(* Subscription::discard: the handler is meant to stay.                    *)
Discard(i) ==
    /\ UserCode
    /\ sub[i] = "active"
    /\ sub' = [sub EXCEPT ![i] = "discarded"]
    /\ UNCHANGED <<handlerVars, dispatchingId, removeIds, container, stack, view>>

-----------------------------------------------------------------------------
Depth == Cardinality({n \in DOMAIN stack : stack[n].phase # "replay"})

(* dispatch: the transmission handlers first.                              *)
Dispatch(t, k, remove) ==
    /\ UserCode
    /\ MaxDepth = 1 => stack = <<>>
    /\ Depth < MaxDepth
    /\ stack' = Append(stack, Loop("transmission", t, k, remove,
                                   transmissionHandlers[t]))
    /\ UNCHANGED <<handlerVars, dispatchingId, removeIds, container, sub, view>>

(* The loop invokes the handler it stands on.                              *)
Invoke ==
    /\ stack # <<>>
    /\ ~Top.running
    /\ Top.cur # NoId
    /\ dispatchingId' = Top.cur
    /\ stack' = [stack EXCEPT ![Len(stack)].running = TRUE,
                              ![Len(stack)].seen = @ \cup {Top.cur}]
    /\ view' = Told(Top.cur, Top.type, Top.key, Top.remove)
    /\ UNCHANGED <<handlerVars, removeIds, container, sub>>

(* The handler returns, or throws: then the error handler is called.       *)
Return ==
    /\ stack # <<>>
    /\ Top.phase # "replay" /\ Top.running
    /\ dispatchingId' = NoId
    /\ stack' = [stack EXCEPT ![Len(stack)].running = FALSE,
                              ![Len(stack)].cur = NextHandler(Walked, Top.cur)]
    /\ UNCHANGED <<handlerVars, removeIds, container, sub, view>>

(* Seeded fault: the noted handlers are forgotten.                         *)
FaultForget(phase, t) ==
    /\ UNCHANGED <<transmissionHandlers, eventHandlers>>
    /\ removeIds' = {}

(* After its loop, dispatchToHandlers erases the noted handlers from the   *)
(* handlers it has walked.                                                 *)
EraseNoted(phase, t) ==
    /\ transmissionHandlers' =
           IF phase = "transmission"
           THEN [transmissionHandlers EXCEPT ![t] = @ \ removeIds]
           ELSE transmissionHandlers
    /\ eventHandlers' = IF phase = "event"
                        THEN [eventHandlers EXCEPT ![t] = @ \ removeIds]
                        ELSE eventHandlers
    /\ removeIds' = {}

(* The container of a cached type is updated before its event handlers are *)
(* invoked.                                                                *)
Updated(t, k, remove) ==
    IF t \notin Cached THEN container
    ELSE [container EXCEPT ![t] = IF remove THEN @ \ {k} ELSE @ \cup {k}]

(* Removing an absent instance raises no event, removing an instance of an *)
(* uncached type throws.                                                   *)
RaisesEvent(t, k, remove) == remove => t \in Cached /\ k \in container[t]

(* From dispatchTransmission to dispatchEvent.  dispatchToHandlers was not *)
(* called for a type without an entry in m_transmissionHandlerPool.        *)
BeginEvents ==
    /\ stack # <<>>
    /\ Top.phase = "transmission" /\ ~Top.running /\ Top.cur = NoId
    /\ IF Top.type \in pooled
       THEN EraseNoted("transmission", Top.type)
       ELSE UNCHANGED <<transmissionHandlers, eventHandlers, removeIds>>
    /\ container' = Updated(Top.type, Top.key, Top.remove)
    /\ stack' = IF RaisesEvent(Top.type, Top.key, Top.remove)
                THEN [stack EXCEPT ![Len(stack)] =
                         Loop("event", Top.type, Top.key, Top.remove,
                              eventHandlers[Top.type])]
                ELSE Popped
    /\ UNCHANGED <<pooled, nextId, dispatchingId, sub, view>>

EndDispatch ==
    /\ stack # <<>>
    /\ Top.phase = "event" /\ ~Top.running /\ Top.cur = NoId
    /\ EraseNoted("event", Top.type)
    /\ stack' = Popped
    /\ UNCHANGED <<pooled, nextId, dispatchingId, container, sub, view>>

Next ==
    \/ \E t \in Type : AddTransmissionHandler(t) \/ AddEventHandler(t)
    \/ \E i \in Id : Unsubscribe(i) \/ Discard(i)
    \/ \E t \in Type, k \in Key, remove \in BOOLEAN : Dispatch(t, k, remove)
    \/ Replay
    \/ ReplayThrows
    \/ Invoke
    \/ Return
    \/ BeginEvents
    \/ EndDispatch

Spec == Init /\ [][Next]_vars

-----------------------------------------------------------------------------
(* Properties *)

Ids(state) == {i \in Id : sub[i] = state}
Registered == UNION {transmissionHandlers[t] \cup eventHandlers[t] : t \in Type}

(* Every variable keeps its type.                                          *)
TypeOK ==
    /\ transmissionHandlers \in [Type -> SUBSET Id]
    /\ pooled \subseteq Type
    /\ eventHandlers \in [Type -> SUBSET Id]
    /\ nextId \in 0..MaxIds
    /\ dispatchingId \in Id \cup {NoId}
    /\ removeIds \subseteq Id
    /\ container \in [Type -> SUBSET Key]
    /\ stack \in Seq(Frame)
    /\ sub \in [Id -> {"none", "active", "cancelled", "discarded"}]
    /\ view \in [Id -> SUBSET Key]

(* The loop of dispatchToHandlers never stands on an erased node of the    *)
(* handler map, whoever unsubscribes whom meanwhile.                       *)
HandlerIteratorValid ==
    \A n \in DOMAIN stack :
        LET f == stack[n] IN
        f.phase # "replay" /\ f.cur # NoId => f.cur \in Handlers(f.phase, f.type)

(* The loop of addEventHandler never stands on an erased instance, though  *)
(* it runs user code for each one.                                         *)
ReplayIteratorValid ==
    \A n \in DOMAIN stack :
        stack[n].phase = "replay" => stack[n].key \in container[stack[n].type]

(* No loop of the dispatcher stands on an erased node.                     *)
IteratorValid == HandlerIteratorValid /\ ReplayIteratorValid

(* A subscription is over once it is cancelled: outside of dispatches, no  *)
(* cancelled handler is registered any more.                               *)
CancelledIsGone == stack = <<>> => Ids("cancelled") \cap Registered = {}

(* No handler is invoked after its subscription has been cancelled.        *)
CancelledNotInvoked ==
    [][\A n \in DOMAIN stack' :
           stack'[n].running /\ (n \notin DOMAIN stack \/ ~stack[n].running) =>
               sub[stack'[n].cur] # "cancelled"]_vars

(* A dispatch reaches every handler that was there when its loop began and *)
(* still has its subscription, and none that was added meanwhile.          *)
ReachesAll ==
    \A n \in DOMAIN stack :
        LET f == stack[n] IN
        /\ f.seen \subseteq f.before
        /\ ~f.running /\ f.cur = NoId =>
               f.before \ Ids("cancelled") \subseteq f.seen

(* Between dispatches, what an event handler has been told (create events  *)
(* on subscribing, then the events of every dispatch) is what the          *)
(* container holds.                                                        *)
ViewIsContainer ==
    stack = <<>> =>
        \A t \in Cached : \A i \in eventHandlers[t] \cap Ids("active") :
            view[i] = container[t]
=============================================================================
