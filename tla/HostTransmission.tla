-------------------------- MODULE HostTransmission --------------------------
(***************************************************************************)
(* The calls of a HostTransceiver while it handles one event: dispatching, *)
(* transmitting, closing the connections whose transmission failed and     *)
(* cleaning up after them, which dispatches and transmits again.  The call *)
(* stack is part of the state, because what a caller has collected may be  *)
(* gone when the callee returns.  One cached cleanup type and its group.   *)
(***************************************************************************)
EXTENDS Integers, Sequences, FiniteSets, SequencesExt

CONSTANTS
    Conn,        \* connections, in the order of their addresses
    Key,         \* keys of instances, in the order of the container
    Reaction,    \* what handlers of the host's program publish, and when
    MaxFailing,  \* bound: connections whose transmissions fail at a time
    MaxPub       \* bound: publications of guests, host and handlers

HostId == 0
Nobody == -1

ASSUME HostTransmissionAssumption ==
    /\ Conn \subseteq Nat \ {HostId}
    /\ Key \subseteq Int
    /\ Reaction \subseteq {"transmission", "event", "transition"} \X {"update", "remove"}
    /\ MaxFailing \in Nat
    /\ MaxPub \in Nat

VARIABLES
    state,     \* m_connectionState of each connection, "new" before it exists
    failing,   \* connections whose channel's transmit throws
    guests,    \* m_guestConnections
    member,    \* m_groups[type]
    updater,   \* lastUpdateFrom of each instance in the container, or Nobody
    handling,  \* connectionPtr of handleTransmission, or Nobody
    stack,     \* the calls under way, the innermost last
    misused,   \* what has been used after its destruction
    pubs       \* publications so far

vars == <<state, failing, guests, member, updater, handling, stack, misused, pubs>>

-----------------------------------------------------------------------------
(* A publication: dispatched to the transmission handlers, then to the     *)
(* container and the event handlers, then transmitted.                     *)
Publication(k, sender, remove) ==
    [call |-> "publish", at |-> "transmission", key |-> k, sender |-> sender,
     remove |-> remove, dirty |-> {}, pending |-> {}, stale |-> {}]
(* The transition of a connection to closed.                               *)
Closing(c) ==
    [call |-> "close", at |-> "transition", key |-> Nobody, sender |-> c,
     remove |-> FALSE, dirty |-> {}, pending |-> {}, stale |-> {}]
(* The removal of all instances.                                           *)
Clearing(keys) ==
    [call |-> "clear", at |-> "cleanup", key |-> Nobody, sender |-> HostId,
     remove |-> FALSE, dirty |-> {}, pending |-> keys, stale |-> {}]

IsFirst(x, S) == \A y \in S : x <= y

Top == Last(stack)
At(call, at) == stack # <<>> /\ misused = {} /\ Top.call = call /\ Top.at = at
Becomes(frame) == stack' = Append(Front(stack), frame)
Calls(frame, callee) == stack' = Front(stack) \o <<frame, callee>>

(* Seeded fault: the shared pointer in handleTransmission is left out.     *)
FaultPinned(c) == FALSE

(* handleTransmission keeps the connection alive until it returns.         *)
Pinned(c) == handling = c
Alive(c) == c \in guests \/ Pinned(c)

(* Nothing is said of what happens after something destroyed has been used.*)
Uses(connections, instances) ==
    misused' = {m \in {"connection", "instance"} :
        \/ m = "connection" /\ \E c \in connections : ~Alive(c)
        \/ m = "instance" /\ instances \cap Top.stale # {}}

(* The outermost call asks its connection whether it is closed before it   *)
(* lets go of it.                                                          *)
Returns ==
    /\ stack' = Front(stack)
    /\ handling' = IF Len(stack) = 1 THEN Nobody ELSE handling
    /\ Uses(IF Len(stack) = 1 THEN {handling} \ {Nobody} ELSE {}, {})

Init ==
    /\ state = [c \in Conn |-> "new"]
    /\ failing = {} /\ guests = {} /\ member = {}
    /\ updater = [k \in Key |-> Nobody]
    /\ handling = Nobody
    /\ stack = <<>> /\ misused = {} /\ pubs = 0

-----------------------------------------------------------------------------
(* Events, each handled to its end before the next *)

Idle == stack = <<>> /\ misused = {}
Connected(c) == Idle /\ state[c] = "connected"

(* handleListenAccept, with the handshake.                                 *)
Accept(c) ==
    /\ Idle /\ state[c] = "new"
    /\ state' = [state EXCEPT ![c] = "connected"]
    /\ guests' = guests \cup {c}
    /\ UNCHANGED <<failing, member, updater, handling, stack, misused, pubs>>

(* The write buffer of a connection exceeds its maximum, which any         *)
(* transmission to it may bring about, also in the middle of others.       *)
WriteBufferExceeds(c) ==
    /\ misused = {} /\ state[c] = "connected" /\ c \notin failing
    /\ failing' = failing \cup {c}
    /\ Cardinality({d \in failing' : state[d] = "connected"}) <= MaxFailing
    /\ UNCHANGED <<state, guests, member, updater, handling, stack, misused, pubs>>

(* It is flushed by a completion of the event loop.                        *)
WriteBufferFlushed(c) ==
    /\ Connected(c) /\ c \in failing
    /\ failing' = failing \ {c}
    /\ UNCHANGED <<state, guests, member, updater, handling, stack, misused, pubs>>

WriteBuffer(c) == WriteBufferExceeds(c) \/ WriteBufferFlushed(c)

Closes(c) == state' = [state EXCEPT ![c] = "closed"]

(* handleMemberMessage: into the group; when the transmission of the       *)
(* container fails, the exception reaches the channel, which closes the    *)
(* connection.                                                             *)
Join(c) ==
    /\ Connected(c)
    /\ member' = member \cup {c}
    /\ IF c \in failing THEN Closes(c) /\ stack' = <<Closing(c)>>
                        ELSE UNCHANGED <<state, stack>>
    /\ UNCHANGED <<failing, guests, updater, handling, misused, pubs>>

Leave(c) ==
    /\ Connected(c)
    /\ member' = member \ {c}
    /\ UNCHANGED <<state, failing, guests, updater, handling, stack, misused, pubs>>

(* The channel reports an error, or the guest the end of the connection.   *)
Lose(c) ==
    /\ Connected(c)
    /\ Closes(c)
    /\ stack' = <<Closing(c)>>
    /\ UNCHANGED <<failing, guests, member, updater, handling, misused, pubs>>

(* handleTransmission of an instance.                                      *)
Receive(c, k, remove) ==
    /\ Connected(c) /\ pubs < MaxPub
    /\ handling' = c
    /\ stack' = <<Publication(k, c, remove)>>
    /\ pubs' = pubs + 1
    /\ UNCHANGED <<state, failing, guests, member, updater, misused>>

(* handleClearCache.                                                       *)
ReceiveClearCache(c) ==
    /\ Connected(c) /\ pubs < MaxPub
    /\ handling' = c
    /\ stack' = <<Clearing({k \in Key : updater[k] # Nobody})>>
    /\ pubs' = pubs + 1
    /\ UNCHANGED <<state, failing, guests, member, updater, misused>>

(* HostTransceiver::publish, by the host's program.                        *)
Publish(k, remove) ==
    /\ Idle /\ pubs < MaxPub
    /\ stack' = <<Publication(k, HostId, remove)>>
    /\ pubs' = pubs + 1
    /\ UNCHANGED <<state, failing, guests, member, updater, handling, misused>>

-----------------------------------------------------------------------------
(* Calls *)

(* A handler of the host's program publishes: a transmission handler, an   *)
(* event handler or the transition handler.                                *)
React(k) ==
    /\ stack # <<>> /\ misused = {} /\ pubs < MaxPub
    /\ \E r \in Reaction :
        /\ Top.at = r[1]
        /\ Calls(Top, Publication(k, HostId, r[2] = "remove"))
    /\ pubs' = pubs + 1
    /\ UNCHANGED <<state, failing, guests, member, updater, handling, misused>>

(* An instance leaves the container: those that have collected it, and the *)
(* events that refer to it, are left with a dangling reference.            *)
Forget(frame, k) ==
    [frame EXCEPT !.stale = @ \cup (({k} \cap frame.pending) \cup
        (IF frame.at = "event" /\ ~frame.remove THEN {k} \cap {frame.key} ELSE {}))]

(* dispatchEvent: the container first; the removal of an instance that is  *)
(* not there makes no event.                                               *)
Dispatch ==
    /\ At("publish", "transmission")
    /\ updater' = [updater EXCEPT ![Top.key] = IF Top.remove THEN Nobody ELSE Top.sender]
    /\ LET callers == IF Top.remove
                      THEN [n \in DOMAIN Front(stack) |-> Forget(stack[n], Top.key)]
                      ELSE Front(stack)
       IN  stack' = Append(callers, [Top EXCEPT !.at =
               IF Top.remove /\ updater[Top.key] = Nobody THEN "dispatched" ELSE "event"])
    /\ UNCHANGED <<state, failing, guests, member, handling, misused, pubs>>

(* A handler looks at an event after its instance has been removed.        *)
LookAtEvent ==
    /\ At("publish", "event") /\ Top.key \in Top.stale
    /\ Uses({}, {Top.key})
    /\ UNCHANGED <<state, failing, guests, member, updater, handling, stack, pubs>>

EventDone ==
    /\ At("publish", "event")
    /\ Becomes([Top EXCEPT !.at = "dispatched"])
    /\ UNCHANGED <<state, failing, guests, member, updater, handling, misused, pubs>>

(* transmit: to all members that are not closed; those that fail are kept. *)
Transmit ==
    /\ At("publish", "dispatched")
    /\ Uses(member, {})
    /\ LET dirty == {c \in member \cap failing : state[c] # "closed"}
       IN  Becomes([Top EXCEPT !.at = "transmitted", !.dirty = dirty])
    /\ UNCHANGED <<state, failing, guests, member, updater, handling, pubs>>

(* handleError of the connections that were kept, one after the other.     *)
HandleDirty ==
    /\ At("publish", "transmitted") /\ Top.dirty # {}
    /\ \E c \in Top.dirty :
       /\ IsFirst(c, Top.dirty)
       /\ Uses({c}, {})
       /\ Closes(c)
       /\ Calls([Top EXCEPT !.dirty = @ \ {c}], Closing(c))
    /\ UNCHANGED <<failing, guests, member, updater, handling, pubs>>

Transmitted ==
    /\ At("publish", "transmitted") /\ Top.dirty = {}
    /\ Returns
    /\ UNCHANGED <<state, failing, guests, member, updater, pubs>>

(* Seeded fault: the connection stays in its group.                        *)
FaultWithout(c) == member

Without(c) == member \ {c}

(* Seeded fault: the instances that others have created are left.          *)
FaultUpdatedBy(c) == {}

UpdatedBy(c) == {k \in Key : updater[k] = c}

(* handleTransitionImpl: out of the groups, then pointers to what is to be *)
(* cleaned up are collected.                                               *)
CollectInstances ==
    /\ At("close", "transition")
    /\ member' = Without(Top.sender)
    /\ Becomes([Top EXCEPT !.at = "cleanup", !.pending = UpdatedBy(Top.sender)])
    /\ UNCHANGED <<state, failing, guests, updater, handling, misused, pubs>>

(* remove, for each of them, and each of those of handleClearCache.        *)
RemoveInstance ==
    /\ stack # <<>> /\ misused = {} /\ Top.at = "cleanup" /\ Top.pending # {}
    /\ \E k \in Top.pending :
       /\ IsFirst(k, Top.pending)
       /\ Uses({}, {k})
       /\ Calls([Top EXCEPT !.pending = @ \ {k}], Publication(k, HostId, TRUE))
    /\ UNCHANGED <<state, failing, guests, member, updater, handling, pubs>>

(* The connection is forgotten, and destroyed unless it is being handled.  *)
CleanupDone ==
    /\ stack # <<>> /\ misused = {} /\ Top.at = "cleanup" /\ Top.pending = {}
    /\ guests' = IF Top.call = "close" THEN guests \ {Top.sender} ELSE guests
    /\ Returns
    /\ UNCHANGED <<state, failing, member, updater, pubs>>

-----------------------------------------------------------------------------
Next ==
    \/ \E c \in Conn :
        \/ Accept(c) \/ WriteBuffer(c) \/ Join(c) \/ Leave(c) \/ Lose(c)
        \/ ReceiveClearCache(c)
        \/ \E k \in Key, remove \in BOOLEAN : Receive(c, k, remove)
    \/ \E k \in Key : React(k) \/ \E remove \in BOOLEAN : Publish(k, remove)
    \/ Dispatch \/ LookAtEvent \/ EventDone
    \/ Transmit \/ HandleDirty \/ Transmitted
    \/ CollectInstances \/ RemoveInstance \/ CleanupDone

Spec == Init /\ [][Next]_vars

-----------------------------------------------------------------------------
(* Properties *)

(* Every variable keeps its type.                                          *)
Frame ==
    [call : {"publish", "close", "clear"},
     at : {"transmission", "event", "dispatched", "transmitted", "transition", "cleanup"},
     key : Key \cup {Nobody}, sender : Conn \cup {HostId}, remove : BOOLEAN,
     dirty : SUBSET Conn, pending : SUBSET Key, stale : SUBSET (Key \cup {Nobody})]
TypeOK ==
    /\ state \in [Conn -> {"new", "connected", "closed"}]
    /\ failing \subseteq Conn /\ guests \subseteq Conn /\ member \subseteq Conn
    /\ updater \in [Key -> Conn \cup {HostId, Nobody}]
    /\ handling \in Conn \cup {Nobody}
    /\ stack \in Seq(Frame)
    /\ misused \subseteq {"connection", "instance"}
    /\ pubs \in 0..MaxPub

(* A connection is not used any more once it has been destroyed: by a      *)
(* transmission to its group, by a caller that has kept it as one whose    *)
(* transmission failed, or by the handling of its own transmission.        *)
ConnectionsAlive == "connection" \notin misused

(* However many connections fail at a time, only the loop that closes the  *)
(* connections whose transmission failed can come upon one that has been   *)
(* destroyed; transmissions to the group and the handling of a connection's*)
(* own transmission cannot.                                                *)
OnlyTheDirtyLoop ==
    [][ConnectionsAlive /\ ~ConnectionsAlive' =>
           At("publish", "transmitted") /\ Top.dirty # {}]_vars

(* An instance is not used any more once it has left the container: by the *)
(* handlers of an event, or by the loops that remove what they collected.  *)
InstancesAlive == "instance" \notin misused

(* The host's group holds pointers to connections it still has, whatever   *)
(* calls are under way.                                                    *)
MembersOpen == member \subseteq guests

(* Once an event has been handled, with all the connections that it has    *)
(* closed one within the other, no instance of a closed connection is left.*)
CleanedUp ==
    Idle => \A k \in Key :
        updater[k] \in Conn => state[updater[k]] = "connected"
=============================================================================
