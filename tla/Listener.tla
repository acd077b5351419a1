------------------------------ MODULE Listener ------------------------------
(***************************************************************************)
(* The listeners of a HostTransceiver (TcpListener, UdsListener and        *)
(* WebSocketListener): they accept one channel at a time, and TCP and UDS  *)
(* listeners hold the payload cache that their channels share.  The host   *)
(* owns its listeners and drops one that reports an error; the channels it *)
(* has accepted go on.                                                     *)
(***************************************************************************)
EXTENDS Naturals, Sequences

CONSTANTS
    Listener, \* the listeners of a host's program
    Kind,     \* of each: "tcp", "uds" or "websocket"
    Channel,  \* the channels that may be accepted
    MaxId,    \* bound: transmissions ever made
    MaxSent   \* bound: transmissions to each channel

Caching == {l \in Listener : Kind[l] # "websocket"}
Nowhere == "nowhere" \* no listener
Id == 1..MaxId

(* The use of something destroyed.                                         *)
Use == {"listener", "cache"}

VARIABLES
    host,      \* whether the host exists
    listening, \* m_listeners
    accept,    \* async_accept of each listener
    from,      \* the listener that accepted each channel, whose cache it uses
    open,      \* the channels whose connection exists
    cache,     \* m_payloadCache: the id of a transmission, and the transmission
               \* whose payload is kept
    lastId,    \* M_LastId
    output,    \* the payloads each channel has written
    sent,      \* what each channel has been asked to transmit
    misused    \* what has been used after its destruction

vars == <<host, listening, accept, from, open, cache, lastId, output, sent, misused>>

Accept == {"new",      \* the host has not been given the listener yet
           "none",     \* not under way any more
           "pending",  \* nobody has connected yet
           "accepted", \* its completion is queued
           "failed",   \* queued with an error
           "aborted"}  \* queued because the acceptor was closed

TypeOK ==
    /\ host \in BOOLEAN
    /\ listening \subseteq Listener
    /\ accept \in [Listener -> Accept]
    /\ from \in [Channel -> Listener \cup {Nowhere}]
    /\ open \subseteq Channel
    /\ cache \in [Caching -> [id : Id \cup {0}, payload : Id \cup {0}]]
    /\ lastId \in Nat
    /\ output \in [Channel -> Seq(Id)] /\ sent \in [Channel -> Seq(Id)]
    /\ misused \subseteq Use

Init ==
    /\ host = TRUE
    /\ listening = {}
    /\ accept = [l \in Listener |-> "new"]
    /\ from = [c \in Channel |-> Nowhere]
    /\ open = {}
    /\ cache = [l \in Caching |-> [id |-> 0, payload |-> 0]]
    /\ lastId = 0
    /\ output = [c \in Channel |-> <<>>] /\ sent = [c \in Channel |-> <<>>]
    /\ misused = {}

channelVars == <<from, open, cache, lastId, output, sent>>

(* Nothing is said of what happens after something destroyed has been used.*)
Sane == misused = {}

-----------------------------------------------------------------------------
(* listen: the listener is kept and begins to accept.                      *)
Listen(l) ==
    /\ Sane /\ host /\ accept[l] = "new"
    /\ listening' = listening \cup {l}
    /\ accept' = [accept EXCEPT ![l] = "pending"]
    /\ UNCHANGED <<host, channelVars, misused>>

(* Somebody connects, or accepting fails.                                  *)
Arrive(l) ==
    /\ Sane /\ accept[l] = "pending"
    /\ \E r \in {"accepted", "failed"} : accept' = [accept EXCEPT ![l] = r]
    /\ UNCHANGED <<host, listening, channelVars, misused>>

(* The completion looks at its listener, unless it was aborted.            *)
Aborted(l) ==
    /\ Sane /\ accept[l] = "aborted"
    /\ accept' = [accept EXCEPT ![l] = "none"]
    /\ UNCHANGED <<host, listening, channelVars, misused>>

Orphaned(l) ==
    /\ Sane /\ accept[l] \in {"accepted", "failed"} /\ l \notin listening
    /\ accept' = [accept EXCEPT ![l] = "none"]
    /\ misused' = {"listener"}
    /\ UNCHANGED <<host, listening, channelVars>>

(* handleListenError: the host drops the listener.                         *)
Drop(l) ==
    /\ listening' = listening \ {l}
    /\ accept' = [accept EXCEPT ![l] = "none"]

AcceptFails(l) ==
    /\ Sane /\ accept[l] = "failed" /\ l \in listening
    /\ Drop(l)
    /\ UNCHANGED <<host, channelVars, misused>>

(* processAccept: the host keeps a connection for the new channel, and the *)
(* listener accepts the next.  Seeded fault: it does so only once.         *)
FaultNextAccept(l) == [accept EXCEPT ![l] = "none"]
NextAccept(l) == [accept EXCEPT ![l] = "pending"]

ProcessAccept(l, c) ==
    /\ Sane /\ accept[l] = "accepted" /\ l \in listening
    /\ from[c] = Nowhere
    /\ from' = [from EXCEPT ![c] = l]
    /\ open' = open \cup {c}
    /\ accept' = NextAccept(l)
    /\ UNCHANGED <<host, listening, cache, lastId, output, sent, misused>>

(* What can throw meanwhile: setting up the socket and its stream, making  *)
(* the channel, whose endpoints the socket no longer has, and the host's   *)
(* connection, which transmits at once.                                    *)
TcpThrows       == {"set_option", "make_channel", "handler"}
UdsThrows       == {"set_option", "make_channel", "handler"}
WebSocketThrows == {"set_option", "handshake", "make_channel", "handler"}

Throws(l) == CASE Kind[l] = "tcp"       -> TcpThrows
               [] Kind[l] = "uds"       -> UdsThrows
               [] Kind[l] = "websocket" -> WebSocketThrows

(* It is reported as an error of the listener, whose socket is closed      *)
(* after that.                                                             *)
SetUpFails(l) ==
    /\ Sane /\ accept[l] = "accepted" /\ l \in listening
    /\ Throws(l) # {}
    /\ Drop(l)
    /\ misused' = {"listener"}
    /\ UNCHANGED <<host, channelVars>>

-----------------------------------------------------------------------------
(* A transmission has an id of its own; the host transmits it to one       *)
(* channel after the other, others perhaps in between.                     *)
MakeTransmission ==
    /\ Sane /\ host /\ lastId < MaxId
    /\ lastId' = lastId + 1
    /\ UNCHANGED <<host, listening, accept, from, open, cache, output, sent, misused>>

(* Seeded fault: the id of the cache is not kept in step with its payload. *)
FaultCachedNow(l, t) == [cache EXCEPT ![l].id = t]
CachedNow(l, t) == [cache EXCEPT ![l] = [id |-> t, payload |-> t]]

(* serializeTransmission, of what is transmitted to a group.               *)
Transmit(c, t) ==
    LET l == from[c]
    IN  /\ Sane /\ c \in open /\ t <= lastId /\ Len(sent[c]) < MaxSent
        /\ sent' = [sent EXCEPT ![c] = Append(@, t)]
        /\ IF l \notin Caching
           THEN /\ output' = [output EXCEPT ![c] = Append(@, t)]
                /\ UNCHANGED <<cache, misused>>
           ELSE IF l \notin listening
           THEN misused' = {"cache"} /\ UNCHANGED <<cache, output>>
           ELSE IF cache[l].id = t
           THEN /\ output' = [output EXCEPT ![c] = Append(@, cache[l].payload)]
                /\ UNCHANGED <<cache, misused>>
           ELSE /\ output' = [output EXCEPT ![c] = Append(@, t)]
                /\ cache' = CachedNow(l, t)
                /\ UNCHANGED misused
        /\ UNCHANGED <<host, listening, accept, from, open, lastId>>

CloseConnection(c) ==
    /\ Sane /\ c \in open
    /\ open' = open \ {c}
    /\ UNCHANGED <<host, listening, accept, from, cache, lastId, output, sent, misused>>

(* ~HostTransceiver: the connections go first, then the listeners.  What   *)
(* has been completed stays queued.                                        *)
DestroyHost ==
    /\ Sane /\ host
    /\ host' = FALSE
    /\ open' = {}
    /\ listening' = {}
    /\ accept' = [l \in Listener |-> IF accept[l] = "pending" THEN "aborted" ELSE accept[l]]
    /\ UNCHANGED <<from, cache, lastId, output, sent, misused>>

Next ==
    \/ \E l \in Listener : \/ Listen(l) \/ Arrive(l) \/ Aborted(l) \/ Orphaned(l)
                           \/ AcceptFails(l) \/ SetUpFails(l)
                           \/ \E c \in Channel : ProcessAccept(l, c)
    \/ MakeTransmission
    \/ \E c \in Channel : CloseConnection(c) \/ \E t \in Id : Transmit(c, t)
    \/ DestroyHost

Spec == Init /\ [][Next]_vars

-----------------------------------------------------------------------------
(* A listener the host keeps is never deaf: it waits for a connection, or  *)
(* what came of waiting is queued.  (Listener::processAccept)              *)
NeverDeaf == \A l \in listening : accept[l] \in {"pending", "accepted", "failed"}

(* A channel writes what it was asked to transmit, whichever channels used *)
(* the cache of its listener in between, for transmissions old and new.    *)
(* (AsyncStreamChannel::serializeTransmission)                             *)
PayloadsAreRight == Sane => output = sent

(* A channel that has been accepted outlives its listener safely: violated *)
(* by the code, because the host drops the listener with the cache and     *)
(* keeps the connections.  (HostTransceiver::handleListenError)            *)
CacheOutlivesChannels == "cache" \notin misused

(* A listener is not used after its destruction: violated by the code.     *)
NotUsedAfterwards == "listener" \notin misused
=============================================================================
