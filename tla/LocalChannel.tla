---------------------------- MODULE LocalChannel ----------------------------
(***************************************************************************)
(* LocalChannel and LocalListener: the channels of a host and of guests in *)
(* the same program.  A transmission is a task posted to the peer's event  *)
(* loop, which keeps tasks in order; so is the accepting of a guest's      *)
(* channel.  Each end keeps no more than a weak pointer to the other.      *)
(***************************************************************************)
EXTENDS Naturals, Sequences

CONSTANTS
    Guest,    \* the guests that open a channel to the host
    Unknown,  \* bound: how many transmissions are of types their receiver
              \* does not know
    MaxSent   \* bound: what each channel transmits

Host == "host"
End == Guest \X {"guest", Host}
Peer(e) == <<e[1], IF e[2] = Host THEN "guest" ELSE Host>>

Life == {"none", "open", "destroyed"}
Payload == Nat

VARIABLES
    channel,   \* the life of each channel
    linked,    \* whether its m_peer has been set
    accepting, \* the guests whose channel waits to be accepted
    posted,    \* the transmissions posted to each end
    received,  \* what each end has passed to its receive handler
    sent,      \* what each end has transmitted
    unknown,   \* how often a type was not known
    misused    \* whether a channel was used after its destruction

vars == <<channel, linked, accepting, posted, received, sent, unknown, misused>>

TypeOK ==
    /\ channel \in [End -> Life]
    /\ linked \in [End -> BOOLEAN]
    /\ accepting \subseteq Guest
    /\ posted \in [End -> Seq(Payload)]
    /\ received \in [End -> Seq(Payload)]
    /\ sent \in [End -> Seq(Payload)]
    /\ unknown \in Nat
    /\ misused \in BOOLEAN

Init ==
    /\ channel = [e \in End |-> "none"]
    /\ linked = [e \in End |-> FALSE]
    /\ accepting = {}
    /\ posted = [e \in End |-> <<>>]
    /\ received = [e \in End |-> <<>>]
    /\ sent = [e \in End |-> <<>>]
    /\ unknown = 0
    /\ misused = FALSE

Alive(e) == channel[e] = "open"

-----------------------------------------------------------------------------
(* A guest constructs its channel, which has the listener post its accept. *)
Open(g) ==
    /\ ~misused /\ channel[<<g, "guest">>] = "none"
    /\ channel' = [channel EXCEPT ![<<g, "guest">>] = "open"]
    /\ accepting' = accepting \cup {g}
    /\ UNCHANGED <<linked, posted, received, sent, unknown, misused>>

(* The listener makes the host's channel and links both; the task refers   *)
(* to the guest's channel without owning it.                               *)
Accept(g) ==
    /\ ~misused /\ g \in accepting
    /\ accepting' = accepting \ {g}
    /\ IF Alive(<<g, "guest">>)
       THEN /\ channel' = [channel EXCEPT ![<<g, Host>>] = "open"]
            /\ linked' = [e \in End |-> linked[e] \/ e[1] = g]
            /\ UNCHANGED misused
       ELSE misused' = TRUE /\ UNCHANGED <<channel, linked>>
    /\ UNCHANGED <<posted, received, sent, unknown>>

(* m_peer.lock().                                                          *)
Reaches(e) == linked[e] /\ Alive(Peer(e))

(* transmitImpl: the task has a weak pointer to the peer of its own.       *)
Transmit(e) ==
    /\ ~misused /\ Alive(e) /\ Reaches(e)
    /\ Len(sent[e]) < MaxSent
    /\ posted' = [posted EXCEPT ![Peer(e)] = Append(@, Len(sent[e]) + 1)]
    /\ sent' = [sent EXCEPT ![e] = Append(@, Len(sent[e]) + 1)]
    /\ UNCHANGED <<channel, linked, accepting, received, unknown, misused>>

(* Without a peer an error message is dropped and anything else throws,    *)
(* which ends the connection and, with it, the channel.                    *)
TransmitFails(e) ==
    /\ ~misused /\ Alive(e) /\ ~Reaches(e)
    /\ channel' = [channel EXCEPT ![e] = "destroyed"]
    /\ UNCHANGED <<linked, accepting, posted, received, sent, unknown, misused>>

Take(e) == posted' = [posted EXCEPT ![e] = Tail(@)]

(* A posted task runs.  Seeded fault: the last that was posted runs first. *)
FaultNextTask(e) == posted[e][Len(posted[e])]
NextTask(e) == Head(posted[e])

(* The type is known: the instance is converted and received.              *)
ProcessReceive(e) ==
    /\ ~misused /\ posted[e] # <<>> /\ Alive(e)
    /\ received' = [received EXCEPT ![e] = Append(@, NextTask(e))]
    /\ Take(e)
    /\ UNCHANGED <<channel, linked, accepting, sent, unknown, misused>>

(* It is not: an error, which closes the connection.                       *)
ProcessError(e) ==
    /\ ~misused /\ posted[e] # <<>> /\ Alive(e)
    /\ unknown < Unknown
    /\ unknown' = unknown + 1
    /\ channel' = [channel EXCEPT ![e] = "destroyed"]
    /\ Take(e)
    /\ UNCHANGED <<linked, accepting, received, sent, misused>>

(* The receiver is gone.                                                   *)
Expired(e) ==
    /\ ~misused /\ posted[e] # <<>> /\ channel[e] = "destroyed"
    /\ Take(e)
    /\ UNCHANGED <<channel, linked, accepting, received, sent, unknown, misused>>

(* The connection is closed, or its transceiver destroyed.                 *)
Destroy(e) ==
    /\ ~misused /\ Alive(e)
    /\ channel' = [channel EXCEPT ![e] = "destroyed"]
    /\ UNCHANGED <<linked, accepting, posted, received, sent, unknown, misused>>

Next ==
    \/ \E g \in Guest : Open(g) \/ Accept(g)
    \/ \E e \in End : \/ Transmit(e) \/ TransmitFails(e)
                      \/ ProcessReceive(e) \/ ProcessError(e) \/ Expired(e)
                      \/ Destroy(e)

Spec == Init /\ [][Next]_vars

-----------------------------------------------------------------------------
(* What an end that is open has been transmitted is what it has received,  *)
(* then what is posted to it: nothing is lost, doubled or overtaken, even  *)
(* though the other end may be gone.  (LocalChannel::transmitImpl)         *)
Delivered == \A e \in End : Alive(e) => sent[Peer(e)] = received[e] \o posted[e]

(* The accepting of a channel finds it there: violated by the code, when a *)
(* guest gives up before the event loop gets to it.                        *)
AcceptsTheLiving == ~misused
=============================================================================
