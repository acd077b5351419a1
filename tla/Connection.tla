----------------------------- MODULE Connection -----------------------------
(***************************************************************************)
(* The handshake of a DOTS connection (lib/src/Connection.cpp), with both  *)
(* of its ends: the Connection object a HostTransceiver creates for an     *)
(* accepted channel, and the one a GuestTransceiver creates in open().     *)
(*                                                                         *)
(* Every element of Conn is one transport connection over a stream socket  *)
(* and is used once.  A guest transceiver has at most one open connection; *)
(* when that has closed it may re-open over another element of Conn, and   *)
(* the groups it has joined (m_joinedGroups) are then still remembered.    *)
(* The two directions are FIFO queues of transmissions; the transport may  *)
(* break at any time, which loses any suffix of what is in flight, and a   *)
(* closed end never reads again.  A pair of linked local channels, whose   *)
(* ends are not told that the other is gone, is the subject of             *)
(* LocalChannel and not of this module.                                    *)
(*                                                                         *)
(* Payloads are reduced to what the handshake distinguishes.  A system     *)
(* message's "kind" stands for its type together with its set of valid     *)
(* properties, which is what handleReceive compares with what is expected. *)
(***************************************************************************)
EXTENDS Naturals, Sequences, FiniteSets

CONSTANTS
    Conn,          \* the transport connections
    Guest,         \* the guest transceivers
    Owners,        \* the ways in which the connections belong to transceivers
    Protected,     \* the connections whose remote endpoint must authenticate
    Secrets,       \* the ways in which secrets are given to open()
    PreloadTypes,  \* number of types a guest subscribes to in early_subscribe
    MaxApp,        \* bound: user transmissions in flight per direction
    MaxBroken      \* bound: how many transports fail

SecretKind == {"none", "right", "wrong"}

ASSUME ConnectionAssumption ==
    /\ Protected \subseteq Conn
    /\ Owners \subseteq [Conn -> Guest]
    /\ Secrets \subseteq [Conn -> SecretKind]
    /\ PreloadTypes \in Nat
    /\ MaxApp \in Nat /\ MaxBroken \in Nat

VARIABLES
    host,        \* m_connectionState of the host's Connection object
    guest,       \* m_connectionState of the guest's Connection object
    hExpected,   \* m_expectedSystemType at the host
    gExpected,   \* m_expectedSystemType at the guest
    peerId,      \* m_peerId at the host: the id given to the guest
    selfId,      \* m_selfId at the guest
    nextGuestId, \* the static counter Connection::M_nextGuestId
    secret,      \* m_authSecret at the guest
    owner,       \* the transceiver at the guest's end
    joined,      \* number of preload types a transceiver has in m_joinedGroups
    preloaded,   \* number of DotsCacheInfo the guest has received
    toHost,      \* in flight from guest to host
    toGuest,     \* in flight from host to guest
    broken,      \* the transport has failed
    asked,       \* history: number of groups joined in this early_subscribe
    hasty        \* history: the guest published before it had answered the hello

vars == <<host, guest, hExpected, gExpected, peerId, selfId, nextGuestId,
          secret, owner, joined, preloaded, toHost, toGuest, broken, asked,
          hasty>>

-----------------------------------------------------------------------------
(* States, ids and messages *)

State == {"suspended", "connecting", "early_subscribe", "connected", "closed"}

UninitializedId == 0
HostId == 1
FirstGuestId == 2

Kind == {"hello", "connect", "preloadClientFinished", "connectResponse",
         "preloadFinished", "error"}

Hello(authenticationRequired) ==
    [kind |-> "hello", authenticationRequired |-> authenticationRequired]
Connect(response) ==
    [kind |-> "connect", preloadCache |-> TRUE, response |-> response]
PreloadClientFinished == [kind |-> "preloadClientFinished"]
(* Seeded fault: the answer leaves out whether the preload is granted.     *)
FaultResponseWithoutPreload(clientId, accepted, preload) ==
    [kind |-> "connectResponse", clientId |-> clientId, accepted |-> accepted]
ConnectResponse(clientId, accepted, preload) ==
    [kind |-> "connectResponse", clientId |-> clientId,
     accepted |-> accepted, preload |-> preload]
PreloadFinished == [kind |-> "preloadFinished"]
Error(errorCode) == [kind |-> "error", errorCode |-> errorCode]

(* Non-system types: a DotsMember join, the DotsCacheInfo that ends the    *)
(* transmission of a container, and any user type.                         *)
Join == [kind |-> "join"]
CacheInfo == [kind |-> "cacheInfo"]
User == [kind |-> "user"]

ToHostMsg ==
    {Connect(r) : r \in SecretKind} \cup {Error(e) : e \in {0, 1}}
        \cup {PreloadClientFinished, Join, User}
ToGuestMsg ==
    {Hello(r) : r \in BOOLEAN} \cup {Error(e) : e \in {0, 1}}
        \cup [kind : {"connectResponse"}, clientId : Nat,
              accepted : BOOLEAN, preload : BOOLEAN]
        \cup {PreloadFinished, CacheInfo, User}

SystemKind(m) == m.kind \in Kind

-----------------------------------------------------------------------------
Init ==
    /\ host = [c \in Conn |-> "suspended"]
    /\ guest = [c \in Conn |-> "suspended"]
    /\ hExpected = [c \in Conn |-> "error"]
    /\ gExpected = [c \in Conn |-> "error"]
    /\ peerId = [c \in Conn |-> UninitializedId]
    /\ selfId = [c \in Conn |-> UninitializedId]
    /\ nextGuestId = FirstGuestId
    /\ secret \in Secrets
    /\ owner \in Owners
    /\ joined = [g \in Guest |-> 0]
    /\ preloaded = [c \in Conn |-> 0]
    /\ toHost = [c \in Conn |-> <<>>]
    /\ toGuest = [c \in Conn |-> <<>>]
    /\ broken = [c \in Conn |-> FALSE]
    /\ asked = [c \in Conn |-> 0]
    /\ hasty = [c \in Conn |-> FALSE]

(* What transmit() adds to a direction: nothing when the transport is      *)
(* broken or the peer's end is already closed.                             *)
SentToGuest(c, ms) == IF broken[c] \/ guest[c] = "closed" THEN <<>> ELSE ms
SentToHost(c, ms) == IF broken[c] \/ host[c] = "closed" THEN <<>> ELSE ms

(* handleClose: the receive handler is dropped, so nothing more is read.   *)
HostClose(c) ==
    /\ host' = [host EXCEPT ![c] = "closed"]
    /\ hExpected' = [hExpected EXCEPT ![c] = "error"]
    /\ toHost' = [toHost EXCEPT ![c] = <<>>]
    /\ UNCHANGED <<guest, gExpected, peerId, selfId, nextGuestId, secret,
                   owner, joined, preloaded, broken, asked, hasty>>

GuestClosed(c) ==
    /\ guest' = [guest EXCEPT ![c] = "closed"]
    /\ gExpected' = [gExpected EXCEPT ![c] = "error"]
    /\ toGuest' = [toGuest EXCEPT ![c] = <<>>]
    /\ UNCHANGED <<host, hExpected, peerId, nextGuestId, secret, owner,
                   preloaded, broken, hasty>>

GuestClose(c) == GuestClosed(c) /\ UNCHANGED <<selfId, joined, asked>>

(* handleError: a connected end tells its peer before it closes.  before   *)
(* is what the failing handler had already transmitted.                    *)
HostError(c, before) ==
    /\ toGuest' = [toGuest EXCEPT ![c] = @ \o SentToGuest(c,
           IF host[c] = "connected" THEN Append(before, Error(1)) ELSE before)]
    /\ HostClose(c)

GuestError(c) ==
    /\ toHost' = [toHost EXCEPT ![c] = @ \o SentToHost(c,
           IF guest[c] = "connected" THEN <<Error(1)>> ELSE <<>>)]
    /\ GuestClose(c)

(* The destructor of an open connection, and handlePeerError.  A guest's   *)
(* connection is destroyed with its transceiver, the one that takes its    *)
(* place has joined nothing.                                               *)
HostGone(c) ==
    /\ toGuest' = [toGuest EXCEPT ![c] = @ \o SentToGuest(c,
           IF host[c] = "connected" THEN <<Error(0)>> ELSE <<>>)]
    /\ HostClose(c)

GuestGone(c) ==
    /\ toHost' = [toHost EXCEPT ![c] = @ \o SentToHost(c,
           IF guest[c] = "connected" THEN <<Error(0)>> ELSE <<>>)]
    /\ joined' = [joined EXCEPT ![owner[c]] = 0]
    /\ GuestClosed(c) /\ UNCHANGED <<selfId, asked>>

HostPeerError(c, m) ==
    IF m.errorCode = 0 THEN HostClose(c) /\ UNCHANGED toGuest
                       ELSE HostError(c, <<>>)

GuestPeerError(c, m) ==
    IF m.errorCode = 0 THEN GuestClose(c) /\ UNCHANGED toHost
                       ELSE GuestError(c)

-----------------------------------------------------------------------------
(* Opening: GuestTransceiver::open and HostTransceiver::handleListenAccept *)

(* m_hostConnection of a transceiver: the connection it has open, if any.  *)
HostConnection(g) ==
    {c \in Conn : owner[c] = g /\ guest[c] \notin {"suspended", "closed"}}

(* Seeded fault: asyncReceive without its check for the suspended state.   *)
FaultReopen(c) ==
    /\ guest[c] \in {"suspended", "closed"}
    /\ HostConnection(owner[c]) = {}
    /\ guest' = [guest EXCEPT ![c] = "connecting"]
    /\ gExpected' = [gExpected EXCEPT ![c] = "hello"]
    /\ UNCHANGED <<host, hExpected, peerId, selfId, nextGuestId, secret,
                   owner, joined, preloaded, toHost, toGuest, broken, asked,
                   hasty>>

Open(c) ==
    /\ guest[c] = "suspended"
    /\ HostConnection(owner[c]) = {}
    /\ guest' = [guest EXCEPT ![c] = "connecting"]
    /\ gExpected' = [gExpected EXCEPT ![c] = "hello"]
    /\ UNCHANGED <<host, hExpected, peerId, selfId, nextGuestId, secret,
                   owner, joined, preloaded, toHost, toGuest, broken, asked,
                   hasty>>

(* Seeded fault: the id counter is read but not advanced.                  *)
FaultAcceptSameId(c) ==
    /\ host[c] = "suspended"
    /\ guest[c] # "suspended"
    /\ host' = [host EXCEPT ![c] = "connecting"]
    /\ hExpected' = [hExpected EXCEPT ![c] = "connect"]
    /\ peerId' = [peerId EXCEPT ![c] = nextGuestId]
    /\ toGuest' = [toGuest EXCEPT ![c] =
                       @ \o SentToGuest(c, <<Hello(c \in Protected)>>)]
    /\ UNCHANGED <<guest, gExpected, selfId, nextGuestId, secret, owner,
                   joined, preloaded, toHost, broken, asked, hasty>>

Accept(c) ==
    /\ host[c] = "suspended"
    /\ guest[c] # "suspended"
    /\ host' = [host EXCEPT ![c] = "connecting"]
    /\ hExpected' = [hExpected EXCEPT ![c] = "connect"]
    /\ peerId' = [peerId EXCEPT ![c] = nextGuestId]
    /\ nextGuestId' = nextGuestId + 1
    /\ toGuest' = [toGuest EXCEPT ![c] =
                       @ \o SentToGuest(c, <<Hello(c \in Protected)>>)]
    /\ UNCHANGED <<guest, gExpected, selfId, secret, owner, joined, preloaded,
                   toHost, broken, asked, hasty>>

-----------------------------------------------------------------------------
(* The host's end: handleReceive with the handlers it selects *)

(* Seeded fault: any response at all is taken for a valid one.             *)
FaultVerifyAnyResponse(c, response) == c \in Protected => response # "none"

(* AuthManager::verifyAuthentication: an unprotected endpoint is accepted, *)
(* a protected one when the digest was made with the right secret.         *)
VerifyAuthentication(c, response) == c \in Protected => response = "right"

HandleConnect(c, m) ==
    IF ~VerifyAuthentication(c, m.response)
    THEN \* the exception is caught by the channel, which calls handleError
         HostError(c, <<ConnectResponse(peerId[c], FALSE, m.preloadCache)>>)
    ELSE /\ toGuest' = [toGuest EXCEPT ![c] = @ \o SentToGuest(c,
                <<ConnectResponse(peerId[c], TRUE, m.preloadCache)>>)]
         /\ host' = [host EXCEPT ![c] =
                IF m.preloadCache THEN "early_subscribe" ELSE "connected"]
         /\ hExpected' = [hExpected EXCEPT ![c] =
                IF m.preloadCache THEN "preloadClientFinished" ELSE "error"]
         /\ toHost' = [toHost EXCEPT ![c] = Tail(@)]
         /\ UNCHANGED <<guest, gExpected, peerId, selfId, nextGuestId, secret,
                        owner, joined, preloaded, broken, asked, hasty>>

(* Seeded faults: the host stays in early_subscribe; the host forgets to    *)
(* answer.                                                                 *)
FaultFinishedWithoutTransition(c) ==
    /\ toGuest' = [toGuest EXCEPT ![c] = @ \o SentToGuest(c, <<PreloadFinished>>)]
    /\ hExpected' = [hExpected EXCEPT ![c] = "error"]
    /\ toHost' = [toHost EXCEPT ![c] = Tail(@)]
    /\ UNCHANGED <<host, guest, gExpected, peerId, selfId, nextGuestId,
                   secret, owner, joined, preloaded, broken, asked, hasty>>

FaultFinishedWithoutAnswer(c) ==
    /\ host' = [host EXCEPT ![c] = "connected"]
    /\ hExpected' = [hExpected EXCEPT ![c] = "error"]
    /\ toHost' = [toHost EXCEPT ![c] = Tail(@)]
    /\ UNCHANGED <<guest, gExpected, peerId, selfId, nextGuestId, secret,
                   owner, joined, preloaded, toGuest, broken, asked, hasty>>

HandlePreloadClientFinished(c) ==
    /\ host' = [host EXCEPT ![c] = "connected"]
    /\ toGuest' = [toGuest EXCEPT ![c] = @ \o SentToGuest(c, <<PreloadFinished>>)]
    /\ hExpected' = [hExpected EXCEPT ![c] = "error"]
    /\ toHost' = [toHost EXCEPT ![c] = Tail(@)]
    /\ UNCHANGED <<guest, gExpected, peerId, selfId, nextGuestId, secret,
                   owner, joined, preloaded, broken, asked, hasty>>

(* A non-system transmission goes to HostTransceiver::handleTransmission;  *)
(* a join is answered with the container, ended by a DotsCacheInfo.        *)
HostHandleTransmission(c, m) ==
    /\ toHost' = [toHost EXCEPT ![c] = Tail(@)]
    /\ toGuest' = [toGuest EXCEPT ![c] =
           @ \o SentToGuest(c, IF m = Join THEN <<CacheInfo>> ELSE <<>>)]
    /\ UNCHANGED <<host, guest, hExpected, gExpected, peerId, selfId,
                   nextGuestId, secret, owner, joined, preloaded, broken,
                   asked, hasty>>

HostReceive(c) ==
    /\ host[c] \notin {"suspended", "closed"}
    /\ toHost[c] # <<>>
    /\ LET m == Head(toHost[c]) IN
       CASE m.kind = "error" -> HostPeerError(c, m)
         [] m.kind = "connect" /\ hExpected[c] = "connect" -> HandleConnect(c, m)
         [] m.kind = "preloadClientFinished"
                /\ hExpected[c] = "preloadClientFinished" ->
                HandlePreloadClientFinished(c)
         [] ~SystemKind(m) /\ host[c] \in {"early_subscribe", "connected"} ->
                HostHandleTransmission(c, m)
         [] OTHER -> HostError(c, <<>>)

(* The transport reports an error or the end of the stream once everything *)
(* that still arrived has been read.                                       *)
HostReadError(c) ==
    /\ host[c] \notin {"suspended", "closed"}
    /\ toHost[c] = <<>>
    /\ broken[c] \/ guest[c] = "closed"
    /\ HostError(c, <<>>)

(* HostTransceiver::transmit to a member of a group.  A failing transmit   *)
(* makes the connection dirty, and handleError is called for it.           *)
HostTransmit(c) ==
    /\ host[c] \in {"early_subscribe", "connected"}
    /\ Len(SelectSeq(toGuest[c], LAMBDA m : m = User)) < MaxApp
    /\ toGuest' = [toGuest EXCEPT ![c] = @ \o SentToGuest(c, <<User>>)]
    /\ UNCHANGED <<host, guest, hExpected, gExpected, peerId, selfId,
                   nextGuestId, secret, owner, joined, preloaded, toHost,
                   broken, asked, hasty>>

HostDirty(c) ==
    /\ host[c] \in {"early_subscribe", "connected"}
    /\ HostError(c, <<>>)

HostDestroy(c) ==
    /\ host[c] \notin {"suspended", "closed"}
    /\ HostGone(c)

-----------------------------------------------------------------------------
(* The guest's end *)

(* Seeded fault: the guest keeps expecting a DotsMsgHello.                  *)
FaultHelloKeepsExpecting(c, m) ==
    /\ toHost' = [toHost EXCEPT ![c] = @ \o SentToHost(c,
           <<Connect(IF m.authenticationRequired THEN secret[c] ELSE "none")>>)]
    /\ toGuest' = [toGuest EXCEPT ![c] = Tail(@)]
    /\ UNCHANGED <<host, guest, hExpected, gExpected, peerId, selfId,
                   nextGuestId, secret, owner, joined, preloaded, broken,
                   asked, hasty>>

HandleHello(c, m) ==
    IF m.authenticationRequired /\ secret[c] = "none"
    THEN GuestError(c)
    ELSE /\ toHost' = [toHost EXCEPT ![c] = @ \o SentToHost(c,
                <<Connect(IF m.authenticationRequired THEN secret[c] ELSE "none")>>)]
         /\ gExpected' = [gExpected EXCEPT ![c] = "connectResponse"]
         /\ toGuest' = [toGuest EXCEPT ![c] = Tail(@)]
         /\ UNCHANGED <<host, guest, hExpected, peerId, selfId, nextGuestId,
                        secret, owner, joined, preloaded, broken, asked,
                        hasty>>

(* The transition to early_subscribe calls                                 *)
(* GuestTransceiver::handleTransitionImpl, which joins the groups of the   *)
(* preload types in their order, and skips those it has joined before.     *)
Missing(c) == PreloadTypes - joined[owner[c]]
Subscriptions(c) == [i \in 1..Missing(c) |-> Join]

(* Seeded fault: preloadClientFinished overtakes the subscriptions.         *)
FaultFinishedBeforeJoins(c, m) ==
    /\ selfId' = [selfId EXCEPT ![c] = m.clientId]
    /\ guest' = [guest EXCEPT ![c] = "early_subscribe"]
    /\ toHost' = [toHost EXCEPT ![c] =
           @ \o SentToHost(c, <<PreloadClientFinished>> \o Subscriptions(c))]
    /\ joined' = [joined EXCEPT ![owner[c]] = PreloadTypes]
    /\ asked' = [asked EXCEPT ![c] = Missing(c)]
    /\ gExpected' = [gExpected EXCEPT ![c] = "preloadFinished"]
    /\ toGuest' = [toGuest EXCEPT ![c] = Tail(@)]
    /\ UNCHANGED <<host, hExpected, peerId, nextGuestId, secret, owner,
                   preloaded, broken, hasty>>

(* A transmission fails while the groups are joined, after the first sent  *)
(* joins.  handleTransitionImpl destroys the connection (its catch clause, *)
(* or publish through handleError, after which the group is still inserted *)
(* into m_joinedGroups).  handleAuthorizationRequest then goes on with the *)
(* destroyed object, so preloadClientFinished may or may not be sent.      *)
PreloadFails(c, m) ==
    /\ m.preload
    /\ selfId' = [selfId EXCEPT ![c] = m.clientId]
    /\ \E sent \in 0..Missing(c) :
       \E entered \in sent..sent + 1, finished \in BOOLEAN :
           /\ entered <= Missing(c)
           /\ joined' = [joined EXCEPT ![owner[c]] = @ + entered]
           /\ asked' = [asked EXCEPT ![c] = entered]
           /\ toHost' = [toHost EXCEPT ![c] = @ \o SentToHost(c,
                  SubSeq(Subscriptions(c), 1, sent) \o
                      IF finished THEN <<PreloadClientFinished>> ELSE <<>>)]
    /\ GuestClosed(c)

(* m.accepted is not looked at, as in the code.                            *)
HandleAuthorizationRequest(c, m) ==
    \/ /\ selfId' = [selfId EXCEPT ![c] = m.clientId]
       /\ guest' = [guest EXCEPT ![c] =
              IF m.preload THEN "early_subscribe" ELSE "connected"]
       /\ toHost' = [toHost EXCEPT ![c] = @ \o SentToHost(c,
              IF m.preload THEN Append(Subscriptions(c), PreloadClientFinished)
                           ELSE <<>>)]
       /\ joined' = [joined EXCEPT ![owner[c]] =
              IF m.preload THEN PreloadTypes ELSE @]
       /\ asked' = [asked EXCEPT ![c] = IF m.preload THEN Missing(c) ELSE 0]
       /\ gExpected' = [gExpected EXCEPT ![c] =
              IF m.preload THEN "preloadFinished" ELSE "error"]
       /\ toGuest' = [toGuest EXCEPT ![c] = Tail(@)]
       /\ UNCHANGED <<host, hExpected, peerId, nextGuestId, secret, owner,
                      preloaded, broken, hasty>>
    \/ PreloadFails(c, m)

HandlePreloadFinished(c) ==
    /\ guest' = [guest EXCEPT ![c] = "connected"]
    /\ gExpected' = [gExpected EXCEPT ![c] = "error"]
    /\ toGuest' = [toGuest EXCEPT ![c] = Tail(@)]
    /\ UNCHANGED <<host, hExpected, peerId, selfId, nextGuestId, secret,
                   owner, joined, preloaded, toHost, broken, asked, hasty>>

GuestHandleTransmission(c, m) ==
    /\ preloaded' = [preloaded EXCEPT ![c] = IF m = CacheInfo THEN @ + 1 ELSE @]
    /\ toGuest' = [toGuest EXCEPT ![c] = Tail(@)]
    /\ UNCHANGED <<host, guest, hExpected, gExpected, peerId, selfId,
                   nextGuestId, secret, owner, joined, toHost, broken, asked,
                   hasty>>

GuestReceive(c) ==
    /\ guest[c] \notin {"suspended", "closed"}
    /\ toGuest[c] # <<>>
    /\ LET m == Head(toGuest[c]) IN
       CASE m.kind = "error" -> GuestPeerError(c, m)
         [] m.kind = "hello" /\ gExpected[c] = "hello" -> HandleHello(c, m)
         [] m.kind = "connectResponse" /\ gExpected[c] = "connectResponse" ->
                HandleAuthorizationRequest(c, m)
         [] m.kind = "preloadFinished" /\ gExpected[c] = "preloadFinished" ->
                HandlePreloadFinished(c)
         [] ~SystemKind(m) /\ guest[c] \in {"early_subscribe", "connected"} ->
                GuestHandleTransmission(c, m)
         [] OTHER -> GuestError(c)

(* Seeded fault: the end of the stream is not taken for an error.           *)
FaultIgnoreEndOfStream(c) ==
    /\ guest[c] \notin {"suspended", "closed"}
    /\ toGuest[c] = <<>>
    /\ broken[c]
    /\ GuestError(c)

GuestReadError(c) ==
    /\ guest[c] \notin {"suspended", "closed"}
    /\ toGuest[c] = <<>>
    /\ broken[c] \/ host[c] = "closed"
    /\ GuestError(c)

(* GuestTransceiver::publish, called by user code: it checks no more than  *)
(* that there is a connection, which may still be connecting.              *)
GuestPublish(c) ==
    /\ guest[c] \notin {"suspended", "closed"}
    /\ Len(SelectSeq(toHost[c], LAMBDA m : m = User)) < MaxApp
    /\ toHost' = [toHost EXCEPT ![c] = @ \o SentToHost(c, <<User>>)]
    /\ hasty' = [hasty EXCEPT ![c] = @ \/ gExpected[c] = "hello"]
    /\ UNCHANGED <<host, guest, hExpected, gExpected, peerId, selfId,
                   nextGuestId, secret, owner, joined, preloaded, toGuest,
                   broken, asked>>

(* Its transmission fails, and it calls handleError.                       *)
GuestPublishFails(c) ==
    /\ guest[c] \notin {"suspended", "closed"}
    /\ GuestError(c)

GuestDestroy(c) ==
    /\ guest[c] \notin {"suspended", "closed"}
    /\ GuestGone(c)

-----------------------------------------------------------------------------
(* The transport fails: what arrives is a prefix of what was sent.         *)
Break(c) ==
    /\ guest[c] # "suspended"
    /\ ~broken[c] /\ Cardinality({d \in Conn : broken[d]}) < MaxBroken
    /\ broken' = [broken EXCEPT ![c] = TRUE]
    /\ \E h \in 0..Len(toHost[c]), g \in 0..Len(toGuest[c]) :
           /\ toHost' = [toHost EXCEPT ![c] = SubSeq(@, 1, h)]
           /\ toGuest' = [toGuest EXCEPT ![c] = SubSeq(@, 1, g)]
    /\ UNCHANGED <<host, guest, hExpected, gExpected, peerId, selfId,
                   nextGuestId, secret, owner, joined, preloaded, asked,
                   hasty>>

(* Both ends may stop for good once they are closed.                       *)
Done ==
    /\ \A c \in Conn : host[c] = "closed" /\ guest[c] = "closed"
    /\ UNCHANGED vars

Next ==
    \/ \E c \in Conn :
        \/ Open(c) \/ Accept(c) \/ Break(c)
        \/ HostReceive(c) \/ HostReadError(c) \/ HostTransmit(c)
        \/ HostDirty(c) \/ HostDestroy(c)
        \/ GuestReceive(c) \/ GuestReadError(c) \/ GuestPublish(c)
        \/ GuestPublishFails(c) \/ GuestDestroy(c)
    \/ Done

Spec == Init /\ [][Next]_vars

(* The event loops of both programs run: what has arrived is eventually    *)
(* handled, and so is a failed read.  Nothing makes a user act.            *)
Fairness ==
    \A c \in Conn :
        /\ WF_vars(Accept(c))
        /\ WF_vars(HostReceive(c)) /\ WF_vars(HostReadError(c))
        /\ WF_vars(GuestReceive(c)) /\ WF_vars(GuestReadError(c))

FairSpec == Spec /\ Fairness

-----------------------------------------------------------------------------
(* Properties *)

(* Every variable keeps its type.                                          *)
TypeOK ==
    /\ host \in [Conn -> State]
    /\ guest \in [Conn -> State]
    /\ hExpected \in [Conn -> Kind]
    /\ gExpected \in [Conn -> Kind]
    /\ peerId \in [Conn -> Nat]
    /\ selfId \in [Conn -> Nat]
    /\ nextGuestId \in Nat
    /\ secret \in [Conn -> SecretKind]
    /\ owner \in [Conn -> Guest]
    /\ joined \in [Guest -> 0..PreloadTypes]
    /\ preloaded \in [Conn -> Nat]
    /\ toHost \in [Conn -> Seq(ToHostMsg)]
    /\ toGuest \in [Conn -> Seq(ToGuestMsg)]
    /\ broken \in [Conn -> BOOLEAN]
    /\ asked \in [Conn -> 0..PreloadTypes]
    /\ hasty \in [Conn -> BOOLEAN]

(* A guest in the connected state has been let through by its host: the    *)
(* host's end reached connected first (it may have closed since).  The     *)
(* host sets its state before it sends preloadFinished                     *)
(* (Connection::handlePreloadClientFinished).                              *)
ConnectedAgreement ==
    \A c \in Conn : guest[c] = "connected" => host[c] \in {"connected", "closed"}

(* A guest whose authentication failed never becomes connected, although   *)
(* handleAuthorizationRequest ignores DotsMsgConnectResponse::accepted.    *)
RejectedNeverConnected ==
    \A c \in Conn :
        c \in Protected /\ secret[c] # "right" =>
            /\ guest[c] # "connected"
            /\ host[c] \notin {"early_subscribe", "connected"}

(* A guest that takes part in the space goes by the id its own host end    *)
(* gave it, and no two connections ever share one.                         *)
IdAgreement ==
    /\ \A c \in Conn :
           guest[c] \in {"early_subscribe", "connected"} =>
               selfId[c] = peerId[c] /\ selfId[c] >= FirstGuestId
    /\ \A c, d \in Conn :
           peerId[c] = peerId[d] /\ peerId[c] # UninitializedId => c = d

(* When a guest becomes connected, the content of every type it has asked  *)
(* for in early_subscribe has arrived; and it has asked for every type it  *)
(* preloads, unless an earlier connection of the same transceiver did.     *)
(* What is skipped then is not sent again: the types of a re-opened guest  *)
(* are the finding of Distribution, where SubscriberFilled is violated.    *)
PreloadComplete ==
    \A c \in Conn :
        guest[c] = "connected" =>
            /\ preloaded[c] >= asked[c]
            /\ \/ asked[c] = PreloadTypes
               \/ \E d \in Conn \ {c} :
                      owner[d] = owner[c] /\ guest[d] = "closed" /\ asked[d] > 0

(* The ends never see a message they do not expect, whatever closes or     *)
(* breaks in between, with one exception: what a guest has published       *)
(* before it answered the hello reaches a host that is still connecting,   *)
(* which closes.                                                           *)
NoUnexpectedMessage ==
    \A c \in Conn :
        /\ host[c] \notin {"suspended", "closed"} /\ toHost[c] # <<>> =>
               LET m == Head(toHost[c]) IN
               IF SystemKind(m) THEN m.kind \in {"error", hExpected[c]}
               ELSE \/ host[c] \in {"early_subscribe", "connected"}
                    \/ m = User /\ hasty[c]
        /\ guest[c] \notin {"suspended", "closed"} /\ toGuest[c] # <<>> =>
               LET m == Head(toGuest[c]) IN
               IF SystemKind(m) THEN m.kind \in {"error", gExpected[c]}
                                ELSE guest[c] \in {"early_subscribe", "connected"}

(* A connection's state only moves forward, and closed is final.           *)
Rank(s) == CASE s = "suspended" -> 0 [] s = "connecting" -> 1
             [] s = "early_subscribe" -> 2 [] s = "connected" -> 3
             [] s = "closed" -> 4

StateMovesForward ==
    [][\A c \in Conn : /\ Rank(host'[c]) >= Rank(host[c])
                       /\ Rank(guest'[c]) >= Rank(guest[c])]_vars

(* An opened guest does not hang in the handshake: it ends connected or    *)
(* closed.                                                                 *)
HandshakeEnds ==
    \A c \in Conn :
        guest[c] = "connecting" ~> guest[c] \in {"connected", "closed"}

(* When one end has closed, the other one notices and closes as well: no   *)
(* half-open connection remains.                                           *)
NoHalfOpen ==
    \A c \in Conn :
        /\ guest[c] = "closed" ~> host[c] = "closed"
        /\ host[c] = "closed" ~> guest[c] = "closed"
=============================================================================
