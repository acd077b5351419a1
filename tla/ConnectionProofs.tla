-------------------------- MODULE ConnectionProofs --------------------------
(***************************************************************************)
(* Proofs about Connection, for every set of connections, every choice of  *)
(* protected endpoints and every number of preloaded types.                *)
(***************************************************************************)
EXTENDS Connection, FiniteSetTheorems, SequenceTheorems, TLAPS

(* The messages a queue holds.                                             *)
InFlight(q) == {q[i] : i \in 1..Len(q)}

-----------------------------------------------------------------------------
(* Lemmas about queues *)

(* An empty queue holds nothing.                                           *)
LEMMA InFlightEmpty == InFlight(<<>>) = {}
  BY DEF InFlight

(* A queue of one message holds that message.                              *)
LEMMA InFlightSingle ==
  ASSUME NEW S, NEW m \in S
  PROVE  <<m>> \in Seq(S) /\ InFlight(<<m>>) = {m}
  BY DEF InFlight

(* Transmitting appends: both queues' messages are in flight, no others.   *)
LEMMA InFlightConcat ==
  ASSUME NEW S, NEW q \in Seq(S), NEW r \in Seq(S)
  PROVE  /\ q \o r \in Seq(S)
         /\ InFlight(q \o r) = InFlight(q) \cup InFlight(r)
<1>1. q \o r \in Seq(S) /\ Len(q \o r) = Len(q) + Len(r)
  BY ConcatProperties
<1>2. \A i \in 1..Len(q) + Len(r) :
         (q \o r)[i] = IF i <= Len(q) THEN q[i] ELSE r[i - Len(q)]
  BY ConcatProperties
<1>3. ASSUME NEW m \in InFlight(q \o r) PROVE m \in InFlight(q) \cup InFlight(r)
  BY <1>1, <1>2, LenProperties DEF InFlight
<1>4. ASSUME NEW m \in InFlight(q) PROVE m \in InFlight(q \o r)
  BY <1>1, <1>2, LenProperties DEF InFlight
<1>5. ASSUME NEW m \in InFlight(r) PROVE m \in InFlight(q \o r)
  <2>1. PICK i \in 1..Len(r) : m = r[i]
    BY DEF InFlight
  <2>2. Len(q) + i \in 1..Len(q) + Len(r) /\ ~(Len(q) + i <= Len(q))
        /\ (Len(q) + i) - Len(q) = i
    BY LenProperties
  <2>3. (q \o r)[Len(q) + i] = m
    BY <2>1, <2>2, <1>2
  <2> QED BY <2>2, <2>3, <1>1 DEF InFlight
<1> QED BY <1>1, <1>3, <1>4, <1>5

(* Receiving takes the first message and leaves a part of the queue.       *)
LEMMA InFlightHeadTail ==
  ASSUME NEW S, NEW q \in Seq(S), q # <<>>
  PROVE  /\ Head(q) \in InFlight(q)
         /\ Head(q) \in S
         /\ Tail(q) \in Seq(S)
         /\ InFlight(Tail(q)) \subseteq InFlight(q)
<1>1. Len(q) \in Nat /\ Len(q) >= 1 /\ Head(q) = q[1] /\ Head(q) \in S
  BY HeadTailProperties, EmptySeq, LenProperties
<1>2. Tail(q) \in Seq(S) /\ Len(Tail(q)) = Len(q) - 1
  BY HeadTailProperties
<1>3. \A i \in 1..Len(Tail(q)) : Tail(q)[i] = q[i + 1]
  BY HeadTailProperties
<1> QED BY <1>1, <1>2, <1>3 DEF InFlight

(* A broken transport delivers a prefix, which is a part of the queue.     *)
LEMMA InFlightPrefix ==
  ASSUME NEW S, NEW q \in Seq(S), NEW n \in 0..Len(q)
  PROVE  /\ SubSeq(q, 1, n) \in Seq(S)
         /\ InFlight(SubSeq(q, 1, n)) \subseteq InFlight(q)
<1>1. Len(q) \in Nat
  BY LenProperties
<1>2. \A i \in 1..n : q[i] \in S
  BY <1>1, ElementOfSeq
<1>3. SubSeq(q, 1, n) \in Seq(S) /\ Len(SubSeq(q, 1, n)) = n
  BY <1>1, <1>2, SubSeqProperties
<1>4. \A i \in 1..n : SubSeq(q, 1, n)[i] = q[i]
  BY <1>1, <1>2, SubSeqProperties
<1> QED BY <1>1, <1>3, <1>4 DEF InFlight

-----------------------------------------------------------------------------
(* Lemmas about messages *)

(* The messages the two ends construct belong to their direction's set.    *)
LEMMA MessageTypes ==
  /\ \A b \in BOOLEAN : Hello(b) \in ToGuestMsg
  /\ \A i \in Nat, a, b \in BOOLEAN : ConnectResponse(i, a, b) \in ToGuestMsg
  /\ PreloadFinished \in ToGuestMsg /\ CacheInfo \in ToGuestMsg
  /\ User \in ToGuestMsg
  /\ Error(0) \in ToGuestMsg /\ Error(1) \in ToGuestMsg
  /\ \A r \in SecretKind : Connect(r) \in ToHostMsg
  /\ PreloadClientFinished \in ToHostMsg /\ Join \in ToHostMsg
  /\ User \in ToHostMsg
  /\ Error(0) \in ToHostMsg /\ Error(1) \in ToHostMsg
<1>1. \A i \in Nat, a, b \in BOOLEAN : ConnectResponse(i, a, b) \in ToGuestMsg
  BY DEF ConnectResponse, ToGuestMsg
<1>2. \A b \in BOOLEAN : Hello(b) \in ToGuestMsg
  BY DEF ToGuestMsg
<1>3. \A r \in SecretKind : Connect(r) \in ToHostMsg
  BY DEF ToHostMsg
<1>4. Error(0) \in ToGuestMsg /\ Error(1) \in ToGuestMsg
      /\ Error(0) \in ToHostMsg /\ Error(1) \in ToHostMsg
  BY DEF ToHostMsg, ToGuestMsg
<1> QED BY <1>1, <1>2, <1>3, <1>4 DEF ToHostMsg, ToGuestMsg

(* A DotsMsgConnect carries a response; this guest always asks to preload. *)
LEMMA ConnectFields ==
  ASSUME NEW m \in ToHostMsg, m.kind = "connect"
  PROVE  m.response \in SecretKind /\ m.preloadCache = TRUE
  BY DEF ToHostMsg, Connect, Error, PreloadClientFinished, Join, User

(* A DotsMsgConnectResponse to a DotsMsgConnect carries all its fields.    *)
LEMMA ConnectResponseFields ==
  ASSUME NEW m \in ToGuestMsg, m.kind = "connectResponse"
  PROVE  m.clientId \in Nat /\ m.preload \in BOOLEAN
  BY DEF ToGuestMsg, Hello, Error, PreloadFinished, CacheInfo, User

(* The joins of early_subscribe: one for each type not joined before.      *)
LEMMA SubscriptionsType ==
  ASSUME TypeOK, NEW c \in Conn
  PROVE  /\ Missing(c) \in 0..PreloadTypes
         /\ joined[owner[c]] + Missing(c) = PreloadTypes
         /\ Len(Subscriptions(c)) = Missing(c)
         /\ \A i \in 1..Missing(c) : Subscriptions(c)[i] = Join
         /\ Subscriptions(c) \in Seq(ToHostMsg)
         /\ InFlight(Subscriptions(c)) \subseteq {Join}
<1>1. /\ Missing(c) \in 0..PreloadTypes /\ Missing(c) \in Nat
      /\ joined[owner[c]] + Missing(c) = PreloadTypes
  <2>1. PreloadTypes \in Nat
    BY ConnectionAssumption
  <2>2. joined[owner[c]] \in 0..PreloadTypes
    BY DEF TypeOK
  <2> QED BY <2>1, <2>2 DEF Missing
<1>2. Subscriptions(c) \in [1..Missing(c) -> ToHostMsg]
  BY MessageTypes DEF Subscriptions
<1>3. /\ Subscriptions(c) \in Seq(ToHostMsg)
      /\ Len(Subscriptions(c)) = Missing(c)
  BY <1>1, <1>2
<1>4. \A i \in 1..Missing(c) : Subscriptions(c)[i] = Join
  BY DEF Subscriptions
<1> QED BY <1>1, <1>3, <1>4 DEF InFlight

-----------------------------------------------------------------------------
(* The inductive invariant.  What makes a guest connected is a message, so *)
(* the invariant speaks of the messages in flight as well as of the states *)
(* of the two ends.                                                        *)

Authentic(c) == c \in Protected => secret[c] = "right"

(* The expected system type determines the state it is expected in.        *)
ExpectedOK(c) ==
  /\ hExpected[c] = "connect" => host[c] = "connecting"
  /\ hExpected[c] = "preloadClientFinished" => host[c] = "early_subscribe"
  /\ gExpected[c] \in {"hello", "connectResponse"} => guest[c] = "connecting"
  /\ gExpected[c] = "preloadFinished" => guest[c] = "early_subscribe"

(* What a message on its way to the guest says about the host's end.       *)
ToGuestOK(c, m) ==
  /\ m.kind = "connectResponse" => m.clientId = peerId[c] /\ m.preload
  /\ m.kind = "preloadFinished" =>
         host[c] \in {"connected", "closed"} /\ Authentic(c)

(* A right response on its way to the host was made with the secret.       *)
ToHostOK(c, m) ==
  m.kind = "connect" /\ m.response = "right" => secret[c] = "right"

(* A guest's id is below the counter from the moment the host accepts.     *)
IdOK(c) ==
  IF host[c] = "suspended"
  THEN peerId[c] = UninitializedId /\ toGuest[c] = <<>>
  ELSE peerId[c] >= FirstGuestId /\ peerId[c] < nextGuestId

LinkInv(c) ==
  /\ ExpectedOK(c)
  /\ \A m \in InFlight(toGuest[c]) : ToGuestOK(c, m)
  /\ \A m \in InFlight(toHost[c]) : ToHostOK(c, m)
  /\ IdOK(c)
  /\ guest[c] \in {"early_subscribe", "connected"} =>
         selfId[c] = peerId[c] /\ host[c] # "suspended"
  /\ guest[c] = "connected" => host[c] \in {"connected", "closed"} /\ Authentic(c)
  /\ host[c] \in {"early_subscribe", "connected"} => Authentic(c)

UniqueIds ==
  \A c, d \in Conn :
      peerId[c] = peerId[d] /\ peerId[c] # UninitializedId => c = d

IInv ==
  /\ TypeOK
  /\ nextGuestId >= FirstGuestId
  /\ \A c \in Conn : LinkInv(c)
  /\ UniqueIds

(* A step leaves a connection alone; the counter may advance.              *)
Untouched(d) ==
  /\ host'[d] = host[d] /\ guest'[d] = guest[d]
  /\ hExpected'[d] = hExpected[d] /\ gExpected'[d] = gExpected[d]
  /\ peerId'[d] = peerId[d] /\ selfId'[d] = selfId[d]
  /\ secret'[d] = secret[d]
  /\ toHost'[d] = toHost[d] /\ toGuest'[d] = toGuest[d]
  /\ nextGuestId' \in Nat /\ nextGuestId' >= nextGuestId

LEMMA UntouchedLink ==
  ASSUME IInv, NEW d \in Conn, Untouched(d)
  PROVE  LinkInv(d)'
<1>1. LinkInv(d) /\ nextGuestId \in Nat /\ peerId[d] \in Nat
  BY DEF IInv, TypeOK
<1>2. ExpectedOK(d)'
  BY <1>1 DEF Untouched, LinkInv, ExpectedOK
<1>3. \A m \in InFlight(toGuest'[d]) : ToGuestOK(d, m)'
  BY <1>1 DEF Untouched, LinkInv, ToGuestOK, Authentic
<1>4. \A m \in InFlight(toHost'[d]) : ToHostOK(d, m)'
  BY <1>1 DEF Untouched, LinkInv, ToHostOK
<1>5. IdOK(d)'
  BY <1>1 DEF Untouched, LinkInv, IdOK
<1> QED BY <1>1, <1>2, <1>3, <1>4, <1>5 DEF Untouched, LinkInv, Authentic

(* The invariant holds initially.                                          *)
LEMMA InitIInv == Init => IInv
<1> SUFFICES ASSUME Init PROVE IInv
  OBVIOUS
<1>1. TypeOK
  BY ConnectionAssumption
  DEF Init, TypeOK, State, Kind, UninitializedId, FirstGuestId
<1>2. nextGuestId >= FirstGuestId /\ UniqueIds
  BY DEF Init, UniqueIds, UninitializedId, FirstGuestId
<1>3. ASSUME NEW c \in Conn PROVE LinkInv(c)
  BY InFlightEmpty DEF Init, LinkInv, ExpectedOK, IdOK
<1> QED BY <1>1, <1>2, <1>3 DEF IInv

(* What the host's transmit leaves in flight: nothing but what was there   *)
(* and what was sent.                                                      *)
LEMMA SendToGuest ==
  ASSUME TypeOK, NEW c \in Conn, NEW ms \in Seq(ToGuestMsg)
  PROVE  LET q == toGuest[c] \o SentToGuest(c, ms) IN
         /\ q \in Seq(ToGuestMsg)
         /\ InFlight(q) \subseteq InFlight(toGuest[c]) \cup InFlight(ms)
<1>1. toGuest[c] \in Seq(ToGuestMsg)
  BY DEF TypeOK
<1>2. SentToGuest(c, ms) \in {<<>>, ms}
  BY DEF SentToGuest
<1>3. <<>> \in Seq(ToGuestMsg)
  BY EmptySeq
<1>4. CASE SentToGuest(c, ms) = <<>>
  BY <1>1, <1>3, <1>4, InFlightConcat, InFlightEmpty
<1>5. CASE SentToGuest(c, ms) = ms
  BY <1>1, <1>5, InFlightConcat
<1> QED BY <1>2, <1>4, <1>5

(* The same for the guest's transmit.                                      *)
LEMMA SendToHost ==
  ASSUME TypeOK, NEW c \in Conn, NEW ms \in Seq(ToHostMsg)
  PROVE  LET q == toHost[c] \o SentToHost(c, ms) IN
         /\ q \in Seq(ToHostMsg)
         /\ InFlight(q) \subseteq InFlight(toHost[c]) \cup InFlight(ms)
<1>1. toHost[c] \in Seq(ToHostMsg)
  BY DEF TypeOK
<1>2. SentToHost(c, ms) \in {<<>>, ms}
  BY DEF SentToHost
<1>3. <<>> \in Seq(ToHostMsg)
  BY EmptySeq
<1>4. CASE SentToHost(c, ms) = <<>>
  BY <1>1, <1>3, <1>4, InFlightConcat, InFlightEmpty
<1>5. CASE SentToHost(c, ms) = ms
  BY <1>1, <1>5, InFlightConcat
<1> QED BY <1>2, <1>4, <1>5

(* Sending a single message to the guest, as most handlers do.             *)
LEMMA SendOneToGuest ==
  ASSUME TypeOK, NEW c \in Conn, NEW m \in ToGuestMsg,
         toGuest' = [toGuest EXCEPT ![c] = @ \o SentToGuest(c, <<m>>)]
  PROVE  /\ toGuest'[c] \in Seq(ToGuestMsg)
         /\ InFlight(toGuest'[c]) \subseteq InFlight(toGuest[c]) \cup {m}
<1> DEFINE ms == <<m>>
<1>1. ms \in Seq(ToGuestMsg) /\ InFlight(ms) = {m}
  BY InFlightSingle
<1> HIDE DEF ms
<1>2. toGuest'[c] = toGuest[c] \o SentToGuest(c, ms)
  BY DEF TypeOK, ms
<1> QED BY <1>1, <1>2, SendToGuest

(* Sending a single message to the host.                                   *)
LEMMA SendOneToHost ==
  ASSUME TypeOK, NEW c \in Conn, NEW m \in ToHostMsg,
         toHost' = [toHost EXCEPT ![c] = @ \o SentToHost(c, <<m>>)]
  PROVE  /\ toHost'[c] \in Seq(ToHostMsg)
         /\ InFlight(toHost'[c]) \subseteq InFlight(toHost[c]) \cup {m}
<1> DEFINE ms == <<m>>
<1>1. ms \in Seq(ToHostMsg) /\ InFlight(ms) = {m}
  BY InFlightSingle
<1> HIDE DEF ms
<1>2. toHost'[c] = toHost[c] \o SentToHost(c, ms) /\ toHost[c] \in Seq(ToHostMsg)
  BY DEF TypeOK, ms
<1> QED BY <1>1, <1>2, SendToHost

(* Closing the host's end, after transmitting ms that are neither a        *)
(* preloadFinished nor a response with another id, keeps the invariant.    *)
LEMMA HostErrorStep ==
  ASSUME IInv, NEW c \in Conn, host[c] # "suspended",
         NEW ms \in Seq(ToGuestMsg),
         \A m \in InFlight(ms) : /\ m.kind # "preloadFinished"
                                 /\ ToGuestOK(c, m),
         toGuest' = [toGuest EXCEPT ![c] = @ \o SentToGuest(c, ms)],
         HostClose(c)
  PROVE  IInv'
<1>1. TypeOK'
  BY SendToGuest, EmptySeq DEF IInv, TypeOK, HostClose, State, Kind
<1>2. nextGuestId' >= FirstGuestId /\ UniqueIds'
  BY DEF IInv, HostClose, UniqueIds
<1>3. InFlight(toGuest'[c]) \subseteq InFlight(toGuest[c]) \cup InFlight(ms)
  <2>1. toGuest'[c] = toGuest[c] \o SentToGuest(c, ms)
    BY DEF IInv, TypeOK
  <2> QED BY <2>1, SendToGuest DEF IInv
<1>4. LinkInv(c)'
  <2>1. InFlight(toHost'[c]) = {}
    BY InFlightEmpty DEF HostClose, IInv, TypeOK
  <2>2. \A m \in InFlight(toGuest'[c]) : ToGuestOK(c, m)'
    BY <1>3 DEF IInv, TypeOK, LinkInv, HostClose, ToGuestOK, Authentic
  <2> QED BY <2>1, <2>2
          DEF IInv, TypeOK, LinkInv, HostClose, ExpectedOK, IdOK, Authentic
<1>5. ASSUME NEW d \in Conn, d # c PROVE LinkInv(d)'
  <2>1. Untouched(d)
    BY <1>5 DEF HostClose, IInv, TypeOK, Untouched
  <2> QED BY <2>1, UntouchedLink
<1> QED BY <1>1, <1>2, <1>4, <1>5 DEF IInv

(* Closing the guest's end, after transmitting ms that hold no             *)
(* DotsMsgConnect, keeps the invariant, whatever the transceiver has       *)
(* joined and whichever id it has been given by then.                      *)
LEMMA GuestErrorStep ==
  ASSUME IInv, NEW c \in Conn, guest[c] # "suspended",
         NEW ms \in Seq(ToHostMsg),
         \A m \in InFlight(ms) : m.kind # "connect",
         toHost' = [toHost EXCEPT ![c] = @ \o SentToHost(c, ms)],
         GuestClosed(c),
         selfId' \in [Conn -> Nat],
         \A d \in Conn \ {c} : selfId'[d] = selfId[d],
         joined' \in [Guest -> 0..PreloadTypes],
         asked' \in [Conn -> 0..PreloadTypes]
  PROVE  IInv'
<1>0. toHost[c] \in Seq(ToHostMsg)
  BY DEF IInv, TypeOK
<1>1. TypeOK'
  <2>1. toHost' \in [Conn -> Seq(ToHostMsg)]
    BY <1>0, SendToHost DEF IInv, TypeOK
  <2>2. toGuest' \in [Conn -> Seq(ToGuestMsg)]
    BY EmptySeq DEF IInv, TypeOK, GuestClosed
  <2>3. guest' \in [Conn -> State] /\ gExpected' \in [Conn -> Kind]
    BY DEF IInv, TypeOK, GuestClosed, State, Kind
  <2> QED BY <2>1, <2>2, <2>3 DEF IInv, TypeOK, GuestClosed
<1>2. nextGuestId' >= FirstGuestId /\ UniqueIds'
  BY DEF IInv, GuestClosed, UniqueIds
<1>3. InFlight(toHost'[c]) \subseteq InFlight(toHost[c]) \cup InFlight(ms)
  <2>1. toHost'[c] = toHost[c] \o SentToHost(c, ms)
    BY <1>0 DEF IInv, TypeOK
  <2> QED BY <2>1, SendToHost DEF IInv
<1>4. LinkInv(c)'
  <2>1. toGuest'[c] = <<>> /\ InFlight(toGuest'[c]) = {}
    BY InFlightEmpty DEF GuestClosed, IInv, TypeOK
  <2>2. \A m \in InFlight(toHost'[c]) : ToHostOK(c, m)'
    BY <1>3 DEF IInv, TypeOK, LinkInv, GuestClosed, ToHostOK
  <2> QED BY <2>1, <2>2
          DEF IInv, TypeOK, LinkInv, GuestClosed, ExpectedOK, IdOK, Authentic
<1>5. ASSUME NEW d \in Conn, d # c PROVE LinkInv(d)'
  <2>1. Untouched(d)
    BY <1>5 DEF GuestClosed, IInv, TypeOK, Untouched
  <2> QED BY <2>1, UntouchedLink
<1> QED BY <1>1, <1>2, <1>4, <1>5 DEF IInv

-----------------------------------------------------------------------------
(* One lemma per step that does not close an end.  In each, the step       *)
(* touches one connection; that the others keep LinkInv is its own case.   *)

(* GuestTransceiver::open *)
LEMMA OpenStep ==
  ASSUME IInv, NEW c \in Conn, Open(c) PROVE IInv'
<1>1. TypeOK' /\ nextGuestId' >= FirstGuestId /\ UniqueIds'
  BY DEF Open, IInv, TypeOK, State, Kind, UniqueIds
<1>2. LinkInv(c)'
  BY DEF Open, IInv, TypeOK, LinkInv, ExpectedOK, IdOK, ToGuestOK, ToHostOK, Authentic
<1>3. ASSUME NEW d \in Conn, d # c PROVE LinkInv(d)'
  <2>1. Untouched(d)
    BY <1>3 DEF Open, IInv, TypeOK, Untouched
  <2> QED BY <2>1, UntouchedLink
<1> QED BY <1>1, <1>2, <1>3 DEF IInv

(* HostTransceiver::handleListenAccept *)
LEMMA AcceptStep ==
  ASSUME IInv, NEW c \in Conn, Accept(c) PROVE IInv'
<1> DEFINE hi == Hello(c \in Protected)
<1>1. hi \in ToGuestMsg
  <2>1. (c \in Protected) \in BOOLEAN
    OBVIOUS
  <2> QED BY <2>1, MessageTypes
<1>2. /\ toGuest'[c] \in Seq(ToGuestMsg)
      /\ InFlight(toGuest'[c]) \subseteq InFlight(toGuest[c]) \cup {hi}
  BY <1>1, SendOneToGuest DEF Accept, IInv
<1>3. TypeOK'
  BY <1>2 DEF Accept, IInv, TypeOK, State, Kind
<1>4. nextGuestId' >= FirstGuestId /\ nextGuestId' = nextGuestId + 1
  BY DEF Accept, IInv, TypeOK, FirstGuestId
<1>5. UniqueIds'
  <2>1. ASSUME NEW d \in Conn PROVE peerId[d] # nextGuestId
    BY DEF IInv, TypeOK, LinkInv, IdOK, UninitializedId, FirstGuestId
  <2>2. \A d \in Conn : peerId'[d] = IF d = c THEN nextGuestId ELSE peerId[d]
    BY DEF Accept, IInv, TypeOK
  <2> QED BY <2>1, <2>2 DEF IInv, UniqueIds
<1>6. LinkInv(c)'
  <2>1. InFlight(toGuest'[c]) \subseteq {hi}
    BY <1>2, InFlightEmpty DEF Accept, IInv, LinkInv, IdOK
  <2>2. \A m \in InFlight(toGuest'[c]) : ToGuestOK(c, m)'
    BY <2>1 DEF ToGuestOK, Hello
  <2>3. IdOK(c)'
    BY <1>4 DEF Accept, IInv, TypeOK, IdOK, FirstGuestId
  <2>4. ExpectedOK(c)' /\ \A m \in InFlight(toHost'[c]) : ToHostOK(c, m)'
    BY DEF Accept, IInv, TypeOK, LinkInv, ExpectedOK, ToHostOK
  <2>5. guest'[c] \notin {"early_subscribe", "connected"}
    BY DEF Accept, IInv, LinkInv
  <2>6. host'[c] = "connecting"
    BY DEF Accept, IInv, TypeOK
  <2> QED BY <2>2, <2>3, <2>4, <2>5, <2>6 DEF LinkInv
<1>7. ASSUME NEW d \in Conn, d # c PROVE LinkInv(d)'
  <2>1. Untouched(d)
    BY <1>4, <1>7 DEF Accept, IInv, TypeOK, Untouched
  <2> QED BY <2>1, UntouchedLink
<1> QED BY <1>3, <1>4, <1>5, <1>6, <1>7 DEF IInv

(* Connection::handleConnect, when the authentication succeeds *)
LEMMA HandleConnectStep ==
  ASSUME IInv, NEW c \in Conn, host[c] # "suspended", toHost[c] # <<>>,
         Head(toHost[c]).kind = "connect", hExpected[c] = "connect",
         HandleConnect(c, Head(toHost[c]))
  PROVE  IInv'
<1> DEFINE m == Head(toHost[c])
<1>1. /\ m \in ToHostMsg /\ m \in InFlight(toHost[c])
      /\ Tail(toHost[c]) \in Seq(ToHostMsg)
      /\ InFlight(Tail(toHost[c])) \subseteq InFlight(toHost[c])
  BY InFlightHeadTail DEF IInv, TypeOK
<1>2. m.preloadCache = TRUE /\ m.response \in SecretKind
  BY <1>1, ConnectFields
<1>3. host[c] = "connecting" /\ peerId[c] \in Nat
  BY DEF IInv, TypeOK, LinkInv, ExpectedOK
<1>4. CASE ~VerifyAuthentication(c, m.response)
  <2> DEFINE no == ConnectResponse(peerId[c], FALSE, m.preloadCache)
  <2>0. no \in ToGuestMsg
    BY <1>2, <1>3, MessageTypes
  <2>1. <<no>> \in Seq(ToGuestMsg) /\ InFlight(<<no>>) = {no}
    BY <2>0, InFlightSingle
  <2>2. \A n \in InFlight(<<no>>) : n.kind # "preloadFinished" /\ ToGuestOK(c, n)
    BY <1>2, <2>1 DEF ConnectResponse, ToGuestOK
  <2>3. /\ toGuest' = [toGuest EXCEPT ![c] = @ \o SentToGuest(c, <<no>>)]
        /\ HostClose(c)
    BY <1>3, <1>4 DEF HandleConnect, HostError
  <2> QED BY <2>1, <2>2, <2>3, HostErrorStep
<1>5. CASE VerifyAuthentication(c, m.response)
  <2> DEFINE yes == ConnectResponse(peerId[c], TRUE, m.preloadCache)
  <2>1. yes \in ToGuestMsg
    BY <1>2, <1>3, MessageTypes
  <2>2. /\ toGuest' = [toGuest EXCEPT ![c] = @ \o SentToGuest(c, <<yes>>)]
        /\ host' = [host EXCEPT ![c] = "early_subscribe"]
        /\ hExpected' = [hExpected EXCEPT ![c] = "preloadClientFinished"]
        /\ toHost' = [toHost EXCEPT ![c] = Tail(@)]
        /\ UNCHANGED <<guest, gExpected, peerId, selfId, nextGuestId, secret,
                       owner, joined, preloaded, broken, asked, hasty>>
    BY <1>2, <1>5 DEF HandleConnect
  <2>3. /\ toGuest'[c] \in Seq(ToGuestMsg)
        /\ InFlight(toGuest'[c]) \subseteq InFlight(toGuest[c]) \cup {yes}
    BY <2>1, <2>2, SendOneToGuest DEF IInv
  <2>4. TypeOK'
    BY <1>1, <2>2, <2>3 DEF IInv, TypeOK, State, Kind
  <2>5. nextGuestId' >= FirstGuestId /\ UniqueIds'
    BY <2>2 DEF IInv, UniqueIds
  <2>6. Authentic(c)
    BY <1>1, <1>5 DEF VerifyAuthentication, Authentic, IInv, LinkInv, ToHostOK
  <2>7. \A n \in InFlight(toGuest'[c]) : ToGuestOK(c, n)'
    <3>1. ASSUME NEW n, n = yes PROVE ToGuestOK(c, n)'
      BY <1>2, <2>2, <3>1 DEF ToGuestOK, ConnectResponse
    <3> QED BY <1>3, <2>2, <2>3, <3>1
            DEF IInv, TypeOK, LinkInv, ToGuestOK, Authentic
  <2>8. LinkInv(c)'
    BY <1>1, <1>3, <2>2, <2>6, <2>7
    DEF IInv, TypeOK, LinkInv, ExpectedOK, IdOK, ToHostOK, Authentic
  <2>9. ASSUME NEW d \in Conn, d # c PROVE LinkInv(d)'
    <3>1. Untouched(d)
      BY <2>2, <2>9 DEF IInv, TypeOK, Untouched
    <3> QED BY <3>1, UntouchedLink
  <2> QED BY <2>4, <2>5, <2>8, <2>9 DEF IInv
<1> QED BY <1>4, <1>5

(* Connection::handlePreloadClientFinished *)
LEMMA HandlePreloadClientFinishedStep ==
  ASSUME IInv, NEW c \in Conn, toHost[c] # <<>>,
         hExpected[c] = "preloadClientFinished", HandlePreloadClientFinished(c)
  PROVE  IInv'
<1>1. /\ Tail(toHost[c]) \in Seq(ToHostMsg)
      /\ InFlight(Tail(toHost[c])) \subseteq InFlight(toHost[c])
  BY InFlightHeadTail DEF IInv, TypeOK
<1>2. host[c] = "early_subscribe" /\ Authentic(c)
  BY DEF IInv, TypeOK, LinkInv, ExpectedOK
<1>3. PreloadFinished \in ToGuestMsg
  BY MessageTypes
<1>4. /\ toGuest'[c] \in Seq(ToGuestMsg)
      /\ InFlight(toGuest'[c]) \subseteq InFlight(toGuest[c]) \cup {PreloadFinished}
  BY <1>3, SendOneToGuest DEF HandlePreloadClientFinished, IInv
<1>5. TypeOK' /\ nextGuestId' >= FirstGuestId /\ UniqueIds'
  BY <1>1, <1>4
  DEF HandlePreloadClientFinished, IInv, TypeOK, State, Kind, UniqueIds
<1>6. \A m \in InFlight(toGuest'[c]) : ToGuestOK(c, m)'
  BY <1>2, <1>4 DEF HandlePreloadClientFinished, IInv, TypeOK, LinkInv,
                    ToGuestOK, Authentic, PreloadFinished
<1>7. LinkInv(c)'
  BY <1>1, <1>2, <1>6 DEF HandlePreloadClientFinished, IInv, TypeOK, LinkInv,
                          ExpectedOK, IdOK, ToHostOK, Authentic
<1>8. ASSUME NEW d \in Conn, d # c PROVE LinkInv(d)'
  <2>1. Untouched(d)
    BY <1>8 DEF HandlePreloadClientFinished, IInv, TypeOK, Untouched
  <2> QED BY <2>1, UntouchedLink
<1> QED BY <1>5, <1>7, <1>8 DEF IInv

(* HostTransceiver::handleTransmission: at most a DotsCacheInfo is sent.   *)
LEMMA HostHandleTransmissionStep ==
  ASSUME IInv, NEW c \in Conn, host[c] # "suspended", toHost[c] # <<>>,
         HostHandleTransmission(c, Head(toHost[c]))
  PROVE  IInv'
<1> DEFINE ms == IF Head(toHost[c]) = Join THEN <<CacheInfo>> ELSE <<>>
<1>1. /\ Tail(toHost[c]) \in Seq(ToHostMsg)
      /\ InFlight(Tail(toHost[c])) \subseteq InFlight(toHost[c])
  BY InFlightHeadTail DEF IInv, TypeOK
<1>2. ms \in Seq(ToGuestMsg) /\ InFlight(ms) \subseteq {CacheInfo}
  <2>1. <<CacheInfo>> \in Seq(ToGuestMsg) /\ <<>> \in Seq(ToGuestMsg)
    BY MessageTypes, EmptySeq
  <2> QED BY <2>1, InFlightSingle, InFlightEmpty
<1> HIDE DEF ms
<1>3. toGuest' = [toGuest EXCEPT ![c] = @ \o SentToGuest(c, ms)]
  BY DEF HostHandleTransmission, ms
<1>4. /\ toGuest'[c] \in Seq(ToGuestMsg)
      /\ InFlight(toGuest'[c]) \subseteq InFlight(toGuest[c]) \cup {CacheInfo}
  <2>1. toGuest'[c] = toGuest[c] \o SentToGuest(c, ms)
    BY <1>3 DEF IInv, TypeOK
  <2>2. InFlight(toGuest[c] \o SentToGuest(c, ms))
            \subseteq InFlight(toGuest[c]) \cup InFlight(ms)
    BY <1>2, SendToGuest DEF IInv
  <2>3. toGuest[c] \o SentToGuest(c, ms) \in Seq(ToGuestMsg)
    BY <1>2, SendToGuest DEF IInv
  <2> QED BY <1>2, <2>1, <2>2, <2>3
<1>5. TypeOK' /\ nextGuestId' >= FirstGuestId /\ UniqueIds'
  BY <1>1, <1>3, <1>4 DEF HostHandleTransmission, IInv, TypeOK, UniqueIds
<1>6. \A m \in InFlight(toGuest'[c]) : ToGuestOK(c, m)'
  BY <1>4 DEF HostHandleTransmission, IInv, TypeOK, LinkInv, ToGuestOK,
              Authentic, CacheInfo
<1>7. LinkInv(c)'
  BY <1>1, <1>6 DEF HostHandleTransmission, IInv, TypeOK, LinkInv,
                    ExpectedOK, IdOK, ToHostOK, Authentic
<1>8. ASSUME NEW d \in Conn, d # c PROVE LinkInv(d)'
  <2>1. Untouched(d)
    BY <1>8 DEF HostHandleTransmission, IInv, TypeOK, Untouched
  <2> QED BY <2>1, UntouchedLink
<1> QED BY <1>5, <1>7, <1>8 DEF IInv

(* HostTransceiver::transmit to a member of a group *)
LEMMA HostTransmitStep ==
  ASSUME IInv, NEW c \in Conn, HostTransmit(c) PROVE IInv'
<1>1. User \in ToGuestMsg
  BY MessageTypes
<1>2. /\ toGuest'[c] \in Seq(ToGuestMsg)
      /\ InFlight(toGuest'[c]) \subseteq InFlight(toGuest[c]) \cup {User}
  BY <1>1, SendOneToGuest DEF HostTransmit, IInv
<1>3. TypeOK' /\ nextGuestId' >= FirstGuestId /\ UniqueIds'
  BY <1>2 DEF HostTransmit, IInv, TypeOK, UniqueIds
<1>4. \A m \in InFlight(toGuest'[c]) : ToGuestOK(c, m)'
  BY <1>2 DEF HostTransmit, IInv, TypeOK, LinkInv, ToGuestOK, Authentic, User
<1>5. LinkInv(c)'
  BY <1>4 DEF HostTransmit, IInv, TypeOK, LinkInv, ExpectedOK, IdOK, ToHostOK,
              Authentic
<1>6. ASSUME NEW d \in Conn, d # c PROVE LinkInv(d)'
  <2>1. Untouched(d)
    BY <1>6 DEF HostTransmit, IInv, TypeOK, Untouched
  <2> QED BY <2>1, UntouchedLink
<1> QED BY <1>3, <1>5, <1>6 DEF IInv

(* Connection::handleHello, when the guest answers *)
LEMMA HandleHelloStep ==
  ASSUME IInv, NEW c \in Conn, toGuest[c] # <<>>, gExpected[c] = "hello",
         ~(Head(toGuest[c]).authenticationRequired /\ secret[c] = "none"),
         HandleHello(c, Head(toGuest[c]))
  PROVE  IInv'
<1>1. /\ Head(toGuest[c]) \in ToGuestMsg
      /\ Head(toGuest[c]) \in InFlight(toGuest[c])
      /\ Tail(toGuest[c]) \in Seq(ToGuestMsg)
      /\ InFlight(Tail(toGuest[c])) \subseteq InFlight(toGuest[c])
  BY InFlightHeadTail DEF IInv, TypeOK
<1>2. host[c] # "suspended"
  BY DEF IInv, LinkInv, IdOK
<1> DEFINE r == IF Head(toGuest[c]).authenticationRequired
               THEN secret[c] ELSE "none"
<1>3. r \in SecretKind /\ (r = "right" => secret[c] = "right")
  BY DEF IInv, TypeOK, SecretKind
<1> HIDE DEF r
<1>4. /\ toHost' = [toHost EXCEPT ![c] = @ \o SentToHost(c, <<Connect(r)>>)]
      /\ gExpected' = [gExpected EXCEPT ![c] = "connectResponse"]
      /\ toGuest' = [toGuest EXCEPT ![c] = Tail(@)]
      /\ UNCHANGED <<host, guest, hExpected, peerId, selfId, nextGuestId,
                     secret, owner, joined, preloaded, broken, asked, hasty>>
  BY DEF HandleHello, r
<1>5. /\ toHost'[c] \in Seq(ToHostMsg)
      /\ InFlight(toHost'[c]) \subseteq InFlight(toHost[c]) \cup {Connect(r)}
  BY <1>3, <1>4, MessageTypes, SendOneToHost DEF IInv
<1>6. TypeOK' /\ nextGuestId' >= FirstGuestId /\ UniqueIds'
  BY <1>1, <1>4, <1>5 DEF IInv, TypeOK, Kind, UniqueIds
<1>7. \A m \in InFlight(toHost'[c]) : ToHostOK(c, m)'
  <2>1. ASSUME NEW m, m = Connect(r) PROVE ToHostOK(c, m)'
    BY <1>3, <1>4, <2>1 DEF ToHostOK, Connect
  <2> QED BY <1>4, <1>5, <2>1 DEF IInv, LinkInv, ToHostOK
<1>8. LinkInv(c)'
  BY <1>1, <1>2, <1>4, <1>7 DEF IInv, TypeOK, LinkInv, ExpectedOK, IdOK,
                                ToGuestOK, Authentic
<1>9. ASSUME NEW d \in Conn, d # c PROVE LinkInv(d)'
  <2>1. Untouched(d)
    BY <1>4, <1>9 DEF IInv, TypeOK, Untouched
  <2> QED BY <2>1, UntouchedLink
<1> QED BY <1>6, <1>8, <1>9 DEF IInv

(* A guest whose preload fails has sent joins and perhaps a                *)
(* preloadClientFinished, and closes.                                      *)
LEMMA PreloadFailsStep ==
  ASSUME IInv, NEW c \in Conn, NEW m, m.clientId \in Nat,
         guest[c] # "suspended", PreloadFails(c, m)
  PROVE  IInv'
<1>1. PICK sent \in 0..Missing(c) :
      \E entered \in sent..sent + 1, finished \in BOOLEAN :
        /\ entered <= Missing(c)
        /\ joined' = [joined EXCEPT ![owner[c]] = @ + entered]
        /\ asked' = [asked EXCEPT ![c] = entered]
        /\ toHost' = [toHost EXCEPT ![c] = @ \o SentToHost(c,
               SubSeq(Subscriptions(c), 1, sent) \o
                   IF finished THEN <<PreloadClientFinished>> ELSE <<>>)]
  BY DEF PreloadFails
<1>2. PICK entered \in sent..sent + 1, finished \in BOOLEAN :
        /\ entered <= Missing(c)
        /\ joined' = [joined EXCEPT ![owner[c]] = @ + entered]
        /\ asked' = [asked EXCEPT ![c] = entered]
        /\ toHost' = [toHost EXCEPT ![c] = @ \o SentToHost(c,
               SubSeq(Subscriptions(c), 1, sent) \o
                   IF finished THEN <<PreloadClientFinished>> ELSE <<>>)]
  BY <1>1
<1> DEFINE joins == SubSeq(Subscriptions(c), 1, sent)
           last == IF finished THEN <<PreloadClientFinished>> ELSE <<>>
           ms == joins \o last
<1>3. joins \in Seq(ToHostMsg) /\ InFlight(joins) \subseteq {Join}
  <2>1. sent \in 0..Len(Subscriptions(c))
    BY SubscriptionsType DEF IInv
  <2> QED BY <2>1, SubscriptionsType, InFlightPrefix DEF IInv
<1>4. last \in Seq(ToHostMsg) /\ InFlight(last) \subseteq {PreloadClientFinished}
  <2>1. <<PreloadClientFinished>> \in Seq(ToHostMsg)
        /\ InFlight(<<PreloadClientFinished>>) = {PreloadClientFinished}
    BY MessageTypes, InFlightSingle
  <2>2. <<>> \in Seq(ToHostMsg) /\ InFlight(<<>>) = {}
    BY EmptySeq, InFlightEmpty
  <2> QED BY <2>1, <2>2
<1> HIDE DEF joins, last
<1>5. ms \in Seq(ToHostMsg) /\ \A n \in InFlight(ms) : n.kind # "connect"
  <2>1. ms \in Seq(ToHostMsg)
        /\ InFlight(ms) \subseteq {Join, PreloadClientFinished}
    BY <1>3, <1>4, InFlightConcat
  <2> QED BY <2>1 DEF Join, PreloadClientFinished
<1>6. toHost' = [toHost EXCEPT ![c] = @ \o SentToHost(c, ms)]
  BY <1>2 DEF joins, last
<1> HIDE DEF ms
<1>7. /\ joined' \in [Guest -> 0..PreloadTypes]
      /\ asked' \in [Conn -> 0..PreloadTypes]
  <2>1. /\ Missing(c) \in 0..PreloadTypes
        /\ joined[owner[c]] + Missing(c) = PreloadTypes
        /\ PreloadTypes \in Nat /\ joined[owner[c]] \in 0..PreloadTypes
    BY SubscriptionsType, ConnectionAssumption DEF IInv, TypeOK
  <2>2. sent \in 0..Missing(c) /\ entered \in sent..sent + 1
        /\ entered <= Missing(c)
    BY <1>1, <1>2
  <2>3. /\ entered \in 0..PreloadTypes
        /\ joined[owner[c]] + entered \in 0..PreloadTypes
    BY <2>1, <2>2
  <2> QED BY <1>2, <2>3 DEF IInv, TypeOK
<1>8. /\ selfId' \in [Conn -> Nat]
      /\ \A d \in Conn \ {c} : selfId'[d] = selfId[d]
  BY DEF PreloadFails, IInv, TypeOK
<1>9. GuestClosed(c)
  BY DEF PreloadFails
<1> QED BY <1>5, <1>6, <1>7, <1>8, <1>9, GuestErrorStep

(* Connection::handleAuthorizationRequest: the response carries the id of  *)
(* the host's end and leads to early_subscribe.                            *)
LEMMA HandleAuthorizationRequestStep ==
  ASSUME IInv, NEW c \in Conn, toGuest[c] # <<>>,
         Head(toGuest[c]).kind = "connectResponse",
         gExpected[c] = "connectResponse",
         HandleAuthorizationRequest(c, Head(toGuest[c])),
         ~PreloadFails(c, Head(toGuest[c]))
  PROVE  IInv'
<1>1. /\ Head(toGuest[c]) \in ToGuestMsg
      /\ Head(toGuest[c]) \in InFlight(toGuest[c])
      /\ Tail(toGuest[c]) \in Seq(ToGuestMsg)
      /\ InFlight(Tail(toGuest[c])) \subseteq InFlight(toGuest[c])
  BY InFlightHeadTail DEF IInv, TypeOK
<1>2. host[c] # "suspended"
  BY DEF IInv, LinkInv, IdOK
<1>3. Head(toGuest[c]).preload /\ Head(toGuest[c]).clientId = peerId[c]
  BY <1>1 DEF IInv, LinkInv, ToGuestOK
<1>4. guest[c] = "connecting" /\ peerId[c] \in Nat
  BY DEF IInv, TypeOK, LinkInv, ExpectedOK
<1> DEFINE ms == Append(Subscriptions(c), PreloadClientFinished)
<1>5. ms \in Seq(ToHostMsg) /\ \A m \in InFlight(ms) : m.kind # "connect"
  <2> DEFINE last == <<PreloadClientFinished>>
  <2>0. /\ Subscriptions(c) \in Seq(ToHostMsg)
        /\ InFlight(Subscriptions(c)) \subseteq {Join}
    BY SubscriptionsType DEF IInv
  <2>1. /\ ms = Subscriptions(c) \o last
        /\ last \in Seq(ToHostMsg)
        /\ InFlight(last) = {PreloadClientFinished}
    BY <2>0, MessageTypes, InFlightSingle, AppendIsConcat
  <2> HIDE DEF last, ms
  <2>2. /\ ms \in Seq(ToHostMsg)
        /\ InFlight(ms) \subseteq {Join, PreloadClientFinished}
    BY <2>0, <2>1, InFlightConcat
  <2> QED BY <2>2 DEF Join, PreloadClientFinished
<1> HIDE DEF ms
<1>6. /\ selfId' = [selfId EXCEPT ![c] = peerId[c]]
      /\ guest' = [guest EXCEPT ![c] = "early_subscribe"]
      /\ toHost' = [toHost EXCEPT ![c] = @ \o SentToHost(c, ms)]
      /\ gExpected' = [gExpected EXCEPT ![c] = "preloadFinished"]
      /\ toGuest' = [toGuest EXCEPT ![c] = Tail(@)]
      /\ joined' = [joined EXCEPT ![owner[c]] = PreloadTypes]
      /\ asked' = [asked EXCEPT ![c] = Missing(c)]
      /\ UNCHANGED <<host, hExpected, peerId, nextGuestId, secret, owner,
                     preloaded, broken, hasty>>
  BY <1>3 DEF HandleAuthorizationRequest, ms
<1>7. /\ toHost'[c] \in Seq(ToHostMsg)
      /\ InFlight(toHost'[c]) \subseteq InFlight(toHost[c]) \cup InFlight(ms)
  <2>1. toHost'[c] = toHost[c] \o SentToHost(c, ms)
    BY <1>6 DEF IInv, TypeOK
  <2> QED BY <1>5, <2>1, SendToHost DEF IInv
<1>8. TypeOK' /\ nextGuestId' >= FirstGuestId /\ UniqueIds'
  <2>1. PreloadTypes \in Nat /\ Missing(c) \in 0..PreloadTypes
    BY SubscriptionsType, ConnectionAssumption DEF IInv
  <2>2. /\ joined' \in [Guest -> 0..PreloadTypes]
        /\ asked' \in [Conn -> 0..PreloadTypes]
    BY <1>6, <2>1 DEF IInv, TypeOK
  <2>3. /\ toHost' \in [Conn -> Seq(ToHostMsg)]
        /\ toGuest' \in [Conn -> Seq(ToGuestMsg)]
    BY <1>1, <1>6, <1>7 DEF IInv, TypeOK
  <2>4. /\ guest' \in [Conn -> State] /\ gExpected' \in [Conn -> Kind]
        /\ selfId' \in [Conn -> Nat]
    BY <1>4, <1>6 DEF IInv, TypeOK, State, Kind
  <2> QED BY <1>6, <2>2, <2>3, <2>4 DEF IInv, TypeOK, UniqueIds
<1>9. \A m \in InFlight(toHost'[c]) : ToHostOK(c, m)'
  BY <1>5, <1>6, <1>7 DEF IInv, LinkInv, ToHostOK
<1>10. LinkInv(c)'
  BY <1>1, <1>2, <1>4, <1>6, <1>9
  DEF IInv, TypeOK, LinkInv, ExpectedOK, IdOK, ToGuestOK, Authentic
<1>11. ASSUME NEW d \in Conn, d # c PROVE LinkInv(d)'
  <2>1. Untouched(d)
    BY <1>6, <1>11 DEF IInv, TypeOK, Untouched
  <2> QED BY <2>1, UntouchedLink
<1> QED BY <1>8, <1>10, <1>11 DEF IInv

(* Connection::handlePreloadFinished: the message proves that the host's   *)
(* end is connected and that the guest was authentic.                      *)
LEMMA HandlePreloadFinishedStep ==
  ASSUME IInv, NEW c \in Conn, toGuest[c] # <<>>,
         Head(toGuest[c]).kind = "preloadFinished",
         gExpected[c] = "preloadFinished", HandlePreloadFinished(c)
  PROVE  IInv'
<1>1. /\ Head(toGuest[c]) \in ToGuestMsg
      /\ Head(toGuest[c]) \in InFlight(toGuest[c])
      /\ Tail(toGuest[c]) \in Seq(ToGuestMsg)
      /\ InFlight(Tail(toGuest[c])) \subseteq InFlight(toGuest[c])
  BY InFlightHeadTail DEF IInv, TypeOK
<1>2. host[c] # "suspended"
  BY DEF IInv, LinkInv, IdOK
<1>3. host[c] \in {"connected", "closed"} /\ Authentic(c)
  BY <1>1 DEF IInv, LinkInv, ToGuestOK
<1>4. guest[c] = "early_subscribe"
  BY DEF IInv, LinkInv, ExpectedOK
<1>5. TypeOK' /\ nextGuestId' >= FirstGuestId /\ UniqueIds'
  BY <1>1 DEF HandlePreloadFinished, IInv, TypeOK, State, Kind, UniqueIds
<1>6. LinkInv(c)'
  BY <1>1, <1>2, <1>3, <1>4
  DEF HandlePreloadFinished, IInv, TypeOK, LinkInv, ExpectedOK, IdOK,
      ToGuestOK, ToHostOK, Authentic
<1>7. ASSUME NEW d \in Conn, d # c PROVE LinkInv(d)'
  <2>1. Untouched(d)
    BY <1>7 DEF HandlePreloadFinished, IInv, TypeOK, Untouched
  <2> QED BY <2>1, UntouchedLink
<1> QED BY <1>5, <1>6, <1>7 DEF IInv

(* GuestTransceiver::handleTransmission *)
LEMMA GuestHandleTransmissionStep ==
  ASSUME IInv, NEW c \in Conn, toGuest[c] # <<>>,
         GuestHandleTransmission(c, Head(toGuest[c]))
  PROVE  IInv'
<1>1. /\ Head(toGuest[c]) \in ToGuestMsg
      /\ Head(toGuest[c]) \in InFlight(toGuest[c])
      /\ Tail(toGuest[c]) \in Seq(ToGuestMsg)
      /\ InFlight(Tail(toGuest[c])) \subseteq InFlight(toGuest[c])
  BY InFlightHeadTail DEF IInv, TypeOK
<1>2. host[c] # "suspended"
  BY DEF IInv, LinkInv, IdOK
<1>3. TypeOK' /\ nextGuestId' >= FirstGuestId /\ UniqueIds'
  BY <1>1 DEF GuestHandleTransmission, IInv, TypeOK, UniqueIds
<1>4. LinkInv(c)'
  BY <1>1, <1>2 DEF GuestHandleTransmission, IInv, TypeOK, LinkInv, ExpectedOK, IdOK,
      ToGuestOK, ToHostOK, Authentic
<1>5. ASSUME NEW d \in Conn, d # c PROVE LinkInv(d)'
  <2>1. Untouched(d)
    BY <1>5 DEF GuestHandleTransmission, IInv, TypeOK, Untouched
  <2> QED BY <2>1, UntouchedLink
<1> QED BY <1>3, <1>4, <1>5 DEF IInv

(* GuestTransceiver::publish *)
LEMMA GuestPublishStep ==
  ASSUME IInv, NEW c \in Conn, GuestPublish(c) PROVE IInv'
<1>1. /\ toHost'[c] \in Seq(ToHostMsg)
      /\ InFlight(toHost'[c]) \subseteq InFlight(toHost[c]) \cup {User}
  BY MessageTypes, SendOneToHost DEF GuestPublish, IInv
<1>2. TypeOK' /\ nextGuestId' >= FirstGuestId /\ UniqueIds'
  BY <1>1 DEF GuestPublish, IInv, TypeOK, UniqueIds
<1>3. \A m \in InFlight(toHost'[c]) : ToHostOK(c, m)'
  BY <1>1 DEF GuestPublish, IInv, LinkInv, ToHostOK, User
<1>4. LinkInv(c)'
  BY <1>3 DEF GuestPublish, IInv, TypeOK, LinkInv, ExpectedOK, IdOK,
              ToGuestOK, Authentic
<1>5. ASSUME NEW d \in Conn, d # c PROVE LinkInv(d)'
  <2>1. Untouched(d)
    BY <1>5 DEF GuestPublish, IInv, TypeOK, Untouched
  <2> QED BY <2>1, UntouchedLink
<1> QED BY <1>2, <1>4, <1>5 DEF IInv

(* The transport breaks: what remains in flight was in flight before.      *)
LEMMA BreakStep ==
  ASSUME IInv, NEW c \in Conn, Break(c) PROVE IInv'
<1>1. PICK h \in 0..Len(toHost[c]), g \in 0..Len(toGuest[c]) :
        /\ toHost' = [toHost EXCEPT ![c] = SubSeq(@, 1, h)]
        /\ toGuest' = [toGuest EXCEPT ![c] = SubSeq(@, 1, g)]
  BY DEF Break
<1>2. /\ SubSeq(toHost[c], 1, h) \in Seq(ToHostMsg)
      /\ InFlight(SubSeq(toHost[c], 1, h)) \subseteq InFlight(toHost[c])
  BY InFlightPrefix DEF IInv, TypeOK
<1>3. /\ SubSeq(toGuest[c], 1, g) \in Seq(ToGuestMsg)
      /\ InFlight(SubSeq(toGuest[c], 1, g)) \subseteq InFlight(toGuest[c])
      /\ toGuest[c] = <<>> => SubSeq(toGuest[c], 1, g) = <<>>
  <2>1. toGuest[c] = <<>> => g = 0
    OBVIOUS
  <2>2. SubSeq(toGuest[c], 1, 0) = <<>>
    BY SubSeqEmpty
  <2> QED BY <2>1, <2>2, InFlightPrefix DEF IInv, TypeOK
<1>4. TypeOK' /\ nextGuestId' >= FirstGuestId /\ UniqueIds'
  BY <1>1, <1>2, <1>3 DEF Break, IInv, TypeOK, UniqueIds
<1>5. LinkInv(c)'
  BY <1>1, <1>2, <1>3 DEF Break, IInv, TypeOK, LinkInv, ExpectedOK, IdOK,
      ToGuestOK, ToHostOK, Authentic
<1>6. ASSUME NEW d \in Conn, d # c PROVE LinkInv(d)'
  <2>1. Untouched(d)
    BY <1>1, <1>6 DEF Break, IInv, TypeOK, Untouched
  <2> QED BY <2>1, UntouchedLink
<1> QED BY <1>4, <1>5, <1>6 DEF IInv

-----------------------------------------------------------------------------
(* Every way in which the host's end closes keeps the invariant.          *)
LEMMA HostCloseStep ==
  ASSUME IInv, NEW c \in Conn, host[c] # "suspended",
         \/ HostError(c, <<>>)
         \/ HostGone(c)
         \/ HostClose(c) /\ UNCHANGED toGuest
  PROVE  IInv'
<1>1. HostClose(c)
  BY DEF HostError, HostGone
<1>2. ASSUME NEW e \in {0, 1}
      PROVE  /\ <<Error(e)>> \in Seq(ToGuestMsg)
             /\ \A m \in InFlight(<<Error(e)>>) : m.kind = "error"
  <2>1. Error(e) \in ToGuestMsg /\ Error(e).kind = "error"
    BY DEF ToGuestMsg, Error
  <2> QED BY <2>1, InFlightSingle
<1>3. <<>> \in Seq(ToGuestMsg) /\ InFlight(<<>>) = {}
  BY EmptySeq, InFlightEmpty
<1>4. PICK ms \in {<<>>, <<Error(0)>>, <<Error(1)>>} :
        toGuest' = [toGuest EXCEPT ![c] = @ \o SentToGuest(c, ms)]
  <2>1. CASE HostClose(c) /\ UNCHANGED toGuest
    <3>1. toGuest[c] \o <<>> = toGuest[c]
      BY ConcatEmptySeq DEF IInv, TypeOK
    <3> QED BY <2>1, <3>1 DEF IInv, TypeOK, SentToGuest
  <2>2. CASE HostGone(c)
    BY <2>2 DEF HostGone
  <2>3. CASE HostError(c, <<>>)
    BY <2>3, Append(<<>>, Error(1)) = <<Error(1)>> DEF HostError
  <2> QED BY <2>1, <2>2, <2>3
<1>5. /\ ms \in Seq(ToGuestMsg)
      /\ \A m \in InFlight(ms) : m.kind = "error"
  BY <1>2, <1>3, <1>4
<1> QED BY <1>1, <1>4, <1>5, HostErrorStep DEF ToGuestOK

(* Every way in which the guest's end closes keeps the invariant.          *)
LEMMA GuestCloseStep ==
  ASSUME IInv, NEW c \in Conn, guest[c] # "suspended",
         \/ GuestError(c)
         \/ GuestGone(c)
         \/ GuestClose(c) /\ UNCHANGED toHost
  PROVE  IInv'
<1>1. GuestClosed(c)
  BY DEF GuestError, GuestGone, GuestClose
<1>2. ASSUME NEW e \in {0, 1}
      PROVE  /\ <<Error(e)>> \in Seq(ToHostMsg)
             /\ \A m \in InFlight(<<Error(e)>>) : m.kind = "error"
  <2>1. Error(e) \in ToHostMsg /\ Error(e).kind = "error"
    BY DEF ToHostMsg, Error
  <2> QED BY <2>1, InFlightSingle
<1>3. <<>> \in Seq(ToHostMsg) /\ InFlight(<<>>) = {}
  BY EmptySeq, InFlightEmpty
<1>4. PICK ms \in {<<>>, <<Error(0)>>, <<Error(1)>>} :
        toHost' = [toHost EXCEPT ![c] = @ \o SentToHost(c, ms)]
  <2>1. CASE GuestClose(c) /\ UNCHANGED toHost
    <3>1. toHost[c] \o <<>> = toHost[c]
      BY ConcatEmptySeq DEF IInv, TypeOK
    <3> QED BY <2>1, <3>1 DEF IInv, TypeOK, SentToHost
  <2>2. CASE GuestGone(c)
    BY <2>2 DEF GuestGone
  <2>3. CASE GuestError(c)
    BY <2>3 DEF GuestError
  <2> QED BY <2>1, <2>2, <2>3
<1>5. /\ ms \in Seq(ToHostMsg)
      /\ \A m \in InFlight(ms) : m.kind = "error"
  BY <1>2, <1>3, <1>4
<1>6. /\ selfId' \in [Conn -> Nat]
      /\ \A d \in Conn \ {c} : selfId'[d] = selfId[d]
      /\ asked' \in [Conn -> 0..PreloadTypes]
  BY DEF GuestError, GuestGone, GuestClose, IInv, TypeOK
<1>7. joined' \in [Guest -> 0..PreloadTypes]
  <2>1. 0 \in 0..PreloadTypes
    BY ConnectionAssumption
  <2> QED BY <2>1 DEF GuestError, GuestGone, GuestClose, IInv, TypeOK
<1> QED BY <1>1, <1>4, <1>5, <1>6, <1>7, GuestErrorStep

(* Connection::handleReceive at the host *)
LEMMA HostReceiveStep ==
  ASSUME IInv, NEW c \in Conn, HostReceive(c) PROVE IInv'
<1> DEFINE m == Head(toHost[c])
<1>1. host[c] # "suspended" /\ toHost[c] # <<>>
  BY DEF HostReceive
<1>2. CASE m.kind = "error"
  <2>1. HostPeerError(c, m)
    BY <1>2 DEF HostReceive, SystemKind, Kind
  <2> QED BY <1>1, <2>1, HostCloseStep DEF HostPeerError
<1>3. CASE m.kind = "connect" /\ hExpected[c] = "connect"
  <2>1. HandleConnect(c, m)
    BY <1>3 DEF HostReceive, SystemKind, Kind
  <2> QED BY <1>1, <1>3, <2>1, HandleConnectStep
<1>4. CASE m.kind = "preloadClientFinished"
           /\ hExpected[c] = "preloadClientFinished"
  <2>1. HandlePreloadClientFinished(c)
    BY <1>4 DEF HostReceive, SystemKind, Kind
  <2> QED BY <1>1, <1>4, <2>1, HandlePreloadClientFinishedStep
<1>5. CASE ~SystemKind(m) /\ host[c] \in {"early_subscribe", "connected"}
  <2>1. HostHandleTransmission(c, m)
    BY <1>5 DEF HostReceive, SystemKind, Kind
  <2> QED BY <1>1, <2>1, HostHandleTransmissionStep
<1>6. CASE /\ m.kind # "error"
           /\ ~(m.kind = "connect" /\ hExpected[c] = "connect")
           /\ ~(m.kind = "preloadClientFinished"
                 /\ hExpected[c] = "preloadClientFinished")
           /\ ~(~SystemKind(m) /\ host[c] \in {"early_subscribe", "connected"})
  <2>1. HostError(c, <<>>)
    BY <1>6 DEF HostReceive
  <2> QED BY <1>1, <2>1, HostCloseStep
<1> QED BY <1>2, <1>3, <1>4, <1>5, <1>6

(* Connection::handleReceive at the guest *)
LEMMA GuestReceiveStep ==
  ASSUME IInv, NEW c \in Conn, GuestReceive(c) PROVE IInv'
<1> DEFINE m == Head(toGuest[c])
<1>1. guest[c] # "suspended" /\ toGuest[c] # <<>>
  BY DEF GuestReceive
<1>2. CASE m.kind = "error"
  <2>1. GuestPeerError(c, m)
    BY <1>2 DEF GuestReceive, SystemKind, Kind
  <2> QED BY <1>1, <2>1, GuestCloseStep DEF GuestPeerError
<1>3. CASE m.kind = "hello" /\ gExpected[c] = "hello"
  <2>1. HandleHello(c, m)
    BY <1>3 DEF GuestReceive, SystemKind, Kind
  <2>2. CASE m.authenticationRequired /\ secret[c] = "none"
    BY <1>1, <2>1, <2>2, GuestCloseStep DEF HandleHello
  <2>3. CASE ~(m.authenticationRequired /\ secret[c] = "none")
    BY <1>1, <1>3, <2>1, <2>3, HandleHelloStep
  <2> QED BY <2>2, <2>3
<1>4. CASE m.kind = "connectResponse" /\ gExpected[c] = "connectResponse"
  <2>1. HandleAuthorizationRequest(c, m)
    BY <1>4 DEF GuestReceive, SystemKind, Kind
  <2>2. CASE PreloadFails(c, m)
    <3>1. m.clientId \in Nat
      BY <1>1, <1>4, InFlightHeadTail, ConnectResponseFields DEF IInv, TypeOK
    <3> QED BY <1>1, <2>2, <3>1, PreloadFailsStep
  <2>3. CASE ~PreloadFails(c, m)
    BY <1>1, <1>4, <2>1, <2>3, HandleAuthorizationRequestStep
  <2> QED BY <2>2, <2>3
<1>5. CASE m.kind = "preloadFinished" /\ gExpected[c] = "preloadFinished"
  <2>1. HandlePreloadFinished(c)
    BY <1>5 DEF GuestReceive, SystemKind, Kind
  <2> QED BY <1>1, <1>5, <2>1, HandlePreloadFinishedStep
<1>6. CASE ~SystemKind(m) /\ guest[c] \in {"early_subscribe", "connected"}
  <2>1. GuestHandleTransmission(c, m)
    BY <1>6 DEF GuestReceive, SystemKind, Kind
  <2> QED BY <1>1, <2>1, GuestHandleTransmissionStep
<1>7. CASE /\ m.kind # "error"
           /\ ~(m.kind = "hello" /\ gExpected[c] = "hello")
           /\ ~(m.kind = "connectResponse" /\ gExpected[c] = "connectResponse")
           /\ ~(m.kind = "preloadFinished" /\ gExpected[c] = "preloadFinished")
           /\ ~(~SystemKind(m) /\ guest[c] \in {"early_subscribe", "connected"})
  <2>1. GuestError(c)
    BY <1>7 DEF GuestReceive
  <2> QED BY <1>1, <2>1, GuestCloseStep
<1> QED BY <1>2, <1>3, <1>4, <1>5, <1>6, <1>7

(* Every step keeps the invariant.                                         *)
LEMMA NextIInv == IInv /\ [Next]_vars => IInv'
<1> SUFFICES ASSUME IInv, [Next]_vars PROVE IInv'
  OBVIOUS
<1>1. CASE UNCHANGED vars
  BY <1>1 DEF vars, IInv, TypeOK, LinkInv, ExpectedOK, IdOK, ToGuestOK,
              ToHostOK, Authentic, UniqueIds
<1>2. ASSUME NEW c \in Conn,
             \/ Open(c) \/ Accept(c) \/ Break(c)
             \/ HostReceive(c) \/ HostTransmit(c)
             \/ GuestReceive(c) \/ GuestPublish(c)
      PROVE  IInv'
  BY <1>2, OpenStep, AcceptStep, BreakStep, HostReceiveStep, HostTransmitStep,
     GuestReceiveStep, GuestPublishStep
<1>3. ASSUME NEW c \in Conn,
             HostReadError(c) \/ HostDirty(c) \/ HostDestroy(c)
      PROVE  IInv'
  BY <1>3, HostCloseStep DEF HostReadError, HostDirty, HostDestroy
<1>4. ASSUME NEW c \in Conn,
             GuestReadError(c) \/ GuestPublishFails(c) \/ GuestDestroy(c)
      PROVE  IInv'
  BY <1>4, GuestCloseStep DEF GuestReadError, GuestPublishFails, GuestDestroy
<1> QED BY <1>1, <1>2, <1>3, <1>4 DEF Next, Done

-----------------------------------------------------------------------------
(* Theorems *)

(* The inductive invariant is an invariant.                                *)
THEOREM Invariance == Spec => []IInv
  BY InitIInv, NextIInv, PTL DEF Spec

(* Type correctness of both ends, the queues and the id counter.           *)
THEOREM TypeCorrect == Spec => []TypeOK
<1>1. IInv => TypeOK
  BY DEF IInv
<1> QED BY <1>1, Invariance, PTL

(* A guest is connected only after its host's end has become connected,    *)
(* whatever is lost, closed or sent in between.                            *)
THEOREM Agreement == Spec => []ConnectedAgreement
<1>1. IInv => ConnectedAgreement
  BY DEF IInv, LinkInv, ConnectedAgreement
<1> QED BY <1>1, Invariance, PTL

(* A guest that cannot authenticate is never connected, and never gets the *)
(* host's end past connecting, for any number of connections.              *)
THEOREM Rejection == Spec => []RejectedNeverConnected
<1>1. IInv => RejectedNeverConnected
  BY DEF IInv, LinkInv, Authentic, RejectedNeverConnected
<1> QED BY <1>1, Invariance, PTL

(* A guest goes by the id of its own host end, and ids are never shared.   *)
THEOREM Identity == Spec => []IdAgreement
<1>1. IInv => IdAgreement
  <2> SUFFICES ASSUME IInv PROVE IdAgreement
    OBVIOUS
  <2>1. ASSUME NEW c \in Conn, guest[c] \in {"early_subscribe", "connected"}
        PROVE  selfId[c] = peerId[c] /\ selfId[c] >= FirstGuestId
    BY <2>1 DEF IInv, LinkInv, IdOK
  <2> QED BY <2>1 DEF IInv, UniqueIds, IdAgreement
<1> QED BY <1>1, Invariance, PTL

(* The ranks of the connection states, as numbers.                         *)
LEMMA RankOrder ==
  /\ Rank("suspended") = 0 /\ Rank("connecting") = 1
  /\ Rank("early_subscribe") = 2 /\ Rank("connected") = 3
  /\ Rank("closed") = 4
  /\ \A s \in State : Rank(s) \in 0..4
  BY DEF Rank, State

(* Neither end's state ever moves backwards, and closed is final: a step   *)
(* leaves it alone, moves it one stage on, or closes it.                   *)
THEOREM Forward == Spec => StateMovesForward
<1> DEFINE Fwd(c) == /\ Rank(host'[c]) >= Rank(host[c])
                     /\ Rank(guest'[c]) >= Rank(guest[c])
<1>1. ASSUME IInv, [Next]_vars, NEW d \in Conn PROVE Fwd(d)
  <2>1. host[d] \in State /\ guest[d] \in State
    BY <1>1 DEF IInv, TypeOK
  <2>2. CASE host'[d] = host[d] /\ guest'[d] = guest[d]
    BY <2>1, <2>2, RankOrder
  <2>3. ASSUME NEW c \in Conn, HostClose(c) \/ GuestClosed(c) PROVE Fwd(d)
    <3>1. /\ host'[d] = host[d] \/ host'[d] = "closed"
          /\ guest'[d] = guest[d] \/ guest'[d] = "closed"
      BY <1>1, <2>3 DEF HostClose, GuestClosed, IInv, TypeOK
    <3> QED BY <2>1, <3>1, RankOrder
  <2>4. ASSUME NEW c \in Conn, Open(c) \/ Accept(c) PROVE Fwd(d)
    <3>1. /\ \/ host'[d] = host[d]
             \/ (host[d] = "suspended" /\ host'[d] = "connecting")
          /\ \/ guest'[d] = guest[d]
             \/ (guest[d] = "suspended" /\ guest'[d] = "connecting")
      BY <1>1, <2>4 DEF Open, Accept, IInv, TypeOK
    <3> QED BY <2>1, <3>1, RankOrder
  <2>5. ASSUME NEW c \in Conn,
               Break(c) \/ HostTransmit(c) \/ GuestPublish(c)
        PROVE  Fwd(d)
    BY <2>1, <2>2, <2>5 DEF Break, HostTransmit, GuestPublish
  <2>6. ASSUME NEW c \in Conn, HostReceive(c) PROVE Fwd(d)
    <3>1. \/ HostClose(c)
          \/ HandleConnect(c, Head(toHost[c])) /\ hExpected[c] = "connect"
          \/ HandlePreloadClientFinished(c)
              /\ hExpected[c] = "preloadClientFinished"
          \/ HostHandleTransmission(c, Head(toHost[c]))
      BY <2>6 DEF HostReceive, HostPeerError, HostError
    <3>2. CASE HostClose(c)
      BY <2>3, <3>2
    <3>3. CASE /\ HandleConnect(c, Head(toHost[c]))
               /\ hExpected[c] = "connect" /\ ~HostClose(c)
      <4>1. /\ host[c] = "connecting" /\ UNCHANGED guest
            /\ host' = [host EXCEPT ![c] =
                   IF Head(toHost[c]).preloadCache THEN "early_subscribe"
                                                   ELSE "connected"]
        BY <1>1, <3>3
        DEF HandleConnect, HostError, IInv, LinkInv, ExpectedOK
      <4>2. \/ host'[d] = host[d]
            \/ (/\ host[d] = "connecting"
                /\ host'[d] \in {"early_subscribe", "connected"})
        BY <1>1, <4>1 DEF IInv, TypeOK
      <4> QED BY <2>1, <4>1, <4>2, RankOrder
    <3>4. CASE /\ HandlePreloadClientFinished(c)
               /\ hExpected[c] = "preloadClientFinished"
      <4>1. /\ UNCHANGED guest
            /\ \/ host'[d] = host[d]
               \/ (host[d] = "early_subscribe" /\ host'[d] = "connected")
        BY <1>1, <3>4
        DEF HandlePreloadClientFinished, IInv, TypeOK, LinkInv, ExpectedOK
      <4> QED BY <2>1, <4>1, RankOrder
    <3>5. CASE HostHandleTransmission(c, Head(toHost[c]))
      BY <2>2, <3>5 DEF HostHandleTransmission
    <3> QED BY <3>1, <3>2, <3>3, <3>4, <3>5
  <2>7. ASSUME NEW c \in Conn, GuestReceive(c) PROVE Fwd(d)
    <3>1. \/ GuestClosed(c)
          \/ HandleHello(c, Head(toGuest[c]))
          \/ HandleAuthorizationRequest(c, Head(toGuest[c]))
              /\ gExpected[c] = "connectResponse"
          \/ HandlePreloadFinished(c) /\ gExpected[c] = "preloadFinished"
          \/ GuestHandleTransmission(c, Head(toGuest[c]))
      BY <2>7 DEF GuestReceive, GuestPeerError, GuestError, GuestClose
    <3>2. CASE GuestClosed(c)
      BY <2>3, <3>2
    <3>3. CASE HandleHello(c, Head(toGuest[c])) /\ ~GuestClosed(c)
      BY <2>2, <3>3 DEF HandleHello, GuestError, GuestClose
    <3>4. CASE /\ HandleAuthorizationRequest(c, Head(toGuest[c]))
               /\ gExpected[c] = "connectResponse" /\ ~GuestClosed(c)
      <4>1. /\ UNCHANGED host
            /\ \/ guest'[d] = guest[d]
               \/ (/\ guest[d] = "connecting"
                   /\ guest'[d] \in {"early_subscribe", "connected"})
        BY <1>1, <3>4
        DEF HandleAuthorizationRequest, PreloadFails, IInv, TypeOK, LinkInv,
            ExpectedOK
      <4> QED BY <2>1, <4>1, RankOrder
    <3>5. CASE HandlePreloadFinished(c) /\ gExpected[c] = "preloadFinished"
      <4>1. /\ UNCHANGED host
            /\ \/ guest'[d] = guest[d]
               \/ (guest[d] = "early_subscribe" /\ guest'[d] = "connected")
        BY <1>1, <3>5
        DEF HandlePreloadFinished, IInv, TypeOK, LinkInv, ExpectedOK
      <4> QED BY <2>1, <4>1, RankOrder
    <3>6. CASE GuestHandleTransmission(c, Head(toGuest[c]))
      BY <2>2, <3>6 DEF GuestHandleTransmission
    <3> QED BY <3>1, <3>2, <3>3, <3>4, <3>5, <3>6
  <2>8. ASSUME NEW c \in Conn,
               \/ HostReadError(c) \/ HostDirty(c) \/ HostDestroy(c)
               \/ GuestReadError(c) \/ GuestPublishFails(c) \/ GuestDestroy(c)
        PROVE  Fwd(d)
    BY <2>3, <2>8 DEF HostReadError, HostDirty, HostDestroy, GuestReadError,
                      GuestPublishFails, GuestDestroy, HostError, HostGone,
                      GuestError, GuestGone, GuestClose
  <2>9. CASE UNCHANGED vars
    BY <2>2, <2>9 DEF vars
  <2> HIDE DEF Fwd
  <2> QED BY <1>1, <2>4, <2>5, <2>6, <2>7, <2>8, <2>9 DEF Next, Done
<1>2. IInv /\ [Next]_vars => [\A c \in Conn : Fwd(c)]_vars
  BY <1>1
<1> QED BY <1>2, Invariance, PTL DEF Spec, StateMovesForward

-----------------------------------------------------------------------------
(* The order of the handshake's messages.  What a queue holds is related   *)
(* to the states of both ends and to what has been preloaded; the          *)
(* predicates take these values as arguments, so that a step is reasoned   *)
(* about by the values it leaves behind.                                   *)

(* How many of the first n messages of a queue are of one kind.            *)
Positions(q, n, k) == {j \in 1..n : q[j].kind = k}
CountOf(q, n, k) == Cardinality(Positions(q, n, k))

(* A message of one kind is among the first n.                             *)
Carries(q, n, k) == \E j \in 1..n : q[j].kind = k

(* States, expectations and queues that go together, at the host (h) and   *)
(* at the guest (g), which has asked for ask containers and received pre.  *)
Stage(h, g, he, ge, br, pre, ask, qh, qg) ==
  /\ h = "connecting" <=> he = "connect"
  /\ h = "early_subscribe" <=> he = "preloadClientFinished"
  /\ g = "connecting" <=> ge \in {"hello", "connectResponse"}
  /\ g = "early_subscribe" <=> ge = "preloadFinished"
  /\ g = "suspended" => h = "suspended" /\ qh = <<>>
  /\ h = "suspended" =>
         /\ qg = <<>>
         /\ g \in {"suspended", "connecting", "closed"}
         /\ ge # "connectResponse"
  /\ ge = "hello" => h \in {"suspended", "connecting", "closed"}
  /\ ge = "connectResponse" =>
         /\ h = "connecting" => qg = <<>> /\ (br \/ Carries(qh, Len(qh), "connect"))
         /\ h \in {"early_subscribe", "connected"} /\ ~br => qg # <<>>
  /\ g = "early_subscribe" => h \in {"early_subscribe", "connected", "closed"}
  /\ g = "connected" => h \in {"connected", "closed"} /\ pre >= ask
  /\ g = "closed" => qg = <<>>
  /\ h = "closed" => qh = <<>>

(* Where the i-th message on its way to the guest may stand.  The answer   *)
(* to a preload comes after as many ends of containers as were asked for.  *)
GuestMsgOK(h, g, ge, pre, ask, q, i) ==
  /\ q[i].kind = "hello" =>
         Len(q) = 1 /\ ge = "hello" /\ h \in {"connecting", "closed"}
  /\ q[i].kind = "connectResponse" =>
         /\ i = 1 /\ ge = "connectResponse" /\ h \in {"early_subscribe", "closed"}
         /\ q[i].preload
  /\ q[i].kind = "preloadFinished" =>
         /\ ge = "preloadFinished" /\ h \in {"connected", "closed"}
         /\ \A j \in 1..Len(q) : q[j].kind = "preloadFinished" => i = j
         /\ pre + CountOf(q, i, "cacheInfo") >= ask
  /\ ~SystemKind(q[i]) =>
         \/ g \in {"early_subscribe", "connected"}
         \/ i > 1 /\ ge = "connectResponse"

GuestQueue(h, g, ge, pre, ask, q) == \A i \in 1..Len(q) : GuestMsgOK(h, g, ge, pre, ask, q, i)

(* The same for the host.  n is the number of containers the guest has     *)
(* received or is still to receive: with the joins ahead of it, a          *)
(* preloadClientFinished accounts for every container it has asked for.    *)
(* What is published early stands behind the DotsMsgConnect, unless the    *)
(* guest was hasty (hy).                                                   *)
HostMsgOK(h, g, ge, br, hy, n, ask, q, i) ==
  /\ q[i].kind = "connect" =>
         /\ h = "connecting" /\ (g = "closed" \/ ge = "connectResponse")
         /\ \A j \in 1..Len(q) : q[j].kind = "connect" => i = j
  /\ q[i].kind = "preloadClientFinished" =>
         /\ h = "early_subscribe" /\ (g = "closed" \/ ge = "preloadFinished")
         /\ \A j \in 1..Len(q) : q[j].kind = "preloadClientFinished" => i = j
         /\ br \/ g = "closed" \/ n + CountOf(q, i, "join") >= ask
  /\ ~SystemKind(q[i]) =>
         \/ h \in {"early_subscribe", "connected"}
         \/ q[i].kind = "user" /\ (hy \/ Carries(q, i - 1, "connect"))

HostQueue(h, g, ge, br, hy, n, ask, q) ==
  \A i \in 1..Len(q) : HostMsgOK(h, g, ge, br, hy, n, ask, q, i)

Expecting(pre, q) == pre + CountOf(q, Len(q), "cacheInfo")

Ordered(h, g, he, ge, br, pre, ask, hy, qh, qg) ==
  /\ Stage(h, g, he, ge, br, pre, ask, qh, qg)
  /\ GuestQueue(h, g, ge, pre, ask, qg)
  /\ HostQueue(h, g, ge, br, hy, Expecting(pre, qg), ask, qh)

LinkOrder(c) == Ordered(host[c], guest[c], hExpected[c], gExpected[c],
                        broken[c], preloaded[c], asked[c], hasty[c],
                        toHost[c], toGuest[c])

OrderInv == \A c \in Conn : LinkOrder(c)

(* A count is a number, at most the number of messages looked at.          *)
LEMMA CountNat ==
  ASSUME NEW q, NEW n \in Nat, NEW k
  PROVE  CountOf(q, n, k) \in Nat /\ IsFiniteSet(Positions(q, n, k))
<1>1. IsFiniteSet(1..n)
  BY FS_Interval
<1>2. Positions(q, n, k) \in SUBSET (1..n)
  BY DEF Positions
<1>3. IsFiniteSet(Positions(q, n, k))
  BY <1>1, <1>2, FS_Subset
<1> QED BY <1>3, FS_CardinalityType DEF CountOf

(* Nothing is counted in front of the first message.                       *)
LEMMA CountZero ==
  ASSUME NEW q, NEW k
  PROVE  CountOf(q, 0, k) = 0
<1>1. Positions(q, 0, k) = {}
  <2>1. 1..0 = {}
    OBVIOUS
  <2> QED BY <2>1 DEF Positions
<1> QED BY <1>1, FS_EmptySet DEF CountOf

(* Only the messages that are counted matter.                              *)
LEMMA CountSame ==
  ASSUME NEW q, NEW r, NEW n \in Nat, NEW k, \A j \in 1..n : q[j] = r[j]
  PROVE  CountOf(q, n, k) = CountOf(r, n, k)
<1>1. Positions(q, n, k) = Positions(r, n, k)
  BY DEF Positions
<1> QED BY <1>1 DEF CountOf

(* Counting one message more.                                              *)
LEMMA CountNext ==
  ASSUME NEW q, NEW n \in Nat, NEW k
  PROVE  CountOf(q, n + 1, k) = CountOf(q, n, k) + IF q[n + 1].kind = k THEN 1 ELSE 0
<1>0. n + 1 \notin Positions(q, n, k)
  BY n + 1 \notin 1..n DEF Positions
<1>1. IsFiniteSet(Positions(q, n, k))
  BY CountNat
<1>2. \A j : j \in 1..n + 1 <=> j \in 1..n \/ j = n + 1
  OBVIOUS
<1>3. CASE q[n + 1].kind = k
  <2>1. Positions(q, n + 1, k) = Positions(q, n, k) \cup {n + 1}
    BY <1>2, <1>3 DEF Positions
  <2>2. Cardinality(Positions(q, n, k) \cup {n + 1}) = Cardinality(Positions(q, n, k)) + 1
    BY <1>0, <1>1, FS_AddElement
  <2> QED BY <1>3, <2>1, <2>2 DEF CountOf
<1>4. CASE q[n + 1].kind # k
  <2>1. Positions(q, n + 1, k) = Positions(q, n, k)
    BY <1>2, <1>4 DEF Positions
  <2>2. CountOf(q, n, k) \in Nat
    BY CountNat
  <2> QED BY <1>4, <2>1, <2>2 DEF CountOf
<1> QED BY <1>3, <1>4

(* A longer part of a queue counts no less.                                *)
LEMMA CountGrows ==
  ASSUME NEW q, NEW m \in Nat, NEW n \in Nat, m <= n, NEW k
  PROVE  CountOf(q, m, k) <= CountOf(q, n, k)
<1>1. Positions(q, m, k) \in SUBSET Positions(q, n, k)
  BY DEF Positions
<1> QED BY <1>1, CountNat, FS_Subset DEF CountOf

(* Receiving a message takes it out of the count of what is behind it.     *)
LEMMA CountTail ==
  ASSUME NEW S, NEW q \in Seq(S), q # <<>>, NEW n \in Nat, n < Len(q), NEW k
  PROVE  CountOf(q, n + 1, k) =
             CountOf(Tail(q), n, k) + IF Head(q).kind = k THEN 1 ELSE 0
<1> DEFINE A == Positions(Tail(q), n, k)
           B == {j \in 2..n + 1 : q[j].kind = k}
           f == [j \in A |-> j + 1]
<1>1. /\ Len(q) \in Nat /\ Len(Tail(q)) = Len(q) - 1 /\ Head(q) = q[1]
      /\ \A j \in 1..Len(q) - 1 : Tail(q)[j] = q[j + 1]
  BY HeadTailProperties, LenProperties
<1>2. A \subseteq 1..n /\ \A j \in 1..n : Tail(q)[j] = q[j + 1]
  BY <1>1 DEF Positions
<1>3. f \in Bijection(A, B)
  <2>1. \A j \in A : j + 1 \in B
    BY <1>2 DEF Positions
  <2>2. \A i \in B : i - 1 \in A /\ (i - 1) + 1 = i
    <3> TAKE i \in B
    <3>1. i - 1 \in 1..n /\ (i - 1) + 1 = i /\ q[i].kind = k
      OBVIOUS
    <3>2. Tail(q)[i - 1] = q[i]
      BY <1>2, <3>1
    <3> QED BY <3>1, <3>2 DEF Positions
  <2>3. A \subseteq Int
    BY <1>2
  <2> HIDE DEF A, B
  <2>4. f \in [A -> B] /\ \A j \in A : f[j] = j + 1
    BY <2>1
  <2>5. \A i, j \in A : f[i] = f[j] => i = j
    BY <2>3, <2>4
  <2>6. \A i \in B : \E j \in A : f[j] = i
    BY <2>2, <2>4
  <2> HIDE DEF f
  <2> QED BY <2>4, <2>5, <2>6 DEF Bijection, Injection, Surjection, IsInjective
<1>4. IsFiniteSet(A) /\ CountOf(Tail(q), n, k) = Cardinality(A)
  BY CountNat DEF CountOf
<1>5. IsFiniteSet(B) /\ Cardinality(B) = Cardinality(A)
  <2> HIDE DEF A, B, f
  <2> QED BY <1>3, <1>4, FS_Bijection DEF ExistsBijection
<1>6. CASE Head(q).kind = k
  <2>1. Positions(q, n + 1, k) = B \cup {1} /\ 1 \notin B
    BY <1>1, <1>6 DEF Positions
  <2> HIDE DEF A, B, f
  <2>2. Cardinality(B \cup {1}) = Cardinality(B) + 1
    BY <1>5, <2>1, FS_AddElement
  <2> QED BY <1>4, <1>5, <1>6, <2>1, <2>2 DEF CountOf
<1>7. CASE Head(q).kind # k
  <2>1. Positions(q, n + 1, k) = B
    BY <1>1, <1>7 DEF Positions
  <2>2. Cardinality(B) \in Nat
    <3> HIDE DEF A, B, f
    <3> QED BY <1>5, FS_CardinalityType
  <2> HIDE DEF A, B, f
  <2> QED BY <1>4, <1>5, <1>7, <2>1, <2>2 DEF CountOf
<1> QED BY <1>6, <1>7

-----------------------------------------------------------------------------
(* What the operations on the two queues do to their order *)

(* Appending a message to the guest's queue, with the host's end moving on *)
(* at the same time.                                                       *)
LEMMA GuestAppend ==
  ASSUME NEW h, NEW h2, NEW g, NEW ge, NEW pre \in Nat, NEW ask \in Nat,
         NEW q \in Seq(ToGuestMsg), NEW m \in ToGuestMsg,
         GuestQueue(h, g, ge, pre, ask, q),
         \A i \in 1..Len(q) :
             /\ q[i].kind # "hello"
             /\ q[i].kind = "connectResponse" => h2 \in {"early_subscribe", "closed"}
             /\ q[i].kind = "preloadFinished" => h2 \in {"connected", "closed"},
         m.kind = "hello" => q = <<>> /\ ge = "hello" /\ h2 = "connecting",
         m.kind = "connectResponse" =>
             /\ q = <<>> /\ ge = "connectResponse" /\ m.preload
             /\ h2 \in {"early_subscribe", "closed"},
         m.kind = "preloadFinished" =>
             /\ ge = "preloadFinished" /\ h2 = "connected"
             /\ \A i \in 1..Len(q) : q[i].kind # "preloadFinished"
             /\ Expecting(pre, q) >= ask,
         ~SystemKind(m) =>
             \/ g \in {"early_subscribe", "connected"}
             \/ q # <<>> /\ ge = "connectResponse"
  PROVE  GuestQueue(h2, g, ge, pre, ask, Append(q, m))
<1> DEFINE r == Append(q, m)
<1>1. /\ Len(q) \in Nat /\ Len(r) = Len(q) + 1
      /\ \A i \in 1..Len(q) : r[i] = q[i]
      /\ r[Len(q) + 1] = m
  BY AppendProperties, LenProperties
<1>2. q = <<>> <=> Len(q) = 0
  BY EmptySeq
<1> HIDE DEF r
<1>3. \A i \in 1..Len(r) : i \in 1..Len(q) \/ i = Len(q) + 1
  BY <1>1
<1>4. ASSUME NEW i \in 1..Len(q) PROVE GuestMsgOK(h2, g, ge, pre, ask, r, i)
  <2>1. GuestMsgOK(h, g, ge, pre, ask, q, i) /\ r[i] = q[i]
    BY <1>1 DEF GuestQueue
  <2>2. CountOf(r, i, "cacheInfo") = CountOf(q, i, "cacheInfo")
    BY <1>1, CountSame
  <2>3. q[i].kind = "preloadFinished" => \A j \in 1..Len(r) : r[j].kind = "preloadFinished" => i = j
    <3> SUFFICES ASSUME q[i].kind = "preloadFinished",
                        NEW j \in 1..Len(r), r[j].kind = "preloadFinished"
                 PROVE  i = j
      OBVIOUS
    <3>1. m.kind # "preloadFinished"
      OBVIOUS
    <3>2. j # Len(q) + 1
      BY <1>1, <3>1
    <3>3. j \in 1..Len(q)
      BY <1>3, <3>2
    <3> QED BY <1>1, <2>1, <3>3 DEF GuestMsgOK
  <2> QED BY <2>1, <2>2, <2>3 DEF GuestMsgOK
<1>5. GuestMsgOK(h2, g, ge, pre, ask, r, Len(q) + 1)
  <2>1. m.kind = "preloadFinished" => pre + CountOf(r, Len(q) + 1, "cacheInfo") >= ask
    <3>1. CountOf(r, Len(q), "cacheInfo") = CountOf(q, Len(q), "cacheInfo")
      BY <1>1, CountSame
    <3>2. CountOf(r, Len(q), "cacheInfo") <= CountOf(r, Len(q) + 1, "cacheInfo")
      BY <1>1, CountGrows
    <3>3. CountOf(r, Len(q), "cacheInfo") \in Nat /\ CountOf(r, Len(q) + 1, "cacheInfo") \in Nat
      BY <1>1, CountNat
    <3> QED BY <3>1, <3>2, <3>3, SMT DEF Expecting
  <2>2. m.kind = "preloadFinished" =>
            \A j \in 1..Len(r) : r[j].kind = "preloadFinished" => Len(q) + 1 = j
    <3> SUFFICES ASSUME m.kind = "preloadFinished",
                        NEW j \in 1..Len(r), r[j].kind = "preloadFinished", j # Len(q) + 1
                 PROVE  FALSE
      OBVIOUS
    <3>1. j \in 1..Len(q)
      BY <1>1
    <3> QED BY <1>1, <3>1
  <2> QED BY <1>1, <1>2, <2>1, <2>2 DEF GuestMsgOK
<1>6. GuestQueue(h2, g, ge, pre, ask, r)
  BY <1>4, <1>5, <1>3 DEF GuestQueue
<1> QED BY <1>6 DEF r

(* The host's end moves on and sends nothing.                              *)
LEMMA GuestKeep ==
  ASSUME NEW h, NEW h2, NEW g, NEW ge, NEW pre, NEW ask, NEW q,
         GuestQueue(h, g, ge, pre, ask, q),
         h2 = h \/ h2 = "closed"
  PROVE  GuestQueue(h2, g, ge, pre, ask, q)
  BY DEF GuestQueue, GuestMsgOK

(* The guest takes the first message, in or on its way to early_subscribe. *)
LEMMA GuestTail ==
  ASSUME NEW h, NEW g, NEW g2 \in {"early_subscribe", "connected"}, NEW ge, NEW ge2,
         NEW pre \in Nat, NEW pre2 \in Nat,
         NEW ask, NEW ask2, NEW q \in Seq(ToGuestMsg), q # <<>>,
         GuestQueue(h, g, ge, pre, ask, q),
         ge2 = ge \/ ge # "preloadFinished" \/ Head(q).kind = "preloadFinished",
         ask2 = ask \/ ge # "preloadFinished",
         pre2 = pre + IF Head(q).kind = "cacheInfo" THEN 1 ELSE 0
  PROVE  GuestQueue(h, g2, ge2, pre2, ask2, Tail(q))
<1> DEFINE r == Tail(q)
<1>1. /\ Len(q) \in Nat \ {0} /\ Len(r) = Len(q) - 1 /\ Head(q) = q[1]
      /\ \A i \in 1..Len(r) : r[i] = q[i + 1]
  BY HeadTailProperties, LenProperties, EmptySeq
<1> HIDE DEF r
<1>2. ASSUME NEW i \in 1..Len(r) PROVE GuestMsgOK(h, g2, ge2, pre2, ask2, r, i)
  <2>1. i \in Nat /\ i + 1 \in 1..Len(q) /\ i + 1 # 1 /\ Len(q) # 1 /\ 1 \in 1..Len(q)
    BY <1>1
  <2>2. GuestMsgOK(h, g, ge, pre, ask, q, i + 1) /\ r[i] = q[i + 1]
    BY <1>1, <2>1 DEF GuestQueue
  <2>3. CountOf(q, i + 1, "cacheInfo") =
            CountOf(r, i, "cacheInfo") + IF Head(q).kind = "cacheInfo" THEN 1 ELSE 0
    BY <1>1, <2>1, CountTail DEF r
  <2>4. CountOf(r, i, "cacheInfo") \in Nat /\ CountOf(q, i + 1, "cacheInfo") \in Nat
    BY <2>1, CountNat
  <2>5. pre + CountOf(q, i + 1, "cacheInfo") = pre2 + CountOf(r, i, "cacheInfo")
    BY <2>3, <2>4
  <2>6. q[i + 1].kind # "hello" /\ q[i + 1].kind # "connectResponse"
    BY <2>1, <2>2 DEF GuestMsgOK
  <2>7. q[i + 1].kind = "preloadFinished" =>
            /\ ge2 = "preloadFinished" /\ ask2 = ask
            /\ \A j \in 1..Len(r) : r[j].kind = "preloadFinished" => i = j
    <3> SUFFICES ASSUME q[i + 1].kind = "preloadFinished"
                 PROVE  /\ ge2 = "preloadFinished" /\ ask2 = ask
                        /\ \A j \in 1..Len(r) : r[j].kind = "preloadFinished" => i = j
      OBVIOUS
    <3>1. ge = "preloadFinished" /\ \A j \in 1..Len(q) : q[j].kind = "preloadFinished" => i + 1 = j
      BY <2>2 DEF GuestMsgOK
    <3>2. Head(q).kind # "preloadFinished"
      BY <1>1, <2>1, <3>1
    <3>3. ASSUME NEW j \in 1..Len(r), r[j].kind = "preloadFinished" PROVE i = j
      <4>1. j + 1 \in 1..Len(q) /\ r[j] = q[j + 1]
        BY <1>1
      <4>2. i + 1 = j + 1
        BY <3>1, <3>3, <4>1
      <4> QED BY <2>1, <4>2
    <3> QED BY <3>1, <3>2, <3>3
  <2> QED BY <2>2, <2>5, <2>6, <2>7 DEF GuestMsgOK
<1>3. GuestQueue(h, g2, ge2, pre2, ask2, r)
  BY <1>2 DEF GuestQueue
<1> QED BY <1>3 DEF r

(* The transport breaks: what is still delivered is a prefix.              *)
LEMMA GuestPrefix ==
  ASSUME NEW h, NEW g, NEW ge, NEW pre, NEW ask, NEW q \in Seq(ToGuestMsg), NEW n \in 0..Len(q),
         GuestQueue(h, g, ge, pre, ask, q)
  PROVE  GuestQueue(h, g, ge, pre, ask, SubSeq(q, 1, n))
<1> DEFINE r == SubSeq(q, 1, n)
<1>1. Len(q) \in Nat /\ \A i \in 1..n : q[i] \in ToGuestMsg
  BY LenProperties, ElementOfSeq
<1>2. Len(r) = n /\ \A i \in 1..n : r[i] = q[i]
  BY <1>1, SubSeqProperties
<1> HIDE DEF r
<1>3. ASSUME NEW i \in 1..n PROVE GuestMsgOK(h, g, ge, pre, ask, r, i)
  <2>1. i \in 1..Len(q) /\ GuestMsgOK(h, g, ge, pre, ask, q, i) /\ r[i] = q[i]
    BY <1>1, <1>2 DEF GuestQueue
  <2>2. CountOf(r, i, "cacheInfo") = CountOf(q, i, "cacheInfo")
    BY <1>2, CountSame
  <2>3. Len(q) = 1 => Len(r) = 1
    BY <1>1, <1>2
  <2>4. \A j \in 1..Len(r) : j \in 1..Len(q) /\ r[j] = q[j]
    BY <1>1, <1>2
  <2> QED BY <2>1, <2>2, <2>3, <2>4 DEF GuestMsgOK
<1>4. GuestQueue(h, g, ge, pre, ask, r)
  BY <1>2, <1>3 DEF GuestQueue
<1> QED BY <1>4 DEF r

(* A connected guest sends user messages, and a closing one an error.      *)
LEMMA HostAppend ==
  ASSUME NEW h, NEW g, NEW g2, NEW ge, NEW ge2, NEW br, NEW hy, NEW hy2,
         NEW n \in Nat, NEW ask, NEW ask2,
         NEW q \in Seq(ToHostMsg), NEW m \in ToHostMsg,
         HostQueue(h, g, ge, br, hy, n, ask, q),
         NEW n2 \in Nat,
         g2 = "closed" \/ (g2 = g /\ ge2 = ge /\ n2 = n /\ ask2 = ask),
         hy => hy2,
         m.kind # "connect" /\ m.kind # "preloadClientFinished",
         \/ SystemKind(m) \/ h \in {"early_subscribe", "connected"}
         \/ m.kind = "user" /\ (hy2 \/ Carries(q, Len(q), "connect"))
  PROVE  HostQueue(h, g2, ge2, br, hy2, n2, ask2, Append(q, m))
<1> DEFINE r == Append(q, m)
<1>1. /\ Len(q) \in Nat /\ Len(r) = Len(q) + 1
      /\ \A i \in 1..Len(q) : r[i] = q[i]
      /\ r[Len(q) + 1] = m
  BY AppendProperties, LenProperties
<1> HIDE DEF r
<1>2. \A i \in 1..Len(r) : i \in 1..Len(q) \/ i = Len(q) + 1
  BY <1>1
<1>3. ASSUME NEW i \in 1..Len(q) PROVE HostMsgOK(h, g2, ge2, br, hy2, n2, ask2, r, i)
  <2>1. HostMsgOK(h, g, ge, br, hy, n, ask, q, i) /\ r[i] = q[i]
    BY <1>1 DEF HostQueue
  <2>2. CountOf(r, i, "join") = CountOf(q, i, "join")
    BY <1>1, CountSame
  <2>3. q[i].kind = "preloadClientFinished" =>
            \A j \in 1..Len(r) : r[j].kind = "preloadClientFinished" => i = j
    <3> SUFFICES ASSUME q[i].kind = "preloadClientFinished",
                        NEW j \in 1..Len(r), r[j].kind = "preloadClientFinished"
                 PROVE  i = j
      OBVIOUS
    <3>1. j \in 1..Len(q) /\ r[j] = q[j]
      BY <1>1, <1>2
    <3> QED BY <2>1, <3>1 DEF HostMsgOK
  <2>4. q[i].kind = "connect" =>
            \A j \in 1..Len(r) : r[j].kind = "connect" => i = j
    <3> SUFFICES ASSUME q[i].kind = "connect",
                        NEW j \in 1..Len(r), r[j].kind = "connect"
                 PROVE  i = j
      OBVIOUS
    <3>1. j \in 1..Len(q) /\ r[j] = q[j]
      BY <1>1, <1>2
    <3> QED BY <2>1, <3>1 DEF HostMsgOK
  <2>5. Carries(q, i - 1, "connect") => Carries(r, i - 1, "connect")
    BY <1>1 DEF Carries
  <2> QED BY <2>1, <2>2, <2>3, <2>4, <2>5 DEF HostMsgOK
<1>4. HostMsgOK(h, g2, ge2, br, hy2, n2, ask2, r, Len(q) + 1)
  <2>1. (Len(q) + 1) - 1 = Len(q)
    BY <1>1
  <2>2. Carries(q, Len(q), "connect") => Carries(r, (Len(q) + 1) - 1, "connect")
    BY <1>1, <2>1 DEF Carries
  <2> QED BY <1>1, <2>2 DEF HostMsgOK
<1>5. HostQueue(h, g2, ge2, br, hy2, n2, ask2, r)
  BY <1>2, <1>3, <1>4 DEF HostQueue
<1> QED BY <1>5 DEF r

(* The guest moves on, or more is on its way to it, while its messages to  *)
(* the host stay where they are.                                           *)
LEMMA HostKeep ==
  ASSUME NEW h, NEW g, NEW g2, NEW ge, NEW ge2, NEW br \in BOOLEAN, NEW hy, NEW n \in Nat,
         NEW ask \in Nat, NEW ask2,
         NEW n2 \in Nat, NEW q \in Seq(ToHostMsg),
         HostQueue(h, g, ge, br, hy, n, ask, q),
         g2 = "closed" \/ (g2 = g /\ ge2 = ge /\ ask2 = ask /\ (br \/ n2 >= n))
  PROVE  HostQueue(h, g2, ge2, br, hy, n2, ask2, q)
<1>1. ASSUME NEW i \in 1..Len(q) PROVE HostMsgOK(h, g2, ge2, br, hy, n2, ask2, q, i)
  <2>1. HostMsgOK(h, g, ge, br, hy, n, ask, q, i)
    BY DEF HostQueue
  <2>2. CountOf(q, i, "join") \in Nat
    BY LenProperties, CountNat
  <2>3. g2 = "closed" \/ (g2 = g /\ ge2 = ge /\ br)
          \/ (g2 = g /\ ge2 = ge /\ ask2 = ask /\ n2 + CountOf(q, i, "join") >= n + CountOf(q, i, "join"))
    BY <2>2
  <2>4. n + CountOf(q, i, "join") \in Nat /\ n2 + CountOf(q, i, "join") \in Nat
    BY <2>2
  <2> QED BY <2>1, <2>3, <2>4, SMT DEF HostMsgOK
<1> QED BY <1>1 DEF HostQueue

(* The transport breaks: the queue is cut, and no preload is owed any more. *)
LEMMA HostPrefix ==
  ASSUME NEW h, NEW g, NEW ge, NEW br, NEW hy, NEW n, NEW n2, NEW ask, NEW ask2,
         NEW q \in Seq(ToHostMsg), NEW k \in 0..Len(q),
         HostQueue(h, g, ge, br, hy, n, ask, q)
  PROVE  HostQueue(h, g, ge, TRUE, hy, n2, ask2, SubSeq(q, 1, k))
<1> DEFINE r == SubSeq(q, 1, k)
<1>1. Len(q) \in Nat /\ \A i \in 1..k : q[i] \in ToHostMsg
  BY LenProperties, ElementOfSeq
<1>2. Len(r) = k /\ \A i \in 1..k : r[i] = q[i]
  BY <1>1, SubSeqProperties
<1> HIDE DEF r
<1>3. ASSUME NEW i \in 1..k PROVE HostMsgOK(h, g, ge, TRUE, hy, n2, ask2, r, i)
  <2>1. i \in 1..Len(q) /\ HostMsgOK(h, g, ge, br, hy, n, ask, q, i) /\ r[i] = q[i]
    BY <1>1, <1>2 DEF HostQueue
  <2>2. \A j \in 1..Len(r) : j \in 1..Len(q) /\ r[j] = q[j]
    BY <1>1, <1>2
  <2>3. Carries(q, i - 1, "connect") => Carries(r, i - 1, "connect")
    BY <1>1, <1>2 DEF Carries
  <2> QED BY <2>1, <2>2, <2>3 DEF HostMsgOK
<1>4. HostQueue(h, g, ge, TRUE, hy, n2, ask2, r)
  BY <1>2, <1>3 DEF HostQueue
<1> QED BY <1>4 DEF r

(* The host takes the first message, in or on its way to early_subscribe.  *)
LEMMA HostTail ==
  ASSUME NEW h, NEW h2 \in {"early_subscribe", "connected"}, NEW g, NEW ge,
         NEW br \in BOOLEAN, NEW hy, NEW n \in Nat, NEW n2 \in Nat, NEW ask \in Nat,
         NEW q \in Seq(ToHostMsg), q # <<>>,
         HostQueue(h, g, ge, br, hy, n, ask, q),
         h # "connecting" \/ Head(q).kind = "connect",
         h2 = h \/ h # "early_subscribe" \/ Head(q).kind = "preloadClientFinished",
         h2 = h => br \/ g = "closed" \/ n2 = n + IF Head(q).kind = "join" THEN 1 ELSE 0
  PROVE  HostQueue(h2, g, ge, br, hy, n2, ask, Tail(q))
<1> DEFINE r == Tail(q)
<1>1. /\ Len(q) \in Nat \ {0} /\ Len(r) = Len(q) - 1 /\ Head(q) = q[1]
      /\ \A i \in 1..Len(r) : r[i] = q[i + 1]
  BY HeadTailProperties, LenProperties, EmptySeq
<1> HIDE DEF r
<1>2. ASSUME NEW i \in 1..Len(r) PROVE HostMsgOK(h2, g, ge, br, hy, n2, ask, r, i)
  <2>1. i \in Nat /\ i + 1 \in 1..Len(q) /\ i + 1 # 1 /\ 1 \in 1..Len(q)
    BY <1>1
  <2>2. HostMsgOK(h, g, ge, br, hy, n, ask, q, i + 1) /\ r[i] = q[i + 1]
    BY <1>1, <2>1 DEF HostQueue
  <2>3. CountOf(q, i + 1, "join") =
            CountOf(r, i, "join") + IF Head(q).kind = "join" THEN 1 ELSE 0
    BY <1>1, <2>1, CountTail DEF r
  <2>4. CountOf(r, i, "join") \in Nat /\ CountOf(q, i + 1, "join") \in Nat
    BY <2>1, CountNat
  <2>5. q[i + 1].kind # "connect"
    BY <1>1, <2>1, <2>2 DEF HostMsgOK
  <2>6. q[i + 1].kind = "preloadClientFinished" =>
            /\ h2 = h /\ h = "early_subscribe"
            /\ \A j \in 1..Len(r) : r[j].kind = "preloadClientFinished" => i = j
    <3> SUFFICES ASSUME q[i + 1].kind = "preloadClientFinished"
                 PROVE  /\ h2 = h /\ h = "early_subscribe"
                        /\ \A j \in 1..Len(r) : r[j].kind = "preloadClientFinished" => i = j
      OBVIOUS
    <3>1. /\ h = "early_subscribe"
          /\ \A j \in 1..Len(q) : q[j].kind = "preloadClientFinished" => i + 1 = j
      BY <2>2 DEF HostMsgOK
    <3>2. Head(q).kind # "preloadClientFinished"
      BY <1>1, <2>1, <3>1
    <3>3. ASSUME NEW j \in 1..Len(r), r[j].kind = "preloadClientFinished" PROVE i = j
      <4>1. j + 1 \in 1..Len(q) /\ r[j] = q[j + 1]
        BY <1>1
      <4>2. i + 1 = j + 1
        BY <3>1, <3>3, <4>1
      <4> QED BY <2>1, <4>2
    <3> QED BY <3>1, <3>2, <3>3
  <2>7. h2 = h => br \/ g = "closed" \/ n + CountOf(q, i + 1, "join") = n2 + CountOf(r, i, "join")
    <3>1. ASSUME n2 = n + IF Head(q).kind = "join" THEN 1 ELSE 0
          PROVE  n + CountOf(q, i + 1, "join") = n2 + CountOf(r, i, "join")
      BY <2>3, <2>4, <3>1
    <3> QED BY <3>1
  <2> QED BY <2>2, <2>5, <2>6, <2>7 DEF HostMsgOK
<1>3. HostQueue(h2, g, ge, br, hy, n2, ask, r)
  BY <1>2 DEF HostQueue
<1> QED BY <1>3 DEF r

\* The same for a host that stays in its state, as it does with a join, an error or a
\* published object.
LEMMA HostTailStays ==
  ASSUME NEW h \in {"early_subscribe", "connected"}, NEW g, NEW ge,
         NEW br \in BOOLEAN, NEW hy, NEW n \in Nat, NEW n2 \in Nat, NEW ask \in Nat,
         NEW q \in Seq(ToHostMsg), q # <<>>,
         HostQueue(h, g, ge, br, hy, n, ask, q),
         br \/ g = "closed" \/ n2 = n + IF Head(q).kind = "join" THEN 1 ELSE 0
  PROVE  HostQueue(h, g, ge, br, hy, n2, ask, Tail(q))
<1>1. h # "connecting"
  OBVIOUS
<1> QED BY <1>1, HostTail, ZenonT(60)

(* N joins, and perhaps a preloadClientFinished behind them.               *)
JoinsAndFinished(s, N) ==
  /\ Len(s) \in {N, N + 1}
  /\ \A i \in 1..N : s[i] = Join
  /\ Len(s) = N + 1 => s[N + 1] = PreloadClientFinished

(* What a guest sends when it enters early_subscribe: joins, and the       *)
(* preloadClientFinished unless it has closed before it came to that.      *)
LEMMA HostSubscriptions ==
  ASSUME NEW g, NEW g2, NEW ge, NEW ge2, NEW br \in BOOLEAN, NEW hy,
         NEW n \in Nat, NEW n2 \in Nat, NEW ask, NEW ask2,
         NEW q \in Seq(ToHostMsg), NEW s \in Seq(ToHostMsg), NEW N \in Nat,
         HostQueue("early_subscribe", g, ge, br, hy, n, ask, q),
         g # "closed", ge # "preloadFinished",
         JoinsAndFinished(s, N),
         g2 = "closed" \/ (ge2 = "preloadFinished" /\ ask2 = N)
  PROVE  HostQueue("early_subscribe", g2, ge2, br, hy, n2, ask2, q \o s)
<1> DEFINE r == q \o s
<1>1. /\ Len(s) \in {N, N + 1} /\ \A i \in 1..N : s[i] = Join
      /\ Len(s) = N + 1 => s[N + 1] = PreloadClientFinished
  BY DEF JoinsAndFinished
<1>2. /\ Len(q) \in Nat /\ Len(s) \in Nat /\ Len(r) = Len(q) + Len(s)
      /\ \A i \in 1..Len(q) + Len(s) : r[i] = IF i <= Len(q) THEN q[i] ELSE s[i - Len(q)]
  BY ConcatProperties, LenProperties, ZenonT(40)
<1> HIDE DEF r
<1>3. \A i \in 1..Len(q) : /\ r[i] = q[i]
                           /\ q[i].kind # "connect" /\ q[i].kind # "preloadClientFinished"
  <2> TAKE i \in 1..Len(q)
  <2>1. r[i] = q[i]
    BY <1>1, <1>2
  <2>2. HostMsgOK("early_subscribe", g, ge, br, hy, n, ask, q, i)
    BY DEF HostQueue
  <2> QED BY <2>1, <2>2 DEF HostMsgOK
<1>4. \A i \in Len(q) + 1..Len(q) + N : i \in 1..Len(r) /\ r[i] = Join
  <2> TAKE i \in Len(q) + 1..Len(q) + N
  <2>1. Len(s) >= N
    BY <1>1
  <2>2. i \in 1..Len(q) + Len(s) /\ ~(i <= Len(q)) /\ i - Len(q) \in 1..N
    BY <1>2, <2>1
  <2> QED BY <1>1, <1>2, <2>2
<1>5. ASSUME NEW i \in 1..Len(r), i \notin 1..Len(q), i \notin Len(q) + 1..Len(q) + N
      PROVE  i = Len(q) + (N + 1) /\ Len(r) = i /\ r[i] = PreloadClientFinished
  <2>0. i \in Nat /\ i > Len(q) /\ i > Len(q) + N /\ i <= Len(q) + Len(s)
    BY <1>1, <1>2, <1>5
  <2>1. i = Len(q) + (N + 1) /\ Len(s) = N + 1 /\ Len(r) = i
    <3>1. CASE Len(s) = N
      BY <1>2, <2>0, <3>1
    <3>2. CASE Len(s) = N + 1
      BY <1>2, <2>0, <3>2
    <3> QED BY <1>1, <3>1, <3>2
  <2>2. ~(i <= Len(q)) /\ i - Len(q) = N + 1 /\ i \in 1..Len(q) + Len(s)
    BY <1>1, <1>2, <2>1
  <2> QED BY <1>1, <1>2, <2>1, <2>2
<1>6. CountOf(r, Len(r), "join") \in Nat /\ CountOf(r, Len(r), "join") >= N
  <2> DEFINE J == Len(q) + 1..Len(q) + N
  <2>1. IsFiniteSet(J) /\ Cardinality(J) = N
    <3> DEFINE a == Len(q) + 1
               b == Len(q) + N
    <3>1. a \in Int /\ b \in Int /\ (IF a > b THEN 0 ELSE b - a + 1) = N
      BY <1>1, <1>2
    <3> HIDE DEF a, b
    <3>2. IsFiniteSet(a..b) /\ Cardinality(a..b) = N
      BY <3>1, FS_Interval
    <3> QED BY <3>2 DEF a, b
  <2>2. J \subseteq Positions(r, Len(r), "join")
    BY <1>4 DEF Positions, Join
  <2>3. Len(r) \in Nat
    BY <1>1, <1>2
  <2>4. IsFiniteSet(Positions(r, Len(r), "join")) /\ CountOf(r, Len(r), "join") \in Nat
    BY <2>3, CountNat
  <2> HIDE DEF J
  <2> QED BY <2>1, <2>2, <2>4, FS_Subset DEF CountOf
<1>7. ASSUME NEW i \in 1..Len(r)
      PROVE HostMsgOK("early_subscribe", g2, ge2, br, hy, n2, ask2, r, i)
  <2>1. CASE i \in 1..Len(q) \/ i \in Len(q) + 1..Len(q) + N
    BY <1>3, <1>4, <2>1 DEF HostMsgOK, Join
  <2>2. CASE ~(i \in 1..Len(q) \/ i \in Len(q) + 1..Len(q) + N)
    <3>0. Len(r) = i /\ r[i] = PreloadClientFinished
      BY <1>5, <2>2
    <3>1. \A j \in 1..Len(r) : r[j].kind = "preloadClientFinished" => i = j
      <4> SUFFICES ASSUME NEW j \in 1..Len(r), i # j PROVE r[j].kind # "preloadClientFinished"
        OBVIOUS
      <4>1. j \in 1..Len(q) \/ j \in Len(q) + 1..Len(q) + N
        BY <1>5, <3>0
      <4> QED BY <1>3, <1>4, <4>1 DEF Join
    <3>2. g2 = "closed" \/ n2 + CountOf(r, i, "join") >= ask2
      BY <1>6, <3>0
    <3>3. r[i].kind = "preloadClientFinished" /\ SystemKind(r[i])
      BY <3>0 DEF PreloadClientFinished, SystemKind, Kind
    <3>4. r[i].kind # "connect"
      BY <3>3
    <3> QED BY <3>1, <3>2, <3>3, <3>4 DEF HostMsgOK
  <2> QED BY <2>1, <2>2
<1>8. HostQueue("early_subscribe", g2, ge2, br, hy, n2, ask2, r)
  BY <1>7 DEF HostQueue
<1> QED BY <1>8 DEF r

(* A queue in which nothing waits is in order.                             *)
LEMMA EmptyQueues ==
  ASSUME NEW h, NEW g, NEW ge, NEW br, NEW hy, NEW n, NEW ask
  PROVE  GuestQueue(h, g, ge, n, ask, <<>>) /\ HostQueue(h, g, ge, br, hy, n, ask, <<>>)
<1>1. 1..Len(<<>>) = {}
  OBVIOUS
<1> QED BY <1>1 DEF GuestQueue, HostQueue

(* What the guest has been sent in answer to its joins, as it is sent and  *)
(* received.                                                               *)
LEMMA ExpectingAppend ==
  ASSUME NEW pre \in Nat, NEW q \in Seq(ToGuestMsg), NEW m \in ToGuestMsg
  PROVE  /\ Expecting(pre, q) \in Nat
         /\ Expecting(pre, Append(q, m)) =
                Expecting(pre, q) + IF m.kind = "cacheInfo" THEN 1 ELSE 0
<1> DEFINE r == Append(q, m)
<1>1. /\ Len(q) \in Nat /\ Len(r) = Len(q) + 1
      /\ \A i \in 1..Len(q) : r[i] = q[i]
      /\ r[Len(q) + 1] = m
  BY AppendProperties, LenProperties
<1> HIDE DEF r
<1>2. CountOf(r, Len(q), "cacheInfo") = CountOf(q, Len(q), "cacheInfo")
  BY <1>1, CountSame
<1>3. CountOf(r, Len(q) + 1, "cacheInfo") =
          CountOf(r, Len(q), "cacheInfo") + IF m.kind = "cacheInfo" THEN 1 ELSE 0
  BY <1>1, CountNext
<1>4. CountOf(q, Len(q), "cacheInfo") \in Nat
  BY <1>1, CountNat
<1>5. Expecting(pre, r) = Expecting(pre, q) + IF m.kind = "cacheInfo" THEN 1 ELSE 0
  BY <1>1, <1>2, <1>3, <1>4 DEF Expecting
<1> QED BY <1>4, <1>5 DEF r, Expecting

LEMMA ExpectingTail ==
  ASSUME NEW pre \in Nat, NEW q \in Seq(ToGuestMsg), q # <<>>
  PROVE  /\ Expecting(pre, q) \in Nat /\ Expecting(pre, Tail(q)) \in Nat
         /\ Expecting(pre, q) =
                Expecting(pre, Tail(q)) + IF Head(q).kind = "cacheInfo" THEN 1 ELSE 0
<1>1. Len(q) \in Nat \ {0} /\ Len(Tail(q)) = Len(q) - 1 /\ (Len(q) - 1) + 1 = Len(q)
  BY HeadTailProperties, LenProperties, EmptySeq
<1>2. CountOf(q, Len(q), "cacheInfo") =
          CountOf(Tail(q), Len(q) - 1, "cacheInfo") + IF Head(q).kind = "cacheInfo" THEN 1 ELSE 0
  <2> DEFINE n == Len(q) - 1
  <2>1. n \in Nat /\ n < Len(q) /\ n + 1 = Len(q)
    BY <1>1
  <2> HIDE DEF n
  <2>2. CountOf(q, n + 1, "cacheInfo") =
            CountOf(Tail(q), n, "cacheInfo") + IF Head(q).kind = "cacheInfo" THEN 1 ELSE 0
    BY <2>1, CountTail
  <2> QED BY <2>1, <2>2 DEF n
<1>3. CountOf(q, Len(q), "cacheInfo") \in Nat /\ CountOf(Tail(q), Len(q) - 1, "cacheInfo") \in Nat
  BY <1>1, CountNat
<1> QED BY <1>1, <1>2, <1>3 DEF Expecting

-----------------------------------------------------------------------------
(* One lemma per step: the connection it is about stays in order.          *)

(* A transmission of one message is appended, unless the transport is      *)
(* broken or the other end is closed.                                      *)
LEMMA SentOne ==
  ASSUME TypeOK, NEW c \in Conn, NEW m
  PROVE  /\ m \in ToGuestMsg =>
                toGuest[c] \o SentToGuest(c, <<m>>) =
                    IF broken[c] \/ guest[c] = "closed" THEN toGuest[c]
                                                        ELSE Append(toGuest[c], m)
         /\ m \in ToHostMsg =>
                toHost[c] \o SentToHost(c, <<m>>) =
                    IF broken[c] \/ host[c] = "closed" THEN toHost[c]
                                                       ELSE Append(toHost[c], m)
         /\ toGuest[c] \o SentToGuest(c, <<>>) = toGuest[c]
         /\ toHost[c] \o SentToHost(c, <<>>) = toHost[c]
<1>1. toGuest[c] \in Seq(ToGuestMsg) /\ toHost[c] \in Seq(ToHostMsg)
  BY DEF TypeOK
<1>2. toGuest[c] \o <<>> = toGuest[c] /\ toHost[c] \o <<>> = toHost[c]
  BY <1>1, ConcatEmptySeq
<1>3. m \in ToGuestMsg => toGuest[c] \o <<m>> = Append(toGuest[c], m)
  BY <1>1, AppendIsConcat
<1>4. m \in ToHostMsg => toHost[c] \o <<m>> = Append(toHost[c], m)
  BY <1>1, AppendIsConcat
<1> QED BY <1>2, <1>3, <1>4 DEF SentToGuest, SentToHost

(* The kinds of the messages of each direction.                            *)
LEMMA MessageKinds ==
  /\ \A m \in ToHostMsg :
         m.kind \in {"connect", "preloadClientFinished", "join", "user", "error"}
  /\ \A m \in ToGuestMsg :
         m.kind \in {"hello", "connectResponse", "preloadFinished", "cacheInfo",
                     "user", "error"}
  /\ \A m \in ToHostMsg : m.kind = "join" <=> m = Join
  /\ \A m \in ToHostMsg : m.kind = "user" <=> m = User
  /\ \A m \in ToGuestMsg : m.kind = "cacheInfo" <=> m = CacheInfo
<1>1. \A m \in ToHostMsg :
          /\ m.kind \in {"connect", "preloadClientFinished", "join", "user", "error"}
          /\ m.kind = "join" <=> m = Join
          /\ m.kind = "user" <=> m = User
  <2> SUFFICES ASSUME NEW m \in ToHostMsg
               PROVE  /\ m.kind \in {"connect", "preloadClientFinished", "join", "user", "error"}
                      /\ m.kind = "join" <=> m = Join
                      /\ m.kind = "user" <=> m = User
    OBVIOUS
  <2>1. CASE m \in {Connect(r) : r \in SecretKind}
    BY <2>1 DEF Connect, Join, User
  <2>2. CASE m \in {Error(e) : e \in {0, 1}}
    BY <2>2 DEF Error, Join, User
  <2>3. CASE m \in {PreloadClientFinished, Join, User}
    BY <2>3 DEF PreloadClientFinished, Join, User
  <2> QED BY <2>1, <2>2, <2>3 DEF ToHostMsg
<1>2. \A m \in ToGuestMsg :
          /\ m.kind \in {"hello", "connectResponse", "preloadFinished", "cacheInfo",
                         "user", "error"}
          /\ m.kind = "cacheInfo" <=> m = CacheInfo
  <2> SUFFICES ASSUME NEW m \in ToGuestMsg
               PROVE  /\ m.kind \in {"hello", "connectResponse", "preloadFinished",
                                     "cacheInfo", "user", "error"}
                      /\ m.kind = "cacheInfo" <=> m = CacheInfo
    OBVIOUS
  <2>1. CASE m \in {Hello(r) : r \in BOOLEAN}
    BY <2>1 DEF Hello, CacheInfo
  <2>2. CASE m \in {Error(e) : e \in {0, 1}}
    BY <2>2 DEF Error, CacheInfo
  <2>3. CASE m \in {PreloadFinished, CacheInfo, User}
    BY <2>3 DEF PreloadFinished, CacheInfo, User
  <2>4. CASE m \in [kind : {"connectResponse"}, clientId : Nat,
                    accepted : BOOLEAN, preload : BOOLEAN]
    BY <2>4 DEF CacheInfo
  <2> QED BY <2>1, <2>2, <2>3, <2>4 DEF ToGuestMsg
<1> QED BY <1>1, <1>2

(* The first messages of the two queues stand where they may.              *)
LEMMA FirstInOrder ==
  ASSUME TypeOK, NEW c \in Conn, LinkOrder(c)
  PROVE  /\ toHost[c] # <<>> =>
                /\ Head(toHost[c]) \in ToHostMsg
                /\ Head(toHost[c]) = toHost[c][1]
                /\ 1 \in 1..Len(toHost[c])
                /\ HostMsgOK(host[c], guest[c], gExpected[c], broken[c], hasty[c],
                             Expecting(preloaded[c], toGuest[c]), asked[c], toHost[c], 1)
         /\ toGuest[c] # <<>> =>
                /\ Head(toGuest[c]) \in ToGuestMsg
                /\ Head(toGuest[c]) = toGuest[c][1]
                /\ 1 \in 1..Len(toGuest[c])
                /\ GuestMsgOK(host[c], guest[c], gExpected[c], preloaded[c], asked[c], toGuest[c], 1)
<1>1. toGuest[c] \in Seq(ToGuestMsg) /\ toHost[c] \in Seq(ToHostMsg)
  BY DEF TypeOK
<1>2. \A S : \A q \in Seq(S) : q # <<>> => Head(q) \in S /\ Head(q) = q[1] /\ 1 \in 1..Len(q)
  BY HeadTailProperties, EmptySeq, LenProperties
<1> QED BY <1>1, <1>2 DEF LinkOrder, Ordered, HostQueue, GuestQueue

(* GuestTransceiver::open *)
LEMMA OpenOrder ==
  ASSUME TypeOK, NEW c \in Conn, LinkOrder(c), Open(c)
  PROVE  LinkOrder(c)'
<1>1. /\ guest[c] = "suspended" /\ guest'[c] = "connecting" /\ gExpected'[c] = "hello"
      /\ host'[c] = host[c] /\ hExpected'[c] = hExpected[c] /\ broken'[c] = broken[c]
      /\ asked'[c] = asked[c] /\ hasty'[c] = hasty[c]
      /\ preloaded'[c] = preloaded[c] /\ toHost'[c] = toHost[c] /\ toGuest'[c] = toGuest[c]
  BY DEF Open, TypeOK
<1>2. host[c] = "suspended" /\ toHost[c] = <<>> /\ toGuest[c] = <<>>
  BY <1>1 DEF LinkOrder, Ordered, Stage
<1>3. Stage(host[c], "connecting", hExpected[c], "hello", broken[c], preloaded[c], asked[c], <<>>, <<>>)
  BY <1>1, <1>2 DEF LinkOrder, Ordered, Stage
<1> QED BY <1>1, <1>2, <1>3, EmptyQueues DEF LinkOrder, Ordered

(* HostTransceiver::handleListenAccept *)
LEMMA AcceptOrder ==
  ASSUME TypeOK, NEW c \in Conn, LinkOrder(c), Accept(c)
  PROVE  LinkOrder(c)'
<1> DEFINE q == toGuest'[c]
           m == Hello(c \in Protected)
<1>1. /\ host[c] = "suspended" /\ guest[c] # "suspended"
      /\ host'[c] = "connecting" /\ hExpected'[c] = "connect"
      /\ guest'[c] = guest[c] /\ gExpected'[c] = gExpected[c] /\ broken'[c] = broken[c]
      /\ asked'[c] = asked[c] /\ hasty'[c] = hasty[c]
      /\ preloaded'[c] = preloaded[c] /\ toHost'[c] = toHost[c]
      /\ q = toGuest[c] \o SentToGuest(c, <<m>>)
  BY DEF Accept, TypeOK
<1>2. m \in ToGuestMsg /\ m.kind = "hello"
  <2>1. (c \in Protected) \in BOOLEAN
    OBVIOUS
  <2>2. m.kind = "hello"
    BY DEF Hello
  <2> QED BY <2>1, <2>2, MessageTypes
<1>3. toGuest[c] = <<>> /\ toGuest[c] \in Seq(ToGuestMsg) /\ preloaded[c] \in Nat /\ asked[c] \in Nat
  BY <1>1 DEF LinkOrder, Ordered, Stage, TypeOK
<1>4. q = <<>> \/ (guest[c] # "closed" /\ q = Append(<<>>, m))
  <2> HIDE DEF m
  <2> QED BY <1>1, <1>2, <1>3, SentOne
<1>5. gExpected[c] = "hello" \/ guest[c] = "closed"
  BY <1>1 DEF LinkOrder, Ordered, Stage, TypeOK, State
<1>6. GuestQueue("connecting", guest[c], gExpected[c], preloaded[c], asked[c], q)
  <2>1. CASE q = <<>>
    BY <2>1, EmptyQueues
  <2>2. CASE guest[c] # "closed" /\ q = Append(<<>>, m)
    <3> HIDE DEF q, m
    <3>1. GuestQueue("suspended", guest[c], gExpected[c], preloaded[c], asked[c], <<>>)
      BY EmptyQueues
    <3>2. SystemKind(m)
      BY <1>2 DEF SystemKind, Kind
    <3>3. <<>> \in Seq(ToGuestMsg) /\ 1..Len(<<>>) = {}
      BY <1>3
    <3> QED BY <1>2, <1>3, <1>5, <2>2, <3>1, <3>2, <3>3, GuestAppend
  <2> QED BY <1>4, <2>1, <2>2
<1>7. HostQueue("connecting", guest[c], gExpected[c], broken[c], hasty[c],
                Expecting(preloaded[c], q), asked[c], toHost[c])
  <2>1. \A i \in 1..Len(toHost[c]) :
            HostMsgOK("suspended", guest[c], gExpected[c], broken[c], hasty[c],
                      Expecting(preloaded[c], toGuest[c]), asked[c], toHost[c], i)
    BY <1>1 DEF LinkOrder, Ordered, HostQueue
  <2> HIDE DEF q
  <2> QED BY <2>1 DEF HostQueue, HostMsgOK
<1>8. Stage("connecting", guest[c], "connect", gExpected[c], broken[c], preloaded[c], asked[c],
            toHost[c], q)
  <2> HIDE DEF q, m
  <2> QED BY <1>1, <1>3, <1>4, <1>5 DEF LinkOrder, Ordered, Stage
<1> QED BY <1>1, <1>6, <1>7, <1>8 DEF LinkOrder, Ordered

(* Connection::handleConnect, for a response that satisfies the endpoint.  *)
LEMMA HandleConnectOrder ==
  ASSUME TypeOK, NEW c \in Conn, LinkOrder(c), host[c] \notin {"suspended", "closed"},
         toHost[c] # <<>>, Head(toHost[c]).kind = "connect",
         VerifyAuthentication(c, Head(toHost[c]).response),
         HandleConnect(c, Head(toHost[c]))
  PROVE  LinkOrder(c)'
<1> DEFINE q == toGuest'[c]
           m == ConnectResponse(peerId[c], TRUE, TRUE)
<1>1. /\ Head(toHost[c]) \in ToHostMsg /\ Head(toHost[c]).preloadCache = TRUE
      /\ HostMsgOK(host[c], guest[c], gExpected[c], broken[c], hasty[c],
                   Expecting(preloaded[c], toGuest[c]), asked[c], toHost[c], 1)
      /\ toHost[c][1].kind = "connect"
  BY FirstInOrder, ConnectFields
<1>2. /\ host'[c] = "early_subscribe" /\ hExpected'[c] = "preloadClientFinished"
      /\ guest'[c] = guest[c] /\ gExpected'[c] = gExpected[c] /\ broken'[c] = broken[c]
      /\ asked'[c] = asked[c] /\ hasty'[c] = hasty[c]
      /\ preloaded'[c] = preloaded[c] /\ toHost'[c] = Tail(toHost[c])
      /\ q = toGuest[c] \o SentToGuest(c, <<m>>)
  BY <1>1 DEF HandleConnect, TypeOK
<1>3. host[c] = "connecting" /\ (guest[c] = "closed" \/ gExpected[c] = "connectResponse")
  BY <1>1 DEF HostMsgOK
<1>4. /\ toGuest[c] = <<>> /\ toGuest[c] \in Seq(ToGuestMsg) /\ preloaded[c] \in Nat /\ asked[c] \in Nat
      /\ toHost[c] \in Seq(ToHostMsg) /\ broken[c] \in BOOLEAN
  BY <1>3 DEF LinkOrder, Ordered, Stage, TypeOK
<1>5. /\ m \in ToGuestMsg /\ m.kind = "connectResponse" /\ m.preload = TRUE
      /\ SystemKind(m)
  <2>1. peerId[c] \in Nat
    BY DEF TypeOK
  <2>2. m \in ToGuestMsg
    BY <2>1, MessageTypes
  <2> QED BY <2>2 DEF ConnectResponse, SystemKind, Kind
<1>6. q = IF broken[c] \/ guest[c] = "closed" THEN <<>> ELSE Append(<<>>, m)
  <2> HIDE DEF m
  <2> QED BY <1>2, <1>4, <1>5, SentOne, ZenonT(60)
<1> HIDE DEF q, m
<1>7. GuestQueue("early_subscribe", guest[c], gExpected[c], preloaded[c], asked[c], q)
  <2>1. CASE broken[c] \/ guest[c] = "closed"
    BY <1>6, <2>1, EmptyQueues
  <2>2. CASE ~(broken[c] \/ guest[c] = "closed")
    <3>1. GuestQueue("connecting", guest[c], gExpected[c], preloaded[c], asked[c], <<>>)
      BY EmptyQueues
    <3>2. <<>> \in Seq(ToGuestMsg) /\ 1..Len(<<>>) = {}
      BY <1>4
    <3> QED BY <1>3, <1>4, <1>5, <1>6, <2>2, <3>1, <3>2, GuestAppend
  <2> QED BY <2>1, <2>2
<1>8. HostQueue("early_subscribe", guest[c], gExpected[c], broken[c], hasty[c],
                Expecting(preloaded[c], q), asked[c], Tail(toHost[c]))
  <2>1. HostQueue("connecting", guest[c], gExpected[c], broken[c], hasty[c],
                  Expecting(preloaded[c], <<>>), asked[c], toHost[c])
    BY <1>3, <1>4 DEF LinkOrder, Ordered
  <2>2. Expecting(preloaded[c], <<>>) \in Nat /\ Expecting(preloaded[c], q) \in Nat
    <3>1. Expecting(preloaded[c], <<>>) \in Nat
      BY <1>4, <1>5, ExpectingAppend
    <3>2. Append(<<>>, m) \in Seq(ToGuestMsg)
      BY <1>4, <1>5, AppendProperties
    <3>3. Expecting(preloaded[c], Append(<<>>, m)) \in Nat
      BY <1>4, <1>5, <3>2, ExpectingAppend
    <3> QED BY <1>6, <3>1, <3>3
  <2> QED BY <1>4, <2>1, <2>2, HostTail, ZenonT(60)
<1>9. Stage("early_subscribe", guest[c], "preloadClientFinished", gExpected[c], broken[c],
            preloaded[c], asked[c], Tail(toHost[c]), q)
  <2>1. Append(<<>>, m) # <<>>
    BY <1>4, <1>5, AppendProperties
  <2> QED BY <1>3, <1>4, <1>6, <2>1 DEF LinkOrder, Ordered, Stage
<1> QED BY <1>2, <1>7, <1>8, <1>9 DEF LinkOrder, Ordered, q

(* The host's end closes, after a message that its peer may still get: the *)
(* rejection of a response, or the error of a connected end.               *)
LEMMA HostCloseOrder ==
  ASSUME TypeOK, NEW c \in Conn, LinkOrder(c), host[c] # "suspended", HostClose(c),
         NEW ms, toGuest' = [toGuest EXCEPT ![c] = @ \o SentToGuest(c, ms)],
         \/ ms = <<>>
         \/ /\ host[c] = "connected"
            /\ \E e \in {0, 1} : ms = <<Error(e)>>
         \/ /\ host[c] = "connecting"
            /\ gExpected[c] = "connectResponse" \/ guest[c] = "closed"
            /\ ms = <<ConnectResponse(peerId[c], FALSE, TRUE)>>
  PROVE  LinkOrder(c)'
<1> DEFINE q == toGuest'[c]
<1>1. /\ host'[c] = "closed" /\ hExpected'[c] = "error" /\ toHost'[c] = <<>>
      /\ guest'[c] = guest[c] /\ gExpected'[c] = gExpected[c] /\ broken'[c] = broken[c]
      /\ asked'[c] = asked[c] /\ hasty'[c] = hasty[c]
      /\ preloaded'[c] = preloaded[c] /\ q = toGuest[c] \o SentToGuest(c, ms)
  BY DEF HostClose, TypeOK
<1>2. toGuest[c] \in Seq(ToGuestMsg) /\ preloaded[c] \in Nat /\ asked[c] \in Nat
  BY DEF TypeOK
<1>3. q = toGuest[c]
        \/ (/\ guest[c] # "closed"
            /\ \E m \in ToGuestMsg :
                   /\ q = Append(toGuest[c], m)
                   /\ \/ host[c] = "connected" /\ m.kind = "error"
                      \/ /\ host[c] = "connecting" /\ gExpected[c] = "connectResponse"
                         /\ m.kind = "connectResponse" /\ m.preload = TRUE)
  <2>1. CASE ms = <<>>
    BY <1>1, <2>1, SentOne
  <2>2. ASSUME host[c] = "connected", NEW e \in {0, 1}, ms = <<Error(e)>> PROVE <1>3
    <3>1. Error(e) \in ToGuestMsg /\ Error(e).kind = "error"
      BY MessageTypes DEF Error
    <3>2. q = IF broken[c] \/ guest[c] = "closed" THEN toGuest[c]
                                                  ELSE Append(toGuest[c], Error(e))
      BY <1>1, <2>2, <3>1, SentOne
    <3> HIDE DEF q
    <3> QED BY <2>2, <3>1, <3>2
  <2>3. CASE /\ host[c] = "connecting"
             /\ gExpected[c] = "connectResponse" \/ guest[c] = "closed"
             /\ ms = <<ConnectResponse(peerId[c], FALSE, TRUE)>>
    <3> DEFINE m == ConnectResponse(peerId[c], FALSE, TRUE)
    <3>1. m \in ToGuestMsg
      BY MessageTypes DEF TypeOK
    <3>2. m.kind = "connectResponse" /\ m.preload = TRUE
      BY DEF ConnectResponse
    <3>3. q = IF broken[c] \/ guest[c] = "closed" THEN toGuest[c]
                                                  ELSE Append(toGuest[c], m)
      <4> HIDE DEF m
      <4> QED BY <1>1, <2>3, <3>1, SentOne DEF m
    <3> HIDE DEF q, m
    <3> QED BY <2>3, <3>1, <3>2, <3>3
  <2> QED BY <2>1, <2>2, <2>3
<1> HIDE DEF q
<1>4. GuestQueue("closed", guest[c], gExpected[c], preloaded[c], asked[c], q)
  <2>0. GuestQueue(host[c], guest[c], gExpected[c], preloaded[c], asked[c], toGuest[c])
    BY DEF LinkOrder, Ordered
  <2>1. CASE q = toGuest[c]
    BY <2>0, <2>1, GuestKeep
  <2>2. ASSUME guest[c] # "closed", NEW m \in ToGuestMsg, q = Append(toGuest[c], m),
               host[c] = "connected", m.kind = "error"
        PROVE  <1>4
    <3>1. \A i \in 1..Len(toGuest[c]) : toGuest[c][i].kind # "hello"
      BY <2>0, <2>2 DEF GuestQueue, GuestMsgOK
    <3>2. SystemKind(m)
      BY <2>2 DEF SystemKind, Kind
    <3> QED BY <1>2, <2>0, <2>2, <3>1, <3>2, GuestAppend
  <2>3. ASSUME guest[c] # "closed", NEW m \in ToGuestMsg, q = Append(toGuest[c], m),
               host[c] = "connecting", gExpected[c] = "connectResponse",
               m.kind = "connectResponse", m.preload = TRUE
        PROVE  <1>4
    <3>1. toGuest[c] = <<>> /\ 1..Len(<<>>) = {}
      BY <2>3 DEF LinkOrder, Ordered, Stage
    <3>2. SystemKind(m)
      BY <2>3 DEF SystemKind, Kind
    <3> QED BY <1>2, <2>0, <2>3, <3>1, <3>2, GuestAppend
  <2> QED BY <1>3, <2>1, <2>2, <2>3
<1>5. HostQueue("closed", guest[c], gExpected[c], broken[c], hasty[c], Expecting(preloaded[c], q), asked[c], <<>>)
  BY EmptyQueues
<1>6. Stage("closed", guest[c], "error", gExpected[c], broken[c], preloaded[c], asked[c], <<>>, q)
  BY <1>3 DEF LinkOrder, Ordered, Stage
<1> QED BY <1>1, <1>4, <1>5, <1>6 DEF LinkOrder, Ordered, q

(* Connection::handlePreloadClientFinished *)
LEMMA HandlePreloadClientFinishedOrder ==
  ASSUME TypeOK, NEW c \in Conn, LinkOrder(c),
         toHost[c] # <<>>, Head(toHost[c]).kind = "preloadClientFinished",
         HandlePreloadClientFinished(c)
  PROVE  LinkOrder(c)'
<1> DEFINE q == toGuest'[c]
           m == PreloadFinished
<1>1. /\ HostMsgOK(host[c], guest[c], gExpected[c], broken[c], hasty[c],
                   Expecting(preloaded[c], toGuest[c]), asked[c], toHost[c], 1)
      /\ toHost[c][1].kind = "preloadClientFinished"
  BY FirstInOrder
<1>2. /\ host'[c] = "connected" /\ hExpected'[c] = "error"
      /\ guest'[c] = guest[c] /\ gExpected'[c] = gExpected[c] /\ broken'[c] = broken[c]
      /\ asked'[c] = asked[c] /\ hasty'[c] = hasty[c]
      /\ preloaded'[c] = preloaded[c] /\ toHost'[c] = Tail(toHost[c])
      /\ q = toGuest[c] \o SentToGuest(c, <<m>>)
  BY DEF HandlePreloadClientFinished, TypeOK
<1>3. /\ toGuest[c] \in Seq(ToGuestMsg) /\ preloaded[c] \in Nat /\ asked[c] \in Nat
      /\ toHost[c] \in Seq(ToHostMsg) /\ broken[c] \in BOOLEAN
      /\ m \in ToGuestMsg /\ m.kind = "preloadFinished" /\ SystemKind(m)
  BY MessageTypes DEF TypeOK, PreloadFinished, SystemKind, Kind
<1>4. /\ host[c] = "early_subscribe"
      /\ guest[c] = "closed" \/ gExpected[c] = "preloadFinished"
      /\ broken[c] \/ guest[c] = "closed" \/ Expecting(preloaded[c], toGuest[c]) >= asked[c]
  <2>1. CountOf(toHost[c], 1, "join") = 0
    <3>1. CountOf(toHost[c], 0 + 1, "join") =
              CountOf(toHost[c], 0, "join") + IF toHost[c][0 + 1].kind = "join" THEN 1 ELSE 0
      BY CountNext
    <3>2. CountOf(toHost[c], 0, "join") = 0
      BY CountZero
    <3> QED BY <1>1, <3>1, <3>2
  <2>2. Expecting(preloaded[c], toGuest[c]) \in Nat
    BY <1>3, ExpectingAppend
  <2>3. Expecting(preloaded[c], toGuest[c]) + CountOf(toHost[c], 1, "join")
            = Expecting(preloaded[c], toGuest[c])
    BY <2>1, <2>2
  <2> QED BY <1>1, <2>3 DEF HostMsgOK
<1>5. q = IF broken[c] \/ guest[c] = "closed" THEN toGuest[c] ELSE Append(toGuest[c], m)
  <2> HIDE DEF m
  <2> QED BY <1>2, <1>3, SentOne
<1> HIDE DEF q, m
<1>6. \A i \in 1..Len(toGuest[c]) :
          /\ toGuest[c][i].kind # "hello" /\ toGuest[c][i].kind # "preloadFinished"
          /\ toGuest[c][i].kind = "connectResponse" => gExpected[c] = "connectResponse"
  BY <1>4 DEF LinkOrder, Ordered, GuestQueue, GuestMsgOK
<1>7. guest[c] = "closed" => toGuest[c] = <<>>
  BY DEF LinkOrder, Ordered, Stage
<1>8. GuestQueue("connected", guest[c], gExpected[c], preloaded[c], asked[c], q)
  <2>0. GuestQueue("early_subscribe", guest[c], gExpected[c], preloaded[c], asked[c], toGuest[c])
    BY <1>4 DEF LinkOrder, Ordered
  <2>1. CASE guest[c] = "closed"
    BY <1>5, <1>7, <2>1, EmptyQueues
  <2>2. CASE guest[c] # "closed" /\ broken[c]
    BY <1>4, <1>5, <1>6, <2>0, <2>2 DEF GuestQueue, GuestMsgOK
  <2>3. CASE guest[c] # "closed" /\ ~broken[c]
    <3>1. gExpected[c] = "preloadFinished"
      BY <1>4, <2>3
    <3>2. Expecting(preloaded[c], toGuest[c]) >= asked[c]
      BY <1>4, <2>3
    <3>3. \A i \in 1..Len(toGuest[c]) :
              /\ toGuest[c][i].kind # "hello" /\ toGuest[c][i].kind # "preloadFinished"
              /\ toGuest[c][i].kind # "connectResponse"
      BY <1>6, <3>1
    <3> QED BY <1>3, <1>5, <2>0, <2>3, <3>1, <3>2, <3>3, GuestAppend
  <2> QED BY <2>1, <2>2, <2>3
<1>9. HostQueue("connected", guest[c], gExpected[c], broken[c], hasty[c],
                Expecting(preloaded[c], q), asked[c], Tail(toHost[c]))
  <2>1. HostQueue("early_subscribe", guest[c], gExpected[c], broken[c], hasty[c],
                  Expecting(preloaded[c], toGuest[c]), asked[c], toHost[c])
    BY <1>4 DEF LinkOrder, Ordered
  <2>2. Expecting(preloaded[c], toGuest[c]) \in Nat /\ Expecting(preloaded[c], q) \in Nat
    <3>1. Append(toGuest[c], m) \in Seq(ToGuestMsg)
      BY <1>3, AppendProperties
    <3> QED BY <1>3, <1>5, <3>1, ExpectingAppend
  <2> DEFINE n == Expecting(preloaded[c], toGuest[c])
             n2 == Expecting(preloaded[c], q)
             qh == toHost[c]
  <2>3. qh # <<>> /\ Head(qh).kind = "preloadClientFinished" /\ qh \in Seq(ToHostMsg)
        /\ n \in Nat /\ n2 \in Nat
        /\ HostQueue("early_subscribe", guest[c], gExpected[c], broken[c], hasty[c],
                     n, asked[c], qh)
    BY <1>3, <2>1, <2>2
  <2> HIDE DEF n, n2, qh
  <2> DEFINE h == "early_subscribe"
             h2 == "connected"
  <2>4. /\ h # "connecting" /\ h2 # h /\ h2 \in {"early_subscribe", "connected"}
        /\ HostQueue(h, guest[c], gExpected[c], broken[c], hasty[c], n, asked[c], qh)
        /\ broken[c] \in BOOLEAN /\ asked[c] \in Nat /\ n \in Nat /\ n2 \in Nat
        /\ qh \in Seq(ToHostMsg) /\ qh # <<>>
        /\ Head(qh).kind = "preloadClientFinished"
    BY <1>3, <2>3
  <2> HIDE DEF h, h2
  <2>5. HostQueue(h2, guest[c], gExpected[c], broken[c], hasty[c],
                  n2, asked[c], Tail(qh))
    BY <2>4, HostTail, ZenonT(60)
  <2> QED BY <2>5 DEF h2, n2, qh
<1>10. Stage("connected", guest[c], "error", gExpected[c], broken[c], preloaded[c], asked[c],
             Tail(toHost[c]), q)
  BY <1>4, <1>5, <1>7 DEF LinkOrder, Ordered, Stage
<1> QED BY <1>2, <1>8, <1>9, <1>10 DEF LinkOrder, Ordered, q

(* What an established host may send: the guest is ready for it, or has    *)
(* the answer that makes it ready in front of it.                          *)
LEMMA HostSendsOrder ==
  ASSUME TypeOK, NEW c \in Conn, LinkOrder(c),
         host[c] \in {"early_subscribe", "connected"},
         NEW m \in {CacheInfo, User}
  PROVE  LET q == IF broken[c] \/ guest[c] = "closed" THEN toGuest[c]
                                                      ELSE Append(toGuest[c], m) IN
         /\ toGuest[c] \o SentToGuest(c, <<m>>) = q
         /\ q \in Seq(ToGuestMsg)
         /\ GuestQueue(host[c], guest[c], gExpected[c], preloaded[c], asked[c], q)
         /\ Stage(host[c], guest[c], hExpected[c], gExpected[c], broken[c],
                  preloaded[c], asked[c], toHost[c], q)
         /\ Expecting(preloaded[c], q) \in Nat
         /\ broken[c] \/ guest[c] = "closed"
              \/ Expecting(preloaded[c], q) =
                     Expecting(preloaded[c], toGuest[c]) + IF m = CacheInfo THEN 1 ELSE 0
<1>1. /\ toGuest[c] \in Seq(ToGuestMsg) /\ preloaded[c] \in Nat /\ asked[c] \in Nat /\ guest[c] \in State
      /\ m \in ToGuestMsg /\ m.kind \in {"cacheInfo", "user"} /\ ~SystemKind(m)
  BY MessageTypes DEF TypeOK, CacheInfo, User, SystemKind, Kind
<1>2. m.kind = "cacheInfo" <=> m = CacheInfo
  BY <1>1, MessageKinds
<1>3. toGuest[c] \o SentToGuest(c, <<m>>) =
          IF broken[c] \/ guest[c] = "closed" THEN toGuest[c] ELSE Append(toGuest[c], m)
  BY <1>1, SentOne
<1>4. GuestQueue(host[c], guest[c], gExpected[c], preloaded[c], asked[c], toGuest[c])
  BY DEF LinkOrder, Ordered
<1>5. CASE broken[c] \/ guest[c] = "closed"
  <2>1. Expecting(preloaded[c], toGuest[c]) \in Nat
    BY <1>1, ExpectingAppend
  <2> QED BY <1>1, <1>3, <1>4, <1>5, <2>1 DEF LinkOrder, Ordered
<1>6. CASE ~(broken[c] \/ guest[c] = "closed")
  <2> DEFINE q == Append(toGuest[c], m)
  <2>1. q \in Seq(ToGuestMsg) /\ q # <<>>
    BY <1>1, AppendProperties
  <2>2. /\ Expecting(preloaded[c], q) \in Nat
        /\ Expecting(preloaded[c], q) =
               Expecting(preloaded[c], toGuest[c]) + IF m = CacheInfo THEN 1 ELSE 0
    <3>1. Expecting(preloaded[c], q) \in Nat
      <4> HIDE DEF q
      <4> QED BY <1>1, <2>1, ExpectingAppend
    <3> QED BY <1>1, <1>2, <3>1, ExpectingAppend
  <2>3. guest[c] \in {"early_subscribe", "connected"}
          \/ (toGuest[c] # <<>> /\ gExpected[c] = "connectResponse")
    BY <1>1, <1>6 DEF LinkOrder, Ordered, Stage, State
  <2>4. \A i \in 1..Len(toGuest[c]) :
            /\ toGuest[c][i].kind # "hello"
            /\ toGuest[c][i].kind = "connectResponse" => host[c] \in {"early_subscribe", "closed"}
            /\ toGuest[c][i].kind = "preloadFinished" => host[c] \in {"connected", "closed"}
    BY <1>4 DEF GuestQueue, GuestMsgOK
  <2>5. GuestQueue(host[c], guest[c], gExpected[c], preloaded[c], asked[c], q)
    <3>1. m.kind # "hello" /\ m.kind # "connectResponse" /\ m.kind # "preloadFinished"
      BY <1>1
    <3> QED BY <1>1, <1>4, <2>3, <2>4, <3>1, GuestAppend
  <2>6. Stage(host[c], guest[c], hExpected[c], gExpected[c], broken[c],
              preloaded[c], asked[c], toHost[c], q)
    <3> HIDE DEF q
    <3> QED BY <1>6, <2>1 DEF LinkOrder, Ordered, Stage
  <2> HIDE DEF q
  <2> QED BY <1>3, <1>6, <2>1, <2>2, <2>5, <2>6 DEF q
<1> QED BY <1>5, <1>6

(* HostTransceiver::handleTransmission: a join is answered.                *)
LEMMA HostHandleTransmissionOrder ==
  ASSUME TypeOK, NEW c \in Conn, LinkOrder(c),
         toHost[c] # <<>>, ~SystemKind(Head(toHost[c])),
         host[c] \in {"early_subscribe", "connected"},
         HostHandleTransmission(c, Head(toHost[c]))
  PROVE  LinkOrder(c)'
<1> DEFINE q == toGuest'[c]
           m == Head(toHost[c])
<1>1. /\ host'[c] = host[c] /\ hExpected'[c] = hExpected[c]
      /\ guest'[c] = guest[c] /\ gExpected'[c] = gExpected[c] /\ broken'[c] = broken[c]
      /\ asked'[c] = asked[c] /\ hasty'[c] = hasty[c]
      /\ preloaded'[c] = preloaded[c] /\ toHost'[c] = Tail(toHost[c])
      /\ q = toGuest[c] \o SentToGuest(c, IF m = Join THEN <<CacheInfo>> ELSE <<>>)
  BY DEF HostHandleTransmission, TypeOK
<1>2. /\ toGuest[c] \in Seq(ToGuestMsg) /\ preloaded[c] \in Nat /\ asked[c] \in Nat
      /\ toHost[c] \in Seq(ToHostMsg) /\ broken[c] \in BOOLEAN
  BY DEF TypeOK
<1>3. m \in ToHostMsg /\ (m.kind = "join" <=> m = Join)
  BY FirstInOrder, MessageKinds
<1>4. Expecting(preloaded[c], toGuest[c]) \in Nat
  BY <1>2, ExpectingAppend, MessageTypes
<1>5. /\ GuestQueue(host[c], guest[c], gExpected[c], preloaded[c], asked[c], q)
      /\ Stage(host[c], guest[c], hExpected[c], gExpected[c], broken[c],
               preloaded[c], asked[c], toHost[c], q)
      /\ Expecting(preloaded[c], q) \in Nat
      /\ broken[c] \/ guest[c] = "closed"
           \/ Expecting(preloaded[c], q) =
                  Expecting(preloaded[c], toGuest[c]) + IF m.kind = "join" THEN 1 ELSE 0
  <2>1. CASE m = Join
    <3>1. q = toGuest[c] \o SentToGuest(c, <<CacheInfo>>)
      BY <1>1, <2>1
    <3> HIDE DEF q, m
    <3> QED BY <1>3, <2>1, <3>1, HostSendsOrder
  <2>2. CASE m # Join
    <3>1. q = toGuest[c]
      BY <1>1, <2>2, SentOne
    <3> HIDE DEF q, m
    <3> QED BY <1>3, <1>4, <2>2, <3>1 DEF LinkOrder, Ordered
  <2> QED BY <2>1, <2>2
<1>6. HostQueue(host[c], guest[c], gExpected[c], broken[c], hasty[c], Expecting(preloaded[c], q), asked[c],
                Tail(toHost[c]))
  <2>1. HostQueue(host[c], guest[c], gExpected[c], broken[c], hasty[c],
                  Expecting(preloaded[c], toGuest[c]), asked[c], toHost[c])
    BY DEF LinkOrder, Ordered
  <2>2. host[c] # "connecting" /\ toHost[c] # <<>>
    OBVIOUS
  <2>3. broken[c] \/ guest[c] = "closed"
          \/ Expecting(preloaded[c], q) =
                 Expecting(preloaded[c], toGuest[c])
                     + IF Head(toHost[c]).kind = "join" THEN 1 ELSE 0
    BY <1>5
  <2> DEFINE n == Expecting(preloaded[c], toGuest[c])
             n2 == Expecting(preloaded[c], q)
             qh == toHost[c]
             h == host[c]
  <2>4. /\ qh # <<>> /\ qh \in Seq(ToHostMsg) /\ n \in Nat /\ n2 \in Nat
        /\ h \in {"early_subscribe", "connected"}
        /\ HostQueue(h, guest[c], gExpected[c], broken[c], hasty[c], n, asked[c], qh)
        /\ broken[c] \/ guest[c] = "closed"
              \/ n2 = n + IF Head(qh).kind = "join" THEN 1 ELSE 0
    BY <1>2, <1>4, <1>5, <2>1, <2>2, <2>3
  <2> HIDE DEF q, n, n2, qh, h
  <2>5. HostQueue(h, guest[c], gExpected[c], broken[c], hasty[c], n2, asked[c], Tail(qh))
    BY <1>2, <2>4, HostTailStays, ZenonT(60)
  <2> QED BY <2>5 DEF h, n2, qh
<1>7. Stage(host[c], guest[c], hExpected[c], gExpected[c], broken[c],
            preloaded[c], asked[c], Tail(toHost[c]), q)
  <2>1. toHost[c] # <<>>
    OBVIOUS
  <2> HIDE DEF q
  <2> QED BY <1>5, <2>1 DEF Stage
<1> QED BY <1>1, <1>5, <1>6, <1>7 DEF LinkOrder, Ordered

(* HostTransceiver::transmit *)
LEMMA HostTransmitOrder ==
  ASSUME TypeOK, NEW c \in Conn, LinkOrder(c), HostTransmit(c)
  PROVE  LinkOrder(c)'
<1> DEFINE q == toGuest'[c]
<1>1. /\ host[c] \in {"early_subscribe", "connected"}
      /\ host'[c] = host[c] /\ hExpected'[c] = hExpected[c]
      /\ guest'[c] = guest[c] /\ gExpected'[c] = gExpected[c] /\ broken'[c] = broken[c]
      /\ asked'[c] = asked[c] /\ hasty'[c] = hasty[c]
      /\ preloaded'[c] = preloaded[c] /\ toHost'[c] = toHost[c]
      /\ q = toGuest[c] \o SentToGuest(c, <<User>>)
  BY DEF HostTransmit, TypeOK
<1>2. /\ toGuest[c] \in Seq(ToGuestMsg) /\ preloaded[c] \in Nat /\ asked[c] \in Nat
      /\ toHost[c] \in Seq(ToHostMsg) /\ broken[c] \in BOOLEAN
  BY DEF TypeOK
<1>3. User # CacheInfo
  BY DEF User, CacheInfo
<1>4. Expecting(preloaded[c], toGuest[c]) \in Nat
  BY <1>2, ExpectingAppend, MessageTypes
<1> HIDE DEF q
<1>5. /\ GuestQueue(host[c], guest[c], gExpected[c], preloaded[c], asked[c], q)
      /\ Stage(host[c], guest[c], hExpected[c], gExpected[c], broken[c],
               preloaded[c], asked[c], toHost[c], q)
      /\ Expecting(preloaded[c], q) \in Nat
      /\ broken[c] \/ guest[c] = "closed"
           \/ Expecting(preloaded[c], q) = Expecting(preloaded[c], toGuest[c])
  <2>1. /\ GuestQueue(host[c], guest[c], gExpected[c], preloaded[c], asked[c], q)
        /\ Stage(host[c], guest[c], hExpected[c], gExpected[c], broken[c],
                 preloaded[c], asked[c], toHost[c], q)
        /\ Expecting(preloaded[c], q) \in Nat
        /\ broken[c] \/ guest[c] = "closed"
             \/ Expecting(preloaded[c], q) =
                    Expecting(preloaded[c], toGuest[c]) + IF User = CacheInfo THEN 1 ELSE 0
    BY <1>1, HostSendsOrder
  <2>2. ASSUME Expecting(preloaded[c], q) =
                   Expecting(preloaded[c], toGuest[c]) + IF User = CacheInfo THEN 1 ELSE 0
        PROVE  Expecting(preloaded[c], q) = Expecting(preloaded[c], toGuest[c])
    BY <1>3, <1>4, <2>2
  <2> QED BY <2>1, <2>2
<1>6. HostQueue(host[c], guest[c], gExpected[c], broken[c], hasty[c], Expecting(preloaded[c], q), asked[c],
                toHost[c])
  <2>1. HostQueue(host[c], guest[c], gExpected[c], broken[c], hasty[c],
                  Expecting(preloaded[c], toGuest[c]), asked[c], toHost[c])
    BY DEF LinkOrder, Ordered
  <2>2. CASE guest[c] = "closed"
    BY <1>2, <1>4, <1>5, <2>1, <2>2, HostKeep
  <2>3. CASE broken[c]
    BY <2>1, <2>3 DEF HostQueue, HostMsgOK
  <2>4. CASE Expecting(preloaded[c], q) = Expecting(preloaded[c], toGuest[c])
    BY <2>1, <2>4
  <2> QED BY <1>5, <2>2, <2>3, <2>4
<1> QED BY <1>1, <1>5, <1>6 DEF LinkOrder, Ordered, q

(* Connection::handleHello, by a guest that can answer it.                 *)
LEMMA HandleHelloOrder ==
  ASSUME TypeOK, NEW c \in Conn, LinkOrder(c), toGuest[c] # <<>>,
         Head(toGuest[c]).kind = "hello", gExpected[c] = "hello",
         ~(Head(toGuest[c]).authenticationRequired /\ secret[c] = "none"),
         HandleHello(c, Head(toGuest[c]))
  PROVE  LinkOrder(c)'
<1> DEFINE r == toHost'[c]
           m == Connect(IF Head(toGuest[c]).authenticationRequired THEN secret[c] ELSE "none")
<1>1. /\ Head(toGuest[c]) \in ToGuestMsg
      /\ GuestMsgOK(host[c], guest[c], gExpected[c], preloaded[c], asked[c], toGuest[c], 1)
      /\ toGuest[c][1].kind = "hello"
  BY FirstInOrder
<1>2. /\ host'[c] = host[c] /\ hExpected'[c] = hExpected[c]
      /\ guest'[c] = guest[c] /\ gExpected'[c] = "connectResponse" /\ broken'[c] = broken[c]
      /\ asked'[c] = asked[c] /\ hasty'[c] = hasty[c]
      /\ preloaded'[c] = preloaded[c] /\ toGuest'[c] = Tail(toGuest[c])
      /\ r = toHost[c] \o SentToHost(c, <<m>>)
  BY DEF HandleHello, TypeOK
<1>3. toHost[c] \in Seq(ToHostMsg) /\ guest[c] = "connecting"
  BY DEF LinkOrder, Ordered, Stage, TypeOK
<1>4. Len(toGuest[c]) = 1 /\ host[c] \in {"connecting", "closed"}
  BY <1>1 DEF GuestMsgOK
<1>5. Tail(toGuest[c]) = <<>>
  <2>1. /\ toGuest[c] \in Seq(ToGuestMsg) /\ Tail(toGuest[c]) \in Seq(ToGuestMsg)
        /\ Len(Tail(toGuest[c])) = 0
    BY <1>4, HeadTailProperties DEF TypeOK
  <2> QED BY <2>1, EmptySeq
<1>6. m \in ToHostMsg /\ m.kind = "connect" /\ SystemKind(m)
  <2>1. (IF Head(toGuest[c]).authenticationRequired THEN secret[c] ELSE "none") \in SecretKind
    BY DEF TypeOK, SecretKind
  <2>2. m \in ToHostMsg
    BY <2>1, MessageTypes
  <2> QED BY <2>2 DEF Connect, SystemKind, Kind
<1>7. r = IF broken[c] \/ host[c] = "closed" THEN toHost[c] ELSE Append(toHost[c], m)
  <2> HIDE DEF m
  <2> QED BY <1>2, <1>3, <1>6, SentOne
<1> HIDE DEF r, m
<1>8. GuestQueue(host[c], guest[c], "connectResponse", preloaded[c], asked[c], <<>>)
  BY EmptyQueues
<1>9. HostQueue(host[c], guest[c], "connectResponse", broken[c], hasty[c],
                Expecting(preloaded[c], <<>>), asked[c], r)
  <2>1. \A i \in 1..Len(toHost[c]) :
            /\ HostMsgOK(host[c], guest[c], "hello", broken[c], hasty[c],
                         Expecting(preloaded[c], toGuest[c]), asked[c], toHost[c], i)
            /\ toHost[c][i].kind # "connect"
            /\ toHost[c][i].kind # "preloadClientFinished"
    BY <1>3, <1>4 DEF LinkOrder, Ordered, HostQueue, HostMsgOK
  <2>2. CASE r = toHost[c]
    BY <2>1, <2>2 DEF HostQueue, HostMsgOK
  <2>3. CASE host[c] = "connecting" /\ r = Append(toHost[c], m)
    <3>1. /\ Len(toHost[c]) \in Nat /\ Len(r) = Len(toHost[c]) + 1
          /\ \A i \in 1..Len(toHost[c]) : r[i] = toHost[c][i]
          /\ r[Len(toHost[c]) + 1] = m
      BY <1>3, <1>6, <2>3, AppendProperties, LenProperties
    <3>2. ASSUME NEW i \in 1..Len(r)
          PROVE  HostMsgOK(host[c], guest[c], "connectResponse", broken[c], hasty[c],
                           Expecting(preloaded[c], <<>>), asked[c], r, i)
      <4>1. CASE i \in 1..Len(toHost[c])
        <5>1. Carries(toHost[c], i - 1, "connect") => Carries(r, i - 1, "connect")
          BY <3>1, <4>1 DEF Carries
        <5> QED BY <2>1, <3>1, <4>1, <5>1 DEF HostMsgOK
      <4>2. CASE i = Len(toHost[c]) + 1
        <5>1. \A j \in 1..Len(r) : r[j].kind = "connect" => i = j
          BY <2>1, <3>1, <4>2
        <5> QED BY <1>6, <2>3, <3>1, <4>2, <5>1 DEF HostMsgOK
      <4> QED BY <3>1, <4>1, <4>2
    <3> QED BY <3>2 DEF HostQueue
  <2> QED BY <1>4, <1>7, <2>2, <2>3
<1>10. Stage(host[c], guest[c], hExpected[c], "connectResponse", broken[c], preloaded[c], asked[c],
             r, <<>>)
  <2>1. host[c] = "connecting" /\ ~broken[c] => Carries(r, Len(r), "connect")
    <3> SUFFICES ASSUME host[c] = "connecting" /\ ~broken[c]
                 PROVE  Carries(r, Len(r), "connect")
      OBVIOUS
    <3>1. /\ Len(toHost[c]) \in Nat /\ Len(r) = Len(toHost[c]) + 1
          /\ r[Len(toHost[c]) + 1] = m
      BY <1>3, <1>6, <1>7, AppendProperties, LenProperties
    <3>2. Len(r) \in 1..Len(r) /\ r[Len(r)].kind = "connect"
      BY <1>6, <3>1
    <3> QED BY <3>2 DEF Carries
  <2> QED BY <1>3, <1>4, <1>7, <2>1 DEF LinkOrder, Ordered, Stage
<1> QED BY <1>2, <1>5, <1>8, <1>9, <1>10 DEF LinkOrder, Ordered, r

(* Connection::handleAuthorizationRequest: the guest enters early_subscribe *)
(* and its subscriptions follow.                                           *)
LEMMA HandleAuthorizationRequestOrder ==
  ASSUME TypeOK, NEW c \in Conn, LinkOrder(c), toGuest[c] # <<>>,
         Head(toGuest[c]).kind = "connectResponse", gExpected[c] = "connectResponse",
         HandleAuthorizationRequest(c, Head(toGuest[c])),
         ~PreloadFails(c, Head(toGuest[c]))
  PROVE  LinkOrder(c)'
<1> DEFINE r == toHost'[c]
           ms == Append(Subscriptions(c), PreloadClientFinished)
           q == Tail(toGuest[c])
<1>1. /\ GuestMsgOK(host[c], guest[c], gExpected[c], preloaded[c], asked[c], toGuest[c], 1)
      /\ Head(toGuest[c]) = toGuest[c][1]
  BY FirstInOrder
<1>2. Head(toGuest[c]).preload /\ host[c] \in {"early_subscribe", "closed"}
  BY <1>1 DEF GuestMsgOK
<1>3. /\ host'[c] = host[c] /\ hExpected'[c] = hExpected[c]
      /\ guest'[c] = "early_subscribe" /\ gExpected'[c] = "preloadFinished"
      /\ broken'[c] = broken[c]
      /\ asked'[c] = Missing(c) /\ hasty'[c] = hasty[c] /\ preloaded'[c] = preloaded[c] /\ toGuest'[c] = q
      /\ r = toHost[c] \o SentToHost(c, ms)
  BY <1>2 DEF HandleAuthorizationRequest, TypeOK
<1>4. guest[c] = "connecting"
  BY DEF LinkOrder, Ordered, Stage
<1>5. /\ toHost[c] \in Seq(ToHostMsg) /\ toGuest[c] \in Seq(ToGuestMsg)
      /\ preloaded[c] \in Nat /\ asked[c] \in Nat /\ broken[c] \in BOOLEAN
      /\ q \in Seq(ToGuestMsg)
  BY HeadTailProperties DEF TypeOK
<1>6. r = IF broken[c] \/ host[c] = "closed" THEN toHost[c] ELSE toHost[c] \o ms
  <2>1. toHost[c] \o <<>> = toHost[c]
    BY <1>5, ConcatEmptySeq
  <2> HIDE DEF ms
  <2> QED BY <1>3, <2>1 DEF SentToHost
<1>7. Expecting(preloaded[c], toGuest[c]) \in Nat /\ Expecting(preloaded[c], q) \in Nat
  BY <1>5, ExpectingTail
<1>8. HostQueue(host[c], guest[c], gExpected[c], broken[c], hasty[c],
                Expecting(preloaded[c], toGuest[c]), asked[c], toHost[c])
  BY DEF LinkOrder, Ordered
<1>9. GuestQueue(host[c], "early_subscribe", "preloadFinished", preloaded[c], Missing(c), q)
  <2>1. GuestQueue(host[c], guest[c], gExpected[c], preloaded[c], asked[c], toGuest[c])
    BY DEF LinkOrder, Ordered
  <2>2. preloaded[c] = preloaded[c] + IF Head(toGuest[c]).kind = "cacheInfo" THEN 1 ELSE 0
    BY <1>5
  <2> QED BY <1>5, <2>1, <2>2, GuestTail
<1> HIDE DEF r, q
<1>10. HostQueue(host[c], "early_subscribe", "preloadFinished", broken[c], hasty[c],
                 Expecting(preloaded[c], q), Missing(c), r)
  <2>1. CASE host[c] = "closed"
    <3>1. r = <<>>
      BY <1>6, <2>1 DEF LinkOrder, Ordered, Stage
    <3> QED BY <3>1, EmptyQueues
  <2>2. CASE host[c] = "early_subscribe" /\ broken[c]
    BY <1>4, <1>6, <1>8, <2>2 DEF HostQueue, HostMsgOK
  <2>3. CASE host[c] = "early_subscribe" /\ ~broken[c]
    <3> DEFINE N == Missing(c)
    <3>1. /\ N \in Nat /\ Subscriptions(c) \in Seq(ToHostMsg)
          /\ Len(Subscriptions(c)) = N
          /\ \A i \in 1..N : Subscriptions(c)[i] = Join
      BY SubscriptionsType, ConnectionAssumption
    <3> HIDE DEF N
    <3>2. /\ ms \in Seq(ToHostMsg) /\ Len(ms) = N + 1
          /\ \A i \in 1..N : ms[i] = Join
          /\ ms[N + 1] = PreloadClientFinished
      BY <3>1, AppendProperties, MessageTypes
    <3> HIDE DEF ms
    <3>3. r = toHost[c] \o ms
      BY <1>6, <2>3
    <3> DEFINE n == Expecting(preloaded[c], toGuest[c])
               n2 == Expecting(preloaded[c], q)
               qh == toHost[c]
    <3>4. /\ n \in Nat /\ n2 \in Nat /\ qh \in Seq(ToHostMsg)
          /\ guest[c] # "closed" /\ gExpected[c] # "preloadFinished"
          /\ HostQueue("early_subscribe", guest[c], gExpected[c], broken[c], hasty[c],
                       n, asked[c], qh)
      BY <1>4, <1>5, <1>7, <1>8, <2>3
    <3> HIDE DEF n, n2, qh
    <3>5. /\ JoinsAndFinished(ms, N)
          /\ ms \in Seq(ToHostMsg) /\ N \in Nat /\ broken[c] \in BOOLEAN
      BY <1>5, <3>1, <3>2 DEF JoinsAndFinished
    <3>6. HostQueue("early_subscribe", "early_subscribe", "preloadFinished", broken[c],
                    hasty[c], n2, N, qh \o ms)
      BY <3>4, <3>5, HostSubscriptions
    <3> QED BY <2>3, <3>3, <3>6 DEF N, n2, qh
  <2> QED BY <1>2, <2>1, <2>2, <2>3
<1>11. Stage(host[c], "early_subscribe", hExpected[c], "preloadFinished", broken[c],
             preloaded[c], Missing(c), r, q)
  BY <1>2, <1>4, <1>6 DEF LinkOrder, Ordered, Stage
<1> QED BY <1>3, <1>9, <1>10, <1>11 DEF LinkOrder, Ordered, r, q

(* Connection::handlePreloadFinished: everything asked for has arrived.    *)
LEMMA HandlePreloadFinishedOrder ==
  ASSUME TypeOK, NEW c \in Conn, LinkOrder(c), toGuest[c] # <<>>,
         Head(toGuest[c]).kind = "preloadFinished", gExpected[c] = "preloadFinished",
         HandlePreloadFinished(c)
  PROVE  LinkOrder(c)'
<1> DEFINE q == Tail(toGuest[c])
<1>1. /\ GuestMsgOK(host[c], guest[c], gExpected[c], preloaded[c], asked[c], toGuest[c], 1)
      /\ toGuest[c][1].kind = "preloadFinished"
  BY FirstInOrder
<1>2. /\ host'[c] = host[c] /\ hExpected'[c] = hExpected[c]
      /\ guest'[c] = "connected" /\ gExpected'[c] = "error"
      /\ broken'[c] = broken[c]
      /\ asked'[c] = asked[c] /\ hasty'[c] = hasty[c] /\ preloaded'[c] = preloaded[c] /\ toGuest'[c] = q
      /\ toHost'[c] = toHost[c]
  BY DEF HandlePreloadFinished, TypeOK
<1>3. guest[c] = "early_subscribe" /\ host[c] \in {"connected", "closed"}
  BY <1>1 DEF LinkOrder, Ordered, Stage, GuestMsgOK
<1>4. /\ toHost[c] \in Seq(ToHostMsg) /\ toGuest[c] \in Seq(ToGuestMsg)
      /\ preloaded[c] \in Nat /\ asked[c] \in Nat /\ q \in Seq(ToGuestMsg)
  BY HeadTailProperties DEF TypeOK
<1>5. preloaded[c] >= asked[c]
  <2>1. CountOf(toGuest[c], 1, "cacheInfo") = 0
    <3>1. CountOf(toGuest[c], 0 + 1, "cacheInfo") =
              CountOf(toGuest[c], 0, "cacheInfo")
                  + IF toGuest[c][0 + 1].kind = "cacheInfo" THEN 1 ELSE 0
      BY CountNext
    <3>2. CountOf(toGuest[c], 0, "cacheInfo") = 0
      BY CountZero
    <3> QED BY <1>1, <3>1, <3>2
  <2>2. preloaded[c] + CountOf(toGuest[c], 1, "cacheInfo") = preloaded[c]
    BY <1>4, <2>1
  <2> QED BY <1>1, <2>2 DEF GuestMsgOK
<1>6. GuestQueue(host[c], "connected", "error", preloaded[c], asked[c], q)
  <2>1. GuestQueue(host[c], guest[c], gExpected[c], preloaded[c], asked[c], toGuest[c])
    BY DEF LinkOrder, Ordered
  <2>2. preloaded[c] = preloaded[c] + IF Head(toGuest[c]).kind = "cacheInfo" THEN 1 ELSE 0
    BY <1>4
  <2> QED BY <1>4, <2>1, <2>2, GuestTail
<1> HIDE DEF q
<1>7. HostQueue(host[c], "connected", "error", broken[c], hasty[c], Expecting(preloaded[c], q), asked[c], toHost[c])
  <2>1. HostQueue(host[c], guest[c], gExpected[c], broken[c], hasty[c],
                  Expecting(preloaded[c], toGuest[c]), asked[c], toHost[c])
    BY DEF LinkOrder, Ordered
  <2> QED BY <1>3, <2>1 DEF HostQueue, HostMsgOK
<1>8. Stage(host[c], "connected", hExpected[c], "error", broken[c], preloaded[c], asked[c], toHost[c], q)
  BY <1>3, <1>5 DEF LinkOrder, Ordered, Stage
<1> QED BY <1>2, <1>6, <1>7, <1>8 DEF LinkOrder, Ordered, q

(* GuestTransceiver::handleTransmission *)
LEMMA GuestHandleTransmissionOrder ==
  ASSUME TypeOK, NEW c \in Conn, LinkOrder(c), toGuest[c] # <<>>,
         guest[c] \in {"early_subscribe", "connected"}, ~SystemKind(Head(toGuest[c])),
         GuestHandleTransmission(c, Head(toGuest[c]))
  PROVE  LinkOrder(c)'
<1> DEFINE q == Tail(toGuest[c])
           pre == preloaded'[c]
<1>1. Head(toGuest[c]) \in ToGuestMsg /\ Head(toGuest[c]).kind # "preloadFinished"
  BY FirstInOrder DEF SystemKind, Kind
<1>2. /\ host'[c] = host[c] /\ hExpected'[c] = hExpected[c]
      /\ guest'[c] = guest[c] /\ gExpected'[c] = gExpected[c]
      /\ broken'[c] = broken[c]
      /\ asked'[c] = asked[c] /\ hasty'[c] = hasty[c] /\ toGuest'[c] = q /\ toHost'[c] = toHost[c]
      /\ pre = IF Head(toGuest[c]) = CacheInfo THEN preloaded[c] + 1 ELSE preloaded[c]
  BY DEF GuestHandleTransmission, TypeOK
<1>3. /\ toHost[c] \in Seq(ToHostMsg) /\ toGuest[c] \in Seq(ToGuestMsg)
      /\ preloaded[c] \in Nat /\ asked[c] \in Nat /\ q \in Seq(ToGuestMsg) /\ broken[c] \in BOOLEAN
  BY HeadTailProperties DEF TypeOK
<1>4. /\ pre = preloaded[c] + IF Head(toGuest[c]).kind = "cacheInfo" THEN 1 ELSE 0
      /\ pre \in Nat /\ pre >= preloaded[c]
  BY <1>1, <1>2, <1>3, MessageKinds
<1>5. GuestQueue(host[c], guest[c], gExpected[c], pre, asked[c], q)
  <2>1. GuestQueue(host[c], guest[c], gExpected[c], preloaded[c], asked[c], toGuest[c])
    BY DEF LinkOrder, Ordered
  <2> HIDE DEF pre
  <2> QED BY <1>3, <1>4, <2>1, GuestTail
<1>6. Expecting(pre, q) = Expecting(preloaded[c], toGuest[c])
        /\ Expecting(pre, q) \in Nat
  <2>1. /\ Expecting(preloaded[c], q) \in Nat
        /\ Expecting(preloaded[c], toGuest[c]) =
               Expecting(preloaded[c], q) + IF Head(toGuest[c]).kind = "cacheInfo" THEN 1 ELSE 0
    BY <1>3, ExpectingTail
  <2>2. CountOf(q, Len(q), "cacheInfo") \in Nat
    BY <1>3, LenProperties, CountNat
  <2> HIDE DEF q, pre
  <2> QED BY <1>3, <1>4, <2>1, <2>2 DEF Expecting
<1> HIDE DEF q, pre
<1>7. HostQueue(host[c], guest[c], gExpected[c], broken[c], hasty[c], Expecting(pre, q), asked[c], toHost[c])
  BY <1>6 DEF LinkOrder, Ordered
<1>8. Stage(host[c], guest[c], hExpected[c], gExpected[c], broken[c], pre, asked[c], toHost[c], q)
  <2>1. pre >= asked[c] \/ ~(preloaded[c] >= asked[c])
    BY <1>3, <1>4
  <2> QED BY <2>1 DEF LinkOrder, Ordered, Stage
<1> QED BY <1>2, <1>5, <1>7, <1>8 DEF LinkOrder, Ordered, q, pre

(* GuestTransceiver::publish *)
LEMMA GuestPublishOrder ==
  ASSUME TypeOK, NEW c \in Conn, LinkOrder(c), GuestPublish(c)
  PROVE  LinkOrder(c)'
<1> DEFINE r == toHost'[c]
           n == Expecting(preloaded[c], toGuest[c])
           hy == hasty[c] \/ gExpected[c] = "hello"
<1>1. /\ host'[c] = host[c] /\ hExpected'[c] = hExpected[c]
      /\ guest'[c] = guest[c] /\ gExpected'[c] = gExpected[c] /\ broken'[c] = broken[c]
      /\ asked'[c] = asked[c] /\ hasty'[c] = hy
      /\ preloaded'[c] = preloaded[c] /\ toGuest'[c] = toGuest[c]
      /\ r = toHost[c] \o SentToHost(c, <<User>>)
  BY DEF GuestPublish, TypeOK
<1>2. /\ guest[c] \notin {"suspended", "closed"}
      /\ guest[c] \in State /\ host[c] \in State
  BY DEF GuestPublish, TypeOK
<1>3. /\ User \in ToHostMsg /\ User.kind = "user" /\ toHost[c] \in Seq(ToHostMsg)
      /\ toGuest[c] \in Seq(ToGuestMsg) /\ preloaded[c] \in Nat /\ asked[c] \in Nat
  BY MessageTypes DEF TypeOK, User
<1>4. r = IF broken[c] \/ host[c] = "closed" THEN toHost[c] ELSE Append(toHost[c], User)
  BY <1>1, <1>3, SentOne
<1>5. n \in Nat
  BY <1>3, ExpectingAppend, MessageTypes
<1> HIDE DEF r, hy
<1>6. HostQueue(host[c], guest[c], gExpected[c], broken[c], hasty[c], n, asked[c], toHost[c])
  BY DEF LinkOrder, Ordered
<1> HIDE DEF n
<1>7. HostQueue(host[c], guest[c], gExpected[c], broken[c], hy, n, asked[c], r)
  <2>1. hasty[c] => hy
    BY DEF hy
  <2>2. CASE r = toHost[c]
    BY <1>6, <2>1, <2>2 DEF HostQueue, HostMsgOK
  <2>3. CASE host[c] # "closed" /\ ~broken[c] /\ r = Append(toHost[c], User)
    <3>1. \/ host[c] \in {"early_subscribe", "connected"} \/ hy
          \/ Carries(toHost[c], Len(toHost[c]), "connect")
      BY <1>2, <2>3 DEF LinkOrder, Ordered, Stage, State, hy
    <3>2. User.kind # "connect" /\ User.kind # "preloadClientFinished"
      BY <1>3
    <3> QED BY <1>3, <1>5, <1>6, <2>1, <2>3, <3>1, <3>2, HostAppend
  <2> QED BY <1>4, <2>2, <2>3
<1>8. Carries(toHost[c], Len(toHost[c]), "connect") => Carries(r, Len(r), "connect")
  <2>1. CASE r = toHost[c]
    BY <2>1
  <2>2. CASE r = Append(toHost[c], User)
    <3>1. /\ Len(toHost[c]) \in Nat /\ Len(r) = Len(toHost[c]) + 1
          /\ \A i \in 1..Len(toHost[c]) : r[i] = toHost[c][i]
      BY <1>3, <2>2, AppendProperties, LenProperties
    <3> QED BY <3>1 DEF Carries
  <2> QED BY <1>4, <2>1, <2>2
<1>9. Stage(host[c], guest[c], hExpected[c], gExpected[c], broken[c], preloaded[c], asked[c],
            r, toGuest[c])
  BY <1>2, <1>4, <1>8 DEF LinkOrder, Ordered, Stage
<1> QED BY <1>1, <1>7, <1>9 DEF LinkOrder, Ordered, r, n

(* The guest's end closes, a connected one after telling its host.         *)
LEMMA GuestCloseOrder ==
  ASSUME TypeOK, NEW c \in Conn, LinkOrder(c), guest[c] # "suspended", GuestClosed(c),
         NEW ms, toHost' = [toHost EXCEPT ![c] = @ \o SentToHost(c, ms)],
         ms = <<>> \/ (guest[c] = "connected" /\ \E e \in {0, 1} : ms = <<Error(e)>>)
  PROVE  LinkOrder(c)'
<1> DEFINE r == toHost'[c]
           n == Expecting(preloaded[c], toGuest[c])
           n2 == Expecting(preloaded[c], <<>>)
           ask2 == asked'[c]
<1>1. /\ guest'[c] = "closed" /\ gExpected'[c] = "error" /\ toGuest'[c] = <<>>
      /\ host'[c] = host[c] /\ hExpected'[c] = hExpected[c] /\ broken'[c] = broken[c]
      /\ hasty'[c] = hasty[c]
      /\ preloaded'[c] = preloaded[c] /\ r = toHost[c] \o SentToHost(c, ms)
  BY DEF GuestClosed, TypeOK
<1>2. /\ toHost[c] \in Seq(ToHostMsg) /\ toGuest[c] \in Seq(ToGuestMsg)
      /\ preloaded[c] \in Nat /\ asked[c] \in Nat /\ broken[c] \in BOOLEAN
      /\ <<>> \in Seq(ToGuestMsg)
  BY EmptySeq DEF TypeOK
<1>3. n \in Nat /\ n2 \in Nat
  <2>1. n \in Nat
    BY <1>2, ExpectingAppend, MessageTypes
  <2>2. n2 \in Nat
    BY <1>2, ExpectingAppend, MessageTypes
  <2> QED BY <2>1, <2>2
<1>4. r = toHost[c]
        \/ (/\ host[c] # "closed" /\ guest[c] = "connected"
            /\ \E m \in ToHostMsg : m.kind = "error" /\ r = Append(toHost[c], m))
  <2>1. CASE ms = <<>>
    BY <1>1, <2>1, SentOne
  <2>2. ASSUME guest[c] = "connected", NEW e \in {0, 1}, ms = <<Error(e)>> PROVE <1>4
    <3>1. Error(e) \in ToHostMsg /\ Error(e).kind = "error"
      BY MessageTypes DEF Error
    <3>2. r = IF broken[c] \/ host[c] = "closed" THEN toHost[c]
                                                 ELSE Append(toHost[c], Error(e))
      BY <1>1, <2>2, <3>1, SentOne
    <3> HIDE DEF r
    <3> QED BY <2>2, <3>1, <3>2
  <2> QED BY <2>1, <2>2
<1>5. HostQueue(host[c], guest[c], gExpected[c], broken[c], hasty[c], n, asked[c], toHost[c])
  BY DEF LinkOrder, Ordered
<1> HIDE DEF r, n, n2, ask2
<1>6. HostQueue(host[c], "closed", "error", broken[c], hasty[c], n2, ask2, r)
  <2>1. CASE r = toHost[c]
    BY <1>2, <1>3, <1>5, <2>1, HostKeep
  <2>2. ASSUME NEW m \in ToHostMsg, m.kind = "error", r = Append(toHost[c], m) PROVE <1>6
    <3>1. SystemKind(m)
      BY <2>2 DEF SystemKind, Kind
    <3> QED BY <1>2, <1>3, <1>5, <2>2, <3>1, HostAppend
  <2> QED BY <1>4, <2>1, <2>2
<1>7. GuestQueue(host[c], "closed", "error", preloaded[c], ask2, <<>>)
  BY EmptyQueues
<1>8. Stage(host[c], "closed", hExpected[c], "error", broken[c], preloaded[c], ask2, r, <<>>)
  BY <1>4 DEF LinkOrder, Ordered, Stage
<1> QED BY <1>1, <1>6, <1>7, <1>8 DEF LinkOrder, Ordered, r, n2, ask2

(* A transmission fails while the groups are joined: what had been sent,   *)
(* and perhaps the preloadClientFinished, is still on its way.             *)
LEMMA PreloadFailsOrder ==
  ASSUME TypeOK, NEW c \in Conn, LinkOrder(c), toGuest[c] # <<>>,
         Head(toGuest[c]).kind = "connectResponse", gExpected[c] = "connectResponse",
         PreloadFails(c, Head(toGuest[c]))
  PROVE  LinkOrder(c)'
<1> DEFINE r == toHost'[c]
           n == Expecting(preloaded[c], toGuest[c])
           n2 == Expecting(preloaded[c], <<>>)
           ask2 == asked'[c]
<1>1. /\ GuestMsgOK(host[c], guest[c], gExpected[c], preloaded[c], asked[c], toGuest[c], 1)
      /\ Head(toGuest[c]) = toGuest[c][1]
  BY FirstInOrder
<1>2. host[c] \in {"early_subscribe", "closed"}
  BY <1>1 DEF GuestMsgOK
<1>3. /\ guest'[c] = "closed" /\ gExpected'[c] = "error" /\ toGuest'[c] = <<>>
      /\ host'[c] = host[c] /\ hExpected'[c] = hExpected[c] /\ broken'[c] = broken[c]
      /\ hasty'[c] = hasty[c] /\ preloaded'[c] = preloaded[c]
  BY DEF PreloadFails, GuestClosed, TypeOK
<1>4. PICK sent \in 0..Missing(c), finished \in BOOLEAN :
          r = toHost[c] \o SentToHost(c, SubSeq(Subscriptions(c), 1, sent) \o
                  IF finished THEN <<PreloadClientFinished>> ELSE <<>>)
  BY DEF PreloadFails, TypeOK
<1>5. /\ toHost[c] \in Seq(ToHostMsg) /\ toGuest[c] \in Seq(ToGuestMsg)
      /\ preloaded[c] \in Nat /\ asked[c] \in Nat /\ broken[c] \in BOOLEAN
      /\ <<>> \in Seq(ToGuestMsg) /\ <<>> \in Seq(ToHostMsg)
  BY EmptySeq DEF TypeOK
<1>6. n \in Nat /\ n2 \in Nat
  <2>1. n \in Nat
    BY <1>5, ExpectingAppend, MessageTypes
  <2>2. n2 \in Nat
    BY <1>5, ExpectingAppend, MessageTypes
  <2> QED BY <2>1, <2>2
<1>7. guest[c] = "connecting"
  BY DEF LinkOrder, Ordered, Stage
<1> DEFINE last == IF finished THEN <<PreloadClientFinished>> ELSE <<>>
           ms == SubSeq(Subscriptions(c), 1, sent) \o last
<1>8. /\ sent \in Nat /\ ms \in Seq(ToHostMsg) /\ Len(ms) \in {sent, sent + 1}
      /\ \A i \in 1..sent : ms[i] = Join
      /\ Len(ms) = sent + 1 => ms[sent + 1] = PreloadClientFinished
  <2> DEFINE t == SubSeq(Subscriptions(c), 1, sent)
  <2>1. /\ Missing(c) \in Nat /\ sent \in Nat /\ sent <= Missing(c)
        /\ Subscriptions(c) \in Seq(ToHostMsg) /\ Len(Subscriptions(c)) = Missing(c)
        /\ \A i \in 1..Missing(c) : Subscriptions(c)[i] = Join
    <3>1. Missing(c) \in 0..PreloadTypes /\ PreloadTypes \in Nat
      BY SubscriptionsType, ConnectionAssumption
    <3>2. Missing(c) \in Nat /\ sent \in Nat /\ sent <= Missing(c)
      BY <3>1
    <3> QED BY <3>2, SubscriptionsType
  <2>2. \A i \in 1..sent : Subscriptions(c)[i] = Join
    BY <2>1
  <2>3. t \in Seq(ToHostMsg) /\ Len(t) = sent /\ \A i \in 1..sent : t[i] = Join
    <3>1. t \in Seq(ToHostMsg)
      BY <2>1, InFlightPrefix
    <3>2. Len(t) = sent /\ \A i \in 1..sent : t[i] = Subscriptions(c)[i]
      BY <2>1, <2>2, SubSeqProperties
    <3> QED BY <3>1, <3>2, <2>2
  <2> HIDE DEF t
  <2>4. last \in Seq(ToHostMsg) /\ \/ last = <<>>
                                   \/ Len(last) = 1 /\ last[1] = PreloadClientFinished
    BY <1>5, MessageTypes
  <2> HIDE DEF last
  <2>5. /\ t \o last \in Seq(ToHostMsg) /\ Len(t \o last) = sent + Len(last)
        /\ \A i \in 1..sent + Len(last) :
               (t \o last)[i] = IF i <= sent THEN t[i] ELSE last[i - sent]
    <3>1. /\ t \o last \in Seq(ToHostMsg) /\ Len(t \o last) = Len(t) + Len(last)
          /\ \A i \in 1..Len(t) + Len(last) :
                 (t \o last)[i] = IF i <= Len(t) THEN t[i] ELSE last[i - Len(t)]
      BY <2>3, <2>4, ConcatProperties, ZenonT(40)
    <3> QED BY <2>3, <3>1
  <2>6. ms = t \o last
    BY DEF t
  <2> HIDE DEF ms
  <2>7. CASE last = <<>>
    <3>1. Len(last) = 0 /\ sent + 0 = sent
      BY <2>1, <2>7
    <3> QED BY <2>1, <2>3, <2>5, <2>6, <3>1
  <2>8. CASE Len(last) = 1 /\ last[1] = PreloadClientFinished
    <3>1. sent + 1 \in 1..sent + Len(last) /\ ~(sent + 1 <= sent) /\ (sent + 1) - sent = 1
      BY <2>1, <2>8
    <3> QED BY <2>1, <2>3, <2>5, <2>6, <2>8, <3>1
  <2> QED BY <2>4, <2>7, <2>8
<1>9. r = IF broken[c] \/ host[c] = "closed" THEN toHost[c] ELSE toHost[c] \o ms
  <2>1. toHost[c] \o <<>> = toHost[c]
    BY <1>5, ConcatEmptySeq
  <2> QED BY <1>4, <2>1 DEF SentToHost
<1>10. HostQueue(host[c], guest[c], gExpected[c], broken[c], hasty[c], n, asked[c], toHost[c])
  BY DEF LinkOrder, Ordered
<1> HIDE DEF r, n, n2, ask2, ms
<1>11. HostQueue(host[c], "closed", "error", broken[c], hasty[c], n2, ask2, r)
  <2>1. CASE broken[c] \/ host[c] = "closed"
    BY <1>5, <1>6, <1>9, <1>10, <2>1, HostKeep
  <2>2. CASE ~(broken[c] \/ host[c] = "closed")
    <3>1. host[c] = "early_subscribe" /\ r = toHost[c] \o ms
      BY <1>2, <1>9, <2>2
    <3> DEFINE qh == toHost[c]
    <3>2. /\ guest[c] # "closed" /\ gExpected[c] # "preloadFinished"
          /\ qh \in Seq(ToHostMsg)
          /\ HostQueue("early_subscribe", guest[c], gExpected[c], broken[c], hasty[c],
                       n, asked[c], qh)
      BY <1>5, <1>7, <1>10, <3>1
    <3> HIDE DEF qh
    <3>3. HostQueue("early_subscribe", "closed", "error", broken[c], hasty[c],
                    n2, ask2, qh \o ms)
      <4>1. broken[c] \in BOOLEAN /\ JoinsAndFinished(ms, sent)
        BY <1>5, <1>8 DEF JoinsAndFinished
      <4> QED BY <1>6, <1>8, <3>2, <4>1, HostSubscriptions
    <3> QED BY <3>1, <3>3 DEF qh
  <2> QED BY <2>1, <2>2
<1>12. GuestQueue(host[c], "closed", "error", preloaded[c], ask2, <<>>)
  BY EmptyQueues
<1>13. Stage(host[c], "closed", hExpected[c], "error", broken[c], preloaded[c], ask2, r, <<>>)
  BY <1>2, <1>9 DEF LinkOrder, Ordered, Stage
<1> QED BY <1>3, <1>11, <1>12, <1>13 DEF LinkOrder, Ordered, r, n2, ask2

(* The transport breaks.                                                   *)
LEMMA BreakOrder ==
  ASSUME TypeOK, NEW c \in Conn, LinkOrder(c), Break(c)
  PROVE  LinkOrder(c)'
<1>1. PICK a \in 0..Len(toHost[c]), b \in 0..Len(toGuest[c]) :
          /\ toHost' = [toHost EXCEPT ![c] = SubSeq(@, 1, a)]
          /\ toGuest' = [toGuest EXCEPT ![c] = SubSeq(@, 1, b)]
  BY DEF Break
<1> DEFINE r == SubSeq(toHost[c], 1, a)
           q == SubSeq(toGuest[c], 1, b)
<1>2. /\ host'[c] = host[c] /\ hExpected'[c] = hExpected[c]
      /\ guest'[c] = guest[c] /\ gExpected'[c] = gExpected[c] /\ broken'[c] = TRUE
      /\ asked'[c] = asked[c] /\ hasty'[c] = hasty[c]
      /\ preloaded'[c] = preloaded[c] /\ toHost'[c] = r /\ toGuest'[c] = q
  BY <1>1 DEF Break, TypeOK
<1>3. toHost[c] \in Seq(ToHostMsg) /\ toGuest[c] \in Seq(ToGuestMsg)
  BY DEF TypeOK
<1>4. GuestQueue(host[c], guest[c], gExpected[c], preloaded[c], asked[c], q)
  <2>1. GuestQueue(host[c], guest[c], gExpected[c], preloaded[c], asked[c], toGuest[c])
    BY DEF LinkOrder, Ordered
  <2> QED BY <1>3, <2>1, GuestPrefix
<1>5. HostQueue(host[c], guest[c], gExpected[c], TRUE, hasty[c], Expecting(preloaded[c], q), asked[c], r)
  <2>1. HostQueue(host[c], guest[c], gExpected[c], broken[c], hasty[c],
                  Expecting(preloaded[c], toGuest[c]), asked[c], toHost[c])
    BY DEF LinkOrder, Ordered
  <2> HIDE DEF q
  <2> QED BY <1>3, <2>1, HostPrefix
<1>6. /\ toHost[c] = <<>> => r = <<>>
      /\ toGuest[c] = <<>> => q = <<>>
  <2>1. /\ toHost[c] = <<>> => a = 0
        /\ toGuest[c] = <<>> => b = 0
    OBVIOUS
  <2>2. SubSeq(toHost[c], 1, 0) = <<>> /\ SubSeq(toGuest[c], 1, 0) = <<>>
    BY SubSeqEmpty
  <2> QED BY <2>1, <2>2
<1> HIDE DEF r, q
<1>7. Stage(host[c], guest[c], hExpected[c], gExpected[c], TRUE, preloaded[c], asked[c], r, q)
  BY <1>6 DEF LinkOrder, Ordered, Stage
<1> QED BY <1>2, <1>4, <1>5, <1>7 DEF LinkOrder, Ordered

(* Every way in which the host's end closes.                               *)
LEMMA HostCloseKinds ==
  ASSUME TypeOK, NEW c \in Conn, LinkOrder(c), host[c] # "suspended",
         \/ HostError(c, <<>>)
         \/ HostGone(c)
         \/ HostClose(c) /\ UNCHANGED toGuest
  PROVE  LinkOrder(c)'
<1>1. HostClose(c)
  BY DEF HostError, HostGone
<1>2. PICK ms :
          /\ toGuest' = [toGuest EXCEPT ![c] = @ \o SentToGuest(c, ms)]
          /\ ms = <<>> \/ (host[c] = "connected" /\ \E e \in {0, 1} : ms = <<Error(e)>>)
  <2>1. CASE HostClose(c) /\ UNCHANGED toGuest
    <3>1. toGuest[c] \o <<>> = toGuest[c]
      BY ConcatEmptySeq DEF TypeOK
    <3> QED BY <2>1, <3>1 DEF TypeOK, SentToGuest
  <2>2. CASE HostGone(c)
    BY <2>2 DEF HostGone
  <2>3. CASE HostError(c, <<>>)
    BY <2>3, Append(<<>>, Error(1)) = <<Error(1)>> DEF HostError
  <2> QED BY <2>1, <2>2, <2>3
<1> QED BY <1>1, <1>2, HostCloseOrder

(* Every way in which the guest's end closes.                              *)
LEMMA GuestCloseKinds ==
  ASSUME TypeOK, NEW c \in Conn, LinkOrder(c), guest[c] # "suspended",
         \/ GuestError(c)
         \/ GuestGone(c)
         \/ GuestClose(c) /\ UNCHANGED toHost
  PROVE  LinkOrder(c)'
<1>1. GuestClosed(c)
  BY DEF GuestError, GuestGone, GuestClose
<1>2. PICK ms :
          /\ toHost' = [toHost EXCEPT ![c] = @ \o SentToHost(c, ms)]
          /\ ms = <<>> \/ (guest[c] = "connected" /\ \E e \in {0, 1} : ms = <<Error(e)>>)
  <2>1. CASE GuestClose(c) /\ UNCHANGED toHost
    <3>1. toHost[c] \o <<>> = toHost[c]
      BY ConcatEmptySeq DEF TypeOK
    <3> QED BY <2>1, <3>1 DEF TypeOK, SentToHost
  <2>2. CASE GuestGone(c)
    BY <2>2 DEF GuestGone
  <2>3. CASE GuestError(c)
    BY <2>3 DEF GuestError
  <2> QED BY <2>1, <2>2, <2>3
<1> QED BY <1>1, <1>2, GuestCloseOrder

(* Connection::handleReceive at the host: in order, it never meets a       *)
(* message it does not expect, but the lemma does not depend on that.      *)
LEMMA HostReceiveOrder ==
  ASSUME TypeOK, NEW c \in Conn, LinkOrder(c), HostReceive(c)
  PROVE  LinkOrder(c)'
<1> DEFINE m == Head(toHost[c])
<1>1. host[c] \notin {"suspended", "closed"} /\ toHost[c] # <<>>
  BY DEF HostReceive
<1>2. CASE m.kind = "error"
  <2>1. HostPeerError(c, m)
    BY <1>2 DEF HostReceive, SystemKind, Kind
  <2> QED BY <1>1, <2>1, HostCloseKinds DEF HostPeerError
<1>3. CASE m.kind = "connect" /\ hExpected[c] = "connect"
  <2>1. HandleConnect(c, m)
    BY <1>3 DEF HostReceive, SystemKind, Kind
  <2>2. CASE VerifyAuthentication(c, m.response)
    BY <1>1, <1>3, <2>1, <2>2, HandleConnectOrder
  <2>3. CASE ~VerifyAuthentication(c, m.response)
    <3>1. HostError(c, <<ConnectResponse(peerId[c], FALSE, TRUE)>>)
      <4>1. m.preloadCache = TRUE
        BY <1>1, <1>3, FirstInOrder, ConnectFields
      <4> QED BY <2>1, <2>3, <4>1 DEF HandleConnect
    <3>2. host[c] = "connecting" /\ (gExpected[c] = "connectResponse" \/ guest[c] = "closed")
      BY <1>1, <1>3, FirstInOrder DEF HostMsgOK
    <3>3. toGuest' = [toGuest EXCEPT ![c] =
              @ \o SentToGuest(c, <<ConnectResponse(peerId[c], FALSE, TRUE)>>)]
            /\ HostClose(c)
      BY <3>1, <3>2 DEF HostError
    <3> QED BY <3>2, <3>3, HostCloseOrder
  <2> QED BY <2>2, <2>3
<1>4. CASE m.kind = "preloadClientFinished"
           /\ hExpected[c] = "preloadClientFinished"
  <2>1. HandlePreloadClientFinished(c)
    BY <1>4 DEF HostReceive, SystemKind, Kind
  <2> QED BY <1>1, <1>4, <2>1, HandlePreloadClientFinishedOrder
<1>5. CASE ~SystemKind(m) /\ host[c] \in {"early_subscribe", "connected"}
  <2>1. HostHandleTransmission(c, m)
    BY <1>5 DEF HostReceive, SystemKind, Kind
  <2> QED BY <1>1, <1>5, <2>1, HostHandleTransmissionOrder
<1>6. CASE /\ m.kind # "error"
           /\ ~(m.kind = "connect" /\ hExpected[c] = "connect")
           /\ ~(m.kind = "preloadClientFinished"
                 /\ hExpected[c] = "preloadClientFinished")
           /\ ~(~SystemKind(m) /\ host[c] \in {"early_subscribe", "connected"})
  <2>1. HostError(c, <<>>)
    BY <1>6 DEF HostReceive
  <2> QED BY <1>1, <2>1, HostCloseKinds
<1> QED BY <1>2, <1>3, <1>4, <1>5, <1>6

(* Connection::handleReceive at the guest                                  *)
LEMMA GuestReceiveOrder ==
  ASSUME TypeOK, NEW c \in Conn, LinkOrder(c), GuestReceive(c)
  PROVE  LinkOrder(c)'
<1> DEFINE m == Head(toGuest[c])
<1>1. guest[c] # "suspended" /\ toGuest[c] # <<>>
  BY DEF GuestReceive
<1>2. CASE m.kind = "error"
  <2>1. GuestPeerError(c, m)
    BY <1>2 DEF GuestReceive, SystemKind, Kind
  <2> QED BY <1>1, <2>1, GuestCloseKinds DEF GuestPeerError
<1>3. CASE m.kind = "hello" /\ gExpected[c] = "hello"
  <2>1. HandleHello(c, m)
    BY <1>3 DEF GuestReceive, SystemKind, Kind
  <2>2. CASE m.authenticationRequired /\ secret[c] = "none"
    BY <1>1, <2>1, <2>2, GuestCloseKinds DEF HandleHello
  <2>3. CASE ~(m.authenticationRequired /\ secret[c] = "none")
    BY <1>1, <1>3, <2>1, <2>3, HandleHelloOrder
  <2> QED BY <2>2, <2>3
<1>4. CASE m.kind = "connectResponse" /\ gExpected[c] = "connectResponse"
  <2>1. HandleAuthorizationRequest(c, m)
    BY <1>4 DEF GuestReceive, SystemKind, Kind
  <2>2. CASE PreloadFails(c, m)
    BY <1>1, <1>4, <2>2, PreloadFailsOrder
  <2>3. CASE ~PreloadFails(c, m)
    BY <1>1, <1>4, <2>1, <2>3, HandleAuthorizationRequestOrder
  <2> QED BY <2>2, <2>3
<1>5. CASE m.kind = "preloadFinished" /\ gExpected[c] = "preloadFinished"
  <2>1. HandlePreloadFinished(c)
    BY <1>5 DEF GuestReceive, SystemKind, Kind
  <2> QED BY <1>1, <1>5, <2>1, HandlePreloadFinishedOrder
<1>6. CASE ~SystemKind(m) /\ guest[c] \in {"early_subscribe", "connected"}
  <2>1. GuestHandleTransmission(c, m)
    BY <1>6 DEF GuestReceive, SystemKind, Kind
  <2> QED BY <1>1, <1>6, <2>1, GuestHandleTransmissionOrder
<1>7. CASE /\ m.kind # "error"
           /\ ~(m.kind = "hello" /\ gExpected[c] = "hello")
           /\ ~(m.kind = "connectResponse" /\ gExpected[c] = "connectResponse")
           /\ ~(m.kind = "preloadFinished" /\ gExpected[c] = "preloadFinished")
           /\ ~(~SystemKind(m) /\ guest[c] \in {"early_subscribe", "connected"})
  <2>1. GuestError(c)
    BY <1>7 DEF GuestReceive
  <2> QED BY <1>1, <2>1, GuestCloseKinds
<1> QED BY <1>2, <1>3, <1>4, <1>5, <1>6, <1>7

(* A step at one connection leaves the queues and states of the others.    *)
LEMMA OtherLinks ==
  ASSUME TypeOK, NEW c \in Conn, NEW d \in Conn, d # c,
         \/ Open(c) \/ Accept(c) \/ Break(c)
         \/ HostReceive(c) \/ HostReadError(c) \/ HostTransmit(c)
         \/ HostDirty(c) \/ HostDestroy(c)
         \/ GuestReceive(c) \/ GuestReadError(c) \/ GuestPublish(c)
         \/ GuestPublishFails(c) \/ GuestDestroy(c),
         LinkOrder(d)
  PROVE  LinkOrder(d)'
<1> DEFINE Same == /\ host'[d] = host[d] /\ hExpected'[d] = hExpected[d]
                   /\ guest'[d] = guest[d] /\ gExpected'[d] = gExpected[d]
                   /\ broken'[d] = broken[d] /\ preloaded'[d] = preloaded[d]
                   /\ asked'[d] = asked[d] /\ hasty'[d] = hasty[d]
                   /\ toHost'[d] = toHost[d] /\ toGuest'[d] = toGuest[d]
<1> SUFFICES Same
  BY DEF LinkOrder
<1>1. CASE Open(c) \/ Accept(c) \/ Break(c) \/ HostTransmit(c) \/ GuestPublish(c)
  BY <1>1 DEF Open, Accept, Break, HostTransmit, GuestPublish, TypeOK
<1>2. ASSUME HostClose(c), toGuest'[d] = toGuest[d] PROVE Same
  BY <1>2 DEF HostClose, TypeOK
<1>3. ASSUME GuestClosed(c), toHost'[d] = toHost[d], asked'[d] = asked[d]
      PROVE  Same
  BY <1>3 DEF GuestClosed, TypeOK
<1>4. ASSUME NEW ms, HostError(c, ms) PROVE Same
  BY <1>2, <1>4 DEF HostError, TypeOK
<1>5. CASE GuestError(c)
  BY <1>3, <1>5 DEF GuestError, GuestClose, TypeOK
<1>6. CASE HostGone(c)
  BY <1>2, <1>6 DEF HostGone, TypeOK
<1>7. CASE GuestGone(c)
  BY <1>3, <1>7 DEF GuestGone, TypeOK
<1>8. CASE HostReceive(c)
  <2>1. PICK m : \/ HostPeerError(c, m) \/ HandleConnect(c, m)
                 \/ HandlePreloadClientFinished(c) \/ HostHandleTransmission(c, m)
                 \/ HostError(c, <<>>)
    BY <1>8 DEF HostReceive
  <2>2. CASE HostPeerError(c, m)
    BY <1>2, <1>4, <2>2 DEF HostPeerError
  <2>3. CASE HandleConnect(c, m)
    BY <1>4, <2>3 DEF HandleConnect, TypeOK
  <2>4. CASE HandlePreloadClientFinished(c) \/ HostHandleTransmission(c, m)
    BY <2>4 DEF HandlePreloadClientFinished, HostHandleTransmission, TypeOK
  <2> QED BY <1>4, <2>1, <2>2, <2>3, <2>4
<1>9. CASE GuestReceive(c)
  <2>1. PICK m : \/ GuestPeerError(c, m) \/ HandleHello(c, m)
                 \/ HandleAuthorizationRequest(c, m) \/ HandlePreloadFinished(c)
                 \/ GuestHandleTransmission(c, m) \/ GuestError(c)
    BY <1>9 DEF GuestReceive
  <2>2. CASE GuestPeerError(c, m)
    BY <1>3, <1>5, <2>2 DEF GuestPeerError, GuestClose
  <2>3. CASE HandleHello(c, m)
    BY <1>5, <2>3 DEF HandleHello, TypeOK
  <2>4. CASE PreloadFails(c, m)
    BY <1>3, <2>4 DEF PreloadFails, TypeOK
  <2>5. CASE HandleAuthorizationRequest(c, m) /\ ~PreloadFails(c, m)
    BY <2>5 DEF HandleAuthorizationRequest, TypeOK
  <2>6. CASE HandlePreloadFinished(c) \/ GuestHandleTransmission(c, m)
    BY <2>6 DEF HandlePreloadFinished, GuestHandleTransmission, TypeOK
  <2> QED BY <1>5, <2>1, <2>2, <2>3, <2>4, <2>5, <2>6
<1> HIDE DEF Same
<1> QED BY <1>1, <1>4, <1>5, <1>6, <1>7, <1>8, <1>9
        DEF HostReadError, HostDirty, HostDestroy, GuestReadError,
            GuestPublishFails, GuestDestroy

(* Every step keeps the order of all connections.                          *)
LEMMA NextOrder == TypeOK /\ OrderInv /\ [Next]_vars => OrderInv'
<1> SUFFICES ASSUME TypeOK, OrderInv, [Next]_vars PROVE OrderInv'
  OBVIOUS
<1>1. CASE UNCHANGED vars
  BY <1>1 DEF vars, OrderInv, LinkOrder
<1>2. ASSUME NEW c \in Conn,
             \/ Open(c) \/ Accept(c) \/ Break(c)
             \/ HostReceive(c) \/ HostReadError(c) \/ HostTransmit(c)
             \/ HostDirty(c) \/ HostDestroy(c)
             \/ GuestReceive(c) \/ GuestReadError(c) \/ GuestPublish(c)
             \/ GuestPublishFails(c) \/ GuestDestroy(c)
      PROVE  OrderInv'
  <2>0. LinkOrder(c)
    BY DEF OrderInv
  <2>1. LinkOrder(c)'
    <3>1. CASE \/ Open(c) \/ Accept(c) \/ Break(c)
               \/ HostReceive(c) \/ HostTransmit(c)
               \/ GuestReceive(c) \/ GuestPublish(c)
      BY <2>0, <3>1, OpenOrder, AcceptOrder, BreakOrder, HostReceiveOrder,
         HostTransmitOrder, GuestReceiveOrder, GuestPublishOrder
    <3>2. CASE HostReadError(c) \/ HostDirty(c) \/ HostDestroy(c)
      BY <2>0, <3>2, HostCloseKinds DEF HostReadError, HostDirty, HostDestroy
    <3>3. CASE GuestReadError(c) \/ GuestPublishFails(c) \/ GuestDestroy(c)
      BY <2>0, <3>3, GuestCloseKinds
      DEF GuestReadError, GuestPublishFails, GuestDestroy
    <3> QED BY <1>2, <3>1, <3>2, <3>3
  <2>2. ASSUME NEW d \in Conn, d # c PROVE LinkOrder(d)'
    BY <1>2, <2>2, OtherLinks DEF OrderInv
  <2> QED BY <2>1, <2>2 DEF OrderInv
<1> QED BY <1>1, <1>2 DEF Next, Done

(* Before anything is opened there is nothing out of order.                *)
LEMMA InitOrder == Init => OrderInv
<1> SUFFICES ASSUME Init, NEW c \in Conn PROVE LinkOrder(c)
  BY DEF OrderInv
<1>1. Stage("suspended", "suspended", "error", "error", FALSE, 0, 0, <<>>, <<>>)
  BY DEF Stage
<1>2. GuestQueue("suspended", "suspended", "error", 0, 0, <<>>)
  BY EmptyQueues
<1>3. HostQueue("suspended", "suspended", "error", FALSE, FALSE, Expecting(0, <<>>), 0, <<>>)
  BY EmptyQueues
<1> QED BY <1>1, <1>2, <1>3 DEF Init, LinkOrder, Ordered

-----------------------------------------------------------------------------
(* The order of the messages and of the states of both ends is kept.       *)
THEOREM MessageOrder == Spec => []OrderInv
<1>1. Init => OrderInv
  BY InitOrder
<1>2. TypeOK /\ OrderInv /\ [Next]_vars => OrderInv'
  BY NextOrder
<1> QED BY <1>1, <1>2, TypeCorrect, PTL DEF Spec

(* Who has asked for what.  A transceiver has one open connection at a     *)
(* time, and the groups it has joined were asked for over one of its       *)
(* connections: over the open one, or over one that has closed.            *)
IsOpen(c) == guest[c] \notin {"suspended", "closed"}

OneOpen ==
  \A c, d \in Conn : owner[c] = owner[d] /\ IsOpen(c) /\ IsOpen(d) => c = d

Remembered ==
  \A g \in Guest :
      joined[g] > 0 => \E d \in Conn : owner[d] = g /\ asked[d] > 0

Asked(c) == asked[c] # 0 => guest[c] \notin {"suspended", "connecting"}

Served(c) ==
  guest[c] \in {"early_subscribe", "connected"} =>
      \/ asked[c] = PreloadTypes
      \/ \E d \in Conn \ {c} :
             owner[d] = owner[c] /\ guest[d] = "closed" /\ asked[d] > 0

OwnerInv ==
  OneOpen /\ Remembered /\ \A c \in Conn : Asked(c) /\ Served(c)

(* Before anything is opened nothing is asked for.                         *)
LEMMA InitOwner == Init => OwnerInv
  BY DEF Init, OwnerInv, OneOpen, IsOpen, Remembered, Asked, Served

(* A step that opens nothing, asks for nothing and joins nothing keeps     *)
(* what is known of the owners: a guest's state stays, closes, or becomes  *)
(* connected after early_subscribe.                                        *)
LEMMA QuietOwner ==
  ASSUME TypeOK, OwnerInv, NEW c \in Conn, NEW s \in State,
         guest' = [guest EXCEPT ![c] = s], guest[c] # "suspended",
         \/ s = guest[c] \/ s = "closed"
         \/ guest[c] = "early_subscribe" /\ s = "connected",
         UNCHANGED <<owner, asked>>,
         \A g \in Guest : joined'[g] = joined[g] \/ joined'[g] = 0
  PROVE  OwnerInv'
<1>1. \A d \in Conn : guest'[d] = IF d = c THEN s ELSE guest[d]
  BY DEF TypeOK
<1>2. OneOpen'
  BY <1>1 DEF OwnerInv, OneOpen, IsOpen
<1>3. Remembered'
  BY DEF OwnerInv, Remembered
<1>4. ASSUME NEW d \in Conn PROVE Asked(d)' /\ Served(d)'
  BY <1>1 DEF OwnerInv, Asked, Served
<1> QED BY <1>2, <1>3, <1>4 DEF OwnerInv

(* A connecting guest has been answered: it has asked for everything its   *)
(* transceiver had not joined before, or has closed on the way.            *)
LEMMA AnsweredOwner ==
  ASSUME TypeOK, OwnerInv, NEW c \in Conn, guest[c] = "connecting",
         NEW s \in {"early_subscribe", "closed"}, NEW k \in 0..Missing(c),
         guest' = [guest EXCEPT ![c] = s], UNCHANGED owner,
         asked' = [asked EXCEPT ![c] = k],
         joined' = [joined EXCEPT ![owner[c]] = @ + k],
         s = "early_subscribe" => k = Missing(c)
  PROVE  OwnerInv'
<1>1. /\ \A d \in Conn : guest'[d] = IF d = c THEN s ELSE guest[d]
      /\ \A d \in Conn : asked'[d] = IF d = c THEN k ELSE asked[d]
      /\ \A g \in Guest : joined'[g] = IF g = owner[c] THEN joined[g] + k ELSE joined[g]
  BY DEF TypeOK
<1>2. /\ joined[owner[c]] \in Nat /\ Missing(c) \in Nat /\ PreloadTypes \in Nat
      /\ k \in Nat /\ asked[c] = 0
      /\ joined[owner[c]] + Missing(c) = PreloadTypes
  <2>1. Missing(c) \in 0..PreloadTypes /\ PreloadTypes \in Nat
    BY SubscriptionsType, ConnectionAssumption
  <2>2. joined[owner[c]] \in Nat /\ k \in Nat
    BY <2>1 DEF TypeOK
  <2>3. asked[c] = 0
    BY DEF OwnerInv, Asked
  <2> QED BY <2>1, <2>2, <2>3, SubscriptionsType
<1>3. OneOpen'
  BY <1>1 DEF OwnerInv, OneOpen, IsOpen
<1>4. Remembered'
  <2> SUFFICES ASSUME NEW g \in Guest, joined'[g] > 0
               PROVE  \E d \in Conn : owner[d] = g /\ asked'[d] > 0
    BY DEF Remembered
  <2>1. CASE g = owner[c] /\ k > 0
    BY <1>1, <2>1
  <2>2. CASE g # owner[c] \/ k = 0
    <3>1. joined[g] > 0
      BY <1>1, <1>2, <2>2
    <3>2. PICK d \in Conn : owner[d] = g /\ asked[d] > 0
      BY <3>1 DEF OwnerInv, Remembered
    <3>3. d # c
      BY <1>2, <3>2
    <3> QED BY <1>1, <3>2, <3>3
  <2>3. k = 0 \/ k > 0
    BY <1>2
  <2> QED BY <2>1, <2>2, <2>3
<1>5. ASSUME NEW d \in Conn, d # c PROVE Asked(d)' /\ Served(d)'
  <2>1. Asked(d)'
    BY <1>1, <1>5 DEF OwnerInv, Asked
  <2>2. Served(d)'
    <3> SUFFICES ASSUME guest[d] \in {"early_subscribe", "connected"}
                 PROVE  Served(d)'
      BY <1>1, <1>5 DEF Served
    <3>1. CASE asked[d] = PreloadTypes
      BY <1>1, <1>5, <3>1 DEF Served
    <3>2. ASSUME NEW e \in Conn \ {d}, owner[e] = owner[d], guest[e] = "closed",
                 asked[e] > 0
          PROVE  Served(d)'
      BY <1>1, <3>2 DEF Served
    <3> QED BY <3>1, <3>2 DEF OwnerInv, Served
  <2> QED BY <2>1, <2>2
<1>6. Asked(c)'
  BY <1>1 DEF Asked
<1>7. Served(c)'
  <2> SUFFICES ASSUME s = "early_subscribe" PROVE Served(c)'
    BY <1>1 DEF Served
  <2>1. CASE joined[owner[c]] = 0
    BY <1>1, <1>2, <2>1 DEF Served
  <2>2. CASE joined[owner[c]] > 0
    <3>1. PICK d \in Conn : owner[d] = owner[c] /\ asked[d] > 0
      BY <2>2 DEF OwnerInv, Remembered, TypeOK
    <3>2. d # c
      BY <1>2, <3>1
    <3>3. asked[d] # 0 /\ guest[d] \in State
      BY <3>1 DEF TypeOK
    <3>4. guest[d] = "closed"
      BY <3>1, <3>2, <3>3 DEF OwnerInv, OneOpen, IsOpen, Asked, State
    <3> QED BY <1>1, <3>1, <3>2, <3>4 DEF Served
  <2> QED BY <1>2, <2>1, <2>2
<1> QED BY <1>3, <1>4, <1>5, <1>6, <1>7 DEF OwnerInv

(* Every step keeps what is known of the owners.                           *)
LEMMA NextOwner == IInv /\ OwnerInv /\ [Next]_vars => OwnerInv'
<1> SUFFICES ASSUME IInv, TypeOK, OwnerInv, [Next]_vars PROVE OwnerInv'
  BY DEF IInv
<1>1. ASSUME UNCHANGED <<guest, owner, asked, joined>> PROVE OwnerInv'
  BY <1>1 DEF OwnerInv, OneOpen, IsOpen, Remembered, Asked, Served
<1>2. ASSUME NEW c \in Conn, Open(c) PROVE OwnerInv'
  <2>1. /\ \A d \in Conn : guest'[d] = IF d = c THEN "connecting" ELSE guest[d]
        /\ guest[c] = "suspended" /\ UNCHANGED <<owner, asked, joined>>
        /\ \A d \in Conn : owner[d] = owner[c] => ~IsOpen(d)
    BY <1>2 DEF Open, HostConnection, IsOpen, TypeOK
  <2>2. OneOpen'
    BY <2>1 DEF OwnerInv, OneOpen, IsOpen
  <2>3. Remembered'
    BY <2>1 DEF OwnerInv, Remembered
  <2>4. ASSUME NEW d \in Conn PROVE Asked(d)' /\ Served(d)'
    BY <2>1 DEF OwnerInv, Asked, Served
  <2> QED BY <2>2, <2>3, <2>4 DEF OwnerInv
<1>3. ASSUME NEW c \in Conn,
             Accept(c) \/ Break(c) \/ HostTransmit(c) \/ GuestPublish(c)
      PROVE  OwnerInv'
  BY <1>1, <1>3 DEF Accept, Break, HostTransmit, GuestPublish
<1>4. ASSUME NEW c \in Conn,
             \/ HostReceive(c) \/ HostReadError(c) \/ HostDirty(c)
             \/ HostDestroy(c)
      PROVE  OwnerInv'
  <2>1. ASSUME HostClose(c) PROVE OwnerInv'
    BY <1>1, <2>1 DEF HostClose
  <2>2. CASE HostReceive(c)
    BY <1>1, <2>1, <2>2
    DEF HostReceive, HostPeerError, HostError, HandleConnect,
        HandlePreloadClientFinished, HostHandleTransmission
  <2> QED BY <1>4, <2>1, <2>2
          DEF HostReadError, HostDirty, HostDestroy, HostError, HostGone
<1>5. ASSUME NEW c \in Conn, guest[c] # "suspended", GuestClosed(c),
             UNCHANGED asked,
             \A g \in Guest : joined'[g] = joined[g] \/ joined'[g] = 0
      PROVE  OwnerInv'
  <2>1. guest' = [guest EXCEPT ![c] = "closed"] /\ UNCHANGED owner
    BY <1>5 DEF GuestClosed
  <2> QED BY <1>5, <2>1, QuietOwner DEF State
<1>6. ASSUME NEW c \in Conn, guest[c] # "suspended", GuestClose(c) PROVE OwnerInv'
  BY <1>5, <1>6 DEF GuestClose
<1>7. ASSUME NEW c \in Conn,
             GuestReadError(c) \/ GuestPublishFails(c) \/ GuestDestroy(c)
      PROVE  OwnerInv'
  <2>1. CASE GuestReadError(c) \/ GuestPublishFails(c)
    BY <1>6, <2>1 DEF GuestReadError, GuestPublishFails, GuestError
  <2>2. CASE GuestDestroy(c)
    <3>1. /\ guest[c] # "suspended" /\ GuestClosed(c) /\ UNCHANGED asked
          /\ \A g \in Guest : joined'[g] = joined[g] \/ joined'[g] = 0
      BY <2>2 DEF GuestDestroy, GuestGone, TypeOK
    <3> QED BY <1>5, <3>1
  <2> QED BY <1>7, <2>1, <2>2
<1>8. ASSUME NEW c \in Conn, GuestReceive(c) PROVE OwnerInv'
  <2> DEFINE m == Head(toGuest[c])
  <2>0. guest[c] # "suspended" /\ guest[c] \in State /\ toGuest[c] # <<>>
    BY <1>8 DEF GuestReceive, TypeOK
  <2>1. \/ GuestClose(c)
        \/ HandleHello(c, m) /\ ~GuestError(c)
        \/ /\ HandleAuthorizationRequest(c, m)
           /\ m.kind = "connectResponse" /\ gExpected[c] = "connectResponse"
        \/ HandlePreloadFinished(c) /\ gExpected[c] = "preloadFinished"
        \/ GuestHandleTransmission(c, m)
    BY <1>8 DEF GuestReceive, GuestPeerError, GuestError
  <2>2. CASE GuestClose(c)
    BY <1>6, <2>0, <2>2
  <2>3. CASE HandleHello(c, m) /\ ~GuestError(c)
    BY <1>1, <2>3 DEF HandleHello
  <2>4. CASE GuestHandleTransmission(c, m)
    BY <1>1, <2>4 DEF GuestHandleTransmission
  <2>5. CASE HandlePreloadFinished(c) /\ gExpected[c] = "preloadFinished"
    <3>1. guest[c] = "early_subscribe"
      BY <2>5 DEF IInv, LinkInv, ExpectedOK
    <3>2. /\ guest' = [guest EXCEPT ![c] = "connected"]
          /\ UNCHANGED <<owner, asked, joined>>
      BY <2>5 DEF HandlePreloadFinished
    <3> QED BY <2>0, <3>1, <3>2, QuietOwner DEF State
  <2>6. CASE /\ HandleAuthorizationRequest(c, m)
             /\ m.kind = "connectResponse" /\ gExpected[c] = "connectResponse"
    <3>1. guest[c] = "connecting"
      BY <2>6 DEF IInv, LinkInv, ExpectedOK
    <3>2. m.preload
      BY <2>0, <2>6, InFlightHeadTail DEF IInv, TypeOK, LinkInv, ToGuestOK
    <3>3. Missing(c) \in Nat /\ joined[owner[c]] + Missing(c) = PreloadTypes
      <4>1. Missing(c) \in 0..PreloadTypes /\ PreloadTypes \in Nat
        BY SubscriptionsType, ConnectionAssumption
      <4> QED BY <4>1, SubscriptionsType
    <3>4. PICK s \in {"early_subscribe", "closed"}, k \in 0..Missing(c) :
              /\ guest' = [guest EXCEPT ![c] = s] /\ UNCHANGED owner
              /\ asked' = [asked EXCEPT ![c] = k]
              /\ joined' = [joined EXCEPT ![owner[c]] = @ + k]
              /\ s = "early_subscribe" => k = Missing(c)
      <4>1. CASE PreloadFails(c, m)
        <5>1. PICK sent \in 0..Missing(c) : \E entered \in sent..sent + 1 :
                  /\ entered <= Missing(c)
                  /\ joined' = [joined EXCEPT ![owner[c]] = @ + entered]
                  /\ asked' = [asked EXCEPT ![c] = entered]
          BY <4>1 DEF PreloadFails
        <5>2. PICK entered \in sent..sent + 1 :
                  /\ entered <= Missing(c)
                  /\ joined' = [joined EXCEPT ![owner[c]] = @ + entered]
                  /\ asked' = [asked EXCEPT ![c] = entered]
          BY <5>1
        <5>3. entered \in 0..Missing(c)
          BY <3>3, <5>2
        <5>4. guest' = [guest EXCEPT ![c] = "closed"] /\ UNCHANGED owner
          BY <4>1 DEF PreloadFails, GuestClosed
        <5> QED BY <5>2, <5>3, <5>4
      <4>2. CASE ~PreloadFails(c, m)
        <5>1. /\ guest' = [guest EXCEPT ![c] = "early_subscribe"] /\ UNCHANGED owner
              /\ asked' = [asked EXCEPT ![c] = Missing(c)]
              /\ joined' = [joined EXCEPT ![owner[c]] = PreloadTypes]
          BY <2>6, <3>2, <4>2 DEF HandleAuthorizationRequest
        <5>2. joined' = [joined EXCEPT ![owner[c]] = @ + Missing(c)]
          BY <3>3, <5>1
        <5>3. Missing(c) \in 0..Missing(c)
          BY <3>3
        <5> QED BY <5>1, <5>2, <5>3
      <4> QED BY <4>1, <4>2
    <3> QED BY <3>1, <3>4, AnsweredOwner
  <2> QED BY <2>1, <2>2, <2>3, <2>4, <2>5, <2>6
<1>9. CASE UNCHANGED vars
  BY <1>1, <1>9 DEF vars
<1> QED BY <1>2, <1>3, <1>4, <1>7, <1>8, <1>9 DEF Next, Done

(* When a guest becomes connected, the content of every type it has asked  *)
(* for has arrived, whatever user messages come between and however many   *)
(* types it preloads; and it has asked for all of them, unless an earlier  *)
(* connection of the same transceiver had asked for some.                  *)
THEOREM Preloaded == Spec => []PreloadComplete
<1>1. ASSUME OrderInv, OwnerInv PROVE PreloadComplete
  <2> SUFFICES ASSUME NEW c \in Conn, guest[c] = "connected"
               PROVE  /\ preloaded[c] >= asked[c]
                      /\ \/ asked[c] = PreloadTypes
                         \/ \E d \in Conn \ {c} :
                                owner[d] = owner[c] /\ guest[d] = "closed" /\ asked[d] > 0
    BY DEF PreloadComplete
  <2>1. preloaded[c] >= asked[c]
    BY <1>1 DEF OrderInv, LinkOrder, Ordered, Stage
  <2>2. Served(c)
    BY <1>1 DEF OwnerInv
  <2> QED BY <2>1, <2>2 DEF Served
<1>2. Spec => []OwnerInv
  BY InitOwner, NextOwner, Invariance, PTL DEF Spec
<1> QED BY <1>1, <1>2, MessageOrder, PTL

(* Neither end ever meets a message it does not expect, except a host that *)
(* a hasty guest has published to: every other error of a connection comes *)
(* from a rejection, the transport or a closing end.                       *)
THEOREM Expected == Spec => []NoUnexpectedMessage
<1>1. ASSUME TypeOK, OrderInv PROVE NoUnexpectedMessage
  <2> SUFFICES ASSUME NEW c \in Conn
        PROVE  /\ host[c] \notin {"suspended", "closed"} /\ toHost[c] # <<>> =>
                      LET m == Head(toHost[c]) IN
                      IF SystemKind(m) THEN m.kind \in {"error", hExpected[c]}
                      ELSE \/ host[c] \in {"early_subscribe", "connected"}
                           \/ m = User /\ hasty[c]
               /\ guest[c] \notin {"suspended", "closed"} /\ toGuest[c] # <<>> =>
                      LET m == Head(toGuest[c]) IN
                      IF SystemKind(m) THEN m.kind \in {"error", gExpected[c]}
                                       ELSE guest[c] \in {"early_subscribe", "connected"}
    BY DEF NoUnexpectedMessage
  <2>0. LinkOrder(c)
    BY <1>1 DEF OrderInv
  <2>1. ASSUME toHost[c] # <<>>, NEW m, m = Head(toHost[c])
        PROVE  IF SystemKind(m) THEN m.kind \in {"error", hExpected[c]}
               ELSE \/ host[c] \in {"early_subscribe", "connected"}
                    \/ m = User /\ hasty[c]
    <3>1. /\ m \in ToHostMsg /\ m = toHost[c][1]
          /\ HostMsgOK(host[c], guest[c], gExpected[c], broken[c], hasty[c],
                       Expecting(preloaded[c], toGuest[c]), asked[c], toHost[c], 1)
      BY <1>1, <2>0, <2>1, FirstInOrder
    <3>2. m.kind \in {"connect", "preloadClientFinished", "error"} \/ ~SystemKind(m)
      BY <3>1, MessageKinds DEF SystemKind, Kind
    <3>3. /\ host[c] = "connecting" => hExpected[c] = "connect"
          /\ host[c] = "early_subscribe" => hExpected[c] = "preloadClientFinished"
      BY <2>0 DEF LinkOrder, Ordered, Stage
    <3>4. ~Carries(toHost[c], 1 - 1, "connect")
      BY DEF Carries
    <3>5. m.kind = "user" => m = User
      BY <3>1, MessageKinds
    <3>6. CASE SystemKind(m)
      BY <3>1, <3>2, <3>3, <3>6 DEF HostMsgOK
    <3>7. CASE ~SystemKind(m)
      BY <3>1, <3>4, <3>5, <3>7 DEF HostMsgOK
    <3> QED BY <3>6, <3>7
  <2>2. ASSUME toGuest[c] # <<>>, NEW m, m = Head(toGuest[c])
        PROVE  IF SystemKind(m) THEN m.kind \in {"error", gExpected[c]}
                                ELSE guest[c] \in {"early_subscribe", "connected"}
    <3>1. /\ m \in ToGuestMsg /\ m = toGuest[c][1]
          /\ GuestMsgOK(host[c], guest[c], gExpected[c], preloaded[c], asked[c], toGuest[c], 1)
      BY <1>1, <2>0, <2>2, FirstInOrder
    <3>2. m.kind \in {"hello", "connectResponse", "preloadFinished", "error"} \/ ~SystemKind(m)
      BY <3>1, MessageKinds DEF SystemKind, Kind
    <3> QED BY <3>1, <3>2 DEF GuestMsgOK
  <2> QED BY <2>1, <2>2
<1> QED BY <1>1, TypeCorrect, MessageOrder, PTL
=============================================================================
