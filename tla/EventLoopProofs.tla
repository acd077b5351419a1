---------------------------- MODULE EventLoopProofs ----------------------------
(* Proofs about the components that hand their work to the event loop and  *)
(* may be gone when it gets to it: the timers and observers (Timer), the   *)
(* listeners of a host (Listener) and the channels within a program        *)
(* (LocalChannel), for any number of objects, channels and transmissions.  *)
EXTENDS Timer, Sequences, FiniteSetTheorems, SequenceTheorems, TLAPS

(***************************************************************************)
(* The invariant: an object is the only owner of its data, what has been   *)
(* discarded has no owner, and a wait is cancelled only for an owner that  *)
(* gives it up.                                                            *)
(***************************************************************************)
Owners ==
    /\ \A o \in Obj : owns[o] <= created
    /\ \A o, p \in Obj : owns[o] = owns[p] /\ owns[o] # None => o = p

Discarded == \A d \in Data : discarded[d] => d <= created /\ ~Owned(d)

Called == calling <= created /\ (calling # None => wait[calling] = "none")

Aborted == \A d \in Data : wait[d] = "aborted" => ~Wants(d)

Inv == TypeOK /\ Owners /\ Discarded /\ Called /\ Aborted /\ NeverIdle

(* The count tells the owned from the others, by the only owner.           *)
LEMMA CountOfNone ==
    ASSUME NEW d \in Data, ~Owned(d)
    PROVE  UseCount(d) = 1
<1>1. {o \in Obj : owns[o] = d} = {}
  BY DEF Owned
<1> QED BY <1>1, FS_EmptySet DEF UseCount

LEMMA CountOfOwned ==
    ASSUME MaxData \in Nat, Owners, NEW d \in Data, Owned(d)
    PROVE  UseCount(d) # 1
<1>1. PICK o \in Obj : owns[o] = d
  BY DEF Owned
<1>2. d # None
  BY DEF Data, None
<1>3. {p \in Obj : owns[p] = d} = {o}
  BY <1>1, <1>2 DEF Owners
<1>4. Cardinality({o}) = 1
  BY FS_Singleton
<1> QED BY <1>3, <1>4 DEF UseCount

(* What a completion is told of its owners.                                *)
LEMMA Unwanted ==
    ASSUME MaxData \in Nat, Owners, NEW d \in Data, UseCount(d) = 1, ~discarded[d]
    PROVE  ~Wants(d)
  BY CountOfOwned DEF Wants

-----------------------------------------------------------------------------
(* Every step keeps the invariant.                                         *)
LEMMA Initially == ASSUME MaxData \in Nat, Init PROVE Inv
<1> USE DEF Init, Data, None
<1>1. TypeOK
  <2>1. owns \in [Obj -> Data \cup {None}]
    OBVIOUS
  <2>2. kind \in [Data -> Kind] /\ wait \in [Data -> Wait]
    BY DEF Kind, Wait
  <2>3. discarded \in [Data -> BOOLEAN] /\ error \in BOOLEAN
    OBVIOUS
  <2>4. calling \in Data \cup {None} /\ created \in 0..MaxData
    OBVIOUS
  <2> QED BY <2>1, <2>2, <2>3, <2>4 DEF TypeOK
<1>2. Owners /\ Discarded /\ Called
  BY DEF Owners, Discarded, Called
<1>3. \A d \in Data : ~Wants(d)
  BY DEF Wants, Owned
<1>4. Aborted /\ NeverIdle
  BY <1>3 DEF Aborted, NeverIdle, Running
<1> QED BY <1>1, <1>2, <1>4 DEF Inv

LEMMA Constructs ==
    ASSUME MaxData \in Nat, Inv, NEW o \in Obj, NEW k \in Kind, Construct(o, k)
    PROVE  Inv'
<1> USE DEF Inv, Construct, Data, None
<1>1. TypeOK'
  BY DEF TypeOK, Wait
<1>2. Owners'
  BY DEF TypeOK, Owners
<1>3. Discarded'
  BY DEF TypeOK, Owners, Discarded, Owned
<1>4. Called'
  BY DEF TypeOK, Called
<1>5. \A d \in Data : d # created + 1 /\ Wants(d)' => Wants(d)
  BY DEF TypeOK, Wants, Owned
<1>6. Aborted'
  BY <1>5 DEF TypeOK, Aborted
<1>7. NeverIdle'
  <2> SUFFICES ASSUME NEW d \in Data, Running(d)'
               PROVE  (calling = d \/ wait[d] \in {"pending", "expired", "failed", "ended"})'
    BY DEF NeverIdle
  <2>1. CASE d = created + 1
    BY <2>1 DEF TypeOK
  <2>2. CASE d # created + 1
    BY <2>2, <1>5 DEF TypeOK, NeverIdle, Running
  <2> QED BY <2>1, <2>2
<1> QED BY <1>1, <1>2, <1>3, <1>4, <1>6, <1>7

LEMMA Moves ==
    ASSUME MaxData \in Nat, Inv, NEW o \in Obj, NEW p \in Obj, Move(o, p)
    PROVE  Inv'
<1> USE DEF Inv, Move, Data, None
<1>1. TypeOK'
  BY DEF TypeOK
<1>2. Owners'
  BY DEF TypeOK, Owners
<1>3. \A d \in Data : Owned(d)' => Owned(d)
  BY DEF TypeOK, Owned
<1>4. Discarded' /\ Called'
  BY <1>3 DEF TypeOK, Discarded, Called
<1>5. Aborted' /\ NeverIdle'
  BY <1>3 DEF TypeOK, Aborted, NeverIdle, Running, Wants
<1> QED BY <1>1, <1>2, <1>4, <1>5

LEMMA Destroys ==
    ASSUME MaxData \in Nat, Inv, NEW o \in Obj, Destroy(o)
    PROVE  Inv'
<1> USE DEF Inv, Destroy, Cancel, Data, None
<1>1. TypeOK'
  BY DEF TypeOK, Wait
<1>2. Owners' /\ Called'
  BY DEF TypeOK, Owners, Called
<1>3. \A d \in Data : Owned(d)' => Owned(d) /\ d # owns[o]
  BY DEF TypeOK, Owned, Owners
<1>4. Discarded'
  BY <1>3 DEF TypeOK, Discarded
<1>5. ~discarded[owns[o]]
  BY DEF TypeOK, Discarded, Owned
<1>6. \A d \in Data : Wants(d)' => Wants(d) /\ d # owns[o]
  BY <1>3, <1>5 DEF TypeOK, Wants
<1>7. Aborted' /\ NeverIdle'
  BY <1>6 DEF TypeOK, Aborted, NeverIdle, Running
<1> QED BY <1>1, <1>2, <1>4, <1>7

LEMMA Discards ==
    ASSUME MaxData \in Nat, Inv, NEW o \in Obj, Discard(o)
    PROVE  Inv'
<1> USE DEF Inv, Discard, Data, None
<1>1. TypeOK'
  BY DEF TypeOK
<1>2. Owners' /\ Called'
  BY DEF TypeOK, Owners, Called
<1>3. \A d \in Data : Owned(d)' => Owned(d) /\ d # owns[o]
  BY DEF TypeOK, Owned, Owners
<1>4. Discarded'
  BY <1>3 DEF TypeOK, Discarded, Owners
<1>5. \A d \in Data : Wants(d)' => Wants(d)
  BY <1>3 DEF TypeOK, Wants, Owned
<1>6. Aborted' /\ NeverIdle'
  BY <1>5 DEF TypeOK, Aborted, NeverIdle, Running
<1> QED BY <1>1, <1>2, <1>4, <1>6

LEMMA Expires ==
    ASSUME MaxData \in Nat, Inv, NEW d \in Data, Expire(d)
    PROVE  Inv'
<1> USE DEF Inv, Expire, Data, None
<1>1. TypeOK'
  BY DEF TypeOK, Wait
<1>2. Owners' /\ Discarded' /\ Called'
  BY DEF TypeOK, Owners, Discarded, Owned, Called
<1>3. Aborted' /\ NeverIdle'
  BY DEF TypeOK, Aborted, NeverIdle, Running, Wants, Owned
<1> QED BY <1>1, <1>2, <1>3

LEMMA Completes ==
    ASSUME MaxData \in Nat, Inv, NEW d \in Data, Complete(d)
    PROVE  Inv'
<1> USE DEF Inv, Complete, Data, None
<1>1. TypeOK'
  BY DEF TypeOK, Wait
<1>2. Owners' /\ Discarded'
  BY DEF TypeOK, Owners, Discarded, Owned
<1>3. ~Wanted(d) => ~Wants(d)
  BY Unwanted DEF Wanted, Aborted
<1>4. Wanted(d) => Wants(d)
  <2>1. UseCount(d) # 1 => Owned(d)
    BY CountOfNone
  <2> QED BY <2>1 DEF Wanted, Wants
<1>5. Wants(d) => d <= created
  BY DEF TypeOK, Wants, Owned, Owners, Discarded
<1>6. Called'
  BY <1>4, <1>5 DEF TypeOK, Called
<1>7. Aborted' /\ NeverIdle'
  BY <1>3 DEF TypeOK, Aborted, NeverIdle, Running, Wants, Owned
<1> QED BY <1>1, <1>2, <1>6, <1>7

LEMMA Returns ==
    ASSUME MaxData \in Nat, Inv, Return \/ HandlerThrows
    PROVE  Inv'
<1> USE DEF Inv, Return, HandlerThrows, Data, None
<1>1. TypeOK'
  BY DEF TypeOK, Wait
<1>2. Owners' /\ Discarded' /\ Called'
  BY DEF TypeOK, Owners, Discarded, Owned, Called
<1>3. Aborted'
  BY DEF TypeOK, Aborted, Called, Wants, Owned
<1>4. calling \in Data /\ \A d \in Data : Running(d)' <=> Running(d)
  BY DEF TypeOK, Running, Wants, Owned
<1>5. Running(calling) /\ ~error => Again(calling)
  BY <1>4, Unwanted DEF Again, Running
<1>6. NeverIdle'
  <2> SUFFICES ASSUME NEW d \in Data, Running(d)'
               PROVE  (calling = d \/ wait[d] \in {"pending", "expired", "failed", "ended"})'
    BY DEF NeverIdle
  <2>1. CASE d = calling
    BY <2>1, <1>4, <1>5 DEF TypeOK
  <2>2. CASE d # calling
    BY <2>2, <1>4 DEF TypeOK, NeverIdle
  <2> QED BY <2>1, <2>2
<1> QED BY <1>1, <1>2, <1>3, <1>6

LEMMA Unchanged ==
    ASSUME Inv, UNCHANGED vars
    PROVE  Inv'
  BY DEF Inv, vars, TypeOK, Owners, Discarded, Called, Aborted, NeverIdle, Running,
         Wants, Owned

LEMMA Inductive ==
    ASSUME MaxData \in Nat, Inv, [Next]_vars
    PROVE  Inv'
<1>1. CASE Program
  BY <1>1, Constructs, Moves, Destroys, Discards DEF Program
<1>2. CASE \E d \in Data : Expire(d) \/ Complete(d)
  BY <1>2, Expires, Completes
<1>3. CASE Return \/ HandlerThrows
  BY <1>3, Returns
<1>4. CASE UNCHANGED vars
  BY <1>4, Unchanged
<1> QED BY <1>1, <1>2, <1>3, <1>4 DEF Next

LEMMA Invariance == ASSUME MaxData \in Nat PROVE Spec => []Inv
<1>1. Init => Inv
  BY Initially
<1>2. Inv /\ [Next]_vars => Inv'
  BY Inductive
<1> QED BY <1>1, <1>2, PTL DEF Spec

(* A periodic timer or an observer that is still wanted always has a wait, *)
(* or its handler is being called, unless an error or exception ended it.  *)
THEOREM StaysArmed == ASSUME MaxData \in Nat PROVE Spec => []NeverIdle
<1>1. Inv => NeverIdle
  BY DEF Inv
<1> QED BY <1>1, Invariance, PTL

-----------------------------------------------------------------------------
(* Nothing that has been given up is wanted, or called, again.             *)
LEMMA GivenUp ==
    ASSUME MaxData \in Nat, Inv, [Next]_vars, NEW d \in Data, ~Wants(d), d <= created
    PROVE  ~Wants(d)' /\ (calling' = d => calling = d)
<1> USE DEF Wants, Owned, Data, None
<1>0. ~Wanted(d)
  BY CountOfNone DEF Wanted
<1>1. ASSUME NEW o \in Obj, NEW k \in Kind, Construct(o, k)
      PROVE  ~Wants(d)' /\ calling' = calling
  BY <1>1 DEF Construct, Inv, TypeOK
<1>2. ASSUME NEW o \in Obj, NEW p \in Obj, Move(o, p)
      PROVE  ~Wants(d)' /\ calling' = calling
  BY <1>2 DEF Move, Inv, TypeOK
<1>3. ASSUME NEW o \in Obj, Destroy(o) \/ Discard(o)
      PROVE  ~Wants(d)' /\ calling' = calling
  BY <1>3 DEF Destroy, Discard, Cancel, Inv, TypeOK
<1>4. ASSUME NEW e \in Data, Expire(e)
      PROVE  ~Wants(d)' /\ calling' = calling
  BY <1>4 DEF Expire
<1>5. ASSUME NEW e \in Data, Complete(e)
      PROVE  ~Wants(d)' /\ calling' # d
  BY <1>5, <1>0 DEF Complete
<1>6. ASSUME Return \/ HandlerThrows
      PROVE  ~Wants(d)' /\ calling' # d
  BY <1>6 DEF Return, HandlerThrows
<1>7. ASSUME UNCHANGED vars
      PROVE  ~Wants(d)' /\ calling' = calling
  BY <1>7 DEF vars
<1> QED BY <1>1, <1>2, <1>3, <1>4, <1>5, <1>6, <1>7 DEF Next, Program

(* Once an object has been destroyed or assigned to, the handler of what   *)
(* it owned is not called any more, though its wait may have expired.      *)
THEOREM NotCalledAfter == ASSUME MaxData \in Nat PROVE Spec => NotCalledAfterwards
<1>1. Inv /\ [Next]_vars =>
          [\A d \in Data : ~Wants(d) /\ d <= created =>
               ~Wants(d)' /\ (calling' = d => calling = d)]_vars
  BY GivenUp
<1> QED BY <1>1, Invariance, PTL DEF Spec, NotCalledAfterwards

-----------------------------------------------------------------------------
(* The listeners and the channels of a program are other components, of    *)
(* which each theorem below concerns one: what their modules declare by    *)
(* the same name may be declared once.                                     *)
CONSTANTS Listener, ListenerKind, Channel, MaxId, MaxSent, Guest, Unknown
VARIABLES host, listening, accept, from, open, cache, lastId, output,
          channel, linked, accepting, posted, received, unknown, sent, misused

Acceptor == INSTANCE Listener WITH Kind <- ListenerKind
Local == INSTANCE LocalChannel

-----------------------------------------------------------------------------
(* Listeners, in whatever order transmissions reach their channels.        *)

(* What a cache holds is the payload of the transmission it is asked for.  *)
CacheIsCurrent == \A l \in Acceptor!Caching : cache[l].payload = cache[l].id

AcceptorInv == Acceptor!TypeOK /\ Acceptor!NeverDeaf /\ CacheIsCurrent /\ Acceptor!PayloadsAreRight

LEMMA AcceptorInitially == Acceptor!Init => AcceptorInv
<1> SUFFICES ASSUME Acceptor!Init PROVE AcceptorInv
  OBVIOUS
<1>1. Acceptor!TypeOK
  <2>1. accept \in [Listener -> Acceptor!Accept]
    BY DEF Acceptor!Init, Acceptor!Accept
  <2>2. cache \in [Acceptor!Caching -> [id : Acceptor!Id \cup {0}, payload : Acceptor!Id \cup {0}]]
    BY DEF Acceptor!Init
  <2>3. lastId \in Nat
    BY DEF Acceptor!Init
  <2>4. output \in [Channel -> Seq(Acceptor!Id)] /\ sent \in [Channel -> Seq(Acceptor!Id)]
    BY DEF Acceptor!Init
  <2> QED BY <2>1, <2>2, <2>3, <2>4 DEF Acceptor!Init, Acceptor!TypeOK
<1>2. Acceptor!NeverDeaf /\ Acceptor!PayloadsAreRight
  BY DEF Acceptor!Init, Acceptor!NeverDeaf, Acceptor!PayloadsAreRight
<1>3. CacheIsCurrent
  BY DEF Acceptor!Init, CacheIsCurrent
<1> QED BY <1>1, <1>2, <1>3 DEF AcceptorInv

(* The steps of listeners change nothing that is written.                  *)
LEMMA ListenersStep ==
    ASSUME AcceptorInv, NEW l \in Listener,
           \/ Acceptor!Listen(l) \/ Acceptor!Arrive(l) \/ Acceptor!Aborted(l) \/ Acceptor!Orphaned(l)
           \/ Acceptor!AcceptFails(l) \/ Acceptor!SetUpFails(l)
    PROVE  AcceptorInv'
<1> USE DEF AcceptorInv, Acceptor!TypeOK, Acceptor!Accept, Acceptor!NeverDeaf,
            CacheIsCurrent, Acceptor!PayloadsAreRight, Acceptor!Sane, Acceptor!Use, Acceptor!channelVars
<1>1. CASE Acceptor!Listen(l)
  BY <1>1 DEF Acceptor!Listen
<1>2. CASE Acceptor!Arrive(l)
  BY <1>2 DEF Acceptor!Arrive
<1>3. CASE Acceptor!Aborted(l)
  <2>1. l \notin listening
    BY <1>3 DEF Acceptor!Aborted
  <2> QED BY <2>1, <1>3 DEF Acceptor!Aborted
<1>4. CASE Acceptor!Orphaned(l)
  BY <1>4 DEF Acceptor!Orphaned
<1>5. CASE Acceptor!AcceptFails(l)
  BY <1>5 DEF Acceptor!AcceptFails, Acceptor!Drop
<1>6. CASE Acceptor!SetUpFails(l)
  BY <1>6 DEF Acceptor!SetUpFails, Acceptor!Drop
<1> QED BY <1>1, <1>2, <1>3, <1>4, <1>5, <1>6

LEMMA AcceptorAccepts ==
    ASSUME AcceptorInv, NEW l \in Listener, NEW c \in Channel, Acceptor!ProcessAccept(l, c)
    PROVE  AcceptorInv'
BY DEF AcceptorInv, Acceptor!TypeOK, Acceptor!Accept, Acceptor!NeverDeaf, CacheIsCurrent,
       Acceptor!PayloadsAreRight, Acceptor!Sane, Acceptor!Use,
       Acceptor!ProcessAccept, Acceptor!NextAccept

(* A transmission is taken from the cache only if the cache is of it.      *)
LEMMA AcceptorTransmits ==
    ASSUME AcceptorInv, NEW c \in Channel, NEW t \in Acceptor!Id, Acceptor!Transmit(c, t)
    PROVE  AcceptorInv'
<1> DEFINE l == from[c]
<1>1. /\ sent' = [sent EXCEPT ![c] = Append(@, t)]
      /\ output = sent /\ misused = {}
      /\ UNCHANGED <<host, listening, accept, from, open, lastId>>
  BY DEF Acceptor!Transmit, AcceptorInv, Acceptor!PayloadsAreRight, Acceptor!Sane
<1>2. sent' \in [Channel -> Seq(Acceptor!Id)]
  BY <1>1 DEF AcceptorInv, Acceptor!TypeOK
<1>3. CASE l \notin Acceptor!Caching \/ (l \in Acceptor!Caching /\ l \in listening)
  <2>1. /\ output' = [output EXCEPT ![c] = Append(@, t)]
        /\ UNCHANGED misused
        /\ UNCHANGED cache \/ (l \in Acceptor!Caching /\ cache' = Acceptor!CachedNow(l, t))
    <3>1. CASE l \notin Acceptor!Caching
      BY <3>1 DEF Acceptor!Transmit
    <3>2. CASE l \in Acceptor!Caching /\ l \in listening /\ cache[l].id = t
      <4>1. cache[l].payload = t
        BY <3>2 DEF AcceptorInv, CacheIsCurrent
      <4> QED BY <3>2, <4>1 DEF Acceptor!Transmit
    <3>3. CASE l \in Acceptor!Caching /\ l \in listening /\ cache[l].id # t
      BY <3>3 DEF Acceptor!Transmit
    <3> QED BY <1>3, <3>1, <3>2, <3>3
  <2>2. output' = sent'
    BY <1>1, <2>1
  <2>3. /\ cache' \in [Acceptor!Caching -> [id : Acceptor!Id \cup {0}, payload : Acceptor!Id \cup {0}]]
        /\ CacheIsCurrent'
    <3>1. CASE UNCHANGED cache
      BY <3>1 DEF AcceptorInv, Acceptor!TypeOK, CacheIsCurrent
    <3>2. CASE l \in Acceptor!Caching /\ cache' = [cache EXCEPT ![l] = [id |-> t, payload |-> t]]
      BY <3>2 DEF AcceptorInv, Acceptor!TypeOK, CacheIsCurrent
    <3> QED BY <2>1, <3>1, <3>2 DEF Acceptor!CachedNow
  <2> QED BY <1>1, <1>2, <2>1, <2>2, <2>3
          DEF AcceptorInv, Acceptor!TypeOK, Acceptor!NeverDeaf, Acceptor!PayloadsAreRight
<1>4. CASE l \in Acceptor!Caching /\ l \notin listening
  <2>1. misused' = {"cache"} /\ UNCHANGED <<cache, output>>
    BY <1>4 DEF Acceptor!Transmit
  <2> QED BY <1>1, <1>2, <2>1
          DEF AcceptorInv, Acceptor!TypeOK, Acceptor!NeverDeaf, CacheIsCurrent,
              Acceptor!PayloadsAreRight, Acceptor!Sane, Acceptor!Use
<1> QED BY <1>3, <1>4

LEMMA AcceptorOthers ==
    ASSUME AcceptorInv,
           \/ Acceptor!MakeTransmission \/ Acceptor!DestroyHost \/ UNCHANGED Acceptor!vars
           \/ \E c \in Channel : Acceptor!CloseConnection(c)
    PROVE  AcceptorInv'
<1> USE DEF AcceptorInv, Acceptor!TypeOK, Acceptor!NeverDeaf, CacheIsCurrent,
            Acceptor!PayloadsAreRight, Acceptor!Sane, Acceptor!Use
<1>1. CASE Acceptor!MakeTransmission
  BY <1>1 DEF Acceptor!MakeTransmission
<1>2. CASE Acceptor!DestroyHost
  BY <1>2 DEF Acceptor!DestroyHost, Acceptor!Accept
<1>3. CASE \E c \in Channel : Acceptor!CloseConnection(c)
  BY <1>3 DEF Acceptor!CloseConnection
<1>4. CASE UNCHANGED Acceptor!vars
  BY <1>4 DEF Acceptor!vars
<1> QED BY <1>1, <1>2, <1>3, <1>4

LEMMA AcceptorInductive == AcceptorInv /\ [Acceptor!Next]_(Acceptor!vars) => AcceptorInv'
BY ListenersStep, AcceptorAccepts, AcceptorTransmits, AcceptorOthers DEF Acceptor!Next

LEMMA AcceptorInvariance == Acceptor!Spec => []AcceptorInv
BY AcceptorInitially, AcceptorInductive, PTL DEF Acceptor!Spec

(* A listener the host keeps always waits for a connection, or has one to  *)
(* handle: Listener::processAccept.                                        *)
THEOREM AlwaysAccepts == Acceptor!Spec => []Acceptor!NeverDeaf
<1>1. AcceptorInv => Acceptor!NeverDeaf
  BY DEF AcceptorInv
<1> QED BY <1>1, AcceptorInvariance, PTL

(* The payload cache that the channels of a listener share never makes one *)
(* of them write another transmission than the one it was given:           *)
(* AsyncStreamChannel::serializeTransmission.                              *)
THEOREM CacheIsTransparent == Acceptor!Spec => []Acceptor!PayloadsAreRight
<1>1. AcceptorInv => Acceptor!PayloadsAreRight
  BY DEF AcceptorInv
<1> QED BY <1>1, AcceptorInvariance, PTL

-----------------------------------------------------------------------------
(* Channels within a program.                                              *)

(* A channel that has not been linked has not been transmitted through,    *)
(* and those of a guest that waits to be accepted are not linked.          *)
Unlinked ==
    \A e \in Local!End : ~linked[e] => /\ sent[e] = <<>>
                                 /\ posted[Local!Peer(e)] = <<>> /\ received[Local!Peer(e)] = <<>>
Waiting == \A e \in Local!End : e[1] \in accepting => ~linked[e]

(* Nobody waits before opening a channel.                                  *)
Unopened == \A g \in Guest : channel[<<g, "guest">>] = "none" =>
                \A e \in Local!End : e[1] = g => ~linked[e]

LocalInv == Local!TypeOK /\ Unlinked /\ Waiting /\ Unopened /\ Local!Delivered

(* Two ends are each other's peers.                                        *)
LEMMA Peers ==
    ASSUME NEW e \in Local!End
    PROVE  /\ Local!Peer(e) \in Local!End /\ Local!Peer(Local!Peer(e)) = e
           /\ Local!Peer(e) # e /\ Local!Peer(e)[1] = e[1] /\ e[1] \in Guest
BY DEF Local!End, Local!Peer, Local!Host

(* A sequence is extended at its end, or handed on from its beginning.     *)
LEMMA Extended ==
    ASSUME NEW s \in Seq(Local!Payload), NEW t \in Seq(Local!Payload), NEW x \in Local!Payload
    PROVE  Append(s \o t, x) = s \o Append(t, x)
OBVIOUS

LEMMA HandedOn ==
    ASSUME NEW s \in Seq(Local!Payload), NEW t \in Seq(Local!Payload), t # <<>>
    PROVE  /\ Append(s, Head(t)) \o Tail(t) = s \o t
           /\ Head(t) \in Local!Payload /\ Tail(t) \in Seq(Local!Payload)
OBVIOUS

LEMMA LocalInitially == Local!Init => LocalInv
<1> SUFFICES ASSUME Local!Init PROVE LocalInv
  OBVIOUS
<1>1. <<>> \in Seq(Local!Payload)
  OBVIOUS
<1>2. Local!TypeOK
  BY <1>1 DEF Local!Init, Local!TypeOK, Local!Life
<1>3. Unlinked
  BY Peers DEF Local!Init, Unlinked
<1>4. Waiting /\ Unopened /\ Local!Delivered
  BY DEF Local!Init, Waiting, Unopened, Local!Delivered, Local!Alive
<1> QED BY <1>2, <1>3, <1>4 DEF LocalInv

LEMMA LocalOpens ==
    ASSUME LocalInv, NEW g \in Guest, Local!Open(g)
    PROVE  LocalInv'
<1> DEFINE e0 == <<g, "guest">>
<1>1. e0 \in Local!End
  BY DEF Local!End
<1>2. Local!TypeOK' /\ Unlinked'
  BY <1>1 DEF LocalInv, Local!TypeOK, Unlinked, Local!Open, Local!Life
<1>3. \A e \in Local!End : e[1] = g => ~linked[e]
  BY DEF LocalInv, Unopened, Local!Open
<1>4. Waiting' /\ Unopened'
  BY <1>3 DEF LocalInv, Waiting, Unopened, Local!Open, Local!TypeOK
<1>5. Local!Delivered'
  <2>1. /\ ~linked[e0] /\ ~linked[Local!Peer(e0)]
        /\ Local!Peer(Local!Peer(e0)) = e0 /\ Local!Peer(e0) \in Local!End
    BY <1>1, <1>3, Peers
  <2>2. sent[Local!Peer(e0)] = <<>> /\ received[e0] = <<>> /\ posted[e0] = <<>>
    BY <2>1 DEF LocalInv, Unlinked
  <2>3. <<>> = <<>> \o <<>>
    OBVIOUS
  <2>4. \A e \in Local!End : e # e0 => channel'[e] = channel[e]
    BY <1>1 DEF LocalInv, Local!TypeOK, Local!Open
  <2> QED BY <2>2, <2>3, <2>4 DEF LocalInv, Local!Delivered, Local!Alive, Local!Open
<1> QED BY <1>2, <1>4, <1>5 DEF LocalInv

LEMMA LocalAccepts ==
    ASSUME LocalInv, NEW g \in Guest, Local!Accept(g)
    PROVE  LocalInv'
<1> DEFINE e0 == <<g, Local!Host>>
<1>1. e0 \in Local!End /\ e0 # <<g, "guest">>
  BY DEF Local!End, Local!Host
<1>2. Local!TypeOK'
  <2>1. (channel' = channel \/ channel' = [channel EXCEPT ![e0] = "open"])
        /\ (linked' = linked \/ linked' = [e \in Local!End |-> linked[e] \/ e[1] = g])
    BY DEF Local!Accept
  <2>2. channel' \in [Local!End -> Local!Life] /\ linked' \in [Local!End -> BOOLEAN]
    BY <1>1, <2>1 DEF LocalInv, Local!TypeOK, Local!Life
  <2>3. misused' \in BOOLEAN
    BY DEF Local!Accept, LocalInv, Local!TypeOK
  <2> QED BY <2>2, <2>3 DEF Local!Accept, LocalInv, Local!TypeOK
<1>3. \A e \in Local!End : ~linked'[e] => ~linked[e]
  BY DEF Local!Accept, LocalInv, Local!TypeOK
<1>4. Unlinked'
  BY <1>3 DEF LocalInv, Unlinked, Local!Accept
<1>5. \A e \in Local!End : linked'[e] => linked[e] \/ e[1] = g
  BY DEF Local!Accept, LocalInv, Local!TypeOK
<1>6. Waiting'
  BY <1>5 DEF LocalInv, Waiting, Local!Accept
<1>7. channel[<<g, "guest">>] = "none" => UNCHANGED linked
  BY DEF Local!Accept, Local!Alive
<1>8. \A h \in Guest : channel'[<<h, "guest">>] = channel[<<h, "guest">>]
  BY <1>1 DEF Local!Accept, LocalInv, Local!TypeOK, Local!End, Local!Host
<1>9. Unopened'
  BY <1>5, <1>7, <1>8 DEF LocalInv, Unopened
<1>10. Local!Delivered'
  <2>1. /\ ~linked[e0] /\ ~linked[Local!Peer(e0)]
        /\ Local!Peer(Local!Peer(e0)) = e0 /\ Local!Peer(e0) \in Local!End
    BY <1>1, Peers DEF LocalInv, Waiting, Local!Accept
  <2>2. sent[Local!Peer(e0)] = <<>> /\ received[e0] = <<>> /\ posted[e0] = <<>>
    BY <2>1 DEF LocalInv, Unlinked
  <2>3. <<>> = <<>> \o <<>>
    OBVIOUS
  <2>4. \A e \in Local!End : e # e0 => channel'[e] = channel[e]
    BY <1>1 DEF LocalInv, Local!TypeOK, Local!Accept
  <2> QED BY <2>2, <2>3, <2>4 DEF LocalInv, Local!Delivered, Local!Alive, Local!Accept
<1> QED BY <1>2, <1>4, <1>6, <1>9, <1>10 DEF LocalInv

LEMMA LocalTransmits ==
    ASSUME LocalInv, NEW e0 \in Local!End, Local!Transmit(e0)
    PROVE  LocalInv'
<1> DEFINE p0 == Local!Peer(e0)
           n == Len(sent[e0]) + 1
<1>1. p0 \in Local!End /\ Local!Peer(p0) = e0 /\ p0 # e0 /\ linked[e0]
  BY Peers DEF Local!Transmit, Local!Reaches
<1>2. n \in Local!Payload
  <2>1. sent[e0] \in Seq(Local!Payload)
    BY DEF LocalInv, Local!TypeOK
  <2> QED BY <2>1, LenProperties DEF Local!Payload
<1>3. /\ posted' = [posted EXCEPT ![p0] = Append(@, n)]
      /\ sent' = [sent EXCEPT ![e0] = Append(@, n)]
      /\ UNCHANGED <<channel, linked, accepting, received, unknown, misused>>
  BY DEF Local!Transmit
<1>4. Local!TypeOK'
  <2>1. Append(sent[e0], n) \in Seq(Local!Payload) /\ Append(posted[p0], n) \in Seq(Local!Payload)
    BY <1>1, <1>2 DEF LocalInv, Local!TypeOK
  <2>2. sent' \in [Local!End -> Seq(Local!Payload)] /\ posted' \in [Local!End -> Seq(Local!Payload)]
    BY <1>3, <2>1 DEF LocalInv, Local!TypeOK
  <2> QED BY <1>3, <2>2 DEF LocalInv, Local!TypeOK
<1>5. \A e \in Local!End : e # e0 => sent'[e] = sent[e] /\ posted'[Local!Peer(e)] = posted[Local!Peer(e)]
  <2> SUFFICES ASSUME NEW e \in Local!End, e # e0
               PROVE  sent'[e] = sent[e] /\ posted'[Local!Peer(e)] = posted[Local!Peer(e)]
    OBVIOUS
  <2>1. Local!Peer(e) \in Local!End /\ Local!Peer(e) # p0
    BY Peers
  <2> QED BY <1>3, <2>1 DEF LocalInv, Local!TypeOK
<1>6. Unlinked' /\ Waiting' /\ Unopened'
  BY <1>1, <1>3, <1>5 DEF LocalInv, Unlinked, Waiting, Unopened
<1>7. Local!Delivered'
  <2> SUFFICES ASSUME NEW e \in Local!End, Local!Alive(e)'
               PROVE  sent'[Local!Peer(e)] = received'[e] \o posted'[e]
    BY DEF Local!Delivered
  <2>1. Local!Alive(e) /\ sent[Local!Peer(e)] = received[e] \o posted[e]
    BY <1>3 DEF LocalInv, Local!Delivered, Local!Alive
  <2>2. CASE e = p0
    <3>1. sent'[e0] = Append(sent[e0], n) /\ posted'[p0] = Append(posted[p0], n)
      BY <1>1, <1>3 DEF LocalInv, Local!TypeOK
    <3>2. received[p0] \in Seq(Local!Payload) /\ posted[p0] \in Seq(Local!Payload)
      BY <1>1 DEF LocalInv, Local!TypeOK
    <3>3. Append(received[p0] \o posted[p0], n) = received[p0] \o Append(posted[p0], n)
      BY <1>2, <3>2, Extended
    <3>4. sent[e0] = received[p0] \o posted[p0]
      BY <1>1, <2>1, <2>2
    <3>5. received'[p0] = received[p0] /\ Local!Peer(p0) = e0
      BY <1>1, <1>3
    <3> QED BY <2>2, <3>1, <3>3, <3>4, <3>5
  <2>3. CASE e # p0
    <3>1. Local!Peer(e) \in Local!End /\ Local!Peer(e) # e0 /\ Local!Peer(Local!Peer(e)) = e
      BY <2>3, Peers
    <3> QED BY <1>3, <1>5, <2>1, <3>1
  <2> QED BY <2>2, <2>3
<1> QED BY <1>4, <1>6, <1>7 DEF LocalInv

(* What is only destroyed no longer matters.                               *)
LEMMA LocalEnds ==
    ASSUME LocalInv, NEW e0 \in Local!End, Local!TransmitFails(e0) \/ Local!Destroy(e0)
    PROVE  LocalInv'
<1>1. /\ channel' = [channel EXCEPT ![e0] = "destroyed"] /\ channel[e0] = "open"
      /\ UNCHANGED <<linked, accepting, posted, received, sent, unknown, misused>>
  BY DEF Local!TransmitFails, Local!Destroy, Local!Alive
<1>2. \A e \in Local!End :
          channel'[e] # channel[e] => e = e0 /\ channel'[e] = "destroyed" /\ channel[e] # "none"
  BY <1>1 DEF LocalInv, Local!TypeOK
<1>3. Local!TypeOK' /\ Unlinked' /\ Waiting'
  BY <1>1 DEF LocalInv, Local!TypeOK, Unlinked, Waiting, Local!Life
<1>4. Unopened'
  <2>1. \A g \in Guest : <<g, "guest">> \in Local!End
    BY DEF Local!End
  <2> QED BY <1>1, <1>2, <2>1 DEF LocalInv, Unopened
<1>5. Local!Delivered'
  BY <1>1, <1>2 DEF LocalInv, Local!Delivered, Local!Alive
<1> QED BY <1>3, <1>4, <1>5 DEF LocalInv

LEMMA TasksRun ==
    ASSUME LocalInv, NEW e0 \in Local!End,
           Local!ProcessReceive(e0) \/ Local!ProcessError(e0) \/ Local!Expired(e0)
    PROVE  LocalInv'
<1>1. /\ posted[e0] # <<>> /\ posted[e0] \in Seq(Local!Payload) /\ received[e0] \in Seq(Local!Payload)
      /\ posted' = [posted EXCEPT ![e0] = Tail(@)]
      /\ UNCHANGED <<linked, accepting, sent, misused>>
  BY DEF Local!ProcessReceive, Local!ProcessError, Local!Expired, Local!Take, LocalInv,
         Local!TypeOK
<1>2. /\ Append(received[e0], Head(posted[e0])) \o Tail(posted[e0]) = received[e0] \o posted[e0]
      /\ Head(posted[e0]) \in Local!Payload /\ Tail(posted[e0]) \in Seq(Local!Payload)
  BY <1>1, HandedOn
<1>3. \/ /\ received' = [received EXCEPT ![e0] = Append(@, Head(posted[e0]))]
         /\ UNCHANGED <<channel, unknown>>
      \/ /\ UNCHANGED received
         /\ channel[e0] # "none"
         /\ channel' = [channel EXCEPT ![e0] = "destroyed"]
         /\ unknown' \in Nat
  <2>1. CASE Local!ProcessReceive(e0)
    BY <2>1 DEF Local!ProcessReceive, Local!NextTask
  <2>2. CASE Local!ProcessError(e0)
    BY <2>2 DEF Local!ProcessError, Local!Alive, LocalInv, Local!TypeOK
  <2>3. CASE Local!Expired(e0)
    BY <2>3 DEF Local!Expired, LocalInv, Local!TypeOK
  <2> QED BY <2>1, <2>2, <2>3
<1>4. Local!TypeOK'
  <2>1. posted' \in [Local!End -> Seq(Local!Payload)]
    BY <1>1, <1>2 DEF LocalInv, Local!TypeOK
  <2>2. received' \in [Local!End -> Seq(Local!Payload)]
    <3>1. Append(received[e0], Head(posted[e0])) \in Seq(Local!Payload)
      BY <1>1, <1>2
    <3> QED BY <1>3, <3>1 DEF LocalInv, Local!TypeOK
  <2>3. channel' \in [Local!End -> Local!Life] /\ unknown' \in Nat
    BY <1>3 DEF LocalInv, Local!TypeOK, Local!Life
  <2> QED BY <1>1, <2>1, <2>2, <2>3 DEF LocalInv, Local!TypeOK
<1>5. \A e \in Local!End : e # e0 => posted'[e] = posted[e] /\ received'[e] = received[e]
                               /\ channel'[e] = channel[e]
  BY <1>1, <1>3 DEF LocalInv, Local!TypeOK
<1>6. Unlinked'
  <2> SUFFICES ASSUME NEW e \in Local!End, ~linked[e]
               PROVE  sent[e] = <<>> /\ posted'[Local!Peer(e)] = <<>> /\ received'[Local!Peer(e)] = <<>>
    BY <1>1 DEF Unlinked
  <2>1. /\ sent[e] = <<>> /\ posted[Local!Peer(e)] = <<>> /\ received[Local!Peer(e)] = <<>>
        /\ Local!Peer(e) \in Local!End
    BY Peers DEF LocalInv, Unlinked
  <2>2. Local!Peer(e) # e0
    BY <1>1, <2>1
  <2> QED BY <1>5, <2>1, <2>2
<1>7. \A e \in Local!End : channel'[e] = "none" => channel[e] = "none"
  BY <1>3 DEF LocalInv, Local!TypeOK
<1>8. Waiting' /\ Unopened'
  <2>1. \A g \in Guest : <<g, "guest">> \in Local!End
    BY DEF Local!End
  <2> QED BY <1>1, <1>7, <2>1 DEF LocalInv, Waiting, Unopened
<1>9. Local!Delivered'
  <2> SUFFICES ASSUME NEW e \in Local!End, Local!Alive(e)'
               PROVE  sent[Local!Peer(e)] = received'[e] \o posted'[e]
    BY <1>1 DEF Local!Delivered
  <2>1. CASE e = e0
    <3>1. channel' = channel /\ received' = [received EXCEPT ![e0] = Append(@, Head(posted[e0]))]
      BY <1>3, <2>1 DEF Local!Alive, LocalInv, Local!TypeOK
    <3>2. sent[Local!Peer(e0)] = received[e0] \o posted[e0]
      BY <2>1, <3>1 DEF LocalInv, Local!Delivered, Local!Alive
    <3>3. received'[e0] = Append(received[e0], Head(posted[e0])) /\ posted'[e0] = Tail(posted[e0])
      BY <1>1, <3>1 DEF LocalInv, Local!TypeOK
    <3> QED BY <1>2, <2>1, <3>2, <3>3
  <2>2. CASE e # e0
    BY <1>5, <2>2 DEF LocalInv, Local!Delivered, Local!Alive
  <2> QED BY <2>1, <2>2
<1> QED BY <1>4, <1>6, <1>8, <1>9 DEF LocalInv

LEMMA LocalStutters == ASSUME LocalInv, UNCHANGED Local!vars PROVE LocalInv'
BY DEF LocalInv, Local!TypeOK, Unlinked, Waiting, Unopened, Local!Delivered, Local!Alive,
       Local!vars

LEMMA LocalInductive == LocalInv /\ [Local!Next]_(Local!vars) => LocalInv'
BY LocalOpens, LocalAccepts, LocalTransmits, LocalEnds, TasksRun, LocalStutters DEF Local!Next

(* What an open end has been transmitted is what it has received and what  *)
(* is posted to it, in order and once: LocalChannel::transmitImpl.         *)
THEOREM DeliversInOrder == Local!Spec => []Local!Delivered
<1>1. LocalInv => Local!Delivered
  BY DEF LocalInv
<1> QED BY <1>1, LocalInitially, LocalInductive, PTL DEF Local!Spec
=============================================================================
