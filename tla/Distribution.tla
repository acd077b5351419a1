---------------------------- MODULE Distribution ----------------------------
(***************************************************************************)
(* The distribution of the instances of one cached struct type: the host's *)
(* HostTransceiver with its container and group, the guests'               *)
(* GuestTransceivers with theirs, and the connections between them.        *)
(*                                                                         *)
(* A connection appears here once its handshake has let it through (module *)
(* Connection has the handshake); it is named by the id the host has given *)
(* it.  A guest that opens a connection again gets a new one while the     *)
(* host may not have noticed the end of the old one yet.                   *)
(***************************************************************************)
EXTENDS Integers, Sequences, FiniteSets, SequencesExt

CONSTANTS
    Guest,     \* guests
    Key,       \* keys of instances, in their order in a container
    Prop,      \* properties other than the key
    Val,       \* values of a property
    Cleanup,   \* whether the type is a cleanup type
    HostUse,   \* how the host's own program publishes, a subset of Uses
    MaxConns,  \* bound: connections ever opened
    MaxPub     \* bound: publications

Uses == {"whole",    \* with every valid property included
         "partial",  \* with an explicit set of included properties
         "react"}    \* from within a handler

Unset == "unset"

ASSUME DistributionAssumption ==
    /\ Key \subseteq Int
    /\ Unset \notin Val
    /\ Cleanup \in BOOLEAN
    /\ HostUse \subseteq Uses
    /\ MaxConns \in Nat
    /\ MaxPub \in Nat

VARIABLES
    hostC,     \* the host's container
    member,    \* m_groups[type]: the connections that have joined
    open,      \* m_guestConnections of the host
    cur,       \* m_hostConnection of a guest, NoConn when null
    joined,    \* whether m_joinedGroups of a guest has the type
    guestC,    \* the guests' containers
    toHost,    \* transmissions under way, per connection
    toGuest,
    nextConn,  \* the id the next connection gets
    pubs,      \* publications so far
    log,       \* the contents the host's container has had, a history
    exact      \* whether the host's program has published nothing but whole
               \* instances, and nothing from within a handler, a history

vars == <<hostC, member, open, cur, joined, guestC, toHost, toGuest, nextConn,
          pubs, log, exact>>

NoConn == 0
HostId == 1
FirstId == 2
Conn == FirstId..(FirstId + MaxConns - 1)

-----------------------------------------------------------------------------
(* Instances, transmissions and containers *)

Instance == [Prop -> Val \cup {Unset}]
Blank == [p \in Prop |-> Unset]
Valid(i) == {p \in Prop : i[p] # Unset}

Data(k, inst, included, remove, sender) ==
    [kind |-> "data", key |-> k, inst |-> inst, included |-> included,
     remove |-> remove, sender |-> sender]
Join == [kind |-> "join"]
ClearCache == [kind |-> "clearCache"]
CacheInfo == [kind |-> "cacheInfo"]

(* Only the included properties of an instance are serialised.             *)
Wire(m) ==
    IF m.kind # "data" THEN m
    ELSE [m EXCEPT !.inst = [p \in Prop |->
              IF p \in m.included THEN m.inst[p] ELSE Unset]]

(* A program publishes an instance with its valid properties or with an    *)
(* explicit set of them; remove includes only the key.                     *)
Publications(sender) ==
    {Data(k, Blank, {}, TRUE, sender) : k \in Key} \cup
    {Data(k, inst, included, FALSE, sender) :
        k \in Key, inst \in Instance, included \in SUBSET Prop}
Whole(m) == Valid(m.inst) \subseteq m.included

Empty == [k \in {} |-> Blank]

(* Container::updateWithoutKeys.                                           *)
Merge(old, m) == [p \in Prop |-> IF p \in m.included THEN m.inst[p] ELSE old[p]]

(* Container::insert.                                                      *)
Insert(c, m) ==
    [k \in DOMAIN c \cup {m.key} |->
        IF k # m.key THEN c[k]
        ELSE IF k \in DOMAIN c
        THEN [inst |-> Merge(c[k].inst, m), lastUpdateFrom |-> m.sender,
              createdFrom |-> c[k].createdFrom]
        ELSE [inst |-> m.inst, lastUpdateFrom |-> m.sender,
              createdFrom |-> m.sender]]

(* What dispatching a transmission does to the container of the type.      *)
Apply(c, m) ==
    IF m.kind # "data" THEN c
    ELSE IF m.remove THEN Restrict(c, DOMAIN c \ {m.key})
    ELSE Insert(c, m)

(* The container after each number of transmissions.                       *)
Stages(c, ms) ==
    LET stage[n \in 0..Len(ms)] == IF n = 0 THEN c ELSE Apply(stage[n - 1], ms[n])
    IN  stage
ApplyAll(c, ms) == Stages(c, ms)[Len(ms)]

(* The contents of a container, without who created what.                  *)
Contents(c) == [k \in DOMAIN c |-> <<c[k].inst, c[k].lastUpdateFrom>>]

(* What applying the transmissions one after the other makes of it.        *)
Versions(c, ms) == [n \in DOMAIN ms |-> Contents(Stages(c, ms)[n])]

-----------------------------------------------------------------------------
(* A guest's end of a connection is there until the guest drops it.        *)
Live(c) == \E g \in Guest : cur[g] = c

(* Seeded fault: the connection a transmission came from is left out.      *)
FaultNoEcho(group, ms) ==
    [c \in Conn |-> IF c \in group /\ Live(c)
                    THEN toGuest[c] \o SelectSeq(ms, LAMBDA m : m.sender # c)
                    ELSE toGuest[c]]

(* HostTransceiver::transmit: to all connections of the group.             *)
Broadcast(group, ms) ==
    [c \in Conn |-> IF c \in group /\ Live(c)
                    THEN toGuest[c] \o [n \in DOMAIN ms |-> Wire(ms[n])]
                    ELSE toGuest[c]]

(* A container keeps its instances by their keys.                          *)
InKeyOrder(keys) ==
    CHOOSE s \in [1..Cardinality(keys) -> keys] :
        \A i, j \in DOMAIN s : i < j => s[i] < s[j]

(* Transceiver::remove in the host, for each of a set of instances.        *)
Removals(keys) ==
    [n \in 1..Cardinality(keys) |->
        Data(InKeyOrder(keys)[n], Blank, {}, TRUE, HostId)]

(* What transmitContainer sends: every instance with its valid properties  *)
(* and, for a sender, its last updater.  The creator is not transmitted.   *)
Cached ==
    [n \in 1..Cardinality(DOMAIN hostC) |->
        LET k == InKeyOrder(DOMAIN hostC)[n] IN
        Data(k, hostC[k].inst, Valid(hostC[k].inst), FALSE,
             hostC[k].lastUpdateFrom)]

Init ==
    /\ hostC = Empty
    /\ member = {}
    /\ open = {}
    /\ cur = [g \in Guest |-> NoConn]
    /\ joined = [g \in Guest |-> FALSE]
    /\ guestC = [g \in Guest |-> Empty]
    /\ toHost = [c \in Conn |-> <<>>]
    /\ toGuest = [c \in Conn |-> <<>>]
    /\ nextConn = FirstId
    /\ pubs = 0
    /\ log = <<Contents(Empty)>>
    /\ exact = TRUE

-----------------------------------------------------------------------------
(* Guests *)

Open(g) ==
    /\ cur[g] = NoConn
    /\ nextConn \in Conn
    /\ cur' = [cur EXCEPT ![g] = nextConn]
    /\ open' = open \cup {nextConn}
    /\ nextConn' = nextConn + 1
    /\ UNCHANGED <<hostC, member, joined, guestC, toHost, toGuest, pubs, log, exact>>

(* What a guest transmits is lost when the host has closed the connection. *)
SentToHost(c, m) ==
    IF c \in open THEN [toHost EXCEPT ![c] = Append(@, m)] ELSE toHost

(* subscribe, or the preloading of a type: joins the group unless          *)
(* m_joinedGroups has it.                                                  *)
JoinGroup(g) ==
    /\ cur[g] # NoConn
    /\ ~joined[g]
    /\ toHost' = SentToHost(cur[g], Join)
    /\ joined' = [joined EXCEPT ![g] = TRUE]
    /\ UNCHANGED <<hostC, member, open, cur, guestC, toGuest, nextConn, pubs,
                   log, exact>>

Publish(g, m) ==
    /\ cur[g] # NoConn
    /\ pubs < MaxPub
    /\ pubs' = pubs + 1
    /\ toHost' = SentToHost(cur[g], Wire(m))
    /\ UNCHANGED <<hostC, member, open, cur, joined, guestC, toGuest, nextConn,
                   log, exact>>

GuestReceive(g) ==
    LET c == cur[g] IN
    /\ c # NoConn
    /\ toGuest[c] # <<>>
    /\ guestC' = [guestC EXCEPT ![g] = Apply(@, Head(toGuest[c]))]
    /\ toGuest' = [toGuest EXCEPT ![c] = Tail(@)]
    /\ UNCHANGED <<hostC, member, open, cur, joined, toHost, nextConn, pubs, log, exact>>

(* The connection is closed, whatever the reason: handleTransitionImpl     *)
(* drops it, and with it what it has not delivered.                        *)
GuestClosed(g) ==
    /\ cur[g] # NoConn
    /\ toGuest' = [toGuest EXCEPT ![cur[g]] = <<>>]
    /\ cur' = [cur EXCEPT ![g] = NoConn]
    /\ UNCHANGED <<hostC, member, open, joined, guestC, toHost, nextConn, pubs,
                   log, exact>>

-----------------------------------------------------------------------------
(* The host *)

(* Dispatching to the host's own handlers comes first, then the            *)
(* transmission to the group.  dispatched is the order of the former, sent *)
(* that of the latter: they differ when a handler publishes.               *)
Distribute(dispatched, sent) ==
    /\ hostC' = ApplyAll(hostC, dispatched)
    /\ log' = log \o Versions(hostC, dispatched)
    /\ toGuest' = Broadcast(member, sent)

(* Seeded fault: only the end of the cache is transmitted, not the cache.  *)
FaultMemberJoin(c) ==
    /\ toGuest' = IF Live(c) THEN [toGuest EXCEPT ![c] = Append(@, CacheInfo)]
                             ELSE toGuest
    /\ member' = member \cup {c}
    /\ UNCHANGED <<hostC, log>>

(* handleMemberMessage: into the group, then the container is transmitted, *)
(* again if the connection is a member already.                            *)
HandleMemberJoin(c) ==
    /\ toGuest' = IF Live(c)
                  THEN [toGuest EXCEPT ![c] = @ \o Cached \o <<CacheInfo>>]
                  ELSE toGuest
    /\ member' = member \cup {c}
    /\ UNCHANGED <<hostC, log>>

(* handleClearCache: the instances are removed one by one.                 *)
HandleClearCache ==
    /\ Distribute(Removals(DOMAIN hostC), Removals(DOMAIN hostC))
    /\ UNCHANGED member

(* Seeded fault: the sender that the guest has set is believed.            *)
FaultFromPeer(c, m) == m

(* Connection::handleReceive stamps what it receives with the peer's id.   *)
FromPeer(c, m) == IF m.kind = "data" THEN [m EXCEPT !.sender = c] ELSE m

HostReceive(c) ==
    /\ c \in open
    /\ toHost[c] # <<>>
    /\ toHost' = [toHost EXCEPT ![c] = Tail(@)]
    /\ LET m == FromPeer(c, Head(toHost[c])) IN
       \/ m.kind = "join" /\ HandleMemberJoin(c)
       \/ m.kind = "clearCache" /\ HandleClearCache
       \/ m.kind = "data" /\ Distribute(<<m>>, <<m>>) /\ UNCHANGED member
    /\ UNCHANGED <<open, cur, joined, guestC, nextConn, pubs, exact>>

(* A handler of the host's program publishes while the transmission is     *)
(* being dispatched.                                                       *)
HostReceiveReacting(c) ==
    /\ "react" \in HostUse
    /\ c \in open
    /\ toHost[c] # <<>>
    /\ pubs < MaxPub
    /\ pubs' = pubs + 1
    /\ toHost' = [toHost EXCEPT ![c] = Tail(@)]
    /\ LET m == FromPeer(c, Head(toHost[c])) IN
       /\ m.kind = "data"
       /\ \E r \in Publications(HostId) : Whole(r) /\ Distribute(<<m, r>>, <<r, m>>)
    /\ exact' = FALSE
    /\ UNCHANGED <<member, open, cur, joined, guestC, nextConn>>

HostPublish(m) ==
    /\ (IF Whole(m) THEN "whole" ELSE "partial") \in HostUse
    /\ pubs < MaxPub
    /\ pubs' = pubs + 1
    /\ exact' = (exact /\ Whole(m))
    /\ Distribute(<<m>>, <<m>>)
    /\ UNCHANGED <<member, open, cur, joined, guestC, toHost, nextConn>>

(* Seeded fault: what the connection has created is cleaned up, no matter  *)
(* who has updated it since.                                               *)
FaultDoomedByCreator(c) ==
    IF Cleanup THEN {k \in DOMAIN hostC : hostC[k].createdFrom = c} ELSE {}

(* The instances to clean up are those last updated over the connection.   *)
Doomed(c) ==
    IF Cleanup THEN {k \in DOMAIN hostC : hostC[k].lastUpdateFrom = c} ELSE {}

(* The connection is closed, whatever the reason: handleTransitionImpl     *)
(* takes it out of the groups, cleans up and forgets it.                   *)
HostClosed(c) ==
    LET ms == Removals(Doomed(c)) IN
    /\ c \in open
    /\ open' = open \ {c}
    /\ member' = member \ {c}
    /\ toHost' = [toHost EXCEPT ![c] = <<>>]
    /\ hostC' = ApplyAll(hostC, ms)
    /\ log' = log \o Versions(hostC, ms)
    /\ toGuest' = Broadcast(member \ {c}, ms)
    /\ UNCHANGED <<cur, joined, guestC, nextConn, pubs, exact>>

-----------------------------------------------------------------------------
Next ==
    \/ \E g \in Guest :
        \/ Open(g) \/ JoinGroup(g) \/ GuestReceive(g) \/ GuestClosed(g)
        \/ \E m \in Publications(NoConn) \cup {ClearCache} : Publish(g, m)
    \/ \E c \in Conn : HostReceive(c) \/ HostReceiveReacting(c) \/ HostClosed(c)
    \/ \E m \in Publications(HostId) : HostPublish(m)

Spec == Init /\ [][Next]_vars

(* Both event loops run: what has arrived is received, and an end whose    *)
(* peer is gone gets to know it.                                           *)
Fairness ==
    /\ \A g \in Guest : WF_vars(GuestReceive(g))
    /\ \A g \in Guest : WF_vars(cur[g] \notin open /\ GuestClosed(g))
    /\ \A c \in Conn : WF_vars(HostReceive(c))
    /\ \A c \in Conn : WF_vars(~Live(c) /\ HostClosed(c))

FairSpec == Spec /\ Fairness

-----------------------------------------------------------------------------
(* Properties *)

(* Every variable keeps its type.                                          *)
Sender == Conn \cup {HostId}
Entry == [inst : Instance, lastUpdateFrom : Sender, createdFrom : Sender]
IsContainer(c) == DOMAIN c \subseteq Key /\ c \in [DOMAIN c -> Entry]
DataFrom(senders) ==
    [kind : {"data"}, key : Key, inst : Instance, included : SUBSET Prop,
     remove : BOOLEAN, sender : senders]
FromGuest == DataFrom({NoConn}) \cup {Join, ClearCache}
FromHost == DataFrom(Sender) \cup {CacheInfo}
Version == UNION {[keys -> Instance \X Sender] : keys \in SUBSET Key}
TypeOK ==
    /\ IsContainer(hostC)
    /\ member \subseteq Conn
    /\ open \subseteq Conn
    /\ cur \in [Guest -> Conn \cup {NoConn}]
    /\ joined \in [Guest -> BOOLEAN]
    /\ DOMAIN guestC = Guest /\ \A g \in Guest : IsContainer(guestC[g])
    /\ toHost \in [Conn -> Seq(FromGuest)]
    /\ toGuest \in [Conn -> Seq(FromHost)]
    /\ nextConn \in FirstId..(FirstId + MaxConns)
    /\ pubs \in 0..MaxPub
    /\ log \in Seq(Version)
    /\ exact \in BOOLEAN

(* The version of the host's container that a guest has: it has all up to  *)
(* the transmissions under way, once the end of the cache has arrived.     *)
pos == [g \in Guest |->
    IF cur[g] \in member /\ CacheInfo \notin Range(toGuest[cur[g]])
    THEN Len(log) - Len(toGuest[cur[g]]) ELSE 0]

Abstract == INSTANCE ReplicatedContainer WITH Reader <- Guest

(* The groups and the transmissions under way implement the abstract       *)
(* replication of a container: a member goes through the versions of the   *)
(* host's container one by one, in their order, from the one it joined at. *)
Refines == Abstract!Spec

(* What a guest's container holds is the version of the host's container   *)
(* that the guest stands at, value by value and sender by sender.          *)
ViewIsVersion ==
    exact => \A g \in Guest : pos[g] # 0 => Contents(guestC[g]) = log[pos[g]]

(* An instance of a cleanup type does not outlive the connection that last *)
(* updated it, however the ends of connections and what is still under way *)
(* interleave.                                                             *)
CleanupComplete ==
    Cleanup => \A k \in DOMAIN hostC :
                   hostC[k].lastUpdateFrom \in open \cup {HostId}

(* After the last publication and the last change of connections every     *)
(* member's container becomes, and stays, what the host's is.              *)
Converges ==
    []exact => <>[](\A g \in Guest :
        cur[g] \in member => Contents(guestC[g]) = Contents(hostC))

(* A member with nothing under way to it holds the current instances.      *)
CaughtUp ==
    \A g \in Guest :
        cur[g] \in member /\ toGuest[cur[g]] = <<>> =>
            Contents(guestC[g]) = Contents(hostC)

(* A guest that subscribes and whose connection is open with nothing under *)
(* way holds the current instances, after a reconnect too.                 *)
SubscriberFilled ==
    \A g \in Guest :
        LET c == cur[g] IN
        joined[g] /\ c \in open /\ toHost[c] = <<>> /\ toGuest[c] = <<>> =>
            Contents(guestC[g]) = Contents(hostC)

(* Instances of a cleanup type are removed when their creator's connection *)
(* ends: what the documents say, and not what handleTransitionImpl does.   *)
CleanupByCreator ==
    Cleanup => \A k \in DOMAIN hostC :
                   hostC[k].createdFrom \in open \cup {HostId}
=============================================================================
