-------------------------------- MODULE Daemon --------------------------------
(***************************************************************************)
(* dotsd: a HostTransceiver with the LegacyAuthManager, which keeps a      *)
(* DotsClient instance for every connection it has had, and removes those  *)
(* of closed connections from a timer once nothing refers to them.         *)
(*                                                                         *)
(* Connections are numbered by the ids the host gives them.  Of the        *)
(* handshake, which module Connection has in full, what remains here is    *)
(* what meets the manager: the question whether the guest must             *)
(* authenticate, asked when the connection is accepted, and the check of   *)
(* its answer, made later and possibly by other rules.  Of the instances   *)
(* other than rules and clients only the guests they come from remain.     *)
(***************************************************************************)
EXTENDS AuthManager

CONSTANTS
    MaxConn,    \* bound: the last id given to a connection
    EndpointOf, \* the remote endpoint of each connection
    NameOf,     \* the name of the guest at its other end
    SecretOf,   \* the secret that guest was given, or Unset
    Key,        \* instances, other than those of DotsAuthentication
    Cleanup,    \* those of them that are of a cleanup type
    MaxPub      \* bound: publications

ASSUME DaemonAssumption ==
    /\ MaxConn \in Nat /\ MaxPub \in Nat
    /\ \A c \in 2..MaxConn : EndpointOf[c].scheme \in {"tcp", "ws"} =>
           LET a == EndpointOf[c].address IN
           /\ Bits(a.bits)
           /\ \A k \in RuleKeys :
                  k.network.version = a.version => Len(k.network.bits) = Len(a.bits)

HostId == 1
FirstId == 2
Conn == FirstId..MaxConn
State == {"suspended", "connecting", "early_subscribe", "connected", "closed"}

VARIABLES
    state,     \* the state of each connection
    nonce,     \* m_nonce of each connection
    client,    \* the container of DotsClient: id -> connectionState
    instance,  \* the other containers: the clone information of each instance
    pubs       \* publications so far

vars == <<rules, default, published, state, nonce, client, instance, pubs>>

Up(c) == state[c] \in {"early_subscribe", "connected"}

CloneInformation ==
    [createdFrom : {HostId} \cup Conn, lastUpdateFrom : {HostId} \cup Conn]

TypeOK ==
    /\ rules \in Seq(Rules) /\ default \in Accept /\ published \in Seq(Rules)
    /\ state \in [Conn -> State]
    /\ nonce \in [Conn -> Conn \cup {NoNonce}]
    /\ DOMAIN client \subseteq Conn /\ client \in [DOMAIN client -> State]
    /\ DOMAIN instance \subseteq Key \cup RuleKeys
    /\ instance \in [DOMAIN instance -> CloneInformation]
    /\ pubs \in 0..MaxPub

Init ==
    /\ AuthInit
    /\ state = [c \in Conn |-> "suspended"]
    /\ nonce = [c \in Conn |-> NoNonce]
    /\ client = << >>
    /\ instance = << >>
    /\ pubs = 0

(* handleTransition: each transition is published as the client's state.   *)
SetState(c, to) ==
    /\ state' = [state EXCEPT ![c] = to]
    /\ client' = [d \in DOMAIN client \cup {c} |-> IF d = c THEN to ELSE client[d]]

(* handleListenAccept, and asyncReceive of the new connection.             *)
HandleListenAccept(c) ==
    /\ state[c] = "suspended"
    /\ \A d \in Conn : d < c => state[d] # "suspended"
    /\ SetState(c, "connecting")
    /\ nonce' = [nonce EXCEPT ![c] = IF RequiresAuthentication(EndpointOf[c]) THEN c ELSE NoNonce]
    /\ UNCHANGED <<authVars, instance, pubs>>

(* A guest that is asked without a secret closes; one that is not asked    *)
(* sends no response, which the host reads as an empty string.             *)
Connect(c) ==
    [client |-> NameOf[c], cnonce |-> c,
     response |-> IF nonce[c] = NoNonce THEN Zeros
                  ELSE Digest(nonce[c], c, NameOf[c], SecretOf[c])]

Closed(c) ==
    /\ SetState(c, "closed")
    /\ LET cleanup == {k \in DOMAIN instance \cap Cleanup : instance[k].lastUpdateFrom = c}
       IN  instance' = [k \in DOMAIN instance \ cleanup |-> instance[k]]
    /\ UNCHANGED <<authVars, nonce, pubs>>

HandleConnect(c) ==
    /\ state[c] = "connecting"
    /\ nonce[c] = NoNonce \/ SecretOf[c] # Unset
    /\ IF VerifyAuthentication(EndpointOf[c], nonce[c], Connect(c))
       THEN SetState(c, "early_subscribe") /\ UNCHANGED <<authVars, nonce, instance, pubs>>
       ELSE Closed(c)

HandlePreloadClientFinished(c) ==
    /\ state[c] = "early_subscribe"
    /\ SetState(c, "connected")
    /\ UNCHANGED <<authVars, nonce, instance, pubs>>

HandleClose(c) == state[c] \notin {"suspended", "closed"} /\ Closed(c)

-----------------------------------------------------------------------------
(* Guests that are connected publish, as does the host.                    *)
Sender == {HostId} \cup {c \in Conn : Up(c)}

(* Container::insert, and remove.                                          *)
Insert(k, sender) ==
    instance' = [j \in DOMAIN instance \cup {k} |->
        IF j # k THEN instance[j]
        ELSE [createdFrom |-> IF k \in DOMAIN instance THEN instance[k].createdFrom ELSE sender,
              lastUpdateFrom |-> sender]]
Erase(k) == instance' = [j \in DOMAIN instance \ {k} |-> instance[j]]

KeyOf(r) == [network |-> r.network, client |-> r.client, priority |-> r.priority]

Publish ==
    /\ pubs < MaxPub /\ pubs' = pubs + 1
    /\ UNCHANGED <<state, nonce, client>>
    /\ \/ \E s \in Sender, k \in Key : Insert(k, s) /\ UNCHANGED authVars
       \/ \E k \in DOMAIN instance \cap Key : Erase(k) /\ UNCHANGED authVars
       \/ \E s \in Sender, r \in Rules : PublishRule(r) /\ Insert(KeyOf(r), s)
       \/ \E r \in ToSet(published) : RemoveRule(r) /\ Erase(KeyOf(r))
       \/ \E accept \in Accept : PublishPolicy(accept) /\ UNCHANGED instance
       \/ RemovePolicy /\ UNCHANGED instance

(* Seeded fault: only who changed an instance last counts.                 *)
FaultIsStale(c) == \A k \in DOMAIN instance : instance[k].lastUpdateFrom # c

(* cleanUpClients: the clients nothing has been created or last updated by.*)
IsStale(c) == \A k \in DOMAIN instance : c \notin {instance[k].createdFrom, instance[k].lastUpdateFrom}

CleanUpClients ==
    LET expired == {c \in DOMAIN client : client[c] = "closed" /\ IsStale(c)}
    IN  /\ expired # {}
        /\ client' = [c \in DOMAIN client \ expired |-> client[c]]
        /\ UNCHANGED <<authVars, state, nonce, instance, pubs>>

Next ==
    \/ \E c \in Conn : \/ HandleListenAccept(c) \/ HandleConnect(c)
                       \/ HandlePreloadClientFinished(c) \/ HandleClose(c)
    \/ Publish
    \/ CleanUpClients

Spec == Init /\ [][Next]_vars

-----------------------------------------------------------------------------
(* What a guest may be asked about: each address and name, with a response *)
(* made from each secret, or with none.                                    *)
Guests == {[endpoint |-> EndpointOf[c], client |-> NameOf[c]] : c \in Conn}
Answer(g, secret) ==
    [client |-> g.client, cnonce |-> 1,
     response |-> IF secret = Unset THEN Zeros ELSE Digest(1, 1, g.client, secret)]
AtAddress == {g \in Guests : g.endpoint.scheme \in {"tcp", "ws"}}

(* The guests LegacyAuthManager lets in from an address are those the rule *)
(* that counts for them accepts: the copy of the rules it keeps from the   *)
(* events of their container never says anything else than the container   *)
(* itself, whatever was published, changed and removed in which order.     *)
VerdictByPriority ==
    \A g \in AtAddress, s \in RuleSecrets \cup {Unset} :
        LET deciding == {i \in DOMAIN published : Decides(i, g.endpoint.address, 1, Answer(g, s))}
        IN  VerifyResponse(g.endpoint.address, 1, Answer(g, s)) =
                IF deciding = {} THEN default # "refuse"
                ELSE \A i \in deciding : Says(published[i], 1, Answer(g, s)) = "accept"

(* A guest that is not asked to authenticate is let in or refused as if it *)
(* had been: no secret it might know would have helped it.  Guests that a  *)
(* rule with a secret names are left out, because requiresAuthentication   *)
(* does not know the name yet.                                             *)
AskedWhenItHelps ==
    \A g \in AtAddress :
        \/ RequiresAuthentication(g.endpoint)
        \/ \E i \in DOMAIN rules : rules[i].client = g.client /\ rules[i].secret # Unset
        \/ \A s \in RuleSecrets :
               VerifyResponse(g.endpoint.address, 1, Answer(g, s)) =>
                   VerifyResponse(g.endpoint.address, 1, Answer(g, Unset))

(* While an instance names a guest as the one who created it or changed it *)
(* last, the daemon has a DotsClient that says who that is.                *)
ClientsKnown ==
    \A k \in DOMAIN instance : {instance[k].createdFrom, instance[k].lastUpdateFrom}
                                   \subseteq {HostId} \cup DOMAIN client
=============================================================================
