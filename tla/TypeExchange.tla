---------------------------- MODULE TypeExchange ----------------------------
(***************************************************************************)
(* How the descriptors of types reach the programs that need them: the     *)
(* registries of the host and of the guests, and the channels between      *)
(* them, which transmit a descriptor, after those it uses, before the      *)
(* first instance that needs it (Channel, DescriptorConverter, Registry,   *)
(* and the part of HostTransceiver that forwards and requests them).       *)
(*                                                                         *)
(* A descriptor is its name: two programs that know a name mean the same   *)
(* type by it.  The fundamental types, which every program knows, are left *)
(* out, and so are the handshake (module Connection) and the contents of   *)
(* instances (module Distribution).                                        *)
(***************************************************************************)
EXTENDS Integers, Sequences, FiniteSets, SequencesExt

CONSTANTS
    Guest,       \* guests
    Order,       \* every type, as a registry iterates them: by name
    Kind,        \* of each type: "struct", "enum" or "vector"
    Uses,        \* of each type: the types of its properties, in their
                 \* order, or the type of a vector's elements
    Cached,      \* the struct types that are cached
    SubstructOnly, \* the struct types that only occur in others
    Static,      \* of each program: the types compiled into it
    Policy,      \* of each program: its StaticTypePolicy
    Preload,     \* of each guest: the types it preloads to subscribe to
    MaxCalls,    \* bound: what the programs do of themselves
    MaxConnects  \* bound: connections opened

Host == "host"
Program == Guest \cup {Host}
Type == Range(Order)
Struct == {t \in Type : Kind[t] = "struct"}

(* The types a program can publish and subscribe to.                       *)
Publishable == Struct \ SubstructOnly

(* The groups of the descriptors themselves, besides those of the types:   *)
(* StructDescriptorData and EnumDescriptorData.                            *)
DescriptorGroup == {"struct", "enum"}

UsesOf(t) == Range(Uses[t])
Closed(s) == \A t \in s : UsesOf(t) \subseteq s

(* A descriptor is constructed from those of the types it uses.            *)
Acyclic == \E rank \in [Type -> 0..Cardinality(Type)] :
               \A t \in Type : \A u \in UsesOf(t) : rank[u] < rank[t]

ASSUME TypeExchangeAssumption ==
    /\ Host \notin Guest
    /\ DescriptorGroup \cap Type = {}
    /\ Order \in Seq(Type)
    /\ \A t \in Type :
           /\ Kind[t] \in {"struct", "enum", "vector"}
           /\ Uses[t] \in Seq(Type)
           /\ Kind[t] = "enum" => Uses[t] = <<>>
           /\ Kind[t] = "vector" => Len(Uses[t]) = 1 /\ Kind[Uses[t][1]] # "vector"
    /\ Acyclic
    /\ Cached \cup SubstructOnly \subseteq Struct
    /\ \A p \in Program : Static[p] \subseteq Type /\ Closed(Static[p])
    /\ \A p \in Program : Policy[p] \in {"InternalOnly", "All"}
    /\ \A g \in Guest : Preload[g] \in Seq(Publishable)
    /\ MaxCalls \in Nat
    /\ MaxConnects \in Nat

(* The ends of a connection: a guest's channel and the host's for it.      *)
End == Guest \X {"guest", "host"}
Peer(e) == IF e[2] = "guest" THEN <<e[1], "host">> ELSE <<e[1], "guest">>
ProgramAt(e) == IF e[2] = "guest" THEN e[1] ELSE Host

VARIABLES
    types,    \* the registry of each program
    names,    \* m_sharedTypeNames of each end
    shared,   \* m_sharedTypeDescriptors of each end
    wire,     \* what each end has transmitted and its peer not received
    open,     \* the guests that are connected
    group,    \* m_groups of the host
    joined,   \* m_joinedGroups of each guest
    filled,   \* the types of which the host's container has instances
    failed,   \* the ends whose channel met a type it does not know
    calls,
    connects

vars == <<types, names, shared, wire, open, group, joined, filled, failed,
          calls, connects>>

-----------------------------------------------------------------------------
(* Transmissions *)

Descriptor(t) == [kind |-> "descriptor", type |-> t]
Instance(t) == [kind |-> "instance", type |-> t]
Join(x) == [kind |-> "join", group |-> x]
Leave(x) == [kind |-> "leave", group |-> x]
Request(whiteList) == [kind |-> "request", whiteList |-> whiteList]
CacheInfo == [kind |-> "cacheInfo"]

(* A program asks for the descriptors of all types, or of one it names.    *)
WhiteLists == {{}} \cup {{t} : t \in Struct}

Message == {Descriptor(t) : t \in {u \in Type : Kind[u] # "vector"}}
               \cup {Instance(t) : t \in Struct}
               \cup {Join(x) : x \in Type \cup DescriptorGroup}
               \cup {Leave(x) : x \in Type \cup DescriptorGroup}
               \cup {Request(w) : w \in WhiteLists}
               \cup {CacheInfo}

TypeOK ==
    /\ types \in [Program -> SUBSET Type]
    /\ names \in [End -> SUBSET Type] /\ shared \in [End -> SUBSET Type]
    /\ wire \in [End -> Seq(Message)]
    /\ open \subseteq Guest
    /\ group \in [Type \cup DescriptorGroup -> SUBSET Guest]
    /\ joined \in [Guest -> SUBSET (Type \cup DescriptorGroup)]
    /\ filled \subseteq Cached
    /\ failed \subseteq End
    /\ calls \in Nat /\ connects \in Nat

-----------------------------------------------------------------------------
(* Registry *)

IsUserType(t) == \/ Kind[t] = "struct"
                 \/ Kind[t] = "vector" /\ Kind[Uses[t][1]] = "struct"

StaticTypes(p) ==
    CASE Policy[p] = "InternalOnly" -> {t \in Static[p] : ~IsUserType(t)}
      [] Policy[p] = "All"          -> Static[p]

(* Looking a type up by name, of any kind or of one of some kinds, and     *)
(* adding it to the map.                                                   *)
Finds(known, t, kinds) == t \in known /\ Kind[t] \in kinds
AnyKind == {"struct", "enum", "vector"}
Emplaced(known, t) == known \cup {t}

(* How registerType and exportDependencies go through types: each one that *)
(* has not been seen yet counts as seen before those it uses are visited,  *)
(* and is described, unless it is a vector, after them.                    *)
Tour == [seen : SUBSET Type, left : Seq(Type)]

Visited[c \in Tour] ==
    IF c.left = <<>> THEN [seen |-> c.seen, described |-> <<>>]
    ELSE LET t == Head(c.left) IN
         IF t \in c.seen THEN Visited[[seen |-> c.seen, left |-> Tail(c.left)]]
         ELSE LET used == Visited[[seen |-> Emplaced(c.seen, t), left |-> Uses[t]]]
                  rest == Visited[[seen |-> used.seen, left |-> Tail(c.left)]]
                  own  == IF Kind[t] = "vector" THEN <<>> ELSE <<t>>
              IN  [seen |-> rest.seen, described |-> used.described \o own \o rest.described]

Visit(seen, t) == Visited[[seen |-> seen, left |-> <<t>>]]

(* registerType: the type, then those it uses.                             *)
Registered(known, t) == Visit(known, t).seen

-----------------------------------------------------------------------------
(* Channel: export *)

(* A channel's state while it transmits: s.shared and what it has sent.    *)
At(e) == [shared |-> shared[e], sent |-> <<>>]
Send(s, m) == [s EXCEPT !.sent = Append(@, m)]

Descriptors(ts) == [i \in DOMAIN ts |-> Descriptor(ts[i])]

(* exportDependencies(descriptor): a type that has not been shared yet, the *)
(* types it uses first.                                                    *)
FaultExport(s, t) ==   \* the type before those it uses
    LET v == Visit(s.shared, t)
    IN  [shared |-> v.seen, sent |-> s.sent \o Descriptors(Reverse(v.described))]
Export(s, t) ==
    LET v == Visit(s.shared, t)
    IN  [shared |-> v.seen, sent |-> s.sent \o Descriptors(v.described)]

(* One type after the other.                                               *)
InTurn(s, ts, Transmits(_, _)) ==
    LET after[i \in 0..Len(ts)] == IF i = 0 THEN s ELSE Transmits(after[i - 1], ts[i])
    IN  after[Len(ts)]

(* transmit(header, instance), of an ordinary type and of an internal one. *)
TransmitInstance(s, t) == Send(Export(s, t), Instance(t))
TransmitInternal(s, m) == Send(s, m)

(* transmit(transmission), as the host forwards it: only what a descriptor *)
(* embeds is exported, not the type of an instance.                        *)
Forward(s, m) ==
    Send(IF m.kind = "descriptor" THEN Export(s, m.type) ELSE s, m)

(* A guest transmits; nothing of the host or of other guests changes.      *)
GuestTransmits(g, s) ==
    LET e == <<g, "guest">>
    IN  /\ shared' = [shared EXCEPT ![e] = s.shared]
        /\ wire' = [wire EXCEPT ![e] = @ \o s.sent]

-----------------------------------------------------------------------------
(* Channel: import *)

(* DescriptorConverter, of the properties of a struct: a vector type that  *)
(* is not known is registered if its element type is known; any other      *)
(* unknown type is an error, and leaves those registered before it.        *)
Converts(known, u) ==
    \/ Finds(known, u, AnyKind)
    \/ Kind[u] = "vector" /\ Finds(known, Uses[u][1], {"struct", "enum"})

ConvertProperties(known, t) ==
    LET missing == {i \in DOMAIN Uses[t] : ~Converts(known, Uses[t][i])}
        done    == IF missing = {} THEN Len(Uses[t]) ELSE Min(missing) - 1
    IN  [ok |-> missing = {}, known |-> known \cup {Uses[t][i] : i \in 1..done}]

Convert(known, t) ==
    LET c == [ok |-> TRUE, known |-> known]
        d == IF Kind[t] = "enum" THEN c ELSE ConvertProperties(known, t)
    IN  IF Finds(known, t, {Kind[t]}) THEN c
        ELSE IF d.ok THEN [d EXCEPT !.known = Registered(@, t)] ELSE d

(* importDependencies, and the lookup of an instance's type before it:     *)
(* c.ok is false when the channel fails.                                   *)
FaultImport(e, m) ==   \* an enum is not converted
    LET known == types[ProgramAt(e)]
    IN  IF m.kind = "descriptor" /\ Kind[m.type] = "struct" /\ m.type \notin names[e]
        THEN Convert(known, m.type)
        ELSE [ok |-> m.kind = "instance" => m.type \in known, known |-> known]
Import(e, m) ==
    LET known == types[ProgramAt(e)]
    IN  CASE m.kind = "descriptor" /\ m.type \notin names[e] ->
               Convert(known, m.type)
          [] m.kind = "instance" ->
               [ok |-> Finds(known, m.type, {"struct"}), known |-> known]
          [] OTHER -> [ok |-> TRUE, known |-> known]

(* The sets of the end after the import.                                   *)
NamesAfter(e, m) ==
    IF m.kind = "descriptor" THEN names[e] \cup {m.type} ELSE names[e]
SharedAfter(e, m) ==
    IF m.kind = "descriptor" /\ m.type \notin names[e]
    THEN shared[e] \cup {m.type} ELSE shared[e]

-----------------------------------------------------------------------------
(* What a guest does *)

Init ==
    /\ types = [p \in Program |-> StaticTypes(p)]
    /\ names = [e \in End |-> {}]
    /\ shared = [e \in End |-> {}]
    /\ wire = [e \in End |-> <<>>]
    /\ open = {}
    /\ group = [x \in Type \cup DescriptorGroup |-> {}]
    /\ joined = [g \in Guest |-> {}]
    /\ filled = {}
    /\ failed = {}
    /\ calls = 0
    /\ connects = 0

Call == calls < MaxCalls /\ calls' = calls + 1

(* At early_subscribe: the types to be preloaded, and to join their groups, *)
(* unless they have been joined in an earlier connection.                  *)
Preloading(g) ==
    LET preloaded(s, t) ==
            IF t \in joined[g] THEN Export(s, t)
            ELSE TransmitInternal(Export(s, t), Join(t))
    IN  InTurn([shared |-> {}, sent |-> <<>>], Preload[g], preloaded)

(* open, up to early_subscribe, with new channels.  The program provides   *)
(* the descriptors it preloads.                                            *)
Connect(g) ==
    LET s == Preloading(g)
    IN  /\ g \notin open
        /\ connects < MaxConnects
        /\ Range(Preload[g]) \subseteq types[g]
        /\ open' = open \cup {g}
        /\ shared' = [shared EXCEPT ![<<g, "guest">>] = s.shared,
                                    ![<<g, "host">>] = {}]
        /\ names' = [names EXCEPT ![<<g, "guest">>] = {}, ![<<g, "host">>] = {}]
        /\ wire' = [wire EXCEPT ![<<g, "guest">>] = s.sent,
                                ![<<g, "host">>] = <<>>]
        /\ joined' = [joined EXCEPT ![g] = @ \cup Range(Preload[g])]
        /\ connects' = connects + 1
        /\ UNCHANGED <<types, group, filled, failed, calls>>

(* publish of an instance of a type the program knows.                     *)
Publish(g, t) ==
    /\ Call
    /\ g \in open
    /\ t \in types[g] \cap Publishable
    /\ GuestTransmits(g, TransmitInstance(At(<<g, "guest">>), t))
    /\ UNCHANGED <<types, names, open, group, joined, filled, failed, connects>>

(* subscribe joins the group of a type the registry knows, or of the       *)
(* descriptors, once.                                                      *)
Subscribe(g, x) ==
    /\ Call
    /\ g \in open
    /\ x \in (types[g] \cap Publishable) \cup DescriptorGroup
    /\ x \notin joined[g]
    /\ GuestTransmits(g, TransmitInternal(At(<<g, "guest">>), Join(x)))
    /\ joined' = [joined EXCEPT ![g] = @ \cup {x}]
    /\ UNCHANGED <<types, names, open, group, filled, failed, connects>>

LeaveGroup(g, x) ==
    /\ Call
    /\ g \in open
    /\ x \in joined[g]
    /\ GuestTransmits(g, TransmitInternal(At(<<g, "guest">>), Leave(x)))
    /\ joined' = [joined EXCEPT ![g] = @ \ {x}]
    /\ UNCHANGED <<types, names, open, group, filled, failed, connects>>

RequestDescriptors(g, whiteList) ==
    /\ Call
    /\ g \in open
    /\ GuestTransmits(g, TransmitInternal(At(<<g, "guest">>), Request(whiteList)))
    /\ UNCHANGED <<types, names, open, group, joined, filled, failed, connects>>

(* A program registers a type it has built itself.                         *)
Register(p, t) ==
    /\ Call
    /\ t \in Static[p] \ types[p]
    /\ types' = [types EXCEPT ![p] = Registered(@, t)]
    /\ UNCHANGED <<names, shared, wire, open, group, joined, filled, failed,
                   connects>>

(* A connection ends: what is under way is lost, the host forgets its      *)
(* memberships and the guest does not.                                     *)
Closes(g) ==
    /\ open' = open \ {g}
    /\ wire' = [wire EXCEPT ![<<g, "guest">>] = <<>>, ![<<g, "host">>] = <<>>]
    /\ group' = [x \in DOMAIN group |-> group[x] \ {g}]

Disconnect(g) ==
    /\ Call
    /\ g \in open
    /\ Closes(g)
    /\ UNCHANGED <<types, names, shared, joined, filled, failed, connects>>

(* A guest receives: its program only dispatches.                          *)
GuestReceive(g) ==
    LET e == <<g, "guest">>
        m == Head(wire[Peer(e)])
        c == Import(e, m)
    IN  /\ g \in open
        /\ wire[Peer(e)] # <<>>
        /\ types' = [types EXCEPT ![g] = c.known]
        /\ names' = [names EXCEPT ![e] = NamesAfter(e, m)]
        /\ IF c.ok
           THEN /\ shared' = [shared EXCEPT ![e] = SharedAfter(e, m)]
                /\ wire' = [wire EXCEPT ![Peer(e)] = Tail(@)]
                /\ UNCHANGED <<open, group, failed>>
           ELSE /\ failed' = failed \cup {e}
                /\ Closes(g)
                /\ UNCHANGED shared
        /\ UNCHANGED <<joined, filled, calls, connects>>

-----------------------------------------------------------------------------
(* What the host does *)

(* handleMemberMessage, of a join: the container, with its type, and the   *)
(* end of it, if the host knows the type and it is cached.                 *)
AnswerJoin(s, x) ==
    IF x \in Cached /\ Finds(types[Host], x, {"struct"})
    THEN TransmitInternal(IF x \in filled THEN TransmitInstance(s, x) ELSE s,
                          CacheInfo)
    ELSE s

(* handleDescriptorRequest: every struct type of the registry that is      *)
(* wanted, in the order of their names.                                    *)
FaultAnswerRequest(s, whiteList) ==   \* an empty list selects nothing
    LET answered(r, t) == IF t \in types[Host] \cap Struct \cap whiteList THEN Export(r, t) ELSE r
    IN  TransmitInternal(InTurn(s, Order, answered), CacheInfo)
AnswerRequest(s, whiteList) ==
    LET answered(r, t) == IF /\ Finds(types[Host], t, {"struct"})
                             /\ whiteList # {} => t \in whiteList
                          THEN Export(r, t) ELSE r
    IN  TransmitInternal(InTurn(s, Order, answered), CacheInfo)

(* transmit to the members of a group.  sh and w are the shared types and  *)
(* the wires before.                                                       *)
TransmitGroup(sh, w, x, m) ==
    LET sent(e) == Forward([shared |-> sh[e], sent |-> <<>>], m)
        reached == {<<g, "host">> : g \in group[x] \cap open}
    IN  /\ shared' = [e \in End |-> IF e \in reached THEN sent(e).shared ELSE sh[e]]
        /\ wire' = [e \in End |-> IF e \in reached THEN w[e] \o sent(e).sent ELSE w[e]]

(* The embedded types are looked up in the registry, which the import has  *)
(* just extended, so that Forward finds them.                              *)
HostHandles(g, m, sh, w) ==
    LET e == <<g, "host">>
        s == [shared |-> sh[e], sent |-> <<>>]
        answer(r) == /\ shared' = [sh EXCEPT ![e] = r.shared]
                     /\ wire' = [w EXCEPT ![e] = @ \o r.sent]
    IN  \/ /\ m.kind = "join"
           /\ answer(AnswerJoin(s, m.group))
           /\ group' = [group EXCEPT ![m.group] = @ \cup {g}]
           /\ UNCHANGED filled
        \/ /\ m.kind = "leave"
           /\ answer(s)
           /\ group' = [group EXCEPT ![m.group] = @ \ {g}]
           /\ UNCHANGED filled
        \/ /\ m.kind = "request"
           /\ answer(AnswerRequest(s, m.whiteList))
           /\ UNCHANGED <<group, filled>>
        \/ /\ m.kind = "descriptor"
           /\ TransmitGroup(sh, w, Kind[m.type], m)
           /\ UNCHANGED <<group, filled>>
        \/ /\ m.kind = "instance"
           /\ TransmitGroup(sh, w, m.type, m)
           /\ filled' = filled \cup ({m.type} \cap Cached)
           /\ UNCHANGED group

HostReceive(g) ==
    LET e == <<g, "host">>
        m == Head(wire[Peer(e)])
        c == Import(e, m)
    IN  /\ g \in open
        /\ wire[Peer(e)] # <<>>
        /\ types' = [types EXCEPT ![Host] = c.known]
        /\ names' = [names EXCEPT ![e] = NamesAfter(e, m)]
        /\ IF c.ok
           THEN /\ HostHandles(g, m, [shared EXCEPT ![e] = SharedAfter(e, m)],
                               [wire EXCEPT ![Peer(e)] = Tail(@)])
                /\ UNCHANGED <<open, failed>>
           ELSE /\ failed' = failed \cup {e}
                /\ Closes(g)
                /\ UNCHANGED <<shared, filled>>
        /\ UNCHANGED <<joined, calls, connects>>

HostPublish(t) ==
    /\ Call
    /\ t \in types[Host] \cap Publishable
    /\ TransmitGroup(shared, wire, t, Instance(t))
    /\ filled' = filled \cup ({t} \cap Cached)
    /\ UNCHANGED <<types, names, open, group, joined, failed, connects>>

Next ==
    \/ \E g \in Guest :
          \/ Connect(g)
          \/ Disconnect(g)
          \/ GuestReceive(g)
          \/ HostReceive(g)
          \/ \E t \in Type : Publish(g, t)
          \/ \E x \in Type \cup DescriptorGroup : Subscribe(g, x) \/ LeaveGroup(g, x)
          \/ \E w \in WhiteLists : RequestDescriptors(g, w)
    \/ \E p \in Program, t \in Type : Register(p, t)
    \/ \E t \in Type : HostPublish(t)

(* What has been transmitted is received, from whichever end the network    *)
(* delivers next; nothing else need happen.                                *)
Spec == Init /\ [][Next]_vars
FairSpec == Spec /\ WF_vars(\E g \in Guest : GuestReceive(g) \/ HostReceive(g))

-----------------------------------------------------------------------------
(* Properties *)

(* No channel ever meets an instance or a property of a type it does not   *)
(* know (deserializeTransmission and DescriptorConverter would throw and   *)
(* so end the connection), whoever announces, requests, joins or leaves in *)
(* which order, and whatever the programs have compiled in.                *)
NoMissingType == failed = {}

(* What an end counts as shared its peer knows, or will know before it     *)
(* receives anything that is transmitted from now on: marking a type       *)
(* before its export, as exportDependencies does, must never let a type    *)
(* pass for shared that the peer does not get.  And every registry is      *)
(* closed: it has the types that its types use.                            *)
SharedIsKnown ==
    /\ \A g \in open, side \in {"guest", "host"} :
          LET e == <<g, side>>
          IN  \A t \in {u \in shared[e] : Kind[u] # "vector"} :
                  \/ t \in types[ProgramAt(Peer(e))]
                  \/ Descriptor(t) \in Range(wire[e])
    /\ \A p \in Program : Closed(types[p])

(* A program that has requested descriptors gets to know every type it     *)
(* wants of those the host knows, and one that has joined the group of the *)
(* descriptors gets to know every type that another guest announces,       *)
(* unless a connection ends or it leaves the group.                        *)
Asked(g, t) == \E m \in Range(wire[<<g, "guest">>]) :
                  m.kind = "request" /\ (m.whiteList = {} \/ t \in m.whiteList)
Discovers ==
    /\ \A g \in Guest, t \in Publishable :
          Asked(g, t) /\ t \in types[Host] ~> t \in types[g] \/ g \notin open
    /\ \A g \in Guest, t \in Publishable : \A a \in Guest \ {g} :
          Descriptor(t) \in Range(wire[<<a, "guest">>]) /\ g \in group["struct"]
              ~> t \in types[g] \/ a \notin open \/ g \notin group["struct"]
=============================================================================
