# Verification of dots-cpp

TLA+ modules that model the core of dots-cpp, the C++ implementation of DOTS: a
publish/subscribe system in which one host (usually the daemon `dotsd`) keeps
the current instances of typed, keyed records and distributes every change to
the guests that have joined the group of the type. The modules are checked
with TLC on small instances; theorems about eight of them are proved with
TLAPS for every instance.

All paths below are relative to the repository. `Connection.cpp:203` means
line 203 of `lib/src/Connection.cpp`.

## 1. Inventory

The program is single-threaded: every object lives in one asio event loop, and
all concurrency comes from the order in which the loop's handlers run, from
user code called in the middle of library code, and from the peers.

| Component | State | Operations | What makes it correct |
|---|---|---|---|
| **Connection** (`Connection.cpp`) | state suspended → connecting → early_subscribe → connected → closed, the one system message expected next, own and peer's id, nonce, secret | open/accept, a handler per handshake message, transmit, error, close, destroy | both ends agree on who is connected; nobody gets in unauthenticated; the guest starts with filled containers; nothing hangs half-open |
| **Dispatcher, Subscription** (`Dispatcher.cpp`, `Subscription.cpp`) | two ordered maps of handlers per type, the id being invoked, ids to be removed later | subscribe (with a replay of the container), unsubscribe, discard, dispatch | a loop over a map survives what handlers do to it; every handler that must be invoked is, and no other |
| **HostTransceiver** (`HostTransceiver.cpp`) | groups (raw pointers to connections), guest connections, container pool | publish, handle a transmission, join, leave, clear cache, descriptor and echo requests, cleanup of a closed connection | every member goes through the host's versions in order; instances of cleanup types do not outlive their connection |
| **GuestTransceiver** (`GuestTransceiver.cpp`) | host connection, joined groups, types to preload, container pool | open, publish, join, handle a transmission, lose the connection | its containers become what the host's are |
| **Container, ContainerPool** (`Container.cpp`) | instances by key with who created and who last updated them | insert (merging the included properties), remove | a container after a transmission is the merge the header asks for |
| **AsyncStreamChannel** (`AsyncStreamChannel.h`) | read buffer, `m_readDispatching`, output and write buffer, `m_asyncWriting`; kept alive by its connection and by a write | receive, transmit, completion of reads and writes, errors | one read at a time and no lost wake-up; everything is written once, in order, before the channel dies |
| **Channel: exchange of types** (`Channel.cpp:167-239`, `DescriptorConverter.cpp`) | names and descriptors already shared with the peer | import on receive, export before transmit | a type's descriptors reach the peer before its first instance, dependencies first |
| **Registry** (`Registry.cpp`) | descriptors by name | register, find, iterate | one descriptor per name, closed under dependency |
| **LegacyAuthManager, IpNetwork** | rules ordered by priority, default policy | add, update, remove rules; is authentication required; verify | the first matching rule decides |
| **Structs, property sets** (`type/`) | values and validity bits | copy, merge, swap, compare, clear under a property set | agree with their definition on sets of properties |
| **Serialization** (`serialization/`) | input, output | CBOR (two formats), JSON and string text, RapidJSON | what is read is what was written, and ends where the next value begins |
| **Listeners, LocalListener** (`Listener.cpp`, `io/channels/*Listener.cpp`) | the accept under way, the payload cache of TCP and UDS listeners | accept, report errors, be dropped by the host | the host never goes deaf; channels write what they are given, whoever shares the cache |
| **LocalChannel** (`LocalChannel.cpp`) | a weak pointer to the peer | link, transmit by a task of the event loop | in order, nothing lost while the receiver lives |
| **Timer, FdObserver** (`Timer.cpp`, `FdObserver.cpp`) | shared data kept alive by the object and by the pending wait | start, expire, destroy, assign, discard | no call after destruction, unless discarded; a periodic one stays armed |
| **dotsd** (`bin/dotsd`) | a `DotsClient` per connection | transitions, periodic removal of stale clients | a client is listed while anything refers to it |
| Application, URIs, logging, code generator | | | |

How they interact: a *listener* gives the host a *channel*, which it wraps in a
*connection*; a guest opens a channel itself. A channel calls the connection's
receive handler for each transmission; the connection handles system messages
itself and passes everything else to its *transceiver*, which passes it to the
*dispatcher*. The dispatcher updates the container and calls handlers, and the
host then transmits to the group. A connection that closes calls back the
transceiver, which drops it and with it the channel — often from below code of
that channel or that connection which is still running.

What is hard here, and where: re-entrancy (handlers that subscribe,
unsubscribe, publish or close while the library loops over its own tables);
lifetime (objects destroyed by callbacks of their own); order (snapshots and
live updates, handlers and forwarding); reconnection (ends of old connections
noticed late); the handshake under failure. `PROJECT.json` lists these hazards
one by one, with the line and the property that covers each.

## 2. Modules

| Module | Models | Extended or used by |
|---|---|---|
| `Connection` | both ends of any number of connections and the transport between them | `MCConnection`, `ConnectionProofs` |
| `Dispatcher` | a dispatcher with its handlers, loops and container | `MCDispatcher`, `DispatcherProofs` |
| `ReplicatedContainer` | abstract: a log of versions and readers that follow it | `Distribution` |
| `Distribution` | the host, its container and group, guests, connections that come and go | `MCDistribution`, `DistributionProofs` |
| `HostTransmission` | the calls nested within one event of the host, with connections that fail meanwhile | `MCHostTransmission`, `HostTransmissionProofs` |
| `TypeExchange` | registries, and the channels that bring descriptors from one to the other | `MCTypeExchange`, `TypeExchangeProofs` |
| `AsyncStreamChannel` | one channel: reading, writing and lifetime | `MCAsyncStreamChannel`, `AsyncStreamChannelProofs` |
| `TypeVisitor` | the traversal of a value that all serializers share | `Cbor`, `Text`, `RapidJson` |
| `Cbor`, `Text`, `RapidJson` | the writers, readers and serializers of each format | `Serialization` |
| `Serialization` | a serializer and a deserializer at work on a sequence of values | `MCSerialization` |
| `Struct` | instances with their storage, and every operation on them in two implementations | `MCStruct` |
| `AuthManager` | the rules of `LegacyAuthManager` | `Daemon`, `DaemonProofs` |
| `Daemon` | dotsd: the handshake's questions to the manager, `DotsClient` instances, their removal | `MCDaemon`, `DaemonProofs` |
| `Timer` | timers and observers that own waits of the event loop | `MCTimer`, `EventLoopProofs` |
| `Listener` | the listeners of a host, and the payload cache their channels share | `MCListener`, `EventLoopProofs` |
| `LocalChannel` | pairs of channels within a program | `EventLoopProofs` |

`FaultX` definitions are seeded faults: a definition of the module with a
plausible bug put in, each of which makes one property fail. They are not part
of any specification.

### Connection

State: for each connection the two `m_connectionState`, the expected system
message, the ids, the guest's secret, and two FIFO queues of transmissions; for
each guest transceiver how many of its preload types are in `m_joinedGroups`. An
action receives one transmission and runs the whole of `handleReceive` with the
handler it selects (`HandleHello`, `HandleConnect`,
`HandleAuthorizationRequest`, `HandlePreloadClientFinished`,
`HandlePreloadFinished`, peer errors, user transmissions), with the answers it
transmits and, where it throws, with `handleError`. `Accept` and `Open` are the
constructors with `asyncReceive`; `HostDestroy` and `GuestDestroy` are the
destructor. `Break` is a transport failure: any suffix of what is in flight is
lost. The digest is reduced to a right, a wrong or no response; the rules of
the authentication manager to the set `Protected` of connections that must
authenticate. A user transmission stands for any type.

`owner` says which transceiver a guest's end belongs to. A transceiver has one
open connection (`HostConnection`); once that is closed it may open another,
and what it has joined before is skipped (`Missing`). `PreloadFails` is the
preload during which a transmission throws: `handleTransitionImpl` then destroys
the connection from within the connection's own handler
(`GuestTransceiver.cpp:158-162`), some groups remain marked as joined, and the
handler that goes on may or may not still send its last message. `GuestPublish`
is possible as soon as there is a connection, as in the code, which does not ask
for its state.

The connections are those over stream sockets, where the end of the peer is read
as an error or an end of the stream. Pairs of local channels have no such read
(`LocalChannel.cpp:34-43`); they are the subject of `LocalChannel`, and the
liveness properties of `Connection` are not claimed for them. Also left out are
joining and leaving by the user (`Distribution`), and publishing or opening from
within the user's handler of a transition, which is called before
`handleTransitionImpl`.

### Dispatcher

The call stack of loops is explicit: a frame per `dispatchToHandlers` loop and
per replay of a container in `addEventHandler`. Whenever a handler runs
(`UserCode`), any subscribe, unsubscribe or discard may happen and, up to
`MaxDepth`, another dispatch. Handlers are walked in the maps' order, newest
first. Containers are reduced to the keys present; `view` records what a
handler has been told. `MaxDepth = 1` is a guest, whose `publish` only
transmits; `MaxDepth = 2` is a host, whose `publish` dispatches synchronously
(`HostTransceiver.cpp:40-75`). `Dispatcher::clear`, which runs only while a
transceiver is destroyed, is left out.

### Distribution

One cached type. Instances are functions from properties to values or
`Unset`; a transmission carries the instance, the included properties, the
remove flag and the sender. `Apply` is the whole container update
(`Container.cpp:138-265`), `HostReceive` the whole `handleTransmission` with
dispatching, forwarding to the group and clearing of the cache,
`HandleMemberJoin` the answer to a join (a transmission per instance, then
`DotsCacheInfo`), `HostClosed` the end of a connection with its cleanup.
Connections are named by the id the host gave them; a guest may open the next
one before the host has noticed the end of the last. `HostUse` says what the
host's own program does: publish whole instances, publish with an explicit set
of included properties, publish from within a handler. The history variable
`exact` is true as long as only whole instances have been published by the
host and none from its handlers: only then do guests hold what the host holds
(see section 5), and `ViewIsVersion` and `Converges` say so.

`ReplicatedContainer` is the promise: a log of versions of the container, and
readers that, once synchronised, advance one version at a time. The refinement
mapping takes `pos[g]`, the version a guest is at, from the number of
transmissions still under way to it; `log` is a history variable of
`Distribution` that no guard reads.

### HostTransmission

What `Distribution` takes as one step — a publication with its dispatching,
forwarding and the closing of connections — is taken apart here, because
callers keep pointers and copies across callees that close connections and
publish. `stack` holds a frame per call under way: a publication (transmission
handlers, container, event handlers, then the loops of `transmit`), the closing
of a connection (transition handlers, then the cleanup), or the clearing of a
container. What a frame has collected (the dirty connections of `transmit`, the
keys of the cleanup) is part of the frame. `failing` connections are those whose
channel throws on transmit: from any point of an event on, until the write
buffer is flushed between events. A connection that fails is destroyed when its
transition is handled, unless it is the one `handleTransmission` holds
(`HostTransceiver.cpp:144`). `misused` records each use of a connection after
that.

### TypeExchange

A host and guests, each with a registry (`types`), and for each end of a
channel `m_sharedTypeNames` and `m_sharedTypeDescriptors`. `registerType` and
`exportDependencies` recur in the same way: a type that is not in a set is put
there, then the types it uses are visited, then the type is done with.
`Visited`, a recursive function on the set and the types left to visit, is that
recursion for both; `Registered` takes the set it ends with, `Export` also the
types done with, in order, which are transmitted as descriptors. `InTurn`
applies an operation to one type of a sequence after the other, as the host
does to answer a request and a guest to preload. `Import` is `importDependencies`
with `DescriptorConverter`, and the order of these in each kind of transmission
is the code's: an instance that is forwarded does not export its type, a descriptor
that is forwarded exports what it embeds. Guests connect, publish, subscribe to
types and to descriptors, request descriptors, register types of their own and
lose their connections; what a guest has joined survives (a difference
`distribution_reconnect` is about).

### AsyncStreamChannel

`control` says where the reading code is: at the beginning of
`asyncReceiveImpl`, processing a part of a transmission, in the receive
handler, returning, or waiting in the event loop. A transmission is read in
`Stages` parts: two in format v2 (size, rest), three in v1. `frames` counts
calls of `asyncRead` that have dispatched a handler from the read buffer and
will look at `m_readDispatching` after it. `owned` says whether the connection
still holds the channel, `pending` whether a write does; `Alive` is their
disjunction, the reference count. Transmissions are numbered, so that
`output`, `writeBuffer` and `wire` show order and completeness. When the
connection is gone a host's receive handler returns
`!connection.closed()` of a destroyed object: both answers are possible in the
model. Payload bytes are left out; the payload cache is the choice `cached`,
which skips the check of the buffer's size as the code does.

### Serialization and its formats

A type is a record, an instance a function from the tags of its valid
properties to values, an integer a sign and a magnitude in bytes (so that every
width up to 64 bits is exact, which TLC's integers are not). `Visit` turns a
value into the sequence of calls a visitor derived from `TypeVisitor` gets, and
each writer is a fold over that sequence. A reader is driven by its input: a
record with the position, the last value and whether anything has been thrown,
passed along the recursion that the code's visitor makes. CBOR is modelled byte
by byte (`WriteHead`, `ReadHead`, `Skip`, the IEEE 754 formats as bytes); text
token by token, with every delimiter, blank, escape and separator but with
names and numbers as one token; RapidJSON as the document tree its library
parses, which the reader walks. `Serialization` holds the two ends: `Serialize`
appends to the output, `Deserialize` reads at the position where the last value
ended. The inputs are the cases of `MCSerialization`, all of which are what a
serializer of the library has written.

### Struct

A property area is the set of valid tags and the storage of each property.
Storage knows whether something is constructed in it; constructing over a
constructed value leaks, and assigning to or destroying an unconstructed one is
corruption, unless the type needs no dynamic memory. Each operation is written
twice, once as `StructDescriptor` does it with the descriptors known at run time
and once as `StaticStruct` does it in the compiled type, and an action applies
one of them. A sub-struct without dynamic memory is not destructed with its
parent and keeps its valid set in storage that is used again
(`StructDescriptor.cpp:138-145`).

### AuthManager and Daemon

`FindMatchingRules` is the set of positions in `m_rules` whose rules apply; the
code tries them in the order of their positions, so the first that says
something is the least such position. `AuthManager` keeps `m_rules` as the code
does, from events: a rule is inserted
behind those of its priority, an update is copied into its
place, a removal may reset the default policy. `published` is the container the
events come from. `Daemon` composes it with the two moments at which the
handshake asks: whether the guest must authenticate, when it is accepted, and
whether its response is right, later and possibly under other rules. The other
containers are reduced to the clone information of their instances, which
decides when a `DotsClient` may be removed.

### Timer

`Timer` and `FdObserver` share one design: the object and the completion of its
wait share data by a `shared_ptr`, and the completion calls the handler only if
it is not the last owner or the object was discarded. `Construct`, `Move`,
`Destroy` and `Discard` may happen at any time, also while a handler is being
called.

### Listener and LocalChannel

`Listener` follows one `async_accept` per listener from `Listen` to its
completion, which creates a channel and a connection (`ProcessAccept`), drops the
listener (`AcceptFails`, `SetUpFails`, both through `handleListenError`) or comes
after the host has destroyed the listener (`Aborted`, `Orphaned`). `Transmit` is
`serializeTransmission`, with the cache of the listener that accepted the
channel; transmissions are numbered, and a payload is the number of its
transmission. After something destroyed has been used (`misused`) no step is
taken.

In `LocalChannel` a transmission and the accepting of a channel are tasks of the
event loop, in the order in which they were posted to each end; the two ends of a
pair may be destroyed at any time. An error message, which is transmitted just
before a connection closes, is a `Transmit` followed by `Destroy`; without a peer
it is dropped and the channel destroyed, as after any other failure
(`TransmitFails`). The host and its listener are taken to outlive the tasks that
accept.

## 3. Runs

"Passes" means that TLC has explored every state of the instance.

| Run | Instance | Shows |
|---|---|---|
| `connection` | 2 connections, 1 protected, of one transceiver that re-opens or of two, every kind of secret, 1 preloaded type, 1 user transmission in flight per direction, 1 transport that breaks | `ConnectedAgreement`, `RejectedNeverConnected` (though the guest ignores `accepted`), `IdAgreement`, `PreloadComplete` (the content of all that was asked for is there, and only an earlier connection of the same transceiver can be the reason not to ask), `NoUnexpectedMessage` (no interleaving makes an end reject a message of a correct peer, unless that peer published before it answered the hello), `StateMovesForward`, `HandshakeEnds`, `NoHalfOpen` |
| `dispatcher` | guest; 2 types, one cached, 2 keys, 3 handlers | `IteratorValid` (no loop stands on an erased node), `CancelledIsGone`, `CancelledNotInvoked`, `ReachesAll` (exactly the handlers present throughout are invoked, newer ones not twice), `ViewIsContainer` (replay and live events tell a handler what the container holds) |
| `distribution` | 2 guests, 2 connections, 2 publications, all of `HostUse` | `ViewIsVersion`, `CleanupComplete`, `Converges`, `Refines` |
| `distribution_reconnect` | 1 guest, 2 connections | **violated** `SubscriberFilled`: `m_joinedGroups` survives, the guest does not join again |
| `host_transmission` | 3 connections, 2 keys, 1 failing at a time, at any point of an event, 4 publications, handlers that publish on events and on closed connections | `ConnectionsAlive` (no connection is used after it is destroyed), `CleanedUp` (no instance of a closed connection is left once the event is handled) |
| `type_exchange` | a host without types, 2 guests, 4 types of which each uses the last, 3 calls, 3 connections | `NoMissingType`, `SharedIsKnown`, `Discovers` |
| `serialization` | every format, style and policy at the boundaries of its widths; nested values, unknown, excluded and existing properties | `RoundTrip`, `StaysInSync` |
| `serialization_skip` | an unknown string of 23 and of 24 characters in CBOR | **violated** `RoundTrip`: `CborReader::skip` consumes the size's value twice |
| `channel` | 2 parts, 3 transmissions in, 4 out, limit 1 | `OneRead`, `NoStall`, `WriteOrder`, `Flushed`, `Written` |
| `channel_destroyed` | as above, smaller | **violated** `NoUseAfterDestruction`: `asyncRead` reads `m_readDispatching` of a channel its handler has destroyed |
| `struct` | a type with a string, a sub-struct with one and a sub-struct without dynamic memory, 2 instances, 2 values | `MemorySound`, `StaticAgrees`, `OperationsMean`, `OrderIsTotal`, `DiffSuffices` |
| `daemon` | 2 guests (one with a name and secret, one local), 4 rules, 3 publications | `VerdictByPriority`, `AskedWhenItHelps`, `ClientsKnown` |

The violated properties say what a comment, document or test of the repository
says; the findings in `PROJECT.json` quote it.

Configurations beside these, for running by hand: `MCTimer.cfg` (2 objects, 3
waits; `NeverIdle`, `NotCalledAfterwards`, `KeepsCalling` hold, the first two
are also proved), `MCDistributionThree.cfg` (a third connection, so that a guest
reconnects while another watches and its old end is still open at the host; all
hold), `MCDistributionCreator.cfg`, `MCDispatcherHandlerIterator.cfg` and
`MCHostTransmissionDirty.cfg` (all violated, see section 5; with
`MaxFailing = 2` in `MCHostTransmission.cfg`, `CleanedUp` still holds, and
`OnlyTheDirtyLoop` in place of `ConnectionsAlive`; both are also proved), `MCListener.cfg` (`NeverDeaf` and
`PayloadsAreRight` hold; both are also proved) and `MCListenerDropped.cfg`
(`CacheOutlivesChannels` is violated), and of `LocalChannel` itself `MCLocalChannel.cfg`
(`Delivered` holds, also proved) and `MCLocalChannelGone.cfg`
(`AcceptsTheLiving` is violated).

### Bounds, and why they are enough

Two connections are the least with which ids, a protected and an open endpoint
can interfere, or a guest can re-open: connections share the id counter and, when
they are of one transceiver, the groups it has joined; the theorems of section 4
cover any number. A transport that breaks is a matter of one connection, so one
(`MaxBroken`) is enough. Three handlers allow one to be running, one
older and one newer than it, which are the three relations an iterator
distinguishes. Two connections for two guests allow one guest to reconnect
while its old end is still open at the host, or one guest to go while the other
watches; two publications allow a create and an update, or a create by each
guest, and joins, cleanup and clearing come on top. One key is enough for
`Distribution`, since keys do not interact in a container; the dispatcher,
whose replay walks the keys, has two, and so has `HostTransmission`, whose
cleanup walks them. Three connections there are a sender, one that fails and
one that goes on. Three transmissions in the channel's read buffer are needed
to have a dispatched handler followed by another one; four outgoing ones fill
the write buffer, the output and exceed the limit. The types of
`type_exchange` are an enum, a struct that uses it, a vector of that and a
struct that uses the vector: each case of the converter, and chains longer than
one. The integers of `serialization` are those at which the encoding of some
width changes, for every width and sign; the characters of its strings are
those that some format escapes or stops at. Its tags go to 30, vectors to 24
elements and strings to 256 characters, the sizes at which heads grow. Rules of
`daemon` cover no, a shorter and a full prefix, and another version of
addresses; three publications put rules and change one.

`CHECK_DEADLOCK FALSE` is set where a bounded number of publications,
connections, transmissions or cases may be used up. `connection` and
`dispatcher` check deadlock; `Connection` has a `Done` step for the state in
which every connection is closed.

### Fairness

* `Connection`: weak fairness of accepting, receiving and noticing the end of
  the stream. Each is a completion of an asynchronous operation that is always
  under way and stays possible until it happens; asio runs completed handlers
  in turn. That the end of the stream is noticed is a property of sockets, whose
  pending read completes with an error; an end of a local channel would not
  notice, which is why `HandshakeEnds` and `NoHalfOpen` are about sockets only.
  Nothing forces anybody to open, publish, close or break.
* `Distribution`: the same for both receivers, and for noticing the end of a
  connection the other side has given up.
* `TypeExchange`: weak fairness of receiving somewhere: what is on a wire of an
  open connection arrives. The number of calls is bounded, so that no wire
  starves another for ever.
* `AsyncStreamChannel`: code that runs goes on (`Loop`); a read completes when
  there is something to read. The write has strong fairness: its completion is
  possible only when the reading code has returned to the loop, which it does
  again and again. This assumes a peer that reads; against one that does not,
  nothing in the code helps but the limit of the write buffer.
* `Timer`: time passes, handlers return, and the loop runs what is queued
  (strong fairness, because another handler may be running).

## 4. Proofs

Eleven modules are proved about, in eight modules of proofs, to the last leaf.
Most constants are only assumed to have their types (`ConnectionAssumption`,
`DispatcherAssumption`, `DistributionAssumption`, `HostTransmissionAssumption`,
`AsyncStreamChannelAssumption`, `RuleKeysAssumption`; `MaxData \in Nat` for
timers); listeners and local channels need no assumption. Two modules assume
more, which the code justifies:

* `TypeExchangeAssumption`: a type uses types; an enum uses none of those
  modelled, and a vector one, which is no vector (a property of the model files
  is a vector or not, and `DescriptorConverter.cpp:75-98` refuses other vectors);
  no type uses itself, however indirectly (`Acyclic`: a descriptor is constructed
  from the descriptors of its properties); and what is compiled into a program
  includes what it uses.
* `DaemonAssumption`: addresses of one version have one number of bits, also as
  the networks of rules (IPv4 and IPv6 addresses).

Where a theorem has a hypothesis beyond that, it is named below and a run
satisfies it.

**ConnectionProofs** — for every set of connections and of transceivers they
belong to, protected endpoints, secrets and number of preloaded types: `TypeCorrect`, `Agreement`
(`ConnectedAgreement`), `Rejection` (`RejectedNeverConnected`), `Identity`
(`IdAgreement`), `Forward` (`StateMovesForward`). None of these invariants is
inductive, because they speak of the two ends while the ends only communicate
through messages. `IInv` adds, for each connection, what every message *in
flight* says about its sender: a `preloadFinished` is under way only when the
host is or was connected; a right response only from a guest with the right
secret; a `connectResponse` carries the id the host has recorded; ids in use
are below the counter. Queues are treated as sets of messages (`InFlight`),
with lemmas for sending, receiving and losing a suffix. There is one lemma per
action.

`Preloaded` (`PreloadComplete`) and `Expected` (`NoUnexpectedMessage`) need the
*order* of the queues as well, and how many messages of a kind stand before a
given one (`CountOf`). `OrderInv` says, for each stage of the two ends, what may
stand in which place: a `hello` is alone in its queue, nothing but a
`connectResponse` stands before the first user transmission at a guest, a
`preloadClientFinished` stands behind as many joins as make up, with the
containers received and still under way, for every type that was `asked` for,
and a `preloadFinished` behind the ends of those containers. A user transmission
stands before the guest's `connect` only when it is `hasty`. That makes the
answer to a preload arrive after its content, and every message arrive at an end
that expects it. `JoinsAndFinished` and `PreloadFailsOrder` say so of the
transmissions of a preload and of any part of them. That a type was not asked for
only because an earlier connection had is `OwnerInv`: of a transceiver's
connections at most one is open (`OneOpen`), and what is in `m_joinedGroups` was
asked for over one of them (`Remembered`), which is closed by the time another
one preloads (`Served`).

**DispatcherProofs** — for any types, keys and number of handlers, of a
dispatcher whose dispatches do not nest (`MaxDepth = 1`, a guest; with nesting
most of these are false, see section 5; replays nest as deep as there are ids):
`TypeCorrect`, `IteratorsAreValid` (`IteratorValid`), `CancelledAreGone`
(`CancelledIsGone`), `DispatchReachesAll` (`ReachesAll`), `ViewsAreTheContainer`
(`ViewIsContainer`) and `CancelledAreNotInvoked` (`CancelledNotInvoked`).
`IInv` ties `m_currentlyDispatchingId` to the frame at
the bottom of the stack (`Dispatching`) and says of the loop in that frame
(`Walk`) that it stands on a handler of the map, that it has passed newer ones
only, that what it has not passed is still ahead unless cancelled, and that
`m_removeIds` are handlers of the map which it has passed and which are
cancelled. The views need that a replay has told its handler of exactly the
instances up to its key (`ReplayOK`), and that a handler which is not up to date
is one the loop has still to reach (`Awaits`).

**DistributionProofs** — for any guests, connections, keys, properties, values
and publications:

* `Implementation` (`Refines`): `Distribution` implements
  `ReplicatedContainer`. `Publish`, `Open` and `JoinGroup` stutter; a guest that
  receives advances by one version, synchronises, or stutters while it still
  receives its cache; what the host receives, publishes and cleans up appends to
  the log; the end of a connection on either side makes the guest lose its
  place.
* `View` (`ViewIsVersion`), the value-level counterpart. Its `exact` is the
  condition under which the code keeps that promise at all (section 5).
* `Cleaned` (`CleanupComplete`) and `TypeCorrect`.

The refinement needs `ViewInv`. `Numbered` and `Separate` say that nothing is
under way over connections not yet opened, and that guests do not share one.
`Fresh(g)` says that at most one join of `g` is under way and that until the host
has received it the guest's container is empty, nothing is under way to it and
it is no member: without that a snapshot could meet older data. `Fed(g)` then
says of a member what its queue is: either part of a snapshot, the end of the
cache and one transmission per version since, or such transmissions only
(`Following`); and that applying them to the guest's container goes through
exactly the last versions of the log (`Shows`). `Current` says that the last
version is the host's container. `OwnersInv` for the cleanup is
`CleanupComplete` itself with types and a finite container.

The effect of a sequence of transmissions on a container is a recursive function
(`Stages`). Since the prover cannot use induction rules with an operator as
parameter, the lemmas about it (`StagesDef`, `StagesConcat`, `StagesTail`,
`StagesAfter`, `CachedFills`: a snapshot makes an empty container the host's)
are proved from `LeastNatural` and `Upto`, which state induction over the
naturals about a *set* of numbers.

**AsyncStreamChannelProofs** — for any number of parts, any limit and any
number of transmissions: `TypeCorrect` (nothing is taken from an empty read
buffer), `SingleRead` (`OneRead`), `KeepsReading` (`NoStall`), `InOrder`
(`WriteOrder`), `FlushedBeforeDestruction` (`Flushed`). `ReadInv` says what
`m_readDispatching` means at each point: while a transmission is processed it
is set exactly when the processing was dispatched from the read buffer; on the
way back it is set exactly when no more has been asked for, and then a read is
under way or the connection gone. `WriteInv` and `FlushInv` say that nothing
waits unless `m_asyncWriting` is set, and that it is set exactly while a write
is under way, failures aside.

**HostTransmissionProofs** — for any number of connections, keys and
publications, any number of failing connections and calls nested to any depth:
`TypeCorrect`, `Clean` (`CleanedUp`, provided that no *transmission* handler
publishes: see section 5), and `GroupIsOpen` (the raw pointers in a group are
those of open connections). What makes `CleanedUp` hold between calls is
`CleanInv`: every instance whose last updater is closed has a call under way
that will remove it (`Attended`), and a guest's publication that is not in the
container yet is the innermost call, of a connected guest (`Innermost`), so
that no connection closes between the arrival of an instance and its insertion.
`OpenInv` adds to `MembersOpen` that a connection whose closing is under way
is closed, and out of the group once its cleanup has begun (`Outside`), and that
connected guests are in `m_guestConnections` (`Kept`). `LoopAlone`
(`OnlyTheDirtyLoop`) follows: whatever else a call uses is a member or the
connection whose transmission is handled, and both are alive; what the loop over
the dirty connections of `transmit` has kept may not be. That the loop does no
harm while only one connection fails at a time (`ConnectionsAlive`) is
model-checked and not proved. The lemmas on stacks say what each way
of changing the innermost frames does to the set of all frames.

**TypeExchangeProofs** — for any acyclic set of types, any guests, static types,
policies and preloaded types: `TypeCorrect`, `NothingIsMissing`
(`NoMissingType`) and `SharedTypesAreKnown` (`SharedIsKnown`). The argument has
three layers.

* *The recursion.* That the recursive function `Visited` exists at all has to be
  proved: each call has a smaller weight than its caller, the weight being the
  number of types not seen yet times more than the longest list of uses, plus the
  types left to visit (`FollowingIsLighter`, `InnerIsLighter`); functions on the tours
  up to a weight exist, agree and extend (`PartlyExists`, `PartlyAgree`), and
  their union is the function (`WholeExists`, `VisitedSteps`). Along the same
  weight `VisitedIsGood` shows what a visit does: it sees what it was given and
  everything that uses, sees nothing outside a closed set it starts in, and
  describes every new type that is no vector, each after those it needs
  (`Prepared`). The last is where `exportDependencies` is delicate: a type counts
  as shared before those it uses have been exported. It takes acyclicity, by way
  of the ranks of types (`Below`), to know that a type met within its own export
  is none that somebody waits for.
* *One end of a channel.* `Line(ks, k, q, s)` relates what the program at the end
  knows (`ks`), what the program at the other end knows (`k`), what is on the
  wire (`q`) and what counts as shared (`s`): whatever is on the wire needs only
  types that the receiver knows or is told of before (`Fit`); what counts as
  shared is known to the receiver or on the wire (`Backed`); and the sender knows
  what it describes and joins (`Vouches`). Every way of transmitting keeps it
  (`LineExports`, `WayInstance`, `WayInternal`, `WayForwards`), and so do
  receiving (`LineReceives`) and registries that grow (`LineGrows`).
* *The whole.* `IInv` adds that registries are closed under use (`Knowing`), that
  a name an end has received is known to its program (`Named`), so that a
  repeated descriptor may be skipped, and that the members of a type's group know
  the type (`Members`): a forwarded instance does not export its type, and arrives
  nevertheless only where it is known. With these the import always succeeds
  (`Imports`, `ConvertSucceeds`), and the steps that would end a connection for
  the want of a type are never taken.

**DaemonProofs** — for any rules, guests, instances, connections and
publications: `AlwaysTyped`, `TypeCorrect`, `VerdictAsPublished`
(`VerdictByPriority`), `SecretsAreAskedFor` (`AskedWhenItHelps`) and
`DaemonKnowsClients` (`ClientsKnown`). `VerdictByPriority` compares the manager's
copy with the published rules, so the invariant is about the copy (`Copies`): it
has the published rules and no others, none of them twice, by priority and among
equals by age. Insertion behind the rules of a priority, the update in place and
removal keep it (`CopiesNew`, `CopiesUpdate`, `CopiesRemoved`); the first position
in the copy that says something is then the published rule that should decide.
`Matching` shows that comparing canonical prefixes, as `IpNetwork` does, is
comparing bits, for networks of every length. `ClientsKnown` is inductive
together with `ClientsFollow`: an open connection has an instance that says so.

**EventLoopProofs** — of what waits in the event loop. For any number of timers,
observers and waits: `StaysArmed` (`NeverIdle`) and `NotCalledAfter`
(`NotCalledAfterwards`). The invariant relates the reference count to the
objects: at most one object owns a wait (`Owners`), and a discarded one is owned
by none, so that the count at the completion is 1 exactly when nobody wants the
handler. For any number of listeners, channels and transmissions (`Acceptor` is
the instance of `Listener`): `AlwaysAccepts` (`NeverDeaf`) and
`CacheIsTransparent` (`PayloadsAreRight`). What the second needs is
`CacheIsCurrent`: a cache whose id is that of a transmission holds the payload of
that transmission. For any number of guests with local channels (`Local` is the
instance of `LocalChannel`): `DeliversInOrder` (`Delivered`). The invariant adds
that nothing is posted to an end that has not been linked (`Unlinked`), and that
no end of a pair is linked before its guest has opened its channel (`Unopened`) or
while that waits to be accepted (`Waiting`).

Only model-checked: all liveness properties (`Converges`, `HandshakeEnds`,
`NoHalfOpen`, `Discovers`, `Written`, `KeepsCalling`), because fairness is
outside the prover's reach; and everything about `Serialization` and `Struct`.
Those are built of RECURSIVE operators and folds over nested values, on which the
prover has no induction; a recursive function with a weight, as for
`TypeExchange`, would have to be given to every reader and writer of every format.

## 5. Observations

Met while modelling, beyond the findings. None of them is stated by a listed
run.

Dispatching and distribution:

* With nested dispatches (`MaxDepth = 2`) `removeHandler` recognises the invoked
  handler by `m_currentlyDispatchingId` only, which the inner dispatch has
  overwritten: unsubscribing the outer handler then erases the node its loop
  stands on (`Dispatcher.cpp:199`; `TestDispatcher.cpp:621` tests that removal
  while invoked is allowed). `MCDispatcherHandlerIterator.cfg` finds it.
  `ReplayIteratorValid`, `CancelledIsGone`, `CancelledNotInvoked` and
  `ViewIsContainer` fail as well.
* A handler that throws during the replay of the container stays registered,
  and its caller has no `Subscription` to remove it with (`ReplayThrows`).
* `Transceiver.h:149-152` says the container is replayed to transmission
  handlers; `addTransmissionHandler` does not do so.
* What a host's event handler publishes is transmitted before what it handles,
  and guests keep the older value; `Container::insert` stores every property of
  a new instance, whatever the header includes (`Container.cpp:145`), so a host
  that creates an instance with a subset of its properties holds more than its
  guests. `CaughtUp` fails with `"react"` and with `"partial"`.
* Cleanup goes by the last updater (`HostTransceiver.cpp:200`), the documents say
  creator: `dots-overview.md:168-169` and the comment of the flag in
  `descriptors.dots:39`. An instance whose creator disconnects stays if somebody
  else has updated it since, and one that is updated by a guest goes when that
  guest disconnects. `CleanupComplete` states what the code does;
  `MCDistributionCreator.cfg` finds that what the documents say
  (`CleanupByCreator`) is violated. A guest that joins late takes the last updater of an
  instance for its creator (`HostTransceiver.cpp:348`).
* Two connections that fail in one transmission: the removals published by the
  cleanup of the first close and destroy the second, and the outer loop then
  calls `handleError` on it (`HostTransceiver.cpp:106-112`; lines 144-146 keep
  only the connection being handled alive). `MCHostTransmissionDirty.cfg` finds
  it.
* An event handler that publishes while the sender's own transmission fails: the
  sender is closed and the instance the event refers to is freed before the
  other handlers are called (`Dispatcher.cpp:163`), and other guests get the
  update after the removal.
* A transmission handler that publishes can have the sender closed and cleaned
  up before its instance enters the container, which is then never cleaned up:
  the assumption `NoEarlyReaction` of `Clean` excludes it.
* `handleClearCache` collects pointers to instances, and a member whose
  transmission fails meanwhile frees some of them (`InstancesAlive`, with one
  failing connection already). Handlers that remove other instances do the same
  to the cleanup.
* A handler that updates an instance during the cleanup does not save it: the
  instances to be removed have been collected before.
* `handleListenError` erases the listener (`HostTransceiver.cpp:127-140`), and
  every listener reports as such an error what only concerns the connection it
  has just accepted (a socket option, a constructor that throws, the handshake of
  a WebSocket; `TcpListener.cpp:80-91`): the host stops listening, and the
  completion goes on to close the socket of the listener that is gone
  (`NotUsedAfterwards`).
* The channels of a dropped listener keep the pointer to its payload cache
  (`AsyncStreamChannel.h:655`): the next transmission to any of them uses a
  destroyed buffer. `MCListenerDropped.cfg` finds it.
* A completion that is queued when the host is destroyed looks at the acceptor of
  its destroyed listener (`TcpListener.cpp:51`).
* The new-type handlers of `Transceiver.cpp:150-200` share one
  `m_currentlyDispatchingId` among nested registrations, as the dispatcher does.

Channels and connections:

* The task in which a `LocalListener` accepts refers to the guest's channel
  without owning it (`LocalListener.cpp:13-22`); a guest that gives up before
  leaves it a destroyed one. `MCLocalChannelGone.cfg` finds it.
* An end of a local channel does not notice that the other is gone until it
  transmits: a half-open connection stays.
* `GuestTransceiver.h:253` says that `publish` throws when no host connection has
  been established; the code throws only when there is no connection object. What
  is published while connecting, before the hello is answered, makes the host
  close the connection (`Connection.cpp:302`), the exception in
  `NoUnexpectedMessage`.
* A preload that fails part-way marks groups as joined that were never asked for
  (`GuestTransceiver.cpp:107` runs after `publish` has swallowed the error), and
  `handleAuthorizationRequest` goes on with the destroyed connection
  (`PreloadFails`).
* A transmission that fails to be written leaves `m_asyncWriting` set; what is
  transmitted afterwards is never written. The connection is closed anyway.
* Payloads from the cache are appended without a check of the write buffer's
  size (`AsyncStreamChannel.h:658`). The size of a v1 header is written with 16
  bits (`AsyncStreamChannel.h:591`).

Types and instances:

* `StaticStruct::_assign(Derived&&)` calls a `destroy()` that does not exist
  (`StaticStruct.h:123`) and compiles only because nothing instantiates it;
  moving an instance into itself empties it; `StructDescriptor::construct` of an
  rvalue copies; `VectorDescriptor::resize` of elements that cannot be default
  constructed appends; `firstValid` and `lastValid` give the first bit for an
  empty set.
* `StaticTypePolicy::FundamentalOnly` leaves out the library's own message types.

Serialization (each excluded from the passing run by a named definition):

* Text in style `MultiLine`: an array of structs is written with a separator
  that the reader rejects, because `writeObjectBegin(name)` runs
  `initiateWrite` twice (`Unaffected`).
* A string by itself takes all the rest of a text, loses leading blanks, and
  cannot be empty (`BareString`).
* The experimental CBOR format ignores the properties the receiver includes and
  cannot skip unknown ones (`Skipping`). Zero loses its sign there and in text.
* `readMapBegin` expects the break of an indefinite map; nothing calls it.
  Reading a signed integer reinterprets narrower unsigned values unchecked.
* Reading a text vector appends to the vector that is there.
* An enumerator whose name begins with the name of its enum is misread under the
  relaxed policy. A top-level struct deserialized with a descriptor into an
  existing value uses that value's valid set. An exception during a visit leaves
  the visiting level raised.

Authentication, dotsd and timers:

* A rule for a client's name with a secret can never be satisfied if no other
  rule requires authentication: `requiresAuthentication` is asked before the
  name is known. A guest without a secret is refused though a later rule accepts
  anyone. A local endpoint without a policy is always refused.
* The default policy is shared by all name spaces, and removing one resets it.
  Changed rules do not affect guests that are connected.
* `updateServerStatus` compares `m_daemonStatus` with a copy of itself
  (`DotsDaemon.cpp:95-97`), so that `DotsDaemonStatus` is never published.
* A handler that throws ends a periodic timer, that of `cleanUpClients` among
  them, and an error ends an observation. Move-assignment gives the old wait up
  without cancelling it.

## 6. Not modelled, and the plan

Left out for good: the command line, logging, URIs, the code generator, tests
and examples (input, output, wording or generated code without state of their
own), random numbers and SHA-256, the digits of numbers, `AsciiSerialization`
(which only prints), memory accounting, descriptors' offsets.

Partly modelled, with what is missing:

* **HostTransceiver**: echo requests, several
  types in the pool. **GuestTransceiver**: `leaveGroup`, which nothing calls.
* **Transceiver**: the new-type handlers.
* **Registry**: `deregisterType`, which nothing in the library calls.
* **WebSocketChannel**: its reading and writing loops.

Planned, in this order:

1. **Channels** — `WebSocketChannel` as a further instance of the promises
   `AsyncStreamChannel` keeps (`WriteOrder`, `NoStall`).
2. **`Transceiver`** — the new-type handlers with nested registration.
3. **`Serialization`** — the traversal of `TypeVisitor` as a recursive function
   with a weight, and from it that writing and reading stay in step for every
   type.
