# A TLA+ model of the FogROS2-SGC router

FogROS2-SGC connects ROS 2 graphs in different networks. On each site runs a
*router* (`src/core`): it subscribes to local ROS topics and forwards their
messages under a global name, and it publishes into the local graph what
routers of other sites send. This directory holds a model of that router in
TLA+, its checks with TLC and proofs with TLAPS.

Paths below are relative to `src/`; `core/src/` is abbreviated as `core:`.

## 1. The system

### Parts, state and operations

| Part | State | Operations | Modelled |
|---|---|---|---|
| Connection RIB, `core:connection_rib.rs` | table name -> list of channels, `i32` packet counter, three unbounded queues | route a packet, register a channel, flush | `ConnectionRib` |
| Packet pipeline, `core:pipeline.rs` | none | `proc_gdp_packet`: advertisement -> registration queue, packet -> next hop | `ConnectionRib` |
| Packets and names, `core:structs.rs` | none | header of a packet, hash names | `ConnectionRib`, `GdpFraming` |
| ROS tasks, `core:network/ros.rs` | a channel each | advertise the topic, then publish or forward | `Router` |
| Router process, `core:commands.rs` | the queues and tasks | start tasks, ask for one flush | `Router` |
| Topic manager, `core:topic_manager.rs` | `topic_status`, its round of discovery | create ROS tasks for configured topics, scan the ROS graph, query and decide | `TopicManager`, and `Router` for the wiring |
| TCP session, `core:network/tcp.rs` | rest of the last read, packet being written | read, parse, hand over; write header and payload | `GdpFraming`, `TcpSession` |
| DTLS session, `core:network/dtls.rs` | the same, and `reset_counter` | the same, over datagrams | `GdpFraming`, `DtlsSession` |
| UDP listener, `core:network/udpstream.rs` | table address -> channel and drop flag | sort datagrams into streams, accept, drop | `UdpListener` |
| Routers together (`GATEWAY_IP`) | a RIB each, connections | flush to the gateway, broadcast, forward, lose, break | `Federation`, `TopicBus` |
| gRPC, libpnet, old protocol, certificates, command line, configuration | see section 8 | | no |

### How they interact

All tasks are asynchronous and talk over queues.

```
ROS subscriber --packets--+                        +--> ROS publisher
                          |   rib_rx               |    (its m_rx)
session (read)  --packets-+---------> RIB --copies-+
                          |   channel_rx           |
every task --advertisements---------> RIB          +--> session (write)
                                      ^                 (its m_rx)
router, 1 s after peering --stat_rs---+
```

A ROS subscriber of a router that peers with a gateway does not send to the
RIB but straight into the channel of a session of its own (`topic_creator`).
Sessions of two routers are connected by TCP, or by DTLS over the UDP streams
of `udpstream.rs`; each hop puts its own random name into the source field.

### What is hard

* **Interleaving.** Registrations, packets and flushes travel in three queues
  and `select!` takes ready branches in random order. A packet may be routed
  before the registration of its receiver, and is then broadcast.
* **Stale routes.** No route is ever removed. A task that ended is a closed
  channel in the table.
* **Several hops.** A message travels over the RIB, a direct session, the RIB
  of the gateway, a gateway session and a third RIB. Each hop rewrites the
  source field, there is no hop count, and a router tells its gateway once
  what it knows.
* **Old answers.** Discovery decides on a list of topics that is one round old
  and on two counts taken one after the other, in a graph that also shows the
  router's own tasks.
* **Broken streams.** A TCP read may end anywhere in a packet; a DTLS record
  may be lost or overtaken by another.
* **Back-pressure.** A session does not read while it waits to write, and the
  UDP listener serves nobody while it waits for room in one channel.
* **Partial failure.** A panic ends one task; the others go on with its
  channels closed.
* **Limits.** The counter of the RIB, socket buffers, bounded channels.

`PROJECT.json` lists each hazard at its line with the properties about it.

### What makes each part correct

* RIB: no echo to the origin, order per origin, a bounded number of copies, no
  packet lost to a receiver because another one has ended, complete flushes.
* Router: every message published once, in order, and eventually.
* Topic manager: discovery adds no live task to those the configuration asks
  for and one at most elsewhere, the configuration is obeyed, a decision fits
  the graph, no topic waits for ever.
* Routers together: a bus per topic, which invents nothing, keeps order, and
  repeats nothing to a publisher it had a route to, for all packets but those
  that a connection has garbled or overtaken; no packet goes in circles.
* TCP session: lossless framing, and packets that are given to it leave it.
* DTLS session: exact while nothing is lost; finds back after losses, unless
  the period of its traffic is that of the reset.
* UDP listener: one live session per peer, datagrams sorted and in order,
  losses only where a session ends, reconnection, no everlasting stall.

## 2. Modules

| Module | Extends | Contents |
|---|---|---|
| `ConnectionRib` | | the RIB and `proc_gdp_packet`, other tasks as *endpoints* that may do anything the queues allow |
| `Router` | `ConnectionRib` | the same queues, with the tasks of the code instead of endpoints |
| `TopicManager` | | the topic manager of one router in its local ROS graph |
| `TopicBus` | | what routers together promise: an abstract specification |
| `Federation` | | a tree of routers with their sessions; implements `TopicBus` |
| `GdpFraming` | | the wire format and its parser, a recursive function |
| `TcpSession` | `GdpFraming` | both ends of a TCP connection |
| `DtlsSession` | `GdpFraming` | one direction of a DTLS session over a lossy network |
| `UdpListener` | | the listener, its streams, and the sessions that read them |
| `ConnectionRibProofs`, `RouterProofs`, `TopicManagerProofs`, `UdpListenerProofs`, `FederationProofs`, `GdpFramingProofs` | each its module | the theorems |
| `TcpSessionProofs` | `TcpSession`, `GdpFramingProofs` | the theorems of `TcpSession` |
| `DtlsSessionProofs` | `DtlsSession`, `GdpFramingProofs` | the theorems of `DtlsSession` |
| `MC*` | each its module | instances for TLC |

`Router` is built on the actions of `ConnectionRib`: it restricts what
endpoints do to what ROS tasks and sessions do. That the runs of a router are runs of
`ConnectionRib` is therefore a matter of how it is written and no statement
about the code; the lemma `RouterRuns` records it, so that what is proved of
`ConnectionRib` can be used in a `Router`.

`TopicBus` is the abstract specification of several routers. `Federation`
implements it under the identity on `said`, `heard` and `misheard`, with
`disturbed` for "some connection is in `lossy`" (`ImplementsBus`): the tables,
queues, sessions and faults are hidden. A subscriber *says* a message;
`said` records to which publishers it is promised, namely those to which the
routers had a complete route at that moment (`HasRoute`). A promise is not one
of delivery, which no router makes, but that the message is not repeated. Once a
connection is disturbed, publishers may also *mishear*: what they then publish
may be out of turn, or nothing that anybody said. The bus promises only that
this leaves the order and the number of all other messages as they were.

`GdpFraming` is one definition for two copies of the same function in `tcp.rs`
and `dtls.rs`; `TcpSession` and `DtlsSession` differ in what the network does
to the bytes and in how a reader goes on.

### Correspondence with the code

**ConnectionRib.** The queues `rib_rx`, `channel_rx`, `stat_rs` and the table
`coonection_rib_table` keep the names of the code; absent keys are empty
lists. One action per branch of the `select!`: `RecvPacket` (and
`RecvPacketOverflow`, where the build checks overflows), `RecvChannel`,
`RecvStatus`. A branch contains no await that can suspend, as unbounded sends
never block, so it is one atomic step. `Advertise` and `Forward` are
`proc_gdp_packet` called by an endpoint; `NextHop` is the `rib_tx` it passes.
`Close` is the end of a task, at any moment. `m_rx[e]` is everything ever sent
into a channel, so that properties can speak of it; `Router` adds the position
up to which a task has read. A payload is the pair of its origin and a number:
two packets differ in nothing else the properties could tell apart.
`MaxSent` and `MaxAdvertised` bound what each endpoint does, one by one.

**Router.** `RosStart` is what a ROS task does ahead of its loop,
`RosPublish`, `RosPublisherSkip` and `RosPublisherPanic` are the outcomes of a
received packet, `RosSubscriberNext` a message of the local graph,
`RosNodeFails` an error of r2r. `SessionStart` sends the advertisement that
only a gateway session sends; `SessionReadForward` and `SessionReadAdvertise`
are decoded frames, `SessionWrite` takes a packet to write. `RouterAssumption`
states the wiring made by `topic_creator` and `router_async_loop`.

**TopicManager.** `pc` follows `ros_topic_manager`: the loop over the
configuration (`ConfigTopic`, `ConfigDone`), of which `config_read` entries are
done, then rounds of `Scan` (the map of
all topics, in any order), `NextTopic` (the `contains_key` test), the command
`ros2 topic info` as two reads of the graph (`CountPublishers`,
`CountSubscriptions`, or `UnknownTopic` when the topic is gone), and `Sleep`.
`TopicDone` is one decision: `topic_creator` and the entry in `topic_status`.
The graph (`publishers`, `subscribers`) changes at any moment by
`NodeChanges`; the router's own tasks are counted in what the command prints
(`Own`), as the command cannot tell them apart. `Panic` is any of the unwraps
on the way. `disturbed` is history: topics whose nodes have changed since the
round began. The loop over the configuration does not look at `topic_status`,
so entries that name a topic again create a task each, and so they do here.

**Federation.** `table`, `rib_rx` and `channel_rx` are those of
`ConnectionRib`, one per router, with the lists of channels as the number of
registrations of each pair of a name and a channel. A session's channel and its connection are one queue,
`outbox`; frames in it are packets or advertisements, and the reader puts its
own name into a packet (`From`). A publisher reads its channel at once
(`heard`). `Flush` is the one flush of a router. The path of a packet is
history. Four faults befall `Unreliable` parts, `MaxFaults` of them in all:

* `Lose`: a packet is gone, whole. So it is when a session gives it up because
  the socket blocks (`tcp.rs`), when the datagram of a header is lost and its
  payload is taken for text that goes with a later header, or when a reset
  throws it away.
* `Disturb`: a packet is handed on with bytes that are not its own. A packet is
  two writes, and two datagrams over DTLS: if its payload is lost or late, or
  its header is cut, the reader fills it up with what comes next. Over a
  connection of `Datagram` the packet may also have overtaken the ones before
  it. Its variable `hit` stays set on its whole way, and a publisher that
  publishes it has misheard.
* `Break`: a connection is not made or ends; it is not made again, as in the
  code. `RosPublisherFails`: a task ends.

What the bytes of several packets become in a reader is the subject of
`DtlsSession` and `TcpSession`; a loss that garbles several packets is several
faults here. `FederationAssumption` has one ROS task per topic and router. By
theorem `OneTask` of `TopicManagerProofs` this is so if no configuration names
a topic twice, which the code does not check. `ForestAssumption` says that
routers peer in trees; the operator sees to that, not the code.

**GdpFraming.** A header is a sequence of `HeaderLen` numbered bytes: its text
parses exactly when it is complete. Payload bytes are null, text, or binary.
`Turn` is one turn of the loop of `parse_header_payload_pairs`, with its three
comparisons of payload length and remaining bytes and its two panics; the loop
is a function of the position it has reached, and a turn that goes on takes
what that function has further on.

**TcpSession.** `pc` says whether a task waits in `select!`, is about to write
a header, or is in the loop that writes a payload. `socket[s]` holds the bytes
in flight, at most `Capacity`; `write_ready` is the runtime's belief that the
socket is writable, cleared by `WouldBlock`. A read returns any non-empty
prefix of the bytes in flight. A header is written with a single `try_write`
that may accept a part (`WriteHeader`) or nothing (`WriteHeaderBlocked`, the
packet is given up). `Exit` may lose what the process wrote last.

**DtlsSession.** One record per `write_all`. `Lose` and an overtaking `Read`
are the network's faults, `MaxFaults` of them. `ResetDue` is the test of
`reset_counter`. `traffic` is sent for ever, so that "finds back" means
something. The two directions of a session share no state but the task, which
never blocks for long on UDP: one direction is modelled. What the other
direction does to this one is `Answer`: the task at the reading end takes a
packet to write. `WriteFails` is a write that is unwrapped on an error, perhaps
between header and payload; it ends the writer. After `ReadFails` the branch
`Ok(..)` of the `select!` is disabled, and only an `Answer` brings the task back
to its read, or ends it.

**UdpListener.** `pc` is where the listener waits: for a datagram, for room in
the channel of a stream, or for room among the streams to accept. Streams are
numbered by creation, `streams` is the table. Drop of a stream is two steps,
the flag (`SetDrop`) and the channel (`DropReceiver`), since the listener runs
in another thread. `ReadFails` is the error of a read: the branch's pattern
`Ok(..)` does not match it, so the session stays without reading, until a packet
to write brings it back to its loop (`ReadAgain`). `WriteError` is a failed
`poll_write`, which sets the drop flag of a stream that lives on: the listener
forgets it, and its session may go on to read what its channel holds.

## 3. Runs

Times are for two workers on a small machine.

| Run | Question | Instance | States |
|---|---|---|---|
| `rib_safety` | `TypeOK`, `NoEcho`, `InOrder`, `BoundedCopies` | an endpoint that only sends; a session that sends 2 packets; an endpoint that sends straight into that session and registers twice; two names, so that packets are routed or broadcast; the counter wraps at 1 | 2.1 M, 90 s |
| `rib_live` | `Delivery`, `FlushCovers` | three endpoints on the RIB, two names, one of them sends 2 packets; the RIB panics on the second it routes | 126 k, 125 s |
| `router_publish` | `RouterTypeOK`, `PublishOnceInOrder` | publisher, subscriber and accepted session on one topic; 2 packets, 2 advertisements | 1.4 M, 70 s |
| `router_peer` | `PublishEventually` | two publishers of two topics with their direct session, a gateway session, a flush | 81 k, 20 s |
| `tm_discovery` | `TypeOK`, `OneTaskPerTopic`, `ConfigurationWins`, `DecidedByTheGraph`, `DiscoveredEventually` | a topic to discover, one that three entries name, `pub`, `pub` and `noop`; a local publisher and a local subscriber of each come and go | 36 k, 10 s |
| `federation_star` | `ImplementsBus`, `NoLoop`, `RoutedIsHeard` | two routers that peer with a third, one of them over DTLS; a subscriber at one, its publisher at the other, an unrelated publisher at the gateway; 2 messages, 1 fault | 851 k, 140 s |
| `tcp_session` | `TypeOK`, `ReceivedIsPrefix`, `WrittenIsReceived`, `OutboxDrains` | one side sends 3 packets, the other an advertisement; exits, partial header writes | 11 k, 13 s |
| `dtls_session` | `TypeOK`, `InSequence`, `Resynchronises` | four kinds of traffic, 2 faults, 4 records in flight; writes and reads that fail | 179 k, 110 s |
| `udp_listener` | `TypeOK`, `OneLiveStream`, `SortedByPeer`, `LossAccounted`, `Reconnects`, `ListenerReturns` | 2 peers, 4 datagrams, channels of 2; reads and writes that fail | 404 k, 70 s |

Three runs show a property violated; see section 5.

What the properties say beyond their names:

* `BoundedCopies`: a receiver gets at most one copy of a packet *per
  advertisement it made*. The RIB does not look for duplicates.
* `Delivery` and `FlushCovers` speak of packets and flushes in the queues. A
  receiver that ends, or a RIB that has panicked, is excused; a closed channel
  of somebody else is not.
* `PublishOnceInOrder` follows from `BoundedCopies` only because a publisher
  advertises once: its mutant, an advertisement in the loop, breaks it.
* `OneTaskPerTopic`: two live tasks of one topic would feed each other through
  the local graph. The router's own tasks are in the graph it scans, so this
  hangs on `topic_status`, which keeps topics for ever. It does not hold of a
  configuration that names a topic twice: the bound is then the number of its
  entries, which the instance reaches, and discovery adds none.
* `ConfigurationWins`: a task of a configured topic has the action of *one* of
  its entries. If entries disagree, only the last is in `topic_status`, but
  each has been obeyed.
* `DecidedByTheGraph` speaks of topics whose nodes did not change between the
  list of the round and the answer of the command; for others the decision may
  be wrong, and it stays.
* `DiscoveredEventually`: a topic that stays in the graph is decided, however
  other topics come and go. The manager must not have panicked.
* `ImplementsBus`: nothing invented, no crossing of topics, order per
  subscriber, and no repetition to a publisher with a complete route. A
  publisher *without* one may hear a message twice: a broadcast sends a copy
  per registered name, so a session registered under `k` names gets `k`. A
  disturbed packet is outside all this, on its whole way; what the property
  says is that the damage stays with it.
* `NoLoop`: no packet is routed twice by a router. This holds in a forest, as
  a RIB does not send to the session a packet came from. It is not a property of
  the code alone: routers that peer with each other in a circle would pass a
  broadcast on for ever, since each hop rewrites the source and counts no hops.
* `RoutedIsHeard`: a message with a complete route, when nothing failed on its
  way, no connection on it lost or garbled anything, and it is in no queue any
  more, has been heard.
* `ReceivedIsPrefix` and `WrittenIsReceived` hold up to the first header of
  which the kernel took a part; from there on the reader takes payload for
  header text and nothing can be said of what it hands over.
* `Resynchronises` is what `reset_counter` is for: after the last fault, intact
  packets are handed over again and again. Four things are excused, each with
  its cause: a payload that is not text, taken for a header, panics the
  session; a write fails; a read fails; and if the period of the traffic is a
  multiple of the seven records of a reset, the reader comes to a reset again
  and again but perhaps always at a payload. There only the reset is promised.
* `ListenerReturns`: the listener waits for ever only in one state, for the
  channel of a session whose last read has failed and which has had nothing to
  write since. That session neither reads nor drops its stream, and everybody
  else waits with it.

`CHECK_DEADLOCK FALSE` is set where a model really stops: bounded numbers of
packets, messages or datagrams in `ConnectionRib`, `Router`, `Federation` and
`UdpListener`, and a panicked reader in `DtlsSession`. `TcpSession` has an
explicit `Idle` step for a connection with nothing to do, and its runs do
check deadlock, as does that of `TopicManager`.

### Bounds

* `MaxSent`, `MaxAdvertised` (`ConnectionRib`, `Router`), per endpoint: order
  needs two packets of one origin, duplicates two advertisements of one
  receiver, a broadcast that reaches somebody a name that is registered and
  another that is not. `rib_safety` has one endpoint for each; with the same
  bounds for all of them it would not finish. Its two names are symmetric: no
  endpoint prefers one, and the table is indexed by name only. The proofs hold for all values.
* `MaxCounter`: the `i32` scaled down, so that its end is within reach of the
  packets of an instance; every value of the counter is treated alike.
* `Capacity` 4 with `HeaderLen` 2: a header with its null byte fits with one
  byte to spare, so payloads are cut, headers block and are cut, and the
  exact fit occurs.
* `MaxFlight` 4, `MaxFaults` 2 (`DtlsSession`): two packets in flight; one fault
  puts the reader out of step, the other hits while it finds back. `Traffics`
  has periods of 5, 6 and 7 records, with and without advertisements and binary
  data; 7 is the period of the reset.
* `MaxDatagrams` 4, `CHANNEL_LEN` 2 (100 in the code): a full channel with one
  datagram held by the listener is three; the fourth comes from the other peer
  or opens a new stream after the first one ended.
* `MaxNodes` 1: a decision looks at "none" and "some" only. The two
  topics are the two ways to be known when discovery begins, decided and
  undecided. The last entry of the configured one says `noop`, so it is excluded
  from discovery although its two tasks show up in the graph.
* `MaxSaid` 2 and `MaxFaults` 1 (`Federation`): order needs two messages, and
  one failure between two messages is the case of interest. `Unreliable` is a
  connection and a publisher on the path of the messages; that connection is
  the one of `Datagram`. The star has every kind of hop: local RIB, direct
  session, gateway, gateway session.

### Mutants

Each property of each passing run has a mutant next to the definition it
replaces (`RoutesTo_NoSourceCheck`, `Send_Try`, ...): a plausible slip in that
function, which makes TLC report the property.

## 4. Fairness

Tokio polls a task whose queue or socket is ready, and `select!` starts with a
random branch, so a branch that stays ready is taken eventually.

* `ConnectionRib`, `Router`: weak fairness of each branch of the RIB, and of a
  publisher's receive. None of endpoints' sends, ends or flush requests.
* `TcpSession`: strong fairness of reading and of writing for each side. A
  task in the payload loop comes back to `select!` again and again, so reading
  is enabled repeatedly, not continuously.
* `DtlsSession`: weak fairness of writing and of reading the next record; none
  of losses, which are finite, of failures, or of packets to answer with.
* `TopicManager`: weak fairness of the manager's steps. Timers fire and the
  command returns. None of nodes, and none of tasks, which may fail for ever.
* `Federation` (`FairSpec`, for `LateListener`): weak fairness of the branches
  of each RIB and of each session's reads. None of starts, flushes or faults.
  `federation_star` checks safety only.
* `UdpListener`: weak fairness of the listener, the accept loop, of a session
  that reads, and of the second step of a drop. None of ends of sessions, and
  none of datagrams, failures, or packets that bring a session back to its
  reads. A session that reads is assumed to come back to its stream; what
  happens when it does not is `failed`.

## 5. Where the code departs from its comments

| Run | Property | What TLC shows |
|---|---|---|
| `tcp_bothways` | `OutboxDrains` | Two sides that write more than the sockets hold wait in the payload loop, and neither reads. |
| `tcp_chunk` | `IncompleteHeaderIsReturned` | A chunk that ends between a header and its null byte indexes past the end and panics the session; the comment promises the header back. |
| `federation_late` | `LateListener` | The README of the repository joins two machines over a third. A router flushes once, a second after peering; a topic that is registered later is unknown at the gateway. If the *other* router has flushed the topic (a subscriber advertises it too), it is known there, is sent to that router only, and the message is never heard. |

More follows from the models or was met while reading, and no run is spent on
it:

* a header written in part garbles the stream (`garbled` in `TcpSession`);
* a failed read stalls the UDP listener (the exception in `ListenerReturns`);
* the counter at `core:connection_rib.rs:75` only feeds a log line, but with
  overflow checks (the dev profile) its end panics the RIB
  (`RecvPacketOverflow`), and `Delivery` has to excuse it;
* DTLS traffic that repeats every seven records, the period of `reset_counter`,
  may keep a reader out of step after a loss, for ever (`<<x, w, y, v>>` in
  `dtls_session`, the second disjunct of `Resynchronises`);
* a write that fails ends a DTLS session with a panic (`core:network/dtls.rs:235`
  and `240`), and a read that fails leaves it deaf until it has something to
  write;
* a cut header or a lost datagram makes a session hand on a packet with
  another's bytes (`Disturb`), which no part of the code detects;
* a configuration that names a topic twice gets two tasks for it, which hear
  each other if one is `pub` and the other `sub`;
* `src/resources/README.md:34-35` has `pub` and `sub` the other way round
  than `topic_creator`.

## 6. Proofs

All theorems hold for every value of the constants that the named assumptions
admit, without bounds on packets, datagrams, topics or tasks.

**`ConnectionRibProofs`** (from `ConstantsAssumption`):

* `TypeCorrect`: `Spec => []TypeOK`. The step for `RecvPacket` needs that the
  set of routes to a receiver is finite (`RoutesFinite`), else the number of
  copies would not be a number.
* `SplitHorizon`: `Spec => []NoEcho`. `NoEcho` is not inductive: it depends on
  what the table and the queues hold. `EchoInv` adds that every registration,
  queued or in the table, carries the source name of the endpoint that owns
  its channel (`RegistrationsOwned`), and that each queued packet carries its
  origin's source name (`QueueOwned`). Then a copy to the origin would have
  equal source names, which `RoutesTo` excludes; a direct next hop is never
  the origin itself by assumption. Names of different endpoints need not differ.
* `CopiesPerAdvertisement`: `Spec => []BoundedCopies`. `CopiesInv` counts the
  registrations of an endpoint, queued and in the table: they are no more than
  it has advertised (`RegistrationsCounted`). A packet gets at most a copy per
  registration when it is routed, and it is routed once: `LogBehind` of
  `OrderInv` says that as long as it is queued no log has a copy of it.
* `FifoPerOrigin`: `Spec => []InOrder`. `OrderInv` adds that packets of one
  origin are in order in the queue (`QueueOrdered`), and that everything
  already delivered is older than everything queued (`LogBehind`). An origin
  has one next hop, so the direct way and the RIB cannot mix (`QueueOwned`).

Lemmas with `Grows` in their names say what each action appends to a channel;
the inductive steps then argue about appended packets instead of actions.

**`RouterProofs`** (from `RouterAssumption` and the above):

* `RouterRuns`: `RouterSpec => Spec`, a lemma. It lets the invariants of
  `ConnectionRib` be used here without another induction, and no more is
  claimed of it.
* `RouterTypeCorrect`: `RouterSpec => []RouterTypeOK`.
* `PublishedOnce`: `RouterSpec => []PublishOnceInOrder`. `InOrder` admits
  repetitions, as the RIB sends a copy per registration. `RouterInv` adds that
  a publisher has at most one registration, queued or in the table, and none
  before it runs (`OneRegistration`). So it has one route at most (`OneRoute`),
  its log is strictly ordered (`StrictlyOrdered`), and what it has published
  is an ordered part of what it has read of that log (`PublishedRead`).

**`TopicManagerProofs`** (from `TopicManagerAssumption`): `ManagerTypeCorrect`,
`OneTask` and `ConfigurationRespected`, for any configuration, one that names
topics several times included. `OneTask` bounds the live tasks of a topic by
the entries that ask for one, or by one if no entry names it; only with a
configuration that names no topic twice does it say "one task". The inductive
invariant `ManagerInv` says that a topic with a task is decided
(`TasksDecided`); that every entry read so far has its topic decided
(`ConfiguredDecided`), and all entries are read when discovery begins
(`ConfigRead`); that there are no more tasks of a topic, failed ones included,
than entries read that ask for one, or than one (`TasksCounted`); and that a
query is about an undecided topic (`QueriesUndecided`), so that discovery
decides no topic twice.

`GraphDecides`: `Spec => DecidedByTheGraph`. The command counts the router's
own tasks too; `UndecidedHasNoTask` takes them out of it.
`RoundInv` says what a round still knows of an undecided topic whose nodes have
not changed since its list was taken: some are there, so that `ros2 topic info`
finds the topic, and the publishers it has counted are those of now.

**`UdpListenerProofs`** (only `ListenerTypeCorrect` needs
`ListenerAssumption`):

* `OneSessionPerPeer`: `Spec => []OneLiveStream`. `TableInv` says that a stream
  that is not dropped is in the table or on offer, and that an address with a
  stream on offer has no entry (`Tabled`). The listener's waits do not break
  it, as only the listener writes the table; nor does a write error, which only
  sets a flag.
* `DatagramsSorted`: `Spec => []SortedByPeer`. `OrderInv` adds that the table
  leads to the newest stream of an address (`Newest`), and that the datagram
  held is newer than all that streams of its address were given (`Behind`).
* `LossesBounded`: `Spec => []LossAccounted`. `LossInv` compares two sets: the
  datagrams of an address that no stream was given and that the listener does
  not hold (`Lost`), and the ended streams of that address which have left both
  the table and the offer (`Gone`). Counting all ended streams would not be
  inductive, since one that is still in the table may yet cost a datagram.
* `PeersReconnect`: `Spec => Reconnects`, an action property. By `Tabled` the
  entry of the peer leads to a stream of that peer, which is dropped, and the
  sweep ahead of every datagram empties the entry.
* `ListenerTypeCorrect`: `Spec => []TypeOK`. `Bounded` adds the bounds to
  `TableInv`; that a datagram's number keeps within `MaxDatagrams` follows from
  the guard on their total, by an injection into `Received`.

**`FederationProofs`** (from `FederationAssumption` and `ForestAssumption`, for
any number of routers, tasks, messages and faults):

* `NoPacketLoops`: `Spec => []NoLoop`. The source name that stops an echo is
  the name of the last hop only, so it says nothing of earlier hops, and the
  invariant has to. A gateway connection divides the routers into the `Side` of
  each of its two sessions. `Directed` says that what a session has been sent
  has been routed on its own side only, and what a RIB has from a session on
  the other side of that session only. `StaysOnSide` is the heart: a router
  sends a packet on over another session than the one it came from, whose side
  takes in all that the packet has passed; here the trees are needed, in three
  ways, as a packet may go up, down, or over to another router below the same
  gateway. `Typed` adds that a direct session is never registered
  (`Enrolled`), so that its far end is never sent a packet: nothing advertises
  over it. A broadcast to unknown names goes to every registered session, and
  the proof makes no difference between it and a route. `Carries` says whose
  messages a session may carry at all, and `RegistrationInv` how often a name
  and a channel are registered together; the next two theorems need both.
* `FederationIsBus`: `Spec => ImplementsBus`, the refinement. A message that a
  subscriber sends maps to `Say`, a packet that a RIB routes to a publisher of
  its topic to `Hear`, every other step to a stutter. `Hear` asks that nothing
  newer was heard and that nothing promised is repeated, which depends on all
  that is on its way: over a direct session into the first RIB, from there into
  the sessions and RIBs of other routers. `OrderInv` says that there are numbers
  `routed[s][r]`, the last message of `s` that router `r` has routed, such that
  what a router has routed, has in its queue and has on its way follow each
  other, and that the next router is never ahead of the last one. They are not
  in the model, so the invariant asserts that they exist. `Follows` admits a
  repetition only past the first RIB, and only at routers where nobody was
  promised the message. `PromiseInv` says that a route, once there, stays. A
  packet that is disturbed maps to `Disturb`, and its publication to `Mishear`.
  It leaves the order when it is hit (`Mine` takes only packets that are not),
  and a queue without one of its elements keeps the order of the others
  (`Shrinks`). `CalmInv` says that while no connection has lost anything there
  is no disturbed packet anywhere, so that nobody mishears.
* `RoutedMessagesAreHeard`: `Spec => []RoutedIsHeard`. `HeardInv`: a message
  promised to a publisher is heard or in one of at most four queues (`Waits`),
  unless something on its way has failed. Each step that takes it out of one
  queue puts it into the next or publishes it.

**`GdpFramingProofs`** (from `FramingAssumption`) says what the parser makes
of any sequence of bytes. Its main lemmas are `ParserType` and `ParserInStep`.
The loop is unfolded with an induction from the end of the buffer to its
beginning (`FromTheEnd`, which rests on the well-foundedness of the numbers): a
turn looks only at what later turns make (`TurnLooksAhead`), so the function
exists (`LoopExists`) and is the one the definition chooses.

`ParserInStep` is about a stream that begins with packets (`Laid`) and a
`Window` of it that begins where a packet does and ends anywhere. The parser
returns the next packets, each with its own payload, and then either the part
of a packet that the window cuts (`Stage`), or it has passed the last packet,
or it panics. It does panic on a header that is cut ahead of its null byte
(`tcp_chunk`), so that outcome cannot be left out. `Keeps` bounds what the
parser puts aside: a header of no more bytes than it was given, or a payload
that is not complete.

**`DtlsSessionProofs`** (from `DtlsAssumption` and `FramingAssumption`):

* `DtlsTypeCorrect`: `Spec => []TypeOK`. The bound on an incomplete header,
  which grows with each read, is not inductive: `Gathered` says that it is made
  of no more records than `reset_counter` has counted, and one. The longest
  record so far is the one the bound is stated with (`OneMore`).
* `FaultlessInSequence`: `Spec => []InSequence`. A record is a whole header or
  a whole payload, so that a place in the traffic is a packet and a part of it
  (`Mark`). While there are no faults (`Faultless`), the reader's rest is the
  header of the packet that is due or nothing (`InStep`), and the records in
  flight follow each other from the one the reader expects to the header of the
  packet that is written next (`Consecutive`). A write that fails may have sent
  a header without its payload (`HalfWritten`); it is the last one, so the
  records still follow each other, to where the writer has stopped.

**`TcpSessionProofs`** (from `SessionAssumption` and `FramingAssumption`):

* `TcpTypeCorrect`: `Spec => []TypeOK`, with `Types` as invariant, which says
  in full what a rest and a pair handed over may be.
* `FramingLossless`: `Spec => []ReceivedIsPrefix`. The property compares what
  one side handed over with what the other has written; between the two lie the
  rest the reader keeps, the bytes in flight and those of a payload not yet
  written. `FramingInv` says for either direction that there is a stream of
  which these are three windows in a row, that the stream begins with the
  packets written, and that the reader is at a `Stage` of it (`Along`,
  `InStep`). It takes in the bytes *not yet* written, so that the writes of the
  payload loop leave the stream as it is, and the exit of a process, which may
  take back bytes in flight, only cuts a window shorter. After a header in part
  the stream goes on with anything, and a reader past the last packet is no
  longer in step; all packets before it are safe. `Settled` says that nothing
  of a payload is left over between packets while both sides live.

Model-checked only: liveness and `WF`, which are outside the prover: `Delivery`,
`FlushCovers`, `PublishEventually`, `WrittenIsReceived`, `OutboxDrains`,
`Resynchronises`, `ListenerReturns`, `DiscoveredEventually`. Every invariant and
every action property of the passing runs is a theorem.

## 7. Plan

Done, in this order: the RIB and its proofs, the router around it, framing,
TCP, DTLS, the UDP listener, the topic manager, routers together, the proofs
about router, topic manager, listener and routers together, the refinement of
the bus, and the proofs about framing, TCP and DTLS.

To come: the client side of UDP streams (`UdpStream::connect`), with the
server's listener as its peer, and proofs about it. Past faults, what the
reader of a DTLS session hands over is only checked (`Resynchronises`); a
theorem may bound the records until it is back in step.

## 8. Not modelled

* **Client side of UDP streams** (`UdpStream::connect`): one socket, one
  channel, a task between them. Its connect future is never awaited, so that
  the socket hears every address; it is left to DTLS to discard what is not
  its peer's. The hazard is listed without a property.
* **Peering in a circle**: excluded by `ForestAssumption`; see `NoLoop`.
* **TLS handshake, certificates, encryption** (`core:crypto`): OpenSSL. A
  handshake succeeds, or its task ends.
* **gRPC** (`core:network/grpc.rs`, `proto/`): its start is commented out.
* **libpnet, `core:protocol`, `core:rib.rs`**: not called.
* **Command line, configuration, logging, errors** (`cli`, `utils`): read once
  at start; their values are constants here.
* **Hash names**: taken to be injective. Random session names may collide with
  probability 2^-32; the proofs do not assume that they differ.
* **Benchmarks, scripts and tests**: ROS examples around the router; the tests
  cover command line and configuration.
* **ROS middleware**: messages arrive and calls fail at any moment.
