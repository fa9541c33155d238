# EthernetIpCpp in TLA+

A verification project for the EtherNet/IP stack in `src/`: models of the parts
whose correctness depends on the order in which threads, messages and callbacks
meet, or on offsets and lengths that two ends compute apart, checked with TLC on
small instances, and theorems about them proved with TLAPS for every instance.

## The system

`VirtualDevice` is a *target*: it answers encapsulation sessions over TCP, keeps
a table of I/O connections and exchanges their data over UDP. `EipScanner` is an
*originator*. `SafetyDevice` and `SafetyScannerConnection` extend the two with
CIP Safety. The Logix classes turn a target into a tag server; `TagClient` reads and
writes its tags.

| Component | State | Operations | Correct when | Modules |
|---|---|---|---|---|
| Connection manager (`connections/`) | table of `IoConnection`s, next id | Forward Open, Forward Close, timeout, remove | one connection per triad; a connection is taken out once | `ConnectionManager` |
| Virtual device (`device/`) | production threads, endpoints, timers, watchdog | callbacks, UDP receive, watchdog scan, close | no producer outlives its connection; silent originators are timed out; close returns | `VirtualDevice`, `ConnectionLifecycle` |
| Encapsulation adapter and sessions (`protocol/eip_adapter`) | session per connection, set of handles | register, unregister, loss, SendRRData, SendUnitData, stop | a handle goes away with its connection | `Sessions` |
| Sockets (`protocol/tcp_socket`, `udp_socket`) | read and dispatch threads | send, close, stop | stop returns | `Sessions`, `Scanner` |
| Scanner (`protocol/eip_scanner`, `scanner_connection`) | TCP session, UDP routes, production threads | connect, open, close, route | no callback after close; nothing left at the target | `Scanner` |
| Safety device (`safety/safety_device`) | validator instances, SCID, CFUNID, time stamps | open, coordination, production, removal | the configuration in step with the table; no instance outlives its connection; time agrees with the originator | `SafetyDevice`, `SafetyStream`, `SafetyPair` |
| Safety scanner (`safety/safety_scanner_connection`) | two connections, roll-over counters | open, produce, receive, close | no half-open pair; both producers run in the end | `SafetyPair`, `SafetyStream`, `Scanner` |
| Frame codec (`safety/safety_frame_codec`) | none | encode, decode | nothing is accepted that was not sent | `SafetyFrames` |
| Tag database (`logix/tag_database`, `persistence`) | tags, programs, templates, dirty list | register, write, drain, save, load | tables agree; no event lost; a snapshot restores | `TagDatabase`, `TagValues`, `TagTemplates` |
| Tag services (`logix/tag_services`, `walker`, dispatcher) | the tags' bytes | read, write, fragments, read-modify-write, packets, browse | a path addresses its bytes and no others | `TagWalker`, `TagServices`, `TagMemory`, `TagDatabase` |
| Tag client (`logix/tag_client`) | socket, session, caches of instances | calls, fragment loops, browse, paths | what comes back is the tag | `TagMemory`, `TagDatabase`, `Sessions` |

Components meet in four ways. A TCP connection's read thread runs a request to its
end, through dispatcher, connection manager and device callbacks, before it reads
the next. The UDP dispatch thread looks a connection up and calls the device. The
watchdog and the production threads act on a connection on their own clock. The
application registers tags, drains events, saves, and calls `close()` from outside.
What is hard is that a reference or a decision is taken under one lock and used after
it was released, or that two ends derive the same number from different data.
`PROJECT.json` lists each such place under `hazards`.

## The modules

| Module | What it models |
|---|---|
| `ConnectionLifecycle` | abstract: the life of a connection and of its producer |
| `ConnectionManager` | the table, Forward Open, Forward Close, removal |
| `VirtualDevice` | everything around it: callbacks, production threads, UDP, watchdog, `close()` |
| `SafetyDevice` | a safety target over the same table: validation, configuration, validator instances, removal |
| `SafetyStream` | the time stamps and roll-over counts of one safety connection, both ends, both directions |
| `SafetyFrames` | the frame formats, as what each CRC covers |
| `SafetyPair` | the pair of connections of one safety connection: from idle to run, over a bad network |
| `TagTemplates` | the layout of structures and the size of their definitions, by folds over their members |
| `TagWalker` | from a path to a place in a tag |
| `TagServices` | what each tag service decides |
| `TagMemory` | clients and server threads that move the bytes, word by word |
| `TagDatabase` | registration, the Symbol Object, the name cache, browsing |
| `TagValues` | values, events, the dirty list, snapshots, restarts |
| `Sessions` | clients, connections, sessions, the adapter's threads, `stop()` |
| `Scanner` | an originator's connections, routes, production threads |
| `MC...` | the shapes, transfers, kinds, initial values and symmetry TLC uses |
| `VirtualDevice_proofs`, `SafetyStream_proofs`, `TagDatabase_proofs`, `TagValues_proofs`, `TagMemory_proofs`, `Sessions_proofs`, `Scanner_proofs` | what is proved of each module for every instance |
| `Safety_proofs` | the same of `SafetyDevice` and `SafetyPair` |

`VirtualDevice` and `SafetyDevice` both extend `ConnectionManager` and differ in what
runs in its callbacks. `TagMemory` extends `TagServices`, `TagWalker` and
`TagTemplates`; `SafetyPair` extends `SafetyFrames`. `Scanner` takes an exchange on TCP
as one step, which is what `Sessions` shows of the code below it. The modules of the
tag server share no state: `TagDatabase` has the tags without their bytes, `TagMemory`
a fixed set of tags with bytes, `TagValues` the same values over the whole life of a
process.

### How state and actions correspond to the code

One action is the code between two points where other threads can see or change
something: a release of a lock, an atomic store, a join, a message. Locks that are never
held across such a point are not visible; `production_mu_`, `io_mu_`, and the locks
around a UDP handler are, and appear as variables or guards.

| Code | Actions |
|---|---|
| `process_forward_open` | `ForwardOpenCheck` (duplicate triad, allocation), `ForwardOpenInsert` |
| `on_connection_established`, `on_connection_ready` | `OnEstablished` |
| `start_production_thread` | `StartLookup`, `StartThread` |
| `on_forward_open_reply`, `on_connection_opened_from_adapter` | `OpenedLookup`, `OpenedBind` |
| `handle_forward_close` | `ForwardClosePop`, then `RemoveClose` and the callbacks |
| `timeout_connection`, `remove_connection` | `TimeoutMark`, `RemovePop`, `RemoveClose` and the callbacks |
| the removed callback, `stop_production_thread` | `StopProductionThread`, `JoinProductionThread` |
| the lambda of a production thread | `ProducerWake`, `ProduceIoData` |
| `on_udp_message` | `UdpReceive`, `UdpLearn`, `UdpStamp`, `UdpConsume` |
| `watchdog_loop` | `WatchdogScan`, `WatchdogExpire`, `WatchdogSleep`, `WatchdogStop` |
| `close()` | `CloseBegin`, `StopProductionThreads`, `CloseSnapshot`, `CloseRemove`, `CloseTransports` |
| `validate_safety_open` | `Validate` (reads the stored SCID) |
| `process_forward_open` of a safety device | `TriadInUse` or `Allocate`, the steps below, `Insert` |
| `configure_safety_connection` | `ConfigureOwner`, `ConfigureScid`, then `create_instance` |
| `create_instance` | `ReadInstanceId`, `NextInstanceId`, `CreateInstance`, `IndexInstance` |
| `SafetyDevice::on_connection_removed` | `FindInstance`, `ForgetInstance`, `DetachInstance`, `EraseInstance` (together `RemoveInstance`), `Survey`, `DropScid`, `DropOwner` |
| `handle_safety_reset`, type 2 | `SafetyReset` |
| `produce_server_data`, `on_server_tcoo` | `OriginatorProduce`, `OriginatorActivate`; `ProduceServerData`, `ReceiveServerCoordination`, `TransitionToRun` |
| `SafetyDevice::produce_io_data` | `TargetWake`, `TargetProduceIdle`, `TargetProduce`; `ProducerWake`, `ProduceClientIdle`, `ProduceClientData` |
| `handle_received_io_data`, coordination message | `TargetActivate`, `TargetRollover`, `TargetStart`; `ReceiveClientCoordination`, `WriteCorrection`, `WriteGoal` |
| `handle_received_io_data`, `on_client_data`, data frames | `Receive`; `ReceiveServerData`, `ReceiveClientData` |
| `TagClient` calls, `read_struct_bytes`, `read_template`, `read_multiple`, `write_multiple` | `Ask`, `Take` with `TakeRead`, `TakeDefinition`, `TakePacket` |
| `dispatch_tag_service`, `dispatch_via_walker`, the instance handlers | `Handle`, by the operators of `TagServices` and `TagWalker` |
| `get_data` and the copy, `set_data`, `atomic_set_bit` | `CopyOut`, `CopiedOut`, `CopyIn`, `CopiedIn`, `SetBit`, `StoreByte` |
| the loop of `multi_service_handler` | `NextInPacket` |
| `add_tag`, `register_tag`, the dispatcher's handler | `TakeId`, `Register`, `EnsureInstance`, `FillCache` |
| `register_program`, `add_program_tag` | `RegisterProgram`, `AddProgramTag` |
| `add_template`, `add_template_prebuilt` | `TakeTemplateId`, `InsertTemplate`, `AddPrebuilt` (the layout is in `TagTemplates`) |
| `browse`, `handle_get_instance_attribute_list` | `StartBrowse`, `Page` |
| `build_tag_path`, `dispatch`, `on_unhandled` | the operators `BuildTagPath`, `Target`, `OnUnhandled`; `LookUp` |
| `set_data` and its event, `drain_dirty` | `Write`, `FireAnyTagChanged`, `WriteSilent`, `DrainDirty`, `ReadDrained` |
| `save`, `load`, `restore_one` | `Save`, `WriteTag`, `NextProgram`; `Load`, `RestoreOne`, `SkipOne`, `LoadReturns` |
| `TagClient::connect`, `send_encapsulated`, `disconnect` | `Connect`, `Request`, `Send`, `SendFails`, `Receive`, `ReceiveFails`, `Disconnect`, `Leave` |
| `read_loop`, `dispatch_message`, `TcpSocketConnection::send` and `close` | `Recv`, `RecvEnds`, `HandleRegister`, `HandleUnregister`, `HandleData`, `SendReply`, `SendReplyFails`, `OnClosed`, `CloseSelf` |
| `TcpSocket::stop` | `Stop`, `StopCloses`, `StopJoins`, `StopSkips`, `Stopped` |
| `EipScanner::connect`, `disconnect` | `Connect`, `Disconnect`, `Disconnected` |
| `forward_open`, `open_explicit`, `ScannerConnection::start` | `Open`, `Start` |
| `SafetyScannerConnection::open` | `OpenServer`, `OpenClient`, `Install` |
| `close()` of the three kinds, `forward_close` | `Close`, `Unroute` or `Drain`, `Join`, `ForwardClose` |
| `production_loop`, the dispatch of UDP frames | `Produce`, `SendIoData`, `Dispatch`, `Handled` |

In `VirtualDevice`, `production_threads` is the key set of both `production_threads_` and
`production_cancel_`, which change together. `held[a]` are the `std::thread`
objects thread `a` moved out of the map and will join. `info[c].owner` is the
client that opened a connection; the code does not store it, and no guard of the
model reads it except the sender of a datagram.

A few variables are not the program's but the properties': `clean` in `TagMemory` (no
other session touched what a transfer addresses), `since`, `copy` and `silent` in
`TagValues`, `stream.due` and the field `saved` of its records there, `due`, `held`, `overtaken` and
`replaced` in `TagDatabase`, `corrupted` and
`refused` in `SafetyPair` (what `Judge` has seen of the frames received), `overlapped` in
`SafetyDevice` (the connections whose validator instances were created while another was), `heard` and
`missed_start` in `SafetyStream`. No guard of a step of the code reads them.

### Abstractions

* Time is one bit per connection: whether `last_received` is older than the
  connection timeout (`Elapse` sets it, the two stamps clear it). `from` remembers
  which code stamped it and is read by a property only.
* In `VirtualDevice` and `Scanner` frames have no contents. `UdpReceive` may happen for a
  connection once its Forward Open has been answered, because an originator learns the
  connection id from the reply, and only for connections that consume cyclic data.
* Requests that do not parse, name a missing assembly or use one assembly for both
  directions are refused before anything changes and are not steps. A Forward Open
  inside an Unconnected Send skips the reply callback; only direct ones are modelled.
* Ids do not wrap: `MaxOpens`, `MaxOps` and `MaxConns` bound them, the code has 16 or 32
  bits.
* Closing a socket wakes the threads blocked on it. That is so on Winsock; on POSIX
  a thread blocked in `accept` or `recvfrom` need not be woken (see the hazards).
* The second `close()` of a device, from the destructor, and `start()` are left out.
* A safety segment is its SCCRC; zero is `NoConfiguration`. An originator is its
  client, so the CFUNID is a client. Segments with a wrong TUNID or CPCRC are refused
  before anything changes. Validator ids do not wrap, and an id is an index into
  `instances`. The validator's maps have no lock: each access is a step, what a data race may
  do to the inside of a map is left out, and erasing an entry that is gone changes nothing.
  The CIP instance made under the same id is left out. Attribute 6 changes together with the
  SCID it mirrors.
* `SafetyStream` is the Extended Format. A frame is its time stamp, its run bit and
  the roll-over count in its CRC seed; the CRC is valid when the consumer's count is
  the same. The time correction of the target is *any* value up to `MaxCorrection` in
  every frame. The network delays and loses frames and does not reorder them. Words have
  4 bits, so a time stamp wraps several times and the quarter-range rule (`0x4000`)
  becomes a rule of 4.
* In `SafetyFrames` a CRC is the record of what it is computed over. Two CRCs are equal
  when they cover the same; what the polynomials let through by collision is left out,
  what they are not computed over is kept. Damage changes one field. `SafetyPair` keeps
  the time stamps free and the roll-over counts where each end starts them: the producer at the
  value advertised, both consumers at 0. `SafetyStream` counts.
* In `TagMemory` a byte has 2 bits, a word 4 bytes, and a reply holds 6. A copy moves word by
  word in any order, because `memcpy` of another thread's bytes promises no more. A client
  that writes in fragments is not the repository's, which has none.
* A page of a browse is the set of its entries: `Fits` says which sets sorting by id and
  cutting at the size of a reply can give, and the order of the pages is kept.
* `TagDatabase` leaves out values, `TagValues` leaves out names and ids; in both, a type stands
  for type code and size. `CipClass` keeps its instances in an unlocked map; concurrent
  insertions are taken not to corrupt it.
* In `Sessions` the class 3 connection at the target is its TCP connection, and `recv`
  returns one or all of the messages that have come. In `Scanner` the target holds what
  it was asked to open until it carries out a request to close it: its own timeout is in
  `VirtualDevice`. It may answer a Forward Close with an error, which `forward_close` ignores.

## What is checked

| Run | Instance | Shows |
|---|---|---|
| `device_one` | 2 clients, 1 connection, 2 source ports; `FairSpec` | `TypeOK`, `ProducerAccounted`, `TimeoutCountsFromFirstFrame`, `SilentConnectionRemoved`, `CloseReturns`, `ImplementsLifecycle` |
| `device_two` | 2 clients, 2 connections that produce or are class 3, 2 triads; symmetry | `ProducerAccounted`, `SingleForwardClose` |
| `safety_device` | 2 clients, watchdog and application, 2 connections, 1 triad, 2 configurations; symmetry | `ConfigurationAccounted`, `NoDanglingValidator` |
| `configuration_mixed` | 2 clients, 3 connections, 2 configurations | violation of `OneConfiguration` |
| `safety_stream` | both directions; initial time and roll-over count all ones (the default), 0 and 0, or 5 and 0; 4-bit words, 60 ticks, 2 frames in flight, 1 loss in a row | `RolloverAgrees`, `WrapsCountedAlike` |
| `frames` | both formats, 1 and 3 bytes of data, initial roll-over 0 or 1, one frame in flight, one damaged or misrouted; fairness | `OnlyGenuine`, `GenuineAccepted`, `HandshakeCompletes` |
| `tag_memory` | 2 sessions, 7 tags, every pair out of 51 transfers | `TypeOK`, `ReadsTile`, `ServedIffLegal`, `WritesLand`, `OnlyAddressed`, `TransfersEnd` |
| `struct_fragments` | 1 session, the reads, `LaterStrip` = 2 | violation of `ReadsTile` |
| `tag_database` | 2 threads, 3 names, 1 program, 2 prebuilt ids, 6 operations; pages of one entry, each a set; symmetry | `TablesAgree`, `AddedIsReachable`, `BrowseComplete`, `CachedRootSame`, `TemplatesAlive`, `IdsStable` |
| `tag_values` | 3 tags in 2 scopes, 2 types, 2 values, 2 writes, 2 saves, 1 restart; symmetry | `NoEventLost`, `SnapshotHonest`, `LoadRestores`, `CutsAreNoticed` |
| `sessions` | 1 client with 2 threads and a class 3 connection, 2 connections, 4 events, 1 break | `SessionsAccounted`, `HandleOfConnection`, `ReplyIsOwn`, `CallsEnd`, `StopEnds` |
| `scanner` | an I/O, an explicit and a safety connection, 2 connects | `HandledAlive`, `SilentWhenOver`, `NothingLeft`, `CloseEnds` |

The type invariants of `SafetyDevice`, `TagDatabase`, `TagValues`, `Sessions`, `Scanner`,
`SafetyPair` and `SafetyStream` are stated in the modules and hold when they are added to the runs.

### Why the bounds are enough

One connection of a device already has all the contention there is: Forward Open, two
possible Forward Closes, watchdog, UDP thread, producer and `close()` all on the same
object. The second connection adds what needs two, ids, triads and the map of threads, and
is checked without UDP because the handlers of different connections share nothing there.
For the safety device two connections and two clients give every overlap of two openings,
two removals, and an opening with a removal; the proofs cover the rest. One triad is enough for
`safety_device`: two opens may both find it free before either is inserted. For the stream, 60
ticks are almost four wraps of a word, so the time stamp wraps while frames are in flight,
while one is lost, and while the correction moves back.

In `frames` one damaged field of one frame is enough, because acceptance does not depend on
earlier frames; the two lengths are the two layouts on both sides of the boundary between
them. In `tag_memory` a reply holds 2 bytes of a structure or 4 of an atomic, so a structure
of 8 bytes takes four fragments and an array of 6 bytes two; the shapes have nested
structures, arrays of structures, two dimensions, BOOL members that share a byte, an array of
BOOL, one shorter than a word, and SHORT_STRINGs; two sessions give every race of two writers.
The templates are laid out by the model as `add_template` does, not given. In `tag_database` a
page of one entry puts every registration between two pages. In `tag_values` the snapshot may
be cut after, or inside, each record, and be loaded into a database with other tags or types.
In `sessions` four events are a connection, a request, its failure and a new connection. In
`scanner` the three kinds of connection meet on one socket and one UDP transport.
Symmetry is used only where no liveness is checked.

### Fairness

Safety is checked under specifications that may stop at any time. For liveness:

* `VirtualDevice`'s `FairSpec`: weak fairness for each thread that has something to do: the
  rest of a request, the production threads, the UDP handler, the watchdog, `close()` once
  called. None waits for a lock whose holder waits for it; that is what `CloseReturns` shows.
* `TagMemory`: the server's threads run, and a client takes the reply it waits for.
* `Sessions`: a client's thread inside a call, each read thread and `stop()` run. Nobody need
  connect, ask or stop anything; the network may break a connection at any time.
* `Scanner`: a thread that waits for a lock which is free again and again gets it (strong
  fairness of `Unroute`, `Drain`; the mutexes of the C++ library promise no more than that
  somebody gets it, and the platforms' ones do not starve a waiter); the production and
  dispatch threads run.
* `SafetyPair`: the four threads run, each with one condition for all that it does in turn. A
  frame that is sent again and again arrives some time (strong fairness of the data frames,
  which may be lost any number of times). A coordination
  message, sent once for each change of the ping count, arrives, late or not: if it were lost for
  good the connection would stay idle until the ping count changes, and the originator's
  never does. `HandshakeCompletes` is not a promise about a network that loses it.

Clients need not send anything, frames need not arrive, time need not pass. Deadlock is
checked for the devices, whose only state without a successor is the closed one, named by
`Quiescent`; the other models end when their bounds are used up.

### Properties worth a comment

* `ProducerAccounted`: whichever of open and removal is first, no thread is
  left behind. It holds because the lookup in the table is under `production_mu_`
  *and* the removal pops before it takes `production_mu_`.
* `ImplementsLifecycle` maps the table, the threads and `next_connection_id` to the
  four phases of `ConnectionLifecycle`. That the last removal ends only after the join is the
  content. A Forward Close may be answered before the last frame is out when the watchdog
  removes the same connection; the connection is still *closing* then. A `close()` that has
  joined many producers ends the closes of many connections in one step.
* `ConfigurationAccounted` is what makes the next Forward Open after the last close
  "fresh", as `on_connection_removed` intends. The converse is not promised and does not hold: a
  removal that found no safety connection may clear the SCID of one inserted since.
* `NoDanglingValidator`: an instance is left behind only if its own creation overlapped another
  one, when the two maps may get different ids for one connection (`NoneDangles`, the
  unconditional form, is refuted). Removals may interleave with a creation and with each other at
  every access. That no connection has two instances holds in any case.
* `WrapsCountedAlike` and `RolloverAgrees` relate two counters at two ends that never talk about
  them. The first is about the wraps, and holds from any initial values: a connection decodes
  all of its run frames or none. The second is about the counts themselves, and holds of a
  connection that is `FromZero`, because both consumers start from 0 whatever was advertised:
  roll-over count 0, and a time stamp so low that the first run frame to arrive comes from
  before the first wrap (0 and 5 of 16 here). From the default values, one tick before a
  wrap of both words, it depends on the first run frame to arrive: behind the wrap the counts are
  both 0, before it they differ for good (`FrameOne.cfg`). A target that stamps a frame with its
  time since boot is excluded from both.
* `GenuineAccepted` names the one reason for which an intact frame is refused: the same
  difference of the counts, in the Extended Format. `refused` keeps the producer's count of every
  intact frame refused. The frames sent between the two stores of `on_server_tcoo`, idle with
  a time stamp that runs, are among those accepted.
* `OnlyGenuine` is about data, run state and time stamp. The ping count of an Extended short
  frame is under no CRC and is read even off a frame that is refused; what that can do is part
  of the behaviours `HandshakeCompletes` is checked over.
* `ReadsTile`, `WritesLand` and `OnlyAddressed` compare what the services did with the bytes that
  each transfer of `MCTagMemory` declares, which were worked out from the declared members by
  hand. `LaterStrip` is 4 in `tag_memory`: a client that strips the header its server sends.
  The repository's client strips 2, and `struct_fragments` shows what comes of it.
* `ServedIffLegal` is in both directions: a legal request is never refused, by any route.
* `CachedRootSame` is the part of the browse cache's promise that holds.
* `CutsAreNoticed`: of a snapshot cut anywhere `load` notices every cut but one, inside the
  data of the very last record, which it restores torn. It counts records against the tags
  that were due when the snapshot was begun, not against what the stream says of itself.
* `ReplyIsOwn` is not about the mutex but about the wire: what is outstanding on a connection is
  only ever the request of its holder, so a client need not compare anything.
* `HandledAlive` is the drain barrier of the README of the sources: a frame may be handled
  while its connection closes, never after `close()` has returned.

## What the runs refute

Each has a finding in `PROJECT.json` with the quotation.

* `OneConfiguration`: two safety connections with different configurations may be open at once.
* `ReadsTile` with the repository's client: a structure larger than one reply is read wrong,
  because the client takes the header of a later fragment for two bytes and the target sends four.

Further statements of the sources that the models refute have a configuration each, to be run
as `tlc -config X.cfg M`. They are kept beside the runs and not among them:

| Configuration | Module | Refutes | What happens |
|---|---|---|---|
| `CloseLeavesProducer.cfg` | `MCVirtualDevice` | `ClosedMeansStopped` | a Forward Open handled during `close()` leaves a connection and a running producer (`virtual_device.hpp:56`: "tear down all active production threads") |
| `RemovedTwice.cfg` | `MCVirtualDevice` | `RemovedCallbacksOnce` | the watchdog or `close()`, working from a copy of the table, runs the removed callbacks for a connection a Forward Close has taken (`test_connection_lifetime.cpp:138`: "the removed callback must fire once") |
| `TriadTwice.cfg` | `MCVirtualDevice` | `TriadUnique` | two simultaneous Forward Opens with one triad are both accepted (`test_connection_manager.cpp:61`) |
| `EndpointOfOther.cfg` | `MCVirtualDevice` | `EndpointOfOriginator` | the address of a Forward Open's sender is bound to another originator's connection (`virtual_device.cpp:178`) |
| `ValidatorDangles.cfg` | `MCSafetyDevice` | `NoneDangles` | one creation stores `instances_[1]`, another increments the counter to 2, the first stores `conn_to_instance_[connection]` = 2, the removal erases 2, and instance 1 keeps a pointer to a connection that is gone (`safety_validator_object.hpp:82`: "Kept in lockstep with instances_") |
| `FrameOne.cfg` | `MCSafetyStream` | `AgreeFromFrameOne` | with the default initial values, 0xFFFF and 0xFFFF, the originator's first run frame has a roll-over count of 0xFFFF in its seed, and the target tries 0; they differ from then on (`safety_scanner_connection.cpp:84`: "both ends must agree from frame 1") |
| `StartBeforeUse.cfg` | `MCSafetyStream` | `StartSetBeforeUse` | a frame is stamped before the production start is set (`io_connection.hpp:96`) |
| `CorrectionForward.cfg` | `MCSafetyPair` | `CorrectionForward` | the two threads that write the time correction take it back (`safety_device.cpp:379`: "CTCV never goes backward") |
| `BitsLost.cfg` | `MCTagMemory` | `BitsIndependent` | in a buffer that is no whole word, two bits of one byte undo each other (`tag.hpp:156`) |
| `BrowseGoesOn.cfg` | `MCTagDatabase` | `BrowseGoesOn` | a later page is asked of an instance that does not exist, and fails (`symbol_object.cpp:44`) |
| `BrowseTransparent.cfg` | `MCTagDatabase` | `BrowseIsTransparent` | a member, a program's tag or an element with two indices is not what the cached path reaches (`README.md:114` of the sources) |
| `SharedTransport.cfg` | `MCScanner` | `SharedTransport` | a safety connection takes the handler of the transport from the I/O routes (`safety_scanner_connection.hpp:38`) |
| `StopWaits.cfg` | `MCSessions` | `StopWaits` | a read thread whose send failed is detached and runs on after `stop()` |

## What is proved

`VirtualDevice_proofs` proves, for any number of clients, connections, triads and
profiles, from `ManagerAssumption` and `DeviceAssumption` (non-empty sets, distinct
threads):

* `TypeCorrect`: `Spec => []TypeOK`. The strengthening `CurOK` says that a thread
  inside a handler refers to a connection.
* `ProducersAccounted`: `Spec => []ProducerAccounted`. Alone it is not inductive: a
  thread about to be created must still be going to be stopped. `MutexHeld` and
  `CreateCovered` say that a starter holds `production_mu_` since it saw the connection
  in the table, so `stop_production_thread` cannot have run; `HeldWhileJoining` says that
  threads moved out of the map are joined before their holder goes on. `CoveredStep`
  is the key lemma: a connection stays in the table or in the hands of a remover until
  `stop_production_thread` has run for it.
* `ForwardCloseOnce`: `Spec => []SingleForwardClose`, because a connection about to be
  inserted or already popped is held by one client and is not in the table.
* `TimerCountsFromFrame`: `Spec => []TimeoutCountsFromFirstFrame`. `OpeningInv` says that a
  connection being opened has not been answered and is opened by one client, so its
  established callback cannot overwrite the stamp of a frame.
* `DeviceKeepsLifecycle`: `Spec => LifecycleInit /\ [][LifecycleNext]_lifecycleVars` under the
  refinement mapping, the safety half of `ImplementsLifecycle`, for any number of connections.
  `FreshInv` says that nothing refers to a connection before it is inserted, so the cases of
  `Phase` exclude each other (`PhaseIsStage`); `EstablishedInv` that a connection found
  Established outside the table is still being closed, so the watchdog never takes up a closed
  one from an old snapshot; `StartInv` that a producer starts once. That no closed connection
  produces (`ClosedIsSilent`) follows from `ProducerAccounted`. Most actions are `Quiet`: they
  end closes, or change nothing of the lifecycle.

`Safety_proofs` proves of `SafetyDevice`, from `ManagerAssumption` and `SafetyAssumption`:

* `SafetyTypeCorrect`: `Spec => []TypeOK`, with `CurOK` (a thread in a handler refers to an
  allocated connection) and `StepOK` (only safety connections about to be inserted are
  being configured).
* `ConfigurationIsAccounted`: `Spec => []ConfigurationAccounted`. The invariant is split,
  because the two halves of the clearing are two steps: `ScidAccounted` and
  `OwnerAccounted` name the threads that justify the SCID and the owner. The key case is
  `Survey`: a thread that keeps on justifying goes to `DropScid`, one that stops has seen a
  safety connection in the table.
* `ValidatorNeverDangles`: `Spec => []NoDanglingValidator`. `LinkOK` says that the reverse index
  leads to every instance created alone, or its client has yet to store the entry, or a
  removal has read it and will clear the instance. `FreshOK` says that a connection being
  opened is with one thread only and has no instance before its client stores one.

`SafetyStream_proofs` proves two theorems for words of any width, from `StreamAssumption` and
one hypothesis, `Paced`: in `MaxLost + 1` frames the producer advances less than three quarters
of a wrap. A consumer that sees only the low words of the frames that arrive needs no less. The run's
instance satisfies it; at the originator's 390 ticks a frame, 125 frames may be lost in a row.

* `WrapsAreCountedAlike`: `Paced => (Spec => WrapsCountedAlike)`, whatever the initial values.
  `RunInv` orders the last frame received, if it was a run frame, those in flight and
  the producer's next: each is reached from the one before in at most the ticks of the frames
  between them (`RunChain`), where nothing is said of how the producer's count compares
  with the consumer's. `TimeInv` says that the target's time never falls behind the time
  elapsed, so no correction slows it beyond the chain's reach.
* `RollOversAreCountedAlike`: `Paced => (Spec => []RolloverAgrees)`, of the connections that are
  `FromZero`. `ZeroInv` has the chain from the idle frames on, with the consumer's own count as
  its first point: `FreshInv` says that all frames are idle until the first run frame.

In both a loss joins two links (`ReachTrans`), a reception moves up by one, and a link
shorter than three quarters of a wrap is one across which the quarter-range rule sees a wrap
exactly when there was one.

`Safety_proofs` proves of `SafetyPair`, from `PairAssumption`, for any data, lengths, time stamps
and corrections and any amount of damage:

* `OnlyGenuineFrames`: `PairSpec => []OnlyGenuine`, and `GenuineFramesAreAccepted`:
  `PairSpec => []GenuineAccepted`. `TracedInv` says of every frame in the network what its
  encoder made it of and what damage has left of that. `CrcInjective` and
  `SeedsNameTheProducer` make a frame that validates one that the peer encoded on this
  connection (`ValidIsGenuine`), and `EncodedIsValid` is the converse, for a frame whose seed has
  the consumer's count or, in the Base Format, none. That CRCs do not
  collide is an abstraction of the model.

`TagDatabase_proofs` proves, from `DatabaseAssumption`:

* `TablesAlwaysAgree`, `AddedTagsAreReachable`, `TemplatesStayAlive`: the three invariants of
  the tables. `WorkInv` says that an id taken under the first lock is in no table and in no
  other thread's hands until the second; `FillInv` names the thread that is on its way to a
  mirror that lacks a tag; `TemplateInv` does for templates what `WorkInv` does for tags.
* `InstanceIdsAreStable`: `Spec => IdsStable`, an action property, from the same invariant.
* `BrowseSeesAll` and `CachedRootsAreTheSame`: for pages of any size, `FullInv` adds that a
  browse has seen every due tag with an id below its start and nothing beyond it, and that the
  client's cache agrees with the tables. `DatabaseAssumption` has `MaxOps < PseudoBase`: ids
  of tags stay below those of the programs.

`TagValues_proofs` proves, from `ValuesAssumption` (scopes share no tag and list none twice):

* `NoEventIsLost`: inductive with the types, because a drain takes the list whole.
* `SnapshotsAreHonest`: `SaveInv` says that every tag is written, listed or in a scope the save
  has still to come to, exactly one of them; `StreamInv` counts the records.
* `LoadsAccountForEveryRecord` and `EveryOtherCutIsNoticed`: `LoadInv` counts what the load has
  read, and relates its exception to the end of the stream.
* `ValuesTypeCorrect`: `Spec => []TypeOK`.

`Sessions_proofs` proves, from `SessionsAssumption`:

* `SessionsAreAccountedFor`, `HandlesAreOfTheirConnections`, `RepliesReachTheirRequests`. None
  is inductive. `WaitOf` says that a connection carries at most one message, that of the thread
  which waits on it, or is dead; `HandleOf` that every handle on the wire is the connection's;
  `TurnInv` that `io_mu_` has one holder and that connecting and leaving exclude the others.

`Scanner_proofs` proves, from `ScannerAssumption` (a connection is not named like the routes):

* `HandlersNeverOutliveTheirConnection`, `ClosedConnectionsAreSilent`,
  `ClosedConnectionsAreReleased`, `ScannerTypeCorrect`. `RouteOK` and `HandlingOK` say that
  what leads a frame to a connection, and the handler that has it, are gone before the stage
  after `closing`; `TargetOf` lists what the target can hold of a connection in each stage:
  a pair comes to its last Forward Close as `last` only if the target carried out the first.

`TagMemory_proofs` proves, for any number of sessions and any templates, tags and transfers,
from `TemplatesAssumption` (a member has an atomic type or that of a template added before),
`ShapeAssumption` (a buffer is as large as the constructors of `Tag` make it),
`MemoryAssumption` and `TransfersAssumption`:

* `LayoutOK`: what `add_template` lays out lies inside the structure, with every element and
  every BOOL. `WalkStaysInside`: a path that `walk` accepts ends inside the buffer, however it
  passes through structures, arrays of them and arrays of BOOL. Both hold of whatever a fold
  has computed, so both are inductions over the members or the segments it has still to
  take: `KnownOK` says of the templates laid out so far, and `PlaceOK` of the place reached,
  what the next one needs, in particular how much room the dimensions that are still to be
  indexed have left.
  The library's induction theorems, whose parameter is an operator, cannot be used;
  `SetInduction` is induction over a set of numbers, from the well-foundedness of `<` on `Nat`.
* `TypeCorrect`: `Spec => []TypeOK`. `Rows` and `Control` relate the states of client and server
  of each session to its transfer, and hold of every session whatever the others do.
* `ReadsTileHolds`: `HeadersKnown => (Spec => []ReadsTile)`. `ReadingOK` says that a client has
  the first bytes of those addressed and asks for the next, or, in a packet, the
  answers of the requests behind it. `ServedIffLegalHolds` needs the same invariant, because
  what a fragment asks for depends on what the client has so far. `HeadersKnown` says that
  `LaterStrip` is the header the server sends, or that no structure is read in several
  fragments: with it the theorems hold of the repository's client too, and
  `struct_fragments` shows that they do not without.
* `WritesLandHolds`: `Spec => []WritesLand`, with no hypothesis. `WritingOK` says of a session
  that nobody has disturbed which of its bits are already as wanted: those of the requests
  behind it, of the fragments acknowledged, and of the words that its server has copied. No other
  session's step can take any back without ending that; the step of the session itself adds
  one word (`WordLands`), one fragment or one request, of which a later one overrides an
  earlier one.
* `OnlyAddressedHolds` and `BitsIndependentHolds`, action properties: `BytesApart => ...`.
  `ApartOK` says that a byte about to be stored whole is still as the buffer has it but for the
  bit that is set. `BytesApart` says that no transfer addresses another bit of such a byte, one
  that is not part of a whole word of its buffer; `BitsLost.cfg` shows what happens
  without. Where the compare-and-swap of a word is taken no hypothesis is needed.

What a transfer promises (`legal`, `own`, `want`, `expect`) is data in `MCTagMemory`, worked out
by hand. `Described` relates it to the paths and counts of the transfer as a whole, before it is cut
into fragments: the theorems are about every transfer of which it is true, and TLC evaluates
`TransfersAssumption` and, for `tag_memory`, both hypotheses on the 51 of the run. `Described`
takes the place that a path names from the walker itself; that the walker finds the
right place is what the literals of `MCTagMemory` check, and that no place is outside the buffer
is `WalkStaysInside`.

Each invariant has an `Init` lemma or step, a step lemma with one case per action, and a temporal
step, and was checked by TLC on the run's instance.

### What the proofs changed

* `TagMemory` had no assumption on its shapes, templates and transfers. That the buffers are as
  large as the constructors of `Tag` make them (`HasRoom`), and what a transfer says of itself
  (`Described`), were left to the literals of `MCTagMemory`; they are stated now. `ServedIffLegal`
  turned out to need the hypothesis that only `ReadsTile` was known to need: a client that
  counts header bytes as data goes on to ask for offsets of its own making.
* `ConnectionLifecycle` ended one close per step, which `device_one`, with its one connection,
  never contradicted. The proof failed at `CloseSnapshot`: while `close()` joins the producers it
  took, two Forward Closes may come to their ends, and both connections are closed when the
  join is over. `EndClose` now ends the closes of a set of connections.
* `TagValues`: `LoadRestores`, and the property about cut snapshots, held for one save only,
  because a second save left the result of an earlier load in place; `Save` now begins anew, and
  the run makes two saves. A snapshot cut right after the last record of the last program loads
  without an exception, since nothing remains to be read: the model had taken it for noticed.
  `CutsAreNoticed` is stated against the tags due, where its predecessor only looked at the last
  record.
* `TagValues` keeps the places that are listed and the number of records read, and `TagDatabase`
  the pages as sets, where both had sorted sequences.
* `SafetyStream`: the counts are equal only from initial values that are `FromZero`; what could be
  proved from all the others is `WrapsCountedAlike`.

## What is only model-checked

* Liveness under fairness: `SilentConnectionRemoved`, `CloseReturns`, `CloseEnds`, `CallsEnd`,
  `StopEnds`, `TransfersEnd`, `HandshakeCompletes`. The prover has no rule for `ENABLED`.
* The fairness half of `ImplementsLifecycle`: that every close that begins comes to its end.
* The type invariants of `TagDatabase`, `Sessions`, `SafetyPair` and `SafetyStream`, of which the
  proofs use what they need.
* That the walker and the layout find the *right* member and element, where the proofs show that
  they stay inside: checked on the shapes and transfers of `MCTagMemory`.

## Not modelled

* Byte layouts, the CRC polynomials and the safety network segment: stateless, and covered by
  the golden-vector tests.
* Assemblies, the object model and the constant objects (identity, TCP/IP interface, Ethernet
  link): tables that do not change, and buffers copied whole under one lock.
* Unconnected Send, discovery, List Identity, NOP: no state.
* `read_multiple` keeps the value of an answer with status 0x06, cut short, as if it were whole;
  the packets of `MCTagMemory` ask for what fits. Packets in packets, their depth limit and
  malformed offset tables are refused before any tag is touched.
* The propagation of an endpoint between the two safety connections of a pair, Propose and Apply
  TUNID, the state and mode of the supervisor.
* A socket whose close does not wake a blocked thread, and reordering of safety frames across a
  wrap: the code does nothing about either, so there is nothing to check but the loss itself.

## Plan

The components are modelled, and their safety properties proved, as far as the lists above say.
