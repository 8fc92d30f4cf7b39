# ESPCars: TLA+ models, model checking and proofs

ESPCars is a set of ESPHome components that put an ESP32 between the CAN and LIN buses of a car: it
forwards and patches CAN frames in the receive interrupt, logs every frame to an SD card, lets a
host collect the log over HTTP, shows the car in a portal, and talks to its control units as an
ISO-TP, UDS and CCP client. Scripts on a host collect, archive, decode and publish what the loggers
recorded, and an integration of Home Assistant relays to loggers that the host cannot reach. This
directory holds TLA+ models of all these, the TLC runs that check them on small instances, and
theorems, checked by TLAPS, that hold for every size of queue, pool and ring.

Paths below are relative to the repository's root. `PROJECT.json` gives the source lines each
definition models, the properties of each run, the mutant that shows each property can fail, the
findings, the hazards and the theorems.

## 1. The system

### Components, their state and their operations

| component | state | operations | models |
|---|---|---|---|
| can_gateway, transmit side of a port | slot pools, `OutstandingTracker`, mirrored bus state, back-off | forward, `inject()`, completion, state change, `loop_()` with eager reclaim and recovery | CanTxPort |
| can_gateway, receive and forward | route counters, taps, rules, `enabled` | `handle_rx_isr`; drain of the log tap | GatewayRoute |
| can_gateway, shared structures | `ObserveRing`, `SnapshotRing`, `PatchBanks`; statistics, `IdTimingTable`, `SubscribedSet` | push, pop, `read_latest`, seed/write/commit | ObserveRing, SnapshotRing, RulePatch |
| can_gateway, rules, signals, configuration | the YAML of a gateway; the banks of a rule | validate, generate, match, patch, decode a sensor, `set_patch`, `set_signal` | RuleConfig, GatewayConfig |
| isotp | `TxTransfer`, `RxTransfer`, pending flow control | send, frame in, timeout, stall | IsoTp |
| uds | poll table, in-flight slot, back-off, queue of on-demand requests, entities | loop pass, message, error, read, execute, raw, enable | UdsHub |
| uds catalog | a file | compile, write, read, find a name, decode | CatalogCompiler, CatalogFormat, UdsLog |
| ccp | the one command in flight, read, write and DAQ sequences | commands, answers, timeouts, DTO frames | Ccp |
| linbus | byte-wise frame state, schedule | break, byte, inter-byte timeout, master send, echo check | planned |
| sd_logger, writer and collection | card, chunk index, confirm queue, gap account | rotate, retain, serve, confirm, rename, fail, mount | ChunkCollection |
| sd_logger, clock and torn files | RTC word, clock samples, anchor and floor, statements in the files | boot decision, sync, marker, restatement, close, tail reading, sealing | LogClock |
| sd_logger, configuration, producers, recovery ladder | the YAML; the table of sources; the ladder's deadline and delay | validate, generate, name a record; arm, attempt, give up | LoggerConfig |
| sd_logger, file identity | a header line fixed at setup | capture, write | planned |
| sd_logger, card reset, diagnostics | a byte sequence; measurements | reset in band | planned |
| sd_logger, record format | a block buffer | format | in part, LoggerConfig |
| portal | samples, sequence number, action slots | validate, generate, sample, serve an envelope, accept and perform an action | PortalConfig, Portal, PortalSchema |
| host: read | running clock of a file | `check`, `extract` | Reader |
| host: collect | archive directory | fetch, resume, verify, fsync, rename, confirm | Collector; the collector in ChunkCollection |
| host: fleet, publish | locks, heartbeats, trigger file | supervise, publish a state, press | Fleet, Publish |
| host: decode | database tables and markers | load, sweep, decode diagnostics | Loader, UdsLog |
| Home Assistant relay | the lock around a device, requests; firmware on disk | relay, reconfigure, unload; upload, prune | Relay, FirmwareStore |
| other YAML schemas | none | validation | the CONSTANTS and ASSUMEs of the modules |
| HIL rig, repository checks | - | - | not modelled: test equipment |

### How they interact

* **Interrupt and loop.** TWAI interrupts of equal priority run to completion on one core; the
  ESPHome main loop can be interrupted between any two accesses outside a critical section. The
  receive interrupt forwards directly: it takes a slot of the destination port, fills it, runs the
  taps, patches and hands it to the driver.
* **Gateway and diagnostics.** isotp and ccp send with `inject()` of a gateway port, which may
  refuse, and receive through the observation ring, which may drop. uds sits above one isotp session
  and gets its messages and errors as callbacks.
* **Gateway and logger.** The log tap pushes into the same kind of ring, and counts a frame the full
  ring refuses; a task of sd_logger drains it for the writer.
* **Writer, main loop, time platforms.** The writer task reads the tails of the last files and
  decides what clock to believe when the card comes up; a time platform's callback can set the
  anchor from the main loop at any point of that, before it or after it.
* **Writer, httpd, host.** Writer task and httpd task share the chunk index under a spinlock; card
  operations run outside it. The host's collector lists, fetches, archives and confirms; a
  confirmation travels back through a bounded queue and ends as a rename on the card.
* **Fleet, collector, publisher, loader.** A timer starts the fleet, which starts one collector per
  device under that device's lock and writes a heartbeat; the publisher reads heartbeats and tables
  and tells Home Assistant; the loader derives the tables from the archive. They share files and
  exit codes, nothing else. The relay passes the collector's requests on.
* **Configuration and device.** The Python half of a component validates the YAML and generates
  tables; the C++ half trusts them. A catalog is compiled on the host and found by name on the
  device.
* **Portal.** The main loop samples entities and performs queued actions; the web server's task
  copies the samples under a mutex, writes the envelope from the copy, and queues actions.

### What is hard here

The list with lines is `PROJECT.json` "hazards". In short: an interrupt that falls between two
accesses of the loop; a copy of the bus state that is stale when used; a driver FIFO the code cannot
see and has to mirror; free-running counters at their wrap; a bus-off in which one frame is silently
lost; card operations outside the lock; power cuts between an operation on the card and its trace in
RAM; a drain with a time bound; an answer lost after it took effect; an answer that arrives after
its request was given up; user automations that run inside a completion and start the next command;
frames refused in the middle of a multi-frame sequence; a process killed between two operations on a
file system or two statements to a database; requests of one event loop interleaved at every await;
a value read from a configuration that was accepted for another reason than the one the device
relies on.

### What makes each component correct

* **Transmit side**: the tracker equals the driver's queue behind the orphans; a slot has one owner;
  a frame on the wire is the one handed over; nothing is handed over that the driver refuses; every
  frame ends as completed or failed; frames leave, across bus-offs.
* **Receive side**: one fate and one counter per frame; the taps of a port with a consumer see every
  frame as it was on the wire, forwarded or not; what the log tap loses is counted.
* **Shared structures**: ring = bounded FIFO; snapshot never torn, missed count exact; a frame sees
  one committed patch and no undeclared bit changes.
* **isotp**: what is delivered is a whole message; a refused frame makes no gap; one report per
  transfer, and there is one.
* **uds**: one request in flight, slot and scheduler agree; answers land in the entities of a group with
  their service and echo, and in another's only after a request was given up;
  an unavailable group shows no value; polling and publication never stop.
* **ccp**: a command is completed by its own answer; reads and writes are contiguous; a DAQ result
  is complete or failed; every sequence ends.
* **Chunks**: no chunk lost without a statement, none stated twice, no file pulled from under a
  transfer, index and card agree, everything is collected in the end.
* **Collector, loader, relay, fleet, publisher**: what is confirmed is archived byte for byte; what
  is marked loaded is in the tables; a cut answer is never passed on as whole; a refused credential
  is not tried again; every problem reaches the owner and none is invented.
* **Readers**: `check` and `extract` agree about a file, and with the writer.
* **Configuration**: what validation accepts does what its author wrote.
* **Catalog**: what was compiled is what the database says and what the device finds.
* **Portal**: every envelope fits the schema; a 204 hides no change; an accepted action is performed
  once.
* **Clock**: what a file calls `utc` is a reading, what it calls `est` a lower bound; a clock that
  slept says so until it is set; repairing a torn file does not change what it proves.

## 2. The modules and the code

### CanTxPort - components/can_gateway/gateway_core.h, can_gateway.cpp, can_gateway.h

The state is that of `GatewayPort`, its `SlotPool`s and its `OutstandingTracker`, plus three
variables for the TWAI driver and one for the bus, all external. Each interrupt handler is one
action (`RxForward`, `TxDone`, `StateChange` with bus-off and recovery among its disjuncts);
`loop_()` is split where it reads or writes what an interrupt shares (`pc` names the next step), and
`inject()` into acquiring, filling and submitting. The back-off's schedule is abstracted to "an
attempt becomes due"; error warning and error passive are one state, because this code tells them
apart nowhere.

### GatewayRoute - handle_rx_isr in full, before CanTxPort

Extends CanTxPort: the receive interrupt with each of its gates in the code's order, the taps, the
rules (a function on frames), the counters and the receive call that finds no frame. `consumers`
says which taps `start_()` gave the port: none, the log tap's ring, others (statistics, snapshot,
observation, hook), or both. `taps` is a history of the calls of `run_rx_taps_`; the log tap's ring is
`log` less the `popped` oldest records, and `LogTapPush` refuses the newest when it is full. The ring
is one value here, its accesses are ObserveRing's. The tap of completed transmissions
(`log_tap_tx`), which adds its own refusals to the same counter from another interrupt, is not modelled:
`dropped` is the receive interrupt's share. `RouteUsesPort`
says that every behaviour of the route is one of CanTxPort under the identity mapping, so what is
proved of the port holds behind the real interrupt.

### ObserveRing, BoundedFifo, SnapshotRing, RulePatch - gateway_core.h

One step per memory access of the consumer (ObserveRing), of both sides (SnapshotRing) and of the
loop (RulePatch). Counters wrap at `Wrap`, which is 2^32 in the code. BoundedFifo is the abstract
specification: a queue that takes a record or sheds it; the refinement mapping reads the ring's
content between head and tail. SnapshotRing represents a value by its ticket in two halves, so a
torn copy is visible. In RulePatch a byte is the set of its ones, and the CAN ID is one more cell.

### ChunkCollection - components/sd_logger/sd_logger.cpp, collection_policy.h, collection_server.cpp

Three actors: the writer task (program counter `wpc`), the httpd handler with the collector behind
it (`pull`), and the card with its failures. Every locked section and every card operation is a
step. A file is known by the number of its creation, so two files with the same sequence number are
different. `pending`, `owed`, `inflight`, `flushed` and `stated` are the stages through which the
loss of a chunk gets into a `#gap` line on the card.

### LogClock - components/sd_logger/clock_basis.h, torn_seal.h, sd_logger.cpp

What the device believes about UTC. The environment keeps the true time, the system clock, the RTC
word that survives resets and the reset reason; the device keeps what `setup()` sampled, the boot
decision, the best point, the floor and the anchor. `learn_clock_` is three steps (`LearnBegin`
samples, reads and seals; `LearnPublish` is its locked section; `LearnRecord` writes the RTC word),
because a sync of the main loop can fall between any two. A sync is `OnTimeSync` under its lock,
then `MarkSynced`. A file is the sequence of its `#utc`, `#clock`, stamped and `#close` lines. A
restart is a power-on, a deep-sleep wake (the slow clock is then off by a chosen error) or any other
reset, and leaves any prefix of the open file's lines. A line cut in the middle is read by neither
scanner and is not represented; since a clock is restated every 32 KiB and 64 KiB are read, a tail
is the whole file; of a closed file only the last statement and what follows is kept.

### IsoTp - components/isotp/isotp_core.h, isotp.cpp

One direction: a `TxTransfer`, a `RxTransfer` with the component's single pending flow control
frame, and a bus in each direction that keeps order and loses frames. `inject()` may refuse any
frame. A message is a number of frames; PCI bytes and addressing are left out, as is STmin, which
only delays an offer.

### UdsHub - components/uds/uds.cpp, uds_sched.h, uds_proto.h

The hub and the `GroupScheduler`: loop pass, message and error callbacks, operator actions, clock. A
stored time is the distance to it. The ECU answers late, in part, negatively, with "response
pending" or not at all, and answers to given-up requests arrive later. Values are abstracted to
valid or not. `Ident` is what `echo_len()` compares: the first DID of a 0x22, one byte of 0x1A, 0x21
or 0x19, nothing of other services; groups may have it in common. `gaveUp` is a history: the hub has
given up on a request, and each time it sent one since, the ECU still owed it an answer.

### Ccp - components/ccp/ccp.cpp, ccp_proto.h, ccp.h

The hub with the one command in flight, the chained reads and writes and the DAQ read, against an
ECU that executes in order and may lose the answer. `finish_()` runs the user's automation before
the continuation; handlers are therefore functions from a state to the set of states they may leave,
and an automation is any call the user may make.

### The host's tools

**Collector** (script/sdlog_collect.py) is one pass over one device and the directory it leaves
behind. A file of a card is a sequence of cells `<<file, i>>`, so bytes of two files are told apart;
cell 1 stands for the identity window at the head and the last cell held locally for the seam under
the resume point. Each HTTP request and each operation on a file is a step; between any two the card
may be exchanged or written on, a request may fail, or the process may die. The device's per-device
lock, which the fleet holds, is why one process is enough. `misled` and `exposed` are histories:
names whose torn copy was measured by the index, and files whose card was put in between the last
proof of the copy and the confirm.

**Fleet** (script/sdlog_fleet.py) sees a collector as its exit status; it takes locks, writes
heartbeats and tells the push monitor. **Publish** (script/sdlog_publish.py) sees a fleet as a
heartbeat file that is replaced atomically. It reads its inputs one after the other while all of
them change; `Picks` names the conditions a run watches, `watch` follows one through a cycle.

**Loader** (script/sdlog_decode.py) is `run` for one device. Every statement to the database may
fail, with or without effect, and the process may die between any two. Two archive files may hold
the same bytes and share a key.

**Reader** (script/sdlog.py) feeds one growing file to `parse_file` and to `StreamReader`, line by
line, and keeps the writer's true times beside them. A line is what a reader can tell of it.
**UdsLog** (script/sdlog_uds.py) puts diagnostic answers together again from a log that may miss
frames.

**HostCommon** declares the None these modules share.

### Relay, FirmwareStore - custom_components/sdlog_relay

In Relay a request is a task of one event loop; every await is the end of a step, and the lock of a
device is asyncio's, with its queue of waiters. In FirmwareStore an upload is its three blocking
steps in a thread of the executor. `raced` is a history: two uploads overlapped.

### Catalogs: CatalogCompiler, CatalogFormat - script/uds_catalog.py, components/uds/catalog.py

CatalogCompiler collapses numbered fields into arrays, names them, and turns conversion rows into
scales; an absent number is -1 and a bound above `IMax` does not fit the format. CatalogFormat lays
a catalog out as tables, pools, offsets and a name index and reads one back that may be damaged;
strings are values, the CRC is left out because a damaged blob is one whose CRC is right again.

### Configurations: RuleConfig, GatewayConfig, LoggerConfig

Each holds the validation of a component's YAML, the numbers generated from it, and what the device
computes with them. RuleConfig is one filter rule (identifier and mask, payload masks, fence of
`set_signal`); a mask is a set of cells `<<byte, bit>>`. GatewayConfig adds ports, routes, senders,
sensors and the actions on a running rule; `Published` decodes one frame, without publish-on-change
or throttling. LoggerConfig adds the names a record reads under and the ladder of recovery_policy.h,
over the wrap of `millis()`. Binary has what the masks and shifts of the code compute: powers of
two, a bit of a value, the value put together from its bits.

### Portal: PortalConfig, Portal, PortalSchema - components/portal, script/portal_schema.py

PortalConfig is the validation and the generated tables of a portal, PortalSchema the validator of
the wire format as the set of violation codes it reports, and Portal the device between them: main
loop, web server task and client interleaved at the mutex. An entity's state is an input of the pass
that samples it. The sequence number is kept as far as a client can tell: whether the body it holds
is current. There are no sessions and no login in this code.

### MC modules

`MCGateway`, `MCLogger`, `MCDiagnostics`, `MCHost`, `MCServices` and `MCConfig` join components into
one run each: a variable fixed in the initial state (`part`, `aspect`, `client`, `tool`, `on`,
`task`) says which one moves, the others stutter, so the state space is the sum of the parts and
every property is checked in the states of its own part. `MCUds` gives the function-valued constants
of UdsHub. `MCPortal` enumerates portals: seven families of shapes, each member one configuration,
so that every optional part occurs with those it interacts with.

## 3. The runs

| run | result | distinct states | what it shows |
|---|---|---|---|
| port | passes | 860,470 | every interleaving of forwarding, injecting, completing, bus-off and recovery keeps one owner per slot, the frame that was handed over and no refused hand-off; owned frames leave on a healthy bus |
| port_mute | **violated** | | finding 1 |
| gateway | passes | 1,223,674 | one fate per frame, the log tap complete or its loss counted, the interrupt is a legal user of CanTxPort; ring = FIFO across the wrap, snapshot exact, whole commits that change their own bits only |
| logger | passes | 2,439,901 | no silent or doubled loss, no file pulled from a transfer, index equals card; the clock's labels are true |
| chunk_live | passes | 7,252 | every closed chunk is collected or deleted for space |
| diagnostics | passes | 277,302 | integrity and termination of ISO-TP transfers and CCP sequences; slot, entities, polling and publication of the UDS client |
| host | passes | 3,067,082 | collector, fleet, publisher, firmware store and readers, each over its own failures |
| services | passes | 278,944 | relay and loader are honest; publisher, relay and loader get on |
| decode_revert | **violated** | | finding 2 |
| config | passes | 1,742,344 | catalogs survive compiling, writing and reading; accepted configurations work; logged answers are whole |
| set_patch | **violated** | | finding 3 |
| portal | passes | 170,882 | accepted configurations are served in valid envelopes; 204s and actions are honest |

The properties by run:

* **port**: `SlotsHaveOneOwner`, `WireCarriesWhatWasHanded`, `DriverNeverRefuses`, and
  `OwnedFramesLeave` (liveness). Type correctness, the mirror and the account are proved instead
  (section 4).
* **gateway**: `EveryFrameHasOneFate`; `RouteUsesPort` (refinement); `RefinesFifo` (refinement);
  `SnapshotIsExact`; `FrameSeesOneCommit`, `CommitChangesItsJob` (action property).
* **logger**: `NoSilentLoss`, `ServedFileStays`, `IndexMatchesCard`; `ClockIsHonest`,
  `SealKeepsFloor` (action property).
* **chunk_live**: `EveryChunkIsCollected` (liveness).
* **diagnostics**: `DeliveredIsWhole`; `MemoryIsWhole`; `SlotsAgree`, `ValuesMatchTheirEcho` (action
  property); `ClientsGetOn`, the conjunction of the liveness properties `TransferEnds`, `ReadsEnd`,
  `PolledForever` and `DirtyIsPublished`.
* **host**: `ConfirmedIsHeld`, `StatusIsHonest`, `NeverReplaced` (action property) of the collector;
  `NotAskedAgain`, `UpIsEarned` (action property) of the fleet; `ProblemIsHonest` (action property)
  of the publisher; `ManifestServable` of the firmware; `ReadersAgree`.
* **services**: `AnswersAreHonest` of the relay, `MarkedIsLoaded` of the loader, and
  `ServicesGetOn`, the conjunction of `ErrorReachesHome`, `PressIsServed`, `RequestsEnd` and
  `EveryFileIsLoaded` (liveness).
* **config**: `RoundTrip`, `GroupIsWhole`, `AcceptedConfigWorks`, `HeldIsOneAnswer`.
* **portal**: `EnvelopeIsValid`, `NotModifiedIsHonest`, `AcceptedIsPerformedOnce`,
  `BeforeIsAccepted`.

A property that carries the type invariant of its module says so in its definition. Each has a
mutant of the code in `PROJECT.json` under which TLC finds it violated.

### Bounds, and why they are enough

* **port**: two forward slots and one inject slot, depth two, two frames, four hand-offs. The
  tracker can be full, hold an orphan before a live slot and be reclaimed from while the other pool
  injects; four hand-offs let a slot be reused after each of these. The theorems remove the bound
  for the safety properties.
* **gateway, route**: one slot per pool, depth one, two frames, one dropped by a rule and one
  rewritten to the like of it, so that taps fed with the result would be seen. A port with a log tap
  of one entry takes two frames, one without it or without any tap one: every gate is reached with
  the frame that reaches it first and second, including the pool exhausted by an injected frame, and the
  second frame finds the ring full or drained.
* **gateway, ring**: depth 4, counters modulo 8, so they wrap twice per filled ring; the theorem
  removes it. **snapshot**: two entries and six pushes against three attempts: the writer laps the
  reader within one attempt and exhausts all of them. **patch**: one payload byte, declared in part,
  and the ID, of two bits each; enough for a commit to be half-written and for every combination of
  declared and undeclared bits.
* **logger, chunks**: three sequence numbers, four files, an index of two entries and a confirm
  queue of one (so index and queue overflow, and numbers are given out again), two faults and one
  refused rename: two failures within one job, and a failure during recovery from the first. `chunk_live` is smaller (two sequence
  numbers, three files), with the drain timeout allowed and an index that holds every file, because
  each strong-fairness condition multiplies the tableau. An index that is full at a mount leaves a
  file out until a later mount, and the property excepts that file; it was run once with an index of
  two entries (7,112 states), where this happens.
* **logger, clock**: three instants, three restarts, two files of two lines beyond their headers,
  two tails read; a sleep puts the clock two ticks behind (more than the slack of one) or one ahead.
  Wake, reset and wake again fit, as do a sync, a torn file, its repair and the boot after that.
* **diagnostics, ISO-TP and CCP**: messages of 5, 3, 1 and 6 frames with a block of 2, numbers
  modulo 4 and a capacity of 5: several blocks, a wrapped number, a single frame and a message too
  long. Two chunks per read and write, two user calls (three were run once: 1.19 million states), a
  counter modulo 4: a second sequence starts inside the first.
* **diagnostics, UDS**: four groups of one service, one of which cannot be assembled and one a raw
  request that echoes what the first group does, three poll tables (one empty), one binding on the
  first group and two on the second, of which an answer may cover one, limits of one or two so that
  back-off, failure count, queue and pending limit are all reached; two groups polled without an operator, one polled with one request
  on demand and the switch toggled at will, none polled with two requests.
* **host, collector**: two cards that use the same two names, with files that are whole, torn and
  defective; two tries per request. A pass can lose every answer once, resume over a partial of the
  other card, and meet each defect. **fleet**: two runs that overlap, two tokens, one device.
  **firmware**: four uploads, the last with the image of the first again, two at a time: prune and
  re-upload. **reader**: four lines, any of them garbled, stamps modulo 4: wrap, correction and gap
  each with a record on both sides.
* **services**: three requests on one logger, a body of one block beyond its header, so a queue of
  two forms behind the lock; four files, two with equal bytes, one that breaks off and one refused,
  over three contents of the rules and two deaths: a death in each of two runs with an edit between
  them.
* **config, catalogs**: two groups, two fields, all names colliding in the hash, so every name is
  found past another; up to four fields in four positions and rows of three, with a bound inside, at
  and beyond what the format holds, and dumps within and beyond their limit. No name is empty and no
  field without a width in this run; the theorems cover those. **rules**: two bytes of two bits with two entries: every overlap
  of two masks, a field over the byte boundary, either byte order. **node**: two or three ports on
  variants with one, two and three controllers, four parts. **sensor**: every field of one and two
  bytes against all payloads. **names**: labels that are the defaults of others, tags modulo 3.
  **card**: seven ladders, a clock modulo 16 that wraps within one ladder. **log**: two questions,
  answers of up to three frames, sequence numbers modulo 2: a hole can span a full turn.
* **portal**: readings 0, 1, 2 and NaN against limits 0 and 1: both sides, both boundaries, no
  reading. At most two nodes with two values: a parent absent with its child present, two limits
  that disagree. Each request body is of one kind of JSON scalar, missing, too large or no JSON.

History variables used in properties and guards only for bounding are marked as such where they are
declared.

### Fairness

* **CanTxPort**: the loop keeps running, which ESPHome's watchdog enforces; the driver completes a
  mounted frame while the bus is healthy, and finishes an accepted recovery. `OwnedFramesLeave`
  speaks of a bus that stays healthy.
* **ChunkCollection**: weak fairness on the writer's steps (a task in an endless loop); strong
  fairness on serving, confirming and archiving a given chunk, because the collector is started
  again by a timer (`deploy/`) and retries, and its requests do not fail for ever. Faults have none.
* **IsoTp**: both loops run, the bus delivers or loses what it carries, time passes. Nothing is
  assumed of ports that refuse or of peers that stay silent: that is what the timeouts are for.
* **UdsHub**: infinitely many loop passes and clock ticks, and isotp ends each transfer (shown in
  IsoTp). Nothing is assumed of the ECU.
* **Ccp**: the loop runs and the clock moves.
* **Publish**: the process takes its steps; reading the free space succeeds again and again (strong
  fairness on that step); systemd starts a triggered service and a service ends.
* **Relay**: the event loop runs every ready task. The timeouts of the upstream connection, of a
  read and of the wait for the lock are steps of the request, so nothing is assumed of loggers or
  clients.
* **Loader**: a timer starts the next run, and a run takes its steps; deaths are bounded. Edits end
  by themselves, because without `Reverts` the content of the rules only moves on.

Deadlock is checked in `port`, `gateway` and `diagnostics`. In the other runs a behaviour may end:
files, faults, restarts, runs and time are bounded, a configuration is complete, and the collector
has nothing left to fetch.

## 4. What is proved

All proofs are for every value of the constants that satisfies the module's ASSUME.

**GatewayProofs.** The transmit side, from `PoolAssumption` (disjoint finite pools, queue depth positive and at most
the number of slots), `TxPortSafety: Spec => []SafetyInv`. None of the parts is inductive alone.
`TrackerMirrorsDriver` says that the driver's queue is the tail of the tracker; it survives the
loop's reclaim only if the head is an orphan, which `ReclaimedHeadIsOrphan` and `LoopLocals` give:
while the loop is between reading bus-off and reclaiming, either the state is still bus-off, when
nothing is mounted and the head of the tracker has left the driver, or the edge has been rearmed.
`SlotsHaveOneOwner` is needed for a completed slot to occur once in the tracker;
`WireCarriesWhatWasHanded` needs it in turn, because only an unowned slot is written.
`DriverNeverRefuses` follows from the occupancy gate and the mirror; `EveryFrameAccounted` is a
count over the tracker. There is one lemma per action, and corollaries `MirrorTheorem`,
`OwnershipTheorem`, `WireTheorem`, `GateTheorem`, `AccountTheorem` for the properties.

The route in front of it: `RouteRefinesPort` goes through the gates of the interrupt handler one by
one: every step of the route is a step of CanTxPort or leaves the port alone. So
`RouteKeepsPortSafe`: `SafetyInv` holds behind the real interrupt. `FateTheorem` shows
`EveryFrameHasOneFate` inductive together with the types, for any set of consumers and any depth of
the ring: each sequence lies `Within` the one it is taken from, and a step extends both or the longer.

**SharedProofs.** ObserveRing, under the hypothesis `DepthDividesWrap` (a power of two in the code's
terms): `RingInv` states that the record at counter `head + k` is the k-th accepted one for all k
below the occupancy, with the consumer's local copy of head and record tied to its program counter.
`RingKeepsOrder` gives `HoldsAccepted` and `CopyIsOldest`; `RingRefinesFifo` shows that initial
states and steps map to those of BoundedFifo. The hypothesis is necessary: with `Depth = 3` TLC
finds `HoldsAccepted` violated (section 5). SnapshotRing, for any size, number of attempts and number
of pushes that overtake a copy: `SnapInv` says that an even stamp vouches for both halves of its entry, that
stamps only grow, and that what the reader has copied is right if the stamp it read first still
stands; that is what its second look at the stamp finds out (`SnapshotTheorem`). RulePatch:
`PatchInv` says what the inactive bank holds at each step of the loop relative
to the declared bits; `PatchNeverTorn` gives that the interrupt sees the last commit as a whole, and
that bits the rule does not declare are as received. `CommitTheorem` is the action property on
commits: each changes the fields of its own job and nothing else.

**ServicesProofs.** Relay: `QueueInv` describes asyncio's lock (who holds it, who was woken, who
waits), for any set of requests; `RelayTheorem` follows with
the accounts of bytes. FirmwareStore: `FirmwareInv` says what each of the three steps of an upload
may rely on while no other upload runs. Publish: `CycleInv` and `WatchInv` relate what a cycle has
read so far to what held since it began; `PublishTheorem` is the action property. Loader:
`MarkerInv`, `RunInv`, `ProgressInv` and `RowsInv` (a key of which no file is pending has its rows);
`LoaderTheorem` has the hypothesis `~Reverts`, and finding 2 is what happens without it. Equal keys
are equal bytes, so two files with one key are of one kind (in `LoaderAssumption`).

**HostProofs.** Collector: `PartInv` (a partial is a prefix of one file of its name), `StoreInv`
(an archived file is one whole file, or one torn copy with its sidecar, except where the index
misled it), `UplInv`, and for the collector's own memory what each program counter implies
(`WorkInv`, `ListInv`). From these `HeldTheorem`, `StatusTheorem` and `AppendOnlyTheorem`. The
assumption that there is one collector process is the fleet's lock on the device. Fleet:
`DeviceInv` follows one device through overlapping runs, its token file, its heartbeat and the
threads that hold or wait for its lock; it gives `FleetTheorem` and the action property `UpTheorem`.
UdsLog: `UdsInv` relates the frames still to go out (`CarShape`: numbered, all of one answer to the
current request) to what the reader holds. `HeldIsOne` and `WholeIsHeld` say that with every first frame
logged the reader never holds more of an answer than was logged, and all of it while nothing of it is
lost; so a message is completed exactly when the history says that the answer was whole.
`RequestIsAsked` ties the request remembered to the one the ECU works on, and `FaultsAreAnswered` carries the
replay of the fault events from one answer to the next: an answer raises one event for each code it
changes, after all the others. `UdsLogTheorem` follows. It assumes finitely many codes and that an absent
value is no request, set of codes or list of frames; sequence numbers may wrap at any modulus.
Reader: `ParseStep` and `StreamStep` say field by field what one line does to each reader, and
`SoundLine` what may be known of a line the card may have garbled: it tells the truth or shows itself
bad. `ReaderInv` has a part that holds whatever was garbled (`RepTrue`, `StrTrue`: every clock statement
kept is one the writer made, the one in use the latest of the best basis, every projected time off by
nothing and every estimate by a bound), and one that holds while no line was bad (`InStep`: both readers
stand at the writer's last stamp), without which a relative stamp could mean anything. `ReaderTheorem`
follows. Its assumption is that an absent value is no number, label or statement; the writer's clock and
the length of a file are bounded only by constants of any value.

**LoggerProofs.** ChunkCollection, under `~DrainTimesOut`: `ChunkInv` is the conjunction of nine
parts. `FileInv` and `SeqInv` keep numbers apart from files; `IndexInv` says what each state of the
index promises of the card for each step of the writer; `PullInv` ties a transfer to the entry it
marked; `KeptInv` says that a file a confirm can reach, in the queue, in the hands of the writer or
of a collector that retries, is held by the collector, and is the part without which a rename could
not be trusted; `GapInv` follows a loss through its five stages; `TrackInv` accounts for every file
of the card while the index has refused none. `ChunkLossTheorem`, `ServedTheorem` and `IndexTheorem`
are its consequences. The hypothesis is the one place where the code gives the promise up: with
`DrainTimesOut` TLC finds `ServedFileStays` violated (section 5). LogClock: `LogsInv` (what a file
states is true of the instant it was written), `PointsInv` (so is what a boot read from a file or
the RTC word), `SysInv` and `LabelInv` (what each label promises while a step of `learn_clock_` is
under way) give `ClockTheorem`. `SealTheorem` is the action property: the last statement of a torn
file's tail is the same before and after the repair, whichever step fails. Its assumptions are
positive bounds and that a clock that lost its time reads below `MinEpoch`.

**DiagnosticsProofs.** UdsHub: `HubInv` is `Core` (the hub's types; the overdue groups form one line,
which is what makes "the group due longest" a choice that exists; a silent or suspended group that
has not answered since shows no value) and `Flight` (the slot is taken exactly while a polled
request is in flight, for the group of that request, which is not suspended). Handlers are operators
on the hub's record, so each has one lemma that steps cite. `AgreeTheorem` follows for any catalog.
`ValuesTheorem` assumes nothing of what requests echo. Its first half, service and echo of an answer
that makes a value valid are those of the value's group, is what `classify_response` checks. Groups
need not differ in them: two lists of DIDs with one first DID, two 0x19 requests of one sub-function,
any two of another service. A late answer to the one then does land in the entities of the other; the
second half says when at the earliest. While the hub has given up on nothing, `Alone` holds: the ECU
works on the request in flight only, so the answer is to that request (`OursIsFresh`). IsoTp: the unconditional part of `IsoInv` is types,
numbering and one report per transfer. What is delivered is whole for one of two reasons, and
neither implies the other: without loss every frame follows the one before it, from the receiver's
buffer over the bus to the sender (`Chain`); in an exchange in which no transfer began into what
another left behind, the positions on the bus only rise, so that a full buffer has skipped none
(`Order`). `DeliveryTheorem` needs no relation between the block size and the range of the sequence
numbers. Ccp: `CcpInv` is a predicate of the state as one value, because a handler may leave several
states. `Numbered`: a command waiting in the ECU has the counter of as many commands ago as it is
old, so only the command in flight can have its counter as long as the ECU forgets within one round
of the counter (`CtrRange > EcuBound`). `Reading` and `Writing`: what has been
transferred so far is the first part of the range and the next answer continues it. `Sampling`: the
setup was sent step by step and a read taken down without having failed is a good one. Inside
`finish_()` the invariant does not suffice: `Pending` says what stays true of the completed command
while the automation runs, each call of an automation keeps it (`CallInv`), and it is what the
continuation starts from (`ContinueInv`). `MemoryTheorem` follows.

**PortalProofs.** `PortalAssumption` is what the schemas of a node, a value and an action let through
before the portal's own rules (nothing is named by an empty string, a parent comes before its
children, decimals are at most 6, a select has options and a number its bounds in order).
`ProviderAssumption` is about components that register with the portal: the evidence a provider
gives is of the kind its codes need. Both are evaluated in the run. `OwedInv`: the
action that the loop performs outside the mutex still has its slot taken, so that no post can replace
the value in between; `ActionTheorem` follows. `HonestInv`: a body of the current seq, in a client's
hands or being written from its copy, is of samples that are `Alike` the ones now: same readings and
same states of the verdicts, whatever their ages. That this is enough is `SameView`: what is shown is
a function of the table and the copy (`View`, `ShownIsView`) in which ages count through the verdicts
only, and the state of a verdict and the reading determine the rest of it (`SameVerdict`).
`NotModifiedTheorem` follows, also for fingerprints taken before the first sample. `BeforeTheorem`
needs only that the table is the one generated from an accepted configuration.

`EnvelopeTheorem: Spec => []EnvelopeIsValid`, for any tree, entities, requests and path: the validator
in PortalSchema finds nothing in what Portal writes but the codes `Excused` lists, each only in its
case. `FitInv` is what the device keeps: a sample has an age, an action's value is of its control, a
result has a code of its state and, unless the code is `wrong_type`, a value of its control; the copy
a body is written from fits likewise. That needs a slot which is pending to have no `wrong_type`:
`run_actions_` turns its result to `applied` and keeps the value. The rest (`EnvelopePasses`) is about
one envelope. Of a node's samples, `StateIs`, `VerdictIs` and `WorstFacts` say what a state stands
for; from them `WhyWritten`, `V15Written`, `ValueWritten`, `SeriesWritten` and `ActionWritten` discharge the
rules of a node's parts, and `NodeWritten` puts them together. Of the list, a subtree in order is a
tree in which each id extends its parent's and no two below the root agree (`IdsDiffer`, `ServedSubtrees`,
`ListIsHierarchical`); being inside a mount in the list is being inside it in the table (`AboveIs`),
so provenance lies where `is_skeleton_node` puts it (`PlacementHolds`). Ids, subtrees, settled states and
nearest roles are defined by recursion over parents; `ParentRecursion` proves that such a function
exists and follows its equation. The theorem shows that the list of exceptions is complete.

**ConfigProofs.** `AcceptedConfigurationWorks: ConfigSpec => []AcceptedConfigWorks`, for any chips,
ports, widths of a byte and of a payload, rules, sensors, producers and recovery blocks. The
assumptions are what the schemas let through: a byte and a payload have at least one bit, a decode
field has a place and a width, depths and limits are naturals, every delay is below half a turn of
the clock and so is the longest absence of the writer. `ConfigInv` has three parts.
`LadderInv`: `RungOk` says that the time waited is what the clock shows against the deadline, whatever
wraps lie between, and that the delay is the first one doubled once per attempt, up to its limit;
with `BudgetOk` and `BusyOk`, what the last attempt leaves to the next. `LadderNeverStepsBack` is not
inductive without them, and `LostIsRetried` follows. `RunningInv`: of each cell of the payload,
whether the running rule lets it through and the bit it sends (`CellOk`); a byte's value is stored
outside its own mask, so what a patch says of a cell holds only while no signal shares its byte, and
`Mixed` (finding 3) is what the proof has to except. `RuleWorks` rests on `CellsAreDistinct`: no two
bits of a signal, Intel or Motorola, lie in one cell, by arithmetic on quotients and remainders; so
entries that the validation keeps apart write each cell at most once (`WrittenAsWanted`). `NodeTypeOK`
gives `NodeIsReady` (the slots of the pool suffice for every sender) and `SensorsRead`: a sensor looks
where a signal of its place lies, and the bits found there sum up to the value stamped
(`ValueOfBits`). `ProducersTypeOK` gives `NamesAreKept`: as long as the table's count does not wrap, it
holds every line, and a tag finds its own line in the header. `AcceptedGatewayRuns` states the same
of the gateway alone. Powers of two and the value of a set of bits are recursive functions: the
module proves induction over the naturals from the well-foundedness of `<` (`Induction`) and that a
function defined by recursion exists (`RecursionOverNat`), from which their equations follow
(`Pow2Def`, `ValueOfDef`).

`CompiledGroupsAreWhole: ConfigSpec => []GroupIsWhole`, for any database whose fields have a position
and a width and whose rows have bounds of 32 bits. The specification's part is short: the database is
well typed. The rest is about what the compiler computes, by induction over the naturals on the
recursive functions of the model. `ConversionIsKept`: after every prefix of the rows, the rows kept
and the rows read either both hold the raw value nowhere or hold it first in the same row (`Agree`).
`FieldsAreKept`: the records found among the first i fields take those fields one after the other and
leave none out (`Parted`), so each record begins where the one before it ends (`RecordsMeet`), and
the pieces put together are the list (`FlattenIs`); element k of an array lies k - 1 strides behind
the first because every field of a run continues it (`ArrayLies`). `NamesCollideForTwins` is a case
analysis over the three rules that name a record.

`CatalogSurvives: ConfigSpec => []RoundTrip`, for catalogs of any size, any hash and any limits of
the format; the names are finitely many strings, hashes and bounds are integers, everything else a
natural. `CatalogInv` says that the catalog and the blob hold records of their types, and that a
blob nobody damaged is `Written` from a catalog within the limits: each table has its length and
each record its contents. The rest follows from `Written`. Concatenations are taken apart by
`Pieces`: part i of a flattened sequence lies in full behind `Begin` of it (`FlattenPieces`), and two
sequences whose parts have the same lengths have the same places. Interning loses nothing
(`DistinctIs`), so a string, a request or a run of rows is found where its record points
(`SharedIs`, `PoolAt`). The index is sorted and has one entry per target (`OrderedIs`, `IndexIs`);
order among equal hashes is the kind's, the record's and the string's. From these,
`WrittenIsAccepted`, `WrittenIsRead` (the aliases of a group are the index entries that are not its
name) and `WrittenIsFound`: the first entry of the hash that agrees in name and kind is the record
`Catalog.resolve` names. `AcceptedIsWhole` needs nothing of the writer: whatever a blob is,
acceptance puts every run inside its table.

**Only model-checked.** Liveness properties (fairness is outside the prover's reach). Every safety
property of the passing runs is a theorem.

## 5. Findings

1. **A port can stay mute (`port_mute`).** `loop_()` rearms the eager reclaim only on a bus-off edge
   it sees. A recovery and a second bus-off between two passes orphan another slot that nothing
   reclaims; once orphans fill the tracker, the occupancy gate refuses every frame. The comment at
   can_gateway.cpp:384 says the reclaim prevents just that. With the default depth it takes as many
   unlucky pairs as the queue is deep.
2. **A chunk without rows that counts as loaded (`decode_revert`).** `load_file()` deletes a chunk's
   rows before it decodes them again and leaves the marker of the older rules in place. When the run
   dies there and the rules go back to their older content, `pending_files()` takes that marker
   (script/sdlog_decode.py:797) and no later run does the chunk, against the docstring at :19-23.
   Where the rules only move on, `MarkedIsLoaded` and `EveryFileIsLoaded` hold.
3. **`set_patch` over a signal (`set_patch`).** A rule may stamp a signal into a byte that
   `modify.data` declares too. `set_byte()` stores every bit outside the byte's AND mask, which
   lacks the bits of both entries, so a `set_patch` of the byte also writes the signal's bits,
   against the comment at can_gateway.h:85-88 and docs/can_gateway-user-guide.md:601.
   `ActionsKeepTheirBits` states what holds: bits of such a mixed byte excepted, every action keeps
   to its entry.

### Where the code and its documents differ

No run checks these; each names the definition with which it can be reproduced.

* **Ring depth** (gateway_core.h:765): `tail % N` jumps when the 32-bit counter wraps unless N
  divides 2^32, and an unread record is overwritten, against the comment at gateway_core.h:763.
  `observe_queue_depth` accepts any value (can_gateway/__init__.py:687);
  docs/can_gateway-user-guide.md:82 uses 48. ObserveRing with `Depth = 3`, `HoldsAccepted`.
* **A number that is given out twice** (sd_logger.cpp:1453): `scan_next_seq_` continues after the
  highest number on the card. If the youngest chunks were deleted or renamed away, their numbers
  come back while confirms of them are still queued (`confirm_q_` outlives an unmount) or retried by
  a collector that never heard the answer; such a confirm retires the new file, which nobody
  fetched. The writer guards the case of the file that is open (sd_logger.cpp:3258) but not that of
  one closed since, against sd_logger.cpp:1495, which calls (device, seq) the key the puller dedups
  on. ChunkCollection with `MaxSeq = 2`, `MaxFiles = 4`, `MaxChunks = 2` and `Kept == archive`:
  `NoSilentLoss`. The property excepts exactly these files (`history.reborn`): created while a
  confirm of their number was under way.
* **Late end of a transfer** (sd_logger.cpp:3652): if the drain of `unmount_card_` times out, the
  abandoned handler's `collection_end_serve()` clears the flag of the rebuilt index, and a new
  transfer can start on a chunk being renamed or deleted, against sd_logger.cpp:903. ChunkCollection
  with `DrainTimesOut = TRUE`, `ServedFileStays`.
* **A sleep that is forgotten** (sd_logger.cpp:2117): `learn_clock_` notes that the clock slept only
  after a successful mount. If the card does not come up after a wake and a warm reset follows, the
  next boot labels the slept clock `utc`/`warm`, against C1 of docs/sd_logger-clock-spec.md:188.
  LogClock, `WarmResetKeepsDrift`; `ClockIsHonest` excepts this history (`past.forgot`).
* **A silent group that shows a value** (uds_sched.h:236): an on-demand answer fills an unavailable
  group without clearing the flag, and the failures that follow do not cross the threshold again,
  against docs/uds-user-guide.md:229. UdsHub, `SilentGroupReadsUnavailable`.
* **Dropped conversion rows** (uds_catalog.py:165-173): dropping a row whose bounds do not fit is
  lossless only if no other row covers its values. CatalogCompiler, `DroppingIsLossless`; and an
  average stored before its cells is taken for an element, against
  docs/uds-catalog-format.md:262-266, `AverageIsNoElement`.
* **Firmware** (custom_components/sdlog_relay): nothing in `put()` keeps two uploads apart; the
  prune of one removes what the other is about to name. FirmwareStore, `ManifestServable` without
  `~raced`.
* **The portal's envelope** (portal/__init__.py:166, portal_core.h:1519): "always valid" fails for
  the cases `Excused` in Portal lists: a node declared absent or unknown for `limit`,
  `not_requested` or `switched_off`; two values of one key on a node; an incomplete identity next to
  `owns` or `board`; nested `owns`; a segment `car` at the top; a number action whose step prints as
  0; the value of a refused action of the wrong type; and the body served before the first sample,
  whose keys and labels are empty (`wrong_type`, `empty_label`).
  `EveryEnvelopeIsValid` states the claim, `EnvelopeTheorem` that the list is complete. The first fingerprint does not advance the sequence
  number, so a body of that moment is never refreshed until something changes. Related sentences:
  docs/portal-spec.md:262, :391, :552, :572.
* **A parked server** (sd_logger.cpp:665): `enabled: false` with `serve` opens the port, against
  sd_logger/__init__.py:690 and tests/sd_logger/test_schema.py:1090. LoggerConfig, `ParkedIsClosed`.

### Observations that contradict no statement of the repository

* `bus_off` as a sensor stays true when recovery passes through warning or passive first.
* A frame refused at the occupancy gate is logged without the SHED flag.
* clock: after a sleep clock that ran ahead wrote its time down, a later floor can exceed the true
  time (`ClockIsHonest` excepts it; the clock spec concedes that a future-dated clock poisons
  floors); a cut between a `#utc` line and its `#clock` line moves the sealed file's floor forward
  by the time to its last stamp; `set_utc_anchor` called from a lambda marks the RTC word synced
  although nobody set the system clock.
* recovery: a retry's delay counts from the start of the attempt, not from its end; the last
  doubling before an odd maximum jumps to it one millisecond early.
* reader: a label equal to another source's token merges the two (script/sdlog.py:446); a 256th
  source takes the number of the first (log_format.h:219).
* isotp: a flow control frame left over from an earlier transfer can, with a lost first frame,
  combine two messages (`DeliveredIsWhole` excludes a crossed and lossy exchange); WAIT frames are
  not counted; a local overflow is not reported to `on_error`.
* uds: a late answer to a given-up request fills the entities of the request in flight when both
  share service and echo (uds_proto.h:102 concedes it); a negative response carries no identifier, so a late one is charged to whichever request of
  the same service is in flight; polling disabled for more than 2^31 ms makes groups look not yet
  due.
* ccp: a continuation that the port refuses leaves `read_remaining_` set, and every later
  `read_memory` is refused; a write begun by an `on_response` automation inside a write loses its
  first chunk; a DAQ teardown is skipped when a user command is in flight. The properties state
  these exceptions.

## 6. Not modelled, and why

* **linbus, file identity, the in-band card reset and the measurements around a write**: planned;
  what a reset achieves is nondeterministic in LoggerConfig, and in ChunkCollection a card may come
  back at any time, which is weaker than the ladder that decides when, so its properties do not
  depend on it.
* **The device's reader and decoder of a catalog (C++)**: CatalogFormat follows the Python half of
  the format; the two share the layout, not the code.
* **Validators of single values**: spelling, pins, sizes, depths and ranges of the YAML have no
  state and no interplay. In the portal, links between nodes, peers and the ages of mounts are left
  out of configuration and schema.
* **Bytes**: PCI bytes, the E2E polynomial, the lines of a log, JSON and HTTP are represented by
  what they carry.
* **YAML schemas of uds, isotp, ccp and linbus, script/dbc2yaml.py**: they appear as constants and
  their assumptions.
* **Statistics counters, IdTimingTable, SubscribedSet, cyclic periods** of the gateway: planned.
* **Database columns, summaries, MQTT discovery, the portal's page**: presentation.
* **HIL rig and repository checks**: test equipment.

## 7. Plan

Done: models of the gateway with its configuration, the life of a chunk, the logger's clock, configuration and
recovery ladder, the diagnostics protocols with their catalogs, the host's tools, the relay and the
portal; proofs of the gateway's interrupt, ports, ring, snapshot and patch, of the logger's chunks
and clock, of the collector, the fleet, the readers of card files and the one of logged diagnostics, of the
services, of the UDS client, the ISO-TP transfers and the CCP master, of the portal on the device and the envelopes it writes, of
accepted configurations of gateway and logger, and of compiled catalogs and their way to flash and back.

Next, in this order:

1. **linbus**: the byte-wise protocol handler with echo check, break and inter-byte timeout, and the
   schedule; joins MCDiagnostics.
2. **sd_logger**: the card reset and the confinement policy; further aspects of MCLogger.
3. **Gateway algorithms**: RecoveryBackoff, IdTimingTable, SubscribedSet and cyclic send, as parts
   of MCGateway.
4. **Abstract specifications**: a reliable-or-reported message channel for IsoTp to implement; a set
   of chunks "on card, archived or stated lost" for ChunkCollection to implement.
