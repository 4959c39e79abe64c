# Verification of node-red-contrib-mavlink

TLA+ models of `node-red-contrib-mavlink`, the TLC configurations that check
them on small instances, and TLAPS proofs about the outbound queue, the memory of
signing, the ownership of streams and the waits of a Command node. Paths are relative to the repository (`lib/...` is `src/lib/...` in `PROJECT.json`).

The package turns Node-RED messages into MAVLink traffic and back. It is one
JavaScript event loop: no two handlers run at once, but every `await`, timer,
socket callback and microtask is a point at which any other handler may run
first. That, the lossy link and the vehicle behind it, files that outlive the
process, and dialogs whose catalogs arrive late are what make the code hard to
test, and what the models are about.

## 1. Inventory

| component | state it keeps | operations | what makes it correct |
|---|---|---|---|
| **Outbound queue** `lib/connection/queue.js`, `bands.js` | five bands (three arrays with a consumed prefix, two keyed maps), an occupancy table, an insertion counter | `enqueue`, `dequeue`, `clear` | occupancy is exact, caps hold, a coalesced slot keeps its age, urgent bands are never overtaken, ageing ends starvation, nothing but setpoints and heartbeats is replaced silently |
| **Connection runtime** `lib/connection/runtime.js`, `heartbeat.js` | transport, ready/draining/closed flags, redial timer, write watchdog, sweep and heartbeat intervals, health faults and leases | `start`, `send`, `_pump`, transport errors, reconnect, `close`, health assertions | one write at a time, every write watched, one recovery armed whenever the link is down, no socket or timer outlives its owner, teardown is final and is reported |
| **Transports** `lib/connection/transport/*` | sockets, the listener, TCP clients by address, drain waits | `open`, `send`, `close`, socket events | an `open()` settles once, a write is answered once, replies go to the newest connection of an address, a close releases everything |
| **Decode pipelines, codec** `lib/connection/wire.js`, `wire-classes.js`, `lib/codec/*` | one splitter per endpoint under a cap, in order of use | decode, evict, release; serialize, truncate, deserialize | streams are never spliced, churn costs a half frame last, a frame means the same at both ends |
| **Subscriptions, dispatch** `subscriptions.js`, `runtime.js` | id to filter and handler | add, remove, dispatch | each handler that is there is called once, and nobody who has left |
| **Peer table** `lib/connection/peer-table.js`, `endpoint-key.js` | per component: endpoints, primary, freshness | `update`, `sweep`, `markEndpointFailed`, `demoteEndpoints`, route lookups | a reachable component has a live route, a dead one is not used, a silent one is marked and dropped in time |
| **Signing** `lib/connection/signing.js` | replay floors per stream, stamps and sequence numbers per source | emit, accept | every replay is rejected and nothing else is, floors move by verified frames only, stamps rise |
| **Inbound nodes** `nodes/mavlink-in.js`, `mavlink-connection.js` | last value and last time per kind of message; a badge | frame, status, close | the filters are one decision; the override of signing shows |
| **Command acknowledgement** `lib/command/ack.js` | window, back-off, retries, outcome; a slot per node | start, ack, timeout, retry, cancel | settles, in bounded time, on our acks only, without repeating what must not be repeated |
| **Command node** `nodes/mavlink-command.js`, `lib/command/completion.js` | generation, slot, completion wait | input, close | one wait at a time, every input reported once, output 0 earned |
| **Carriers, payloads** `lib/command/carrier.js`, `lib/payload/index.js`, their node | recipes, a capture counter per camera | build, number, send and wait | the dialog asks what the wire carries, a blank is never 0, a number means one photo |
| **Transfers** `lib/delivery/transfer.js`, `lib/mission/*` | step, step timer, retries, deadline, machine state | start, reply, timeout, cancel | a settled transfer has no timer, success means the vehicle has (or we have) the whole mission, bounded time |
| **Locks and in-flight runs** `lib/delivery/lock.js`, `index.js`, `nodes/mavlink-mission.js`, `nodes/mavlink-system.js` | held keys, running handles | acquire, release, track, close | one transfer a key, the lock follows the run, close waits for what runs |
| **FTP, logs, parameters** `lib/ftp`, `lib/log`, `lib/param` | sessions and request numbers, windows of chunks, a table being collected, a document of definitions | list, read, write, make a directory; list, download; back up, read, restore; fetch and serve definitions | sessions are closed, gaps are filled, a value is confirmed only if it was taken, what is reported is what the vehicle holds, a document is whole |
| **Fan-out, formation** `lib/fanout/index.js`, `lib/formation/index.js`, their nodes | a batch in progress; a leader and slots | sequential, broadcast, abort; promotion, slots | every target accounted for, streams respected; a fit leader that is never commanded, a slot each |
| **Move and setpoint streams** `lib/move/*`, `nodes/mavlink-move.js` | a stream per node, its interval and expiry, its lock | start, replace, retarget, stop, expire, close | one stream a vehicle, lock follows it, it ends in a brake |
| **Metadata, vehicle profiles** `lib/metadata/*`, `lib/vehicle/index.js`, `nodes/mavlink-vehicle.js` | seed, snapshots and compiled bundles on disk, memos | compile, update, deploy, rebuild | a bundle is what the rules of MAVLink make of its files, a snapshot is one commit, a profile deploys what was picked |
| **Move dialog** `nodes/mavlink-move.html`, `lib/move/*` | the form, which Steer groups are shown | select, type, check a box, rebind, save, open; build a message | what is on the form is what flies, a blank is never 0, an offset is not repeated |
| **Addressing** `lib/addressing/*`, `nodes/mavlink-local-identity.js` | none | resolve a target, show and validate it | nobody is addressed by a blank or by a field that is hidden |
| **Editor** `resources/mavlink-editor.js`, the dialogs | live fields, filled selects, requests under way, cached validity | open, change, catalogs arriving, save, validate | what is on screen is of what is selected, only what was touched changes, a verdict is about its own node |
| **Item builders, tables, adapters, simulator** | none | conversions | per call |

How they interact: action nodes call `Connection.send`, which enqueues and
kicks the pump; the pump dequeues one frame, asks the peer table for addresses
and writes to the transport; write callbacks restart it. Inbound bytes pass
the pipeline of their endpoint and signing, update the peer table and are
dispatched synchronously to subscriptions, where ack waiters, completion waits
and transfers listen. Streams and transfers exclude each other through the lock
registry. Heartbeats enter the queue by identity and double as health leases.
Profiles take their dialect from the library on disk; the editor reads
catalogs and parameter documents of the same library through admin routes.

The hard behaviours, listed line by line under `hazards` in `PROJECT.json`:
`open()` continuations that arrive after a close or an error; sockets that
replace each other while their events are pending; the pump re-entered from
callbacks and microtasks; watchdogs racing late callbacks; recovery requested
by several parties; intent queued during an outage; handlers that change the
table they are called from; retries of a command that a vehicle may be carrying
out; acks of other stations; repeated and reordered replies; a newer input or a
close between the end of one wait and the start of the next; brakes and
setpoints that coalesce; wall clocks that are stepped; restarts; files replaced
while they are read, by two updates, by a process that dies; catalogs that
arrive in a dialog that has moved on; values that stay in a form after their rows
were hidden.

## 2. Modules

| module | models | abstract or composed with |
|---|---|---|
| `OutboundQueue` | `queue.js`, `bands.js` | implements `BandScheduler` (`items <- AllQueued`) |
| `BandScheduler` | what the queue promises: one set of waiting items, urgency by band and age | |
| `OutboundQueueProofs` | proofs about `OutboundQueue`, and that it implements `BandScheduler` | |
| `Connection` | `runtime.js`, `heartbeat.js`, the contract of the transports | queue order in `OutboundQueue`, routes in `PeerTable` |
| `ConnectionProofs` | proofs about `Connection` | |
| `Transports` | `transport/*`: one transport of each kind | in `Inbound` |
| `Decoders` | the pipelines of `wire.js` and their cap | in `Inbound` |
| `Receiver` | `subscriptions.js`, the inbound path of `runtime.js`, the badge of `mavlink-connection.js` | in `Inbound`; floors in `Signing` |
| `InNode` | `mavlink-in.js` | in `Inbound` |
| `Codec` | payloads both ways (`wire.js`, `wire-classes.js`), `codec/param-union.js` | in `Inbound` |
| `PeerTable` | routes and freshness of `peer-table.js` | in `Link` |
| `StateFeed` | the events of `peer-table.js`, `state/index.js`, `mavlink-state.js` | extends `PeerTable`; in `Link` |
| `Signing` | `signing.js` | in `Link` |
| `SetpointStreams` | `mavlink-move.js`, `move/index.js`, `lock.js`, the one-shots of `fanout/index.js` | in `Link`; the streaming band of `OutboundQueue` |
| `PeerProofs` | proofs about `PeerTable` and `StateFeed` | |
| `LinkProofs` | proofs about `Signing` and `SetpointStreams` in the behaviours of `Link`, and what the proofs about queue and peers show there | instances of the four |
| `InboundProofs` | proofs about `Transports`, `Decoders`, `Receiver`, `InNode` and `Codec` in the behaviours of `Inbound` | |
| `AckWaiter` | the transaction of `ack.js` with link and vehicle | in `Commands` |
| `CommandNode` | `mavlink-command.js`, slot and report of `ack.js`, the wait of `completion.js` | in `Commands`; waits abstract `AckWaiter` and `Completion` |
| `CommandsProofs` | proofs about `AckWaiter`, `CommandNode`, `SlotNodes` and `Completion` in the behaviours of `Commands` | |
| `Completion` | the conditions of `completion.js`, `vehicle/modes.js`, `command/merge-params.js`, what they read of `peer-table.js` | in `Commands` |
| `SlotNodes` | `mavlink-payload.js`, `mavlink-param.js`, `cancelSlot` and `settleAck` of `ack.js`, capture numbers | in `Commands`; waits abstract `AckWaiter` and `ParamTransfer` |
| `Payload` | `payload/index.js`, `command/carrier.js` | in `Commands` |
| `Transfer` | `delivery/transfer.js`, `mission/transfer.js` | extended by the machines |
| `MissionTransfers` | `mission/upload.js`, `download.js`, `clear.js`, `set-current.js` | extends `Transfer` |
| `LogTransfer` | `log/download.js`, `list.js`, `transfer.js` | extends `Transfer` |
| `ParamTransfer` | `param/backup.js`, the matching of `param/index.js` | extends `Transfer` |
| `FtpTransfer` | one conversation of `ftp/machine.js` | extends `Transfer` |
| `FtpTree` | backup and restore of `ftp/machine.js` | extends `Transfer`; a conversation is `FtpTransfer` from outside |
| `Transfers` | all of them, one in each behaviour, with the timers and time | the machines above |
| `TransferProofs` | proofs about the machines in the behaviours of `Transfers` | |
| `FanOut` | `fanout/index.js`, `mavlink-fanout.js` | the wait for one acknowledgement is `AckWaiter` from outside |
| `Operations` | `mavlink-system.js`, `mavlink-mission.js`, `lock.js`, the run tracker of `delivery/index.js` | a machine is `Transfers` from outside |
| `Formation` | `formation/index.js`, `mavlink-formation.js` | the exchanges of a run are `FanOut` |
| `ActionNodeProofs` | proofs about `FanOut`, `Operations` and `Formation` in the behaviours of `ActionNodes` | |
| `DialectLibrary` | `metadata/compile.js`, `xml-catalog.js`, `bundled.js`, `vehicle/index.js`, `mavlink-vehicle.js` | in `Library` |
| `ParamDefs` | `param/defs.js`, `seed.js`, the routes of `mavlink-param.js` | in `Library` |
| `EditorDialogs` | `resources/mavlink-editor.js`, the handlers of `mavlink-command.html` | in `Library` |
| `Moves` | `mavlink-move.html`, what `mavlink-move.js` dispatches, `lib/move/*` | in `Library`; carriers of `Payload`, blanks of `Addressing`; the stream is `SetpointStreams` |
| `Addressing` | `lib/addressing/*`, `mavlink-local-identity.js`, the target rows and validators of `mavlink-editor.js` | in `Library` |
| `Link`, `Commands`, `Inbound`, `ActionNodes`, `Library` | the parts named above, one in each behaviour (`part`) | |
| `MCOutboundQueue` | values for TLC | |

The five modules of the last row but one give their parts a common
specification. Their parts share no state in the program beyond what each
models of the other from outside or takes with it, so a behaviour is of one part, chosen by
`Init`, and a property that is about one part says so. `FanOut` and
`Operations` are extended, the others are instances.

Every definition that stands for code has its lines under `map`. Variables
keep the names of the fields they model where there is one. Variables that
appear only in properties are commented `history`, what the vehicle, the link
or an operator does is commented `environment`, and a configuration flag is a
variable that `Init` chooses and no step changes (`mode`, `acceptInvalid`,
`noAutoRetry`, `complete`, ...), so one run covers every setting. A definition
commented `Mutant` is a plausible bug: no specification uses it, and it is
there to show that a property would notice.

### OutboundQueue
`store[b]`, `cursor[b]`, `counts`, `nextSeq` are the fields of `PriorityQueue`;
a keyed map is a sequence in insertion order with its cursor at 0. `Enqueue(r)`
has one disjunct per policy (`EnqueueLiveness`, `CoalesceStreaming`,
`InsertStreaming`, `EnqueueBounded`, `OverflowBounded`, and the unknown band
that throws); `Dequeue` picks the best of five band heads and compacts the
consumed prefix when it is half the array; `Clear` is teardown. `Tick` is
the injected clock, which in the program is `Date.now`
(runtime.js:128) and may be set back.

### Connection
Each dial builds its own transport, numbered; `transport` is the one that
still has its listeners. `open()` settles in one step (`OpenSettles`) and its
awaiter goes on in another (`StartSucceeds`, `RedialSucceeds`, `Stale`, ...).
`Pump` is `_pump` with the re-entrancy flag; `PumpMicrotask` the microtask that
calls it; `WriteReports` a callback; `WriteTimesOut` the watchdog;
`TransportError`, `Retry`, `ScheduleReconnect` and `RedialFires` the recovery.
Abstractions: the queue is a set in which a name replaces itself; the length
of the back-off and its counter are left out; the catch of a failing recovery
itself is left out; bandwidth counters, status publication and decoding are
left out. Assumptions about the runtime's environment, each where it is used:
a timer fires only when no settled `open()` still waits to continue
(continuations are microtasks, timers are not); a redial, 500 ms at least, is
later than the cancelled writes of the dead UDP socket; an error while opening
comes from stream transports only; a first `open()` of another link than a TCP
client raises no error between `ready` and its continuation.

### PeerTable
`record[c]` keeps endpoints in Map order (it breaks ties), the primary,
`lastSeen` and the last heartbeat. `Update` is a frame, `Sweep` the interval,
`MarkPrimaryFailed` a failed write, `DemoteEndpoints` a reconnect. Telemetry
fields are data and are left out but for the heartbeat that freshness reads.

### StateFeed
The table of `PeerTable` with the fields that a message carries and the table
compares (`values`). `Receives` is a frame with all that `update` emits, in its
order; `SweepTells`, `FailureTells` and `ReconnectIsSilent` are what sweeps,
failovers and reconnects tell. A flow (`view`) folds every record of the feed
over the empty table or a `Snapshot`; `CloseFeed` and `OpenFeed` are a redeploy
of the node on a table that lives on. `lapsed` is history: what a reconnect took
back without a word.

### Signing
`inbound`, `outbound`, `highest`, `seq` are the stores. Emission takes the
clock, the own floor and the highest stamp heard. The HMAC is external: a
frame matches or it does not, and one that does not changes nothing
(`DeliverMismatched`). `Restart` empties the stores. The regimes other than
"keyed, with the override" differ only in what is let in, which is `Receiver`.

### Transports, Decoders, Receiver, InNode, Codec
`Transports` is one transport of a kind that `Init` chooses, with the runtime
that opens it, writes to it and closes it, and the operating system that
accepts, drains, fails and ends its sockets in any order. `handles[1]` is the
client's socket, the port or the dgram socket; a server numbers what it
accepts, and `clients` is its map from addresses. A late event of a socket that
was superseded finds the newer one in the map. A dgram socket that is closed
before it is bound says neither that it listens nor that it failed, and
`udp.js` (92-140, 233-240) does not settle the `open()` itself as `tcp.js` does:
that promise stays pending (`OpenIsOver`, and in `Connection` the UDP case of
`Close`). What went before is closed by then and the node only listens for a
rejection, so nothing hangs on it; `Released` says so and excepts it.

`Decoders` keeps the pipelines in the order of their last use. A frame is two
tokens, so it can be half received, of our dialect, of another or with flags
nobody knows; a datagram is any sequence of such `Tokens`, and `Split` is the
splitter of node-mavlink from its use. Eviction goes through the candidates as the code does (`Victim`).

`Receiver` handles one datagram to its end. `turn` is the dispatch under way:
one step per subscriber, in which its handler may throw, unsubscribe anybody
and subscribe anew. `vouched` is history. Data of a frame that no filter reads
is left out, and so is that each handler gets a deep copy.

`InNode` is one node under every combination of its settings. A frame has two
fields beside its time stamps; what is compared and what is remembered is in
the order of the code. `Codec` sends messages with scalar, array, constant and
extension fields of every sign and size from bags that leave values out, and
reads them with a receiver that knows the extensions and one that does not. A
message is a set of fields, and the order on the wire an order of them
(`Before`): the sort of the code is stable, so an equal size leaves the order of
the definition. A field lies behind the bytes of all before it (`Offset`), and
the seed of the checksum names each core field with its rank. Of a float only
the highest byte counts and an integer is below 255; signature block and checksum
arithmetic are external.

### AckWaiter, CommandNode
`AckWaiter` is one transaction: `deadline` and `retryAt` are its two timers,
`heard` says that the current transmission was answered. Time is discrete and a
due timer fires before time goes on, in any order with what arrives then.
`CommandNode` is the node around it: `InputSends`, `InputThrows` and
`InputUnresolved` are an input up to its first `await`; `AckSettles` ends the
wait and `AckContinues` is the code after the `await`; `Polls`,
`CompletionEnds` and `CompletionContinues` are the complete tier; `Close` is
the node's close handler. Whether the peer table shows the completion of a command
is a flag here (`shows`) that the environment changes at will; `Completion` is
what decides it.

### Completion
One request (`order`: verb, firmware, carrier, frame, numbers and mode name of
the message and of the configuration, the modes the vehicle published) and one
vehicle that is in any state whenever it reports. A section of `component` holds
what the message carried (`ingestHeartbeat`, `ingestExtendedSysState`,
`ingestGlobalPositionInt`) and, beside it, for the properties alone, whether the
vehicle stood on the ground. `Requested` keeps the blanks of the request and
`Wire` fills them, as `getParams` does. Heights are in half metres, so that the
landing threshold is a number, and a name stands for its case-folded key. The
tables of modes are constants: the two that ship, and what a vehicle of each
firmware publishes in the order in which it does, of which the record may
hold any part; the ladder takes the first place that fits. `AckAccepted` is the first check, `Polls`,
`TimesOut` and `Cancels` the ways out of the wait, `AckLost` the one check after
the acknowledgement ran out. A Build node for a concrete dialect has no
firmware; it sends nothing and is in the model for its parameters only.

### SlotNodes, Payload
`SlotNodes` is the two kinds of node that keep a wait in one slot, as flows of
one or two nodes: `Input` begins a wait, or builds, or sends; a newer input
supersedes it (`Cancelled`), `Released` empties the slot only if it still holds
the one that ended. Two Payload nodes command one camera, so the numbers of
their photos come from one counter while commands are re-sent; `exposures` is
history.

`Payload` builds one message of a recipe with values left out or given, through
the carrier and the frame that were asked for. Values are whole numbers: what
scaling multiplies is there, what rounding loses is not.

### Transfer and the machines on it
`Step` sends and arms the step timer, `StepTimesOut` resends or gives up,
`Settle` is the only way out. The link is two growing sets: a frame in them can
be delivered late, again or never. The vehicle asks, serves, repeats,
misbehaves and refuses. Elapsed time and progress reports are left out, and so
is a stub that answers inside `send`. A machine is the class that extends the
skeleton: its `...Starts` is `_begin`, its `...Hears` is `_onMessage` with all
it calls, its `...TimesOut` its own retry. `Transfers` chooses one of them
(`op`) and gives it the timers; the variables of the others keep their first
values.

- `MissionTransfers`: `lastSeq` is left out (wording only).
- `LogTransfer`: data is its offset, so `received` is what the merged ranges
  cover. The vehicle streams what any request of ours asked for, in any order.
  Where the caller gave no size a short packet is the last one, as the code
  infers (download.js:68); a vehicle that reads short in the middle of a log of
  unknown size would be believed, and is not in the model. The branches of
  `_retryStep` for a window that is complete, or without a hole, cannot be
  reached: what completes a window also asks for the next.
- `ParamTransfer`: three values of which a float32 cannot tell two apart stand
  for the numbers, and both encodings are run. A backup may meet a table that
  grows, repeated streams and echoes of others. Other stations set values.
- `FtpTransfer`: data is its position. Sequence numbers start below the wrap,
  and the last replies of an earlier conversation, about another file, are on
  the link. The vehicle executes a request once and repeats the reply it kept,
  reads and writes short, misstates sizes, refuses, answers malformed and
  forgets its session.
- `FtpTree`: a conversation is its end and what the vehicle has afterwards. An
  end and the turn in which the await returns are two steps, so a cancel may
  come between them (`MayGoOn`). The vehicle lists its entries in any order
  beside the traversal names, `"."` standing for both; it may have made the
  directory that it refuses to make again, and have part of a file whose upload
  failed; and a restore may find files and directories, or a file where its root
  should be. A tree that changes while it is backed up is left out, as is a
  record whose parents do not come first: a backup writes none.

### FanOut
`loop` is where the executor stands between two awaits: at the head of its loop
(`LoopTop`), waiting for a place (`PlaceFree`) or for the interval
(`IntervalElapses`), at a member (`Visit`), draining (`FanOutReports`), or in a
broadcast (`Broadcasts`, `BroadcastAck`, `BroadcastTimesOut`). The promise of a
member settles (`WaitEnds`) before its record is written and its place freed
(`Recorded`), a microtask later. Timers and the close come after microtasks.
The flags of a run are chosen by `Init`. Parameter echoes and command
acknowledgements are one kind of wait; `streaming` stands for the messages that
have none. The Build tier, field patches and the choice by filter are left out.

### Operations
A run is an input of either node against one vehicle. `lock[r]` is the key it
holds and `plan[r][step[r]]` what its machine converses about; that the two
agree is a property, not an assumption. `Advance` is the loop of `runBundle`
from one wait to the next with all the sections it refuses on the way,
`BundleGoesOn`, `SingleGoesOn` and `MissionGoesOn` are the microtask after a
machine has settled, with its `finally`. A close of the System node aborts and
awaits (`SystemCloses`, `SystemClosed`), one of the Mission node does not wait
(`MissionCloses`), and both may be deployed again. A cancelled machine settles at once, as every
machine of `Transfers` does. Inputs that fail before a run begins are left out.

### Formation
`Run` is an input up to its first command: the anchor or the leader, who is
promoted if the configured one cannot lead, the list without repetitions and
without the leader (`Ascending`), and a slot for each by rank. `Commands` is the run going on
to the next member, the least id of those that are left. Slots are computed before the pattern is turned and
projected; a list has an unknown id and one twice. One input: the node keeps
nothing from one to the next, and a run is over before its effect on another
could be seen (`FanOut` is about what concurrent runs do).

### SetpointStreams
A node has at most one stream in `slot`; `ticking` and `expiring` are its
interval and TTL timer, `held` the lock registry, `band` the streaming band of
the one connection with its coalescing, `last` what reached each vehicle.
Sends in one handler fail independently. A TTL may run out at any time while
armed. The cap of the band is not reached by so few keys.

### DialectLibrary, ParamDefs
Its first half is the compiler as functions over the elements of files: order of
includes, what a later definition replaces and frees, the type of a value. The
property compares it with what a dialect means: every message and entry once,
by name and by number, dependencies before dependents; of a message that several
files define, the fields of the last alone, each an extension exactly when the
marker is before it, with the version of that file (`FieldsAreRight`). An enum nobody
declares is refused only where the definition that counts names it. The second half is the
disk around it. An update downloads one commit's files and writes them with
its manifest last; two may run; `Dies` may happen between any two writes, and
`Upgrade` changes the seed. A profile picks dialects of the seed or of
snapshots, each through its own cache (`OnDisk`, `memo`). A bundle is the texts
it was compiled from.

`ParamDefs` parses the three forms of a published document, keeps the last
good one (`WrittenAside`, then `Renamed`), and answers the editor by laying it
over the seed. A temporary file that a dying process leaves is not tracked:
nobody reads it.

### EditorDialogs
Two nodes and two Connections. `live` is the form on screen, `options` what the
two selects were filled with and from which target, `pending` the requests
under way, of this dialog and of ones that were closed. Every request may fail,
and answers come in any order. `SaveConnection` validates every user of the
Connection while its own dialog is still on top, before the picker of the
node's dialog fires. A select without options saves nothing, as the editor's
own save does. The component select looks its element up when it asks, the
command select when the answer arrives: an answer of a closed dialog finds
nothing in the one case and the next dialog's select in the other.

### Moves
`form` is what is on screen, `kept` what was saved, `disclosed` the Steer boxes
that are checked, `vehicle` the profile behind the Connection. `Refreshed` is
`refreshVisibility`: four selects, each rebuilt from what the ones before it
came to, keeping what is selected or saved on offer. `Rows` are the fields shown
then (a folded Advanced section counts as shown), `Accepted` the validators.
`MessageOf` is what an input makes of the form: a name, a frame, a number for each
place and the set of places the type mask ignores. Degrees and sticks scale by whole
stand-ins. A property compares messages by what is not ignored: a row that is filled
has to tell, a blank one must not be a 0, a hidden one must be silent. What a
message overrides is left out, as is the button picker.

`MovesAreMeant` excepts by name what is meant otherwise: the two parameters and
the offset triplet whose 0 is the dialect's own "unused", the triplet a plane keeps
behind its one field, and the yaw of Steer, which is the finding below.

### Addressing
One step is one request: a node of three kinds with a tier, an identity, a
dialect and two fields, what the message says, and the profile. Each may be a
number, 0, a blank or missing. A companion that takes its number from a profile that
says 0 does address everybody; DESIGN.md:1677 keeps it so, and the property
excepts it.

## 3. Runs

| run | question | bounds, and why they are enough |
|---|---|---|
| `queue` | do storage, occupancy, caps, selection and ageing hold, is nothing lost silently, and is the whole a `BandScheduler`? | five enqueues on five bands, caps 1 to 3, so that displacing, refusing, coalescing, compaction (two consumed of four) and two promotions by age all happen |
| `connection` | ownership, recovery, pump, teardown, for the three kinds of link | five dials: a TCP client spends four on its first connection and has one more to lose; one flow message and two identities, one of them refused by the serializer; three write ids, as a late callback, a UDP pair and a current write coexist |
| `link` | are routes, freshness and what is told of them, replay memory, stamps, stream ownership and brakes right, and what survives a clock of the queue that is set back? | three enqueues under a clock 0..3 that goes both ways; a vehicle and a ground station on two addresses (a failover needs two), a clock past stale and expiry; a flow that follows one component and one message's fields with two readings, from a component's first frame through expiry to its second life; two inbound streams, two sources, stamps 0..3, a clock from before the epoch, sequence numbers that wrap; two nodes, two vehicles, three streams: one replaced, one elsewhere, one after. Names of a pair are interchangeable and the run is safety only |
| `inbound` | are writes answered and everything released, are streams and frames intact, is dispatch exact, do filters agree? | a server with three sockets on two addresses: one superseded, one superseding, one beside; three writes; three sources for two pipelines; three subscriptions, of which handlers may drop and add; three deliveries under each setting of the filters; a message with each kind of field |
| `commands` | does a transaction settle and not repeat, is a wait owned and told, is a confirmed command carried out, are photos numbered, does the wire carry what was asked? | windows of 2 and back-offs of 1 so they interleave, two re-sends, progress up to the ceiling of 6 windows; three inputs: a newest, a superseded one and one that throws; slots: two Payload nodes on one camera, or one Param node, in each tier, three inputs; every recipe with one value left out, or all, by both carriers in each frame; completion: heights on both sides of each threshold, homes above and below the sea, modes that are shipped, published, published without a name, with another number and under another name, names with and without numbers beside them |
| `ack_in_work` | finding, below | as `commands`, without failing sends |
| `transfers` | is what is reported what the vehicle holds or did, are sessions and streams ended, does every transfer end, and in time? | one resend (a second is the first again), two items up, three down with a plan of another size; logs that are empty, end in a short packet and span two windows of two packets; two parameters; a file of three units read in twos; every tree of four paths over two names, two deep, so that a directory is empty, holds two or has a sibling, and a vehicle with either name taken; repeats, reorderings, refusals, failed sends and cancels at every point |
| `nodes` | are aggregates and bundles true, does nothing unwanted go out, is a conversation owned, is a leader fit, does every run and every close end? | three vehicles at concurrency 1 and 2: one waiting, one at its turn, one never reached; three inputs: a holder, one refused and one after a redeploy, bundles of two sections, one and none; formations of three vehicles, one without a heading, with all their losses and returns: around every leader for one shape (`LeaderShapes`), on a fixed anchor for all of them |
| `library` | are bundles right, is what is on disk whole, do profiles stay, are dialogs sound, is what a form shows what is sent, and to whom? | every include graph of three files with a missing one, and every pair of overriding definitions along a chain with a diamond, also with other fields in a file of another version; three commits, two updates, two snapshots; four documents, five queries; two nodes and three changes: one dialog's requests are still under way when the next has asked for others; four edits of a new Move node (an action, its fields, a group hidden or a vehicle changed, a reopening) and one of each filled one, for four vehicles that the code tells apart; every way a target can be said |
| `streams_brake` | finding, below | one node, one vehicle |
| `mixed_profile` | finding, below | as `library` |
| `hidden_yaw` | finding, below | three edits of a new Move node |

Deadlock is checked in `queue` and `connection`; in the others
the system stops when the work, or a bound of it, is done.

### Fairness
Liveness is checked in `connection`, `commands`, `transfers`, `nodes` and
`inbound`, and the fairness is what an event loop and its operating system
give: a timer that is armed fires (`TimeoutFires`, `RetryFires`, `TimerFires`,
`WriteTimesOut`, `RedialFires`, `FinishClose`), time passes (`Tick`, `Pass`), a
settled promise continues, a queued microtask runs, a transport asked to close
reports, a socket that is destroyed says so (`OverIsTold`, `ListenerCloses`).
Nothing is assumed of the vehicle, the peer or the link: no frame has to
arrive, no ack has to come, no dial has to succeed and no peer has to answer an
end. An `open()` does have to settle, as the transports arm timeouts of their
own, but for a UDP one that a close overtook; and in `nodes` and in the nodes of `commands` a wait and a transfer end,
which the waiter of `commands` and `transfers` establish for each of them.
Where a choice may flip between two enabled continuations the fairness is on
their disjunction.

### Where the code and its words differ
Four disagreements are runs:
- `ack_in_work`: the header of `lib/command/ack.js` (line 21) says that a
  vehicle that reported progress is not sent the command again. A back-off
  armed by an earlier `TEMPORARILY_REJECTED` survives `IN_PROGRESS` (line 242)
  and re-sends.
- `streams_brake`: `lib/move/index.js` (303, 137) makes the brake the last
  word of a stream. The band coalesces by name and target (queue.js:191), so a
  brake takes the slot, and the place in line, of an earlier local setpoint or
  brake, ahead of a setpoint of another message it is meant to follow.
- `mixed_profile`: `seed/README.md` (16-17) says that only a rebuild replaces
  what a profile deploys. One that mixes a seed dialect with a snapshot is
  compiled at each deploy from the seed shipped now (vehicle/index.js:174).
- `hidden_yaw`: `mavlink-move.html` says that what is on the form is what the mask
  carries (941-945, and the tip at 1237). The boxes are seeded once, from what was
  saved (952); a yaw typed under Go to or Attitude stays in the form, is hidden
  under Steer, and is commanded.

Others were met while modelling and are modelled as the code has them:
- queue.js:91 relies on times that do not fall along a band; the clock bound at
  runtime.js:128 is the wall clock. `SelectionIsGlobal` and `AgedIsNotOvertaken`
  hold for a forward clock only; what is left without is checked in `link`
  (`EmissionsAreOrdered`) and proved (`UrgencyIsAbsolute`, `AcceptedIsSent`).
- runtime.js:872 speaks of resuming "whatever queued during the outage"; the
  redial clears the queue (922), which `NoStaleIntent` needs.
- peer-table.js:23 says that both thresholds emit events so that a flow need not
  poll. A component that sends no heartbeats returns from stale without one (126),
  an address that was known before a reconnect becomes the primary again without
  one (446), and losing the last address is not told (197). `KnownIsTrue` names
  each; a reconnect's own silence is documented (361).
- peer-table.js:358: a peer stays stale after a reconnect until it proves itself
  on the new link. On a link that takes in untrusted frames one of them clears
  the mark (521), so `StaleUntilRerouted` is stated for the others.
- ack.js:237 speaks of duplicate rejections; the guard (239) sees only a
  back-off that has not fired.
- upload.js:25 says the deadline never cuts a configured retry short; it is
  not re-armed when an item is requested again (136), so it can.
- signing.js:112 says stamps are monotonic across restarts without
  persistence; a stamp lifted above the clock by a peer (127) is forgotten.
- DESIGN.md:362 and 1484 say only a close is quiet. The generation moves
  (mavlink-command.js:350) before the identity is resolved, which may throw
  (runtime.js:341); the earlier input then ends quietly (447). `QuietMeansStale`
  states what holds.
- mavlink-command.js:362 infers from the state that a command whose ack was lost
  ran; the state may have held before it was sent (365). The same goes for the
  reports that completion reads: `StateIsEvidence` says that the vehicle did
  what it was told, not that it did so after it was told.
- mavlink-command.js:163 says that an unresolvable mode name is NaN in param2,
  never a mode 0. A Build node for a concrete dialect has no firmware, so
  `setModeParams` writes nothing (modes.js:325) while the custom-mode bit is set
  (188): the message carries mode 0. `ModesAreAsNamed` leaves that node out.
- completion.js:20 says that PX4 takes param2=3 and then reports 196608. With
  param3 left open the two do not pack to a number (186), and a mode that was
  entered runs into the timeout; `NothingIsOverlooked` excepts it.
- mavlink-editor.js:1040 says that a refill after the catalog's source changed
  must not snap a select back to what the operator has moved off. The component
  select notes what it is to keep when it asks (1202), not when the answer
  arrives: a component picked in between is undone. `OnlyTheTouchedChanges`
  therefore says nothing of a select after the operator touched it. The command
  select, which does look late, brings the saved command back when an explicit
  blank was picked (1053).
- mavlink-move.html:1312 withholds Stream from an offset, which would walk the vehicle
  away. Body on ArduPilot is an offset of its own (action.js:43, DESIGN.md:720) and
  may be streamed; on PX4 it carries velocity only (1311), yet a body
  position is accepted. `MovesAreMeant` speaks of frame 7.

## 4. Proofs

`OutboundQueueProofs` proves, for all `Requests`, `Capacity`, `AgeStep` and
bounds that satisfy the ASSUMEs of `OutboundQueue`:

- `QueueInvariant`: `Spec => []IInv`. `IInv` is the conjunction of `TypeOK`,
  `CountsAreExact`, `WithinCapacity`, `DeadPrefixBounded`, `OneSlotPerKey` and
  `SlotsInOrder`. None of the five is inductive alone: caps are tested against
  the occupancy table, so `WithinCapacity` needs `CountsAreExact`; that needs
  cursors inside the storage (`TypeOK`, `DeadPrefixBounded`); replacing a slot
  in place keeps `SlotsInOrder` because a coalesced item keeps its number and
  time, and adds no second one because of `OneSlotPerKey`. The proof works band
  by band: each action changes one band and a lemma per band operation says
  what it preserves.
- `HeadsSuffice`: with a clock that never runs backwards,
  `Spec => []SelectionIsGlobal`: the head of a band precedes the rest of it
  (`SlotsInOrder`, and effective bands fall monotonically with age), and
  `BestBand` precedes the other heads, so comparing five heads selects the
  minimum of everything queued.
- `UrgencyIsAbsolute`: `Spec => UrgentFirst`, for any clock: no lower band ages
  past Control.
- `AcceptedIsSent`: `Spec => NothingLostSilently`, for any clock: an enqueue only
  appends to an array band or leaves it alone (`EnqueueKeeps`), and a dequeue
  takes the head it delivers and nothing behind it, whether the cursor moves or
  the dead prefix is given back (`DequeueKeeps`, on the lemma about compaction).
- `AgeingEndsStarvation`: with a forward clock, `Spec => AgedIsNotOvertaken`,
  from `HeadsSuffice` and arithmetic on the effective band.
- `QueueImplementsScheduler`: with a forward clock, `Spec => ImplementsScheduler`. Each operation on storage
  is first read as one on the set behind the cursor (an append adds one item, a
  delete or an advance takes one, a compaction moves it, an overwrite exchanges
  one), then on the union of the bands (`OneBandChanges`), then as a step of
  `BandScheduler`: `EnqueueIsOffer`, `DequeueIsTake`. The occupancy counter is the
  size of that set (`BehindCounts`), so both refuse and displace alike. The winner has to precede
  every OTHER item and not just be preceded by none, so `RInv` adds to `IInv` that
  no number is queued twice across bands; that is read off the abstract step.

`LinkProofs` proves about the behaviours of `Link`, for any values of its constants that satisfy the
assumptions of its parts. Its parts are instances of the modules proved about, step by step; signing and
streams are proved in the module itself, queue and peers are cited.

- `LinkRemembers`: `Spec => []ReplaysAndOnlyReplays`. `SInv`, the conjunction of
  `StoresAreSound` and `TrustedOnce`, is inductive: `FloorsAreEarned` puts every
  frame that was trusted at or under the floor of its stream, so a repeated one
  is not fresh (`MemoryDecides`), and the same fact puts an established peer's
  floor at a frame it did sign, so a newer one is. That a source leaves no gap
  in its sequence numbers when they wrap is arithmetic (`Wraps`).
- `LinkStreamsOwn`: `Spec => []StreamsOwnTheirTargets`. `OneStreamPerTarget` and
  `LockFollowsStream` need each other, since a start asks the lock and not the
  streams. Both need `SlotsAreOwn`: an expiry clears the slot of the node that
  its stream belongs to, and the lock of what that slot held, which is the right one only
  if the slot still holds that stream. One lemma for every way a stream ends (`EndKeeps`),
  one for every way it begins (`StartKeeps`), one for steps of band and node
  (`BandKeeps`).
- `LinkKnowsItsPeers`: `Spec => []PeersAreTrue`, what `PeerProofs` proves.
- `LinkEmitsInOrder`: `Spec => EmissionsAreOrdered`. Stamps lead (`StepsLead`) by the invariant of
  signing: the stamp is the largest of the clock, the own floor and one more, and `highest`, which no
  trusted frame exceeds. What is new in the band of setpoints is a frame
  of a stream or one to vehicles that are not locked (`NewIsFree`), and by `LockFollowsStream` no
  stream runs to those (`StreamsAreRespected`). That a brake is heeded (`BrakesAreHeeded`) needs all of the band: `BrakeInv` says
  that a target and name have one slot, that what runs to a vehicle began after every stream
  whose brake waits or was sent there, and so did every setpoint that waits behind a brake that was sent.
  Frames that enter keep it because they are of what runs, begins or has just ended (`BandGrows`); sending
  keeps it because the slot that goes takes all with it that could take its place (`SendingOrders`).
  The order of the queue is that of `OutboundQueueProofs`, for any clock.

`PeerProofs` proves, for all components, addresses, ages and readings that satisfy
`ComponentsAssumption`, `AgesAssumption`, `NullsAssumption` and `BlankAssumption` (ages are numbers, an
entry expires no earlier than it goes stale, and the nulls are none of the values):

- `RoutesStaySound`: `Spec => [](RoutesAreSound /\ FreshnessIsTrue)`. `PeerInv` says of every record that
  each address is in it once, so that removing one address leaves none of it behind, that its times are
  past, and that what failed since it was last heard is not listed (`RoutesAreKept`). Freshness
  is judged by a sweep that comes only once a period: `AgesAreKept` bounds what the last sweep left
  by the time of that sweep, and the time since by the period. One lemma for each way
  a record changes (`RouteIsLearned`, a failure, a demotion, a sweep), and then one for each action.
- `FeedStaysTrue`: `FeedSpec => []KnownIsTrue`. What is known of a component is right after a
  record of the feed only if it was right before (`KnowsOf`), and what is never told has to stay
  true until it is told: `LapsedIsTrue` says that a component whose staleness a reconnect set
  silently is still stale, and that one with addresses and no primary lost it to a reconnect.

`ConnectionProofs` proves, for any number of dials, at least one handle of a write, and
`None` apart from both (`DialsAssumption`, `WriteIdsAssumption`), for all three kinds of link:

- `ConnectionIsTrue`: `Spec => []StateIsTrue`. That no socket outlives its owner is not
  inductive: `open()` goes on after an await, and what it does then depends on whether its
  transport is still the runtime's. `OnlyTheLatest` says that no earlier dial is either
  transport or awaited, `OpensAreTrue` that an awaited open whose transport was
  taken away has settled, so that it rejects and frees nothing of its successor. `RecoveryIsArmed` needs
  `FirstLink`: only a TCP client dials again before a first link, and the handler of a
  lost link leaves it to the start that is still under way.
- `PumpServesTheLink`: `Spec => []PumpIsSound`. `WritesAreExclusive` carries it across
  links: after a loss a write may be reported late, and a new transport is not made
  before it is, so a report never settles a write of another link. `QueueIsOfTheLink`
  says why nothing stale goes out: a link that is up has in its queue only what was
  queued for it, but for what was queued before the first.

Both are read off one invariant, `ConnectionInv`, with one lemma for every
action of `Connection`.

`CommandsProofs` proves about the behaviours of `Commands`, for every timeout, retry
interval, number of retries, set of inputs, nodes and cameras that satisfy its ASSUMEs:

- `WaitIsAlwaysSound`: `Spec => []WaitIsSound`. The bound on the length of a wait follows from
  a budget: with n re-sends made, no timer lies beyond n back-offs and as many windows, and the
  ceiling of the last (`TimersAreBounded`, `BudgetGrows`). That what may not be repeated runs at
  most once is `ThereIsOneCommand`, a count: such a command is unsent, on
  its way, rejected, backing off or done, and at one of these at a time. It presumes a
  link that duplicates nothing, as the property does. `BegunIsTrue` follows each sign
  that the vehicle has begun back to an execution.
- `OutcomesAreAlwaysTold`: `Spec => []OutcomesAreTold`. For the Command node by `NodeInv`.
  That a wait is in the slot is not inductive: an input that goes on from its ack puts itself
  there, so no other may be waiting. `GenerationsAreOwn` says why: what waits has the latest
  generation of all that sent, and a generation is of one input. `CloseIsFinal` makes everybody
  stale at a close, so that nobody returns, the bound of the generation counts the inputs that
  began (`NodeCounted`), and `OnItsWay` keeps the reason with which a wait was cancelled until its
  input goes on. For Payload and
  Param nodes by `SlotInv`: `SlotIsOwn` (what waits is in its node's slot, and a
  slot holds what waits or has just ended), `EndsAreTrue` (an outcome has its reason and is what
  is told) and `NumbersAreOwn` (later photos of a camera have later numbers).
- `WaitsHaveOneOwner` and `EveryOutcomeIsTold` say the node's half of it for `CommandNode` alone.
- `OnlyTheNewestGoesOn`: `Spec => OnlyNewestGoesOn`, from the same invariant.
- `CompletionStaysTrue`: `Spec => []CompletionIsTrue`, for any altitudes, homes and heights, any tables of modes and
  records of them, any names and parameters, by `CompletionInv`. The record says what was so when it was reported
  (`ReportsAreTrue`), so a check that succeeds proves the request fulfilled (`DoneIsShown`) and one that fails proves that
  nothing reported showed it (`NotDoneIsUnseen`); reports after the end change nothing, since the wait no longer
  looks. A mode by name follows its number: the first place that has the name exists because places are numbers (`FirstIs`), a
  PX4 number survives being halved and packed again (`PackedIs`), so the vehicle enters what the name means (`NumberIsSent`,
  `NumberIsMeant`). `CompletionAssumption` has what this needs of the tables: ArduPilot's numbers are naturals and
  PX4's two bytes in their places (modes.js:75-86), and, for the name to come back (`NameComesBack`), `TablesAgree`: what ships
  gives a number one name and a name one number, and no vehicle publishes two names for a number. A vehicle that has its own name for a
  mode that was asked for by the shipped one enters it all the same and is shown by its own: the ladder is the same in both
  directions, so this is what it promises.

`ActionNodeProofs` proves about the behaviours of `ActionNodes`, for any number of members
(`FanOutAssumption`), of runs, any plans whose sections differ (`OperationsAssumption`), and any vehicles and
lists of ids (`FormationAssumption`: ids are positive; 0 stands for nobody):

- `FanOutTellsTheTruth`: `Spec => []FanOutIsTrue`, and `SendsStayMeant`: `Spec => SendsAreMeant`, from
  `FanOutInv`. That a visit happens with nothing known against it is not inductive: a result
  settles before its record is written. `VisitsKnow` says that only who is in flight may be ahead of
  its record, and that nobody is at the moment of a visit; `VisitsAreInOrder` that a vehicle is
  sent to once, at its turn, and that a loop that drains has visited all of the group or has a reason
  not to have. An aggregate is then read off the records (`AggregateIsTrue`). A broadcast has
  all members in its group and no places (`LoopIsOfMode`).
- `OperationsStayTrue`: `Spec => []OperationsAreTrue`, from `OperationsInv`. What a run reports is
  what was moved because its account is, but for the section that has just been
  (`AccountIsTrue`), and because the sections that it has passed divide into those that succeeded and
  those that failed (`Divided`, kept by the loop of a bundle in `BundleAdvances`). `LocksAreOwn`: a lock
  that is held is the one of one run's present section. `NodesOwnTheirRuns` carries it over closes: a node
  that closes has cancelled all it ran, and a Mission node knows every machine
  that is live, so that nothing of before goes on when it is deployed again.

- `SlotsStayByRank`: `Spec => FormationsHold`, from `FormationInv`. No two places of a shape are the same
  for any number of slots (`OffsetsDiffer`: two sides of a rank, rows and columns of a grid); there is exactly one
  ascending order of a finite set of ids, in which the place of each is its rank (`AscendingExists`, `AscendingRanks`), and a
  leader in front moves all of them by one (`TargetsAre`). Who leads is the least of those that are fit (`LeaderIsResolved`).
  `RunIsSound` keeps this through the turns of the run: only what is left of the slots is sent, and the heading does not change.

All are invariants of every part: a part never changes, and does not touch the variables of another.

`TransferProofs` proves about the behaviours of `Transfers`, for plans, tables, log lists and files of any
size, any timeout and any number of retries (the ASSUMEs of the machines):

- `OutcomesAreTrue`: `Spec => []OutcomeIsTrue`, with one invariant for each machine and one lemma that its
  steps keep it. What is reported is what was counted: answered items, indices and logs within a range are all
  of it when there are as many (`AnsweredIsAll`, `TableIsAll`, `LogsAreAll`); a walk has the items before the one
  it waits for (`WalkIsExact`); an echo is of a value that the vehicle held (`EchoesAreHeld`); a log transfer
  settles in one way, which tells the vehicle (`LogSettleReleases`).
- A conversation about a file needs most. `FtpInv` says of the requests that each has a number of its own and
  belongs to the work (`RequestsAreNumbered`), of the replies that each tells what was so and still is
  (`RepliesAreTrue`), and of the outstanding request that it goes on where the last reply got to, in
  the session that is known (`OutstandingIsNext`). A reply that matches then answers the outstanding request and no
  earlier one (`HeardIs`), because positions in the number space grow (`LaterMovesOn`) and no conversation takes as many
  numbers as there are. That is the theorem's hypothesis, `NumbersSuffice`: fewer than 2^15 requests, of
  up to 239 bytes each in the program. In a longer one the late reply to an earlier conversation's last request could match again.
- `TransfersEndInTime`: `Spec => []TransfersEnd`, under the same hypothesis. The clock alone has no inductive bound. `Waits(limit)` relates it to the timer: what is left of
  the budget that runs ends within `limit`, so a retry only spends (`TimesOutSpends`), time only passes up to the timer, and the limit has
  to grow where a budget begins anew and nowhere else (`WaitsGoOn`). Each machine then counts its beginnings in what it keeps: answered items
  for an upload, whose wait the deadline ends as well (`UploadEnds`), the items before the one it waits for, parameters sent, logs heard of, and for a file
  the numbers it has taken (`Taken`), which `FtpInv` bounds. A backup's frames restart the timer but not the retries, so each
  frame of a stream adds one timeout (`Waited`). A walked tree asks for no more directories and files than it has, since a name is
  queued once (`OnceIsCounted`). `EndsInv` has all of them.
- A download of a log was the case where the proof failed first: a packet and a later end mark may each restart the wait for the same hole,
  which exceeds the former bound (one budget for each offset) where windows are larger than the instance's. TLC finds such a run with four packets to a
  window and no retries. `Asks` counts what is kept twice, and the bound of `LogDownloadIsBounded` with it.
- `DataStaysExact`: `Spec => []DataIsExact`, with no hypothesis. What is kept of a log of unknown size is whole packets, the last of
  which names the end (`Held`), and streams are made of such parts (`StreamedIs`); what is complete is then the log (`CompleteIsExact`).
  For a tree, `TreeBackupInv`: what is known is exactly what is in the directories that have been listed (`Known`, `FirstListed`), the
  queue is the rest of the directories (`IsRest`), a listing names what the tree has there and each name once (`ListedIs`), so that
  when everything is listed everything has been found, because nothing lies deeper than a listed directory (`AllIsFound`). `TreeRestoreInv`:
  what precedes the awaited step is as recorded and no file of what follows it is there (`RestoredSoFar`), and the plan has every
  parent before its children (`PlanIs`), so no child is asked for where its directory is missing. What a listing
  names is a recursive function (`Found`): that it exists is proved (`FoundIs`), and induction
  is on a set of numbers (`AllNumbers`).

`InboundProofs` proves about the behaviours of `Inbound`, for any kinds of transport, addresses, sockets and
writes, any senders, datagrams and caps, any frames, filters and identities, any settings of an In node and any arrivals,
any messages and what may be given for their fields
(`TransportAssumption`, `DecoderAssumption`, `ReceiverAssumption`, `InAssumption`, `CodecAssumption`); the constants of `Inbound` have values only in its cfg:

- `TransportsAnswer`: `Spec => []TransportIsTrue`, with `TransportInv`. A write that was handed over is one pending element
  or has one report (`WritesAreOnce`), and a stream's write is pending on a handle that can still answer (`UseIsOfTheLiving`),
  so that whoever ends a handle reports all that is pending there. That a late close of a superseded socket takes nothing from
  its successor is `RoutesAreTheLatest`, which is inductive beside these: what an address maps to is a socket
  that was accepted for it.
- `PipelinesAreTheirOwn`: `Spec => []StreamsAreTheirOwn`, with `DecodeInv`. `Split` asks only of shorter buffers, hence
  such a function exists (`SplitsAgree`, `SplitsExist`, `SplitIs`). It is compositional: what two buffers give is what the first
  gives, then what its tail and the second give (`CutsChangeNothing`), which is why cutting a stream into datagrams changes
  nothing. `DecodeInv` says more than the property, that a pipeline's tail stands for its whole stream whatever comes next
  (`Follows`), since a tail that became too long is dropped: what a split leaves has no start but for a single one (`SplitIsQuiet`),
  so that no frame is lost with it (`KeptLosesNothing`). What eviction leaves keeps its order (`DropKeeps`).
- `FramesOutliveChurn`: `Spec => PartialsOutliveChurn`. Only a new source makes room, it takes the place of one pipeline, and the
  order of preference leaves that one in the middle of a frame only where there is no other (`VictimIs`, `ChurnSparesFrames`).
- `RoutesAreEarned`: `Spec => []TrustIsEarned`, by the verdict on each frame in each of the four regimes.
- `DispatchServesWhoIsThere`: `Spec => DispatchIsExact`. `WalkIsTrue`: identities of subscribers only grow, so who
  subscribes during a dispatch is still ahead of it, and at every turn all that match behind it have been served. The next turn
  is that of the least identity ahead, which exists because the numbers are well-founded (`NextIsLeast`).
- `InNodePassesWhatIsDue`: `Spec => []PassesOnAsConfigured`. What is due is said of what went on before; the node
  has only its memory of each key. `RemembersTheLast`: time and fields that are remembered of a key are those of the last
  frame of that key that went on.
- `FramesAreAsMeant`: `Spec => []FramesMeanTheSame`, for messages of any finite number of fields of any types, lengths and order. The
  order on the wire is total (`WireOrders`), so a field ends where what follows it has not begun (`PlacesFollow`, by counting the
  bytes before each) and every byte is of one field (`PlacesAreOwn`, `PayloadIs`). No field is moved by the extensions, because none of
  them is before a core field (`CoreIsWhereItIs`): this is what an old receiver rests on. What was cut was zero (`NothingIsCutAway`), an
  element is where a reader looks for it (`ElementIsThere`), and what is refused is what the receiver would be owed
  wrongly (`ChecksRefuse`). A parameter comes back as its bytes make it up (`FourBytes`), but where `SignalingBytes` describes them. The
  assumption is that each field has a place of its own in the definition, that a char is no NaN, and that values are
  those of the module, an integer below 255.

A proof must be given every case of a distinction, and TLA+ does not take the first that fits but any. Where the
code tests one condition after another, the guards of a CASE therefore exclude each other, or it is IF after IF.

TLC only, and why:

- The invariants of `library` rest on folds over lists of files and definitions. What a fold or a recursive function
  computes for every input has to be proved by an induction on a set of numbers and, before it, a proof that the function
  exists at all; that was done for the trees and the splitter and not for these.
- `PayloadsAreAsShown` compares a finite table of recipes and carriers with what they are to mean. It has its values in
  the module, so TLC goes through all of them and a proof would say no more.

Liveness and ENABLED are outside the prover's reach and stay with TLC. No module declares a RECURSIVE operator.

## 5. Not modelled

- Pure conversions and tables: mission items, presets,
  units and labels, the rotation of a formation by pitch and
  heading and its projection to coordinates. They keep no state between calls.
- Inside the frame: the signature block, the checksum's arithmetic, the
  splitter of node-mavlink. Rounding of fractions in a payload.
- DSCP, forms and number validators of the editor but for Move's and the targets, what a
  message overrides of Move's form, the simulator harness,
  examples, seeds, scripts.
- Options of sockets and multicast membership; the admin routes that only look
  things up.
- Telemetry stored in a peer's record beyond heartbeat, position, landed state,
  GPS fix, sensor health, home and published modes; published modes that are renumbered while a wait runs.
- Snapshot numbers when the clock is set back between two updates: they are
  numbered in order.

## 6. Plan

Done in this order: the queue and its proofs, the connection, peers and
signing, commands, transfers, streams, the nodes that run several exchanges;
then the way in, slots and payloads, formations, the library, the editor, the
Move dialog and addressing, and the proofs about signing, streams and the
Command node.
Proofs then went on with the connection, the acknowledgement, the nodes that wait, the peers,
the nodes that run several exchanges, the outcomes of transfers, the way in, the end of a command, formations
and the codec.
Left: the folds of `DialectLibrary` as functions that can be reasoned about.
