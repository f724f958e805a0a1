# AppleUtils: a TLA+ verification project

AppleUtils restores Apple devices, browses and repairs APFS volumes and builds
Asahi Linux discs. This project specifies the parts of it where an order of events
nobody tested can do harm: the USB multiplexer, the bridge transport under it and the
restore client above it, which threads share and whose packets get lost; the recovery
screen and the service behind it, which talk over bounded queues; the repair of an APFS
image, which any write may cut short; and the scratch directories, which several
processes create and sweep. The other parts are in the inventory below with the reason
they are not modelled.

Paths are relative to the crate, `src/usbmux/link.rs` for instance. `PROJECT.json`
maps every definition to the lines it models.

## Inventory

### How the parts interact

```
 recovery screen <-- two bounded queues --> restore service     repair, explorer, Asahi, IPSW
                                                  |            (separate tools on files,
                                            restore driver      in scratch directories)
        _________________________________________/
 ramrod client -- workers: ASR server, bulk transfers, reverse proxy, seal server
        |              |
   MuxStream       MuxStream ...        one thread each
        \__________ SharedLink ________/       one mutex, watched by the watchdog
                      MuxLink                  framing, ports, sessions
                        |  \__ MuxSession      one per port: a small TCP
                  SocketBulkTransport          queue, credits, reader thread
                        |
                 Unix socket -> broker -> device
```

A restore opens several streams over one link. Every thread takes the link mutex for
a *turn*: it routes whatever packets are queued, to every session, and then looks at
its own. Between turns it waits off the link, on the condition variable of the
transport's queue. Nothing runs in the background for a session: acknowledgements,
retransmissions and probes happen only in somebody's turn.

### Components

| Component | State | Operations | What is hard | What makes it correct |
|---|---|---|---|---|
| session (`usbmux/session.rs`, `tcp.rs`) | sequence numbers, window edge, queues, FIN marks, send epoch | queue, take, next_segment, on_segment, retransmit, probe, shutdown, close | wrap-around, retracting windows, loss, FIN accounting | each direction is a byte pipe; the flight is accounted for; a receiver is never overrun |
| link (`usbmux/link.rs`, `frame.rs`) | version, packet counters, sessions by port, next port | negotiate, begin_open, finish_open, pump, flush, close | refused sends, gaps, restarts of the framing, ports that come round | packets are applied in order; the device hears everything; a thread's port is its own |
| streams (`usbmux/stream.rs`) | the shared link, policies, cancellation flags | open, read, write, drain_delivery, shutdown_write, close | the sample/drain/sleep race, calls with no deadline, cancellation | no lost wakeup; calls return; a successful shutdown means delivery |
| watchdog (`usbmux/watchdog.rs`) | six atomics | begin_wait, acquired, drop, sample | unsynchronised publication | a hold is visible while it lasts, and no other is |
| bridge transport (`bridge_transport.rs`) | packet queue, credits, waiters, terminal state | send, recv, read_loop, send_request, abort, drop | credits at their limit, late replies, writes that stall, the end of the session racing everything | credits are conserved; requests and drop return while the broker reads |
| bridge protocol (`bridge_protocol.rs`) | an assembly buffer | encode, decode, validate | partial frames | decoding inverts encoding; limits are enforced |
| ramrod client (`ramrod/client.rs`) | first_failure, terminal_cleanup, cancel, the active transfers | run_restore: receive, start, reap, cancel, join, decide | several failures at once, cancellation that looks like failure | the root cause is reported; success is clean; a failure ends the run |
| ramrod dial (`ramrod/dial.rs`) | attempts, a window | dial_until | a retry against a cancellation | a cancelled dial is not retried; the window is kept |
| ASR server (`asr_server/`) | handshake, payload position, producer activity | initiate, serve, out-of-order data, finish | a guest's re-reads during the payload | what is sent is the image |
| reverse proxy, seal server (`restore/`) | pumps, a shared cancellation | forward, serve | one pump failing under the other | a transfer reported complete is complete |
| restore driver (`restore/driver.rs`) | phase, plan, report | phases of a restore | partial failure between phases | phases in order; clean-up runs |
| restore service (`restore_service.rs`) | the claim, requested and accepted files, a kit, the run | commands, discovery, start, cancel, outcome, shutdown | commands and events that cross; blocking sends; a device that goes | a claim is detached once; quitting returns |
| recovery screen (`recovery_model.rs`, `recovery_runtime.rs`) | phase, requests, claim, choices | keys, events, one drain per frame | acts on what the service was | agrees with the service once nothing is in flight |
| repair (`repair_ops.rs`, `repair_snapshot.rs`, `repair_volume.rs`) | the image, the list of repairs | sweep, apply | repairs that move what later ones address; interrupted pairs of writes | the image mounts and stays consistent; two runs repair what can be |
| repair writer (`repair_writer/`) | checkpoint rings, bitmaps | append_with, allocate, materialize | a crash between blocks, rings that wrap | an append is atomic |
| scratch directories (`scratch.rs`) | directory, marker, lock | create, sweep, drop | crash between steps, concurrent sweep | live survives, dead goes |
| data formats, APFS, explorer, Asahi, IPSW, crypto, TUI | files, byte layouts, screens | parse, build, draw | size, not concurrency | outside what TLC or TLAPS reach at a reasonable size |

`PROJECT.json` lists all components with their sources, and the hazards of the code at
the lines where they bite, each with the property that would catch it or with a note.

## What is modelled

### `MuxSession`, `BytePipe`, `MuxPair`, `MuxDelivery`

`MuxSession` has one variable per field of the struct and one action per method, a
method with several outcomes being several actions (`SendData`, `SendFin`, `SendAck`
are `next_segment`). A byte is its position in the stream, so a lost, repeated or
misplaced byte shows. Sequence numbers are integers modulo `2 * SeqHalf` with the
code's wrapping subtraction and signed comparison. `Spec` leaves the device open: any
header meeting `DeviceContract` may arrive, that is, windows fit the header and a stale
acknowledgement is less than about half the space behind. The proofs are about this
specification.

`MuxPair` closes it with a device (external, modelled from what the code says of it)
and two lossy FIFO channels, and calls the methods as the link does: a call that
changes the session is followed by a flush, and nothing comes between while the flush
lasts. `ContractMet` says that this device meets the contract `MuxSessionProofs` assumes.
`BytePipe` is what one direction promises; `DownIsPipe` and `UpIsPipe` are refinements
by `INSTANCE ... WITH`. `MuxDelivery` adds the program counter of a stream's writer:
write, the two drains of `shutdown_write`, the probes.

### `InboundWait`

The queue, its generation and the condition variable of the transport
(`TransportState` as an `InboundSignal`), the link mutex, and the loops of
`read_shared`, `write_shared` and `complete_open_cancellable`, in steps small enough
that a packet, a credit, the end of the transport or a cancellation falls between any
two of them. Routing takes one packet per step. What a packet says is reduced to the
thread it is for. A reader or writer may call again; a dial is made once. The socket is
not in this module: a turn does not wait in it, so the writes of `BridgeTransport` are
taken to return.

### `BridgeTransport`

The reader thread, the thread on the link, the control requests and the ones that end
the session, one step per critical section; `mark_terminal` therefore takes three.
`write_frame` needs the writer mutex and room in the socket (`SocketRoom` frames): without
room a thread takes the mutex and waits with it (`WriteWaits`), and everyone who has to
write, or to shut the socket, waits behind it. The broker is external and honest about
credits and replies; it may stop, and stop reading, report the device gone, or hang up at any
time. Frames are a kind and a value.

### `MuxLink`

Every action of a thread is one hold of the link mutex. An operation of the link is an
operator on a record (the link, its transport's two queues, an error flag), so that
a drain is a fold of `Pump` over the queue. A connection is the number of its dial, which
stands for its initial sequence number: two dials are taken to have different ones.
The streams' contents are `MuxSession`'s matter, and an orderly close is `MuxPair`'s
(`OrderlyCloseIsComplete`); here every close sends its RST. The device numbers its
packets, drops packets with a wrong number, and may restart its framing. `ghost` holds
history for the properties and the workload of the behaviour; no guard reads it, but for
the bounds.

### `LinkActivity`

`SharedLink::with` and what `LinkHold` publishes and clears, one atomic access per step.
A hold is a number standing for its stamp, phase and port. Stores take effect in program
order. The code's relaxed orderings allow more behaviours, so the violation is a real one.

### `RestoreClient`

The control loop and the workers of `run_restore_with_cancellation`, one access to a
shared atomic per step. A transfer returns, fails by itself (a panic included) or sees
the cancellation flag; the control session ends normally, by a lost connection, by an
error of its own or by an echo of the flag. The late acknowledgement of a final status
after a lost connection changes only the summary's counters and is left out.

### `Checkpoint`, `SnapshotRepair`

`Checkpoint` is `append_with` and the rule by which an image is opened. A block is a
record with a flag that says its checksum holds; a write is one step, and a write that is
cut short leaves the old block, or one part old and part new that does not verify. What the
model keeps of a superblock or a map lies in the first 512 bytes of its block, so a torn block
holds the old values or the new ones and never some of each: tears inside a sector are left
out. `IsMounted`
is the superblock with the highest transaction id among those that verify, `Loads` that
its maps and every object they name are in place.

`SnapshotRepair` EXTENDS it with the container outside the rings: the object map, the
volume superblocks, the snapshot tree, frozen superblocks, chunk-info blocks and bitmaps.
A run sweeps, takes the list of repairs (all of them or one), applies each in turn and
reports. In-place repairs write one or two blocks; creating the root snapshot allocates
from the private space manager, writes its copies, appends a checkpoint and verifies. A
write may fail, which fails that repair and goes on with the next one, or be the last of the
process, after which the user starts another run. `overtaken` is history for one property: the slots
of superblocks that were torn and over whose blocks a later transaction was begun. The body of the space manager is the
list of its chunk-info blocks; a snapshot's metadata and name records are one record; the
ids of one kind are applied in the order of their addresses, where the code sorts the
ids as strings. The sweep finds no volume through an object-map tree whose checksum fails;
that case is left out, and no state of the runs has such a tree mounted.

### `RecoverySession`

The screen (`RecoveryModel` and `RecoveryRuntime`) and the service worker, with nothing in
common but the two queues. `Prepare` is a frame: it drains the events and then starts the
restore once a claim has everything it needs. A key is one handler of the screen. A command is one
action of the worker, whose events wait in `out` and are sent one by one, blocking;
progress is dropped when the queue is full. A restore runs on a thread of its own and
ends when it likes, with or without a stop and with either outcome; that it ends is an
assumption here. The broker's inventory moves by itself and
may refuse a claim, and looking it up again after a claim was granted or let go may fail, as
long as the inventory may still move (`MayFail`). Files are good or misnamed. Behaviours start on the first screen, or
with a kit that was collected before.

### `Scratch`

Each process creates its directories in the code's steps (mkdir, pending marker, lock,
rename), and before the first of them sweeps what it finds in the parent: it reads an
entry's metadata, opens the marker, tries the lock, or judges a directory without a marker
by its age. Entries are removed one by one. A process may die between any two steps, which
frees its locks, and a creation may fail at each step. Time is the age of a modification time, counted
up to `UnmarkedIdle` (an hour in the code). `Prompt` bounds how long a creation takes from
mkdir to rename and a sweep from an entry's metadata to its clock: twice that is less than the
hour. A machine suspended for an hour between two such steps is outside the model, and
there a sweep can take a directory that is being made.

## Runs

| Run | Shows |
|---|---|
| `pair` | the session's invariants, the device's contract, that neither side's buffer is overrun, the send epoch, that a session dropped without RST was complete, and that each direction is a byte pipe |
| `delivery` | a successful `shutdown_write` means the device has everything; writes and shutdowns return |
| `inbound_wait` | no read or write sleeps beside its own work; a packet, or the end of the transport, brings a thread back with no timeout needed; a cancelled call returns, by its slices |
| `bridge` | credits are conserved in both directions, an honest broker is never refused, the guest's buffers suffice, packets are delivered in order; the session is blamed on an unsolicited reply only after a request gave up; a DETACH's answer is heard; control requests and drop return, unless the broker leaves the socket full for good |
| `link` | packet numbers of both directions over losses, refused sends and a restart; no stream fails another; port ownership, leaks and stale SYN-ACKs with more dials than ports |
| `restore_client` | which failure a run reports; a failed transfer ends the run |
| `repair` | over failed, torn and last writes, the image mounts a checkpoint that loads and a consistent container, the root snapshot is created once, a group keeps its id, and two undisturbed runs repair what can be repaired |
| `recovery` | a claim is detached once; screen and service agree on the signing choice, the claim and the requested files; no phase waits for an answer that is not coming; quitting returns |
| `scratch` | no sweep touches a directory in use or being made; what a crash leaves goes in the end |
| `bridge_stuck` (violation) | the holder of the link can wait in a socket write for ever |
| `activity_hold` (violation) | a hold can be invisible while it lasts |
| `repair_stale` (violation) | a repair can be reported as applied and not be |

### Findings

- **`bridge_stuck`**: `send` and `recv` write to the broker's socket under the link mutex,
  with `write_all` and no write timeout. The comment at `src/usbmux/stream.rs:287` says that no
  thread may wait for the transport while holding the link, and `try_take_host_credit`
  (`src/bridge_transport.rs:1138`) keeps to it for credits; but a broker that stops reading, with
  the socket full, keeps the thread in the write, and with it every session of the link.
- **`activity_hold`**: `SharedLink::with` drops the mutex guard before the `LinkHold`,
  so the late clearing stores wipe out what the next holder published. The watchdog
  then misses that hold for as long as it lasts.
- **`repair_stale`**: the ids of a run name addresses of the sweep before it. When one of
  them creates the root snapshot, the volume superblock moves, and an in-place repair after
  it in the same run (`snapshot-count`) corrects the superseded copy and is reported as applied.
  In the run's example blessing fails for a bad checksum, the checksum is resealed,
  `root-to-xid` then makes the transaction, and the count stays wrong. A second run
  repairs it, which is why `TwoRunsSuffice` says two.

### Exceptions

Some passing properties name a case they do not cover, because there the code promises
no more. They are worth a maintainer's look:

- `PortsAreOwned` excuses the port of a dial whose SYN was refused: it stays in the map for
  good.
- `DeviceHearsEverything` excuses the packet that crosses a restart and happens to carry the
  number the restarted device expects, `AppliedInOrder` a restart whose version packet
  was itself lost. `AppliedInOrder` also lets the numbering come round: once a packet is lost
  the link refuses the rest of that cycle, in the code up to 65535 packets, and then goes
  on as if nothing were missing.
- `NothingMissed` is about reads and writes. A dial samples the generation after its drain,
  against the comment at `src/usbmux/link.rs:567`, and can sleep beside its packet for one
  slice of 25 ms.
- `QuitReturns` excuses a worker that is sending to a full event queue: `Drop` joins it
  without dropping the receiver, so that quit does not return.
- `ClaimIsBacked` excuses an idle claimed device that left the inventory: the screen forgets a
  claim the worker keeps. It also excuses a claim that was dropped for a second one: two Claims
  can be in the queue when events from before bring the screen back to its list of devices
  between them, and `claim_device` drops the claim it holds before it asks for the new one. If
  that is refused, `ClaimRejected` does not take the old claim off the screen.
- `UiSettles` excuses a screen that shows a claim the worker does not hold, as after the
  second case above: its start is ignored, and it stays at "starting".
- `AskedIsOffered` excuses a payload that was accepted before: asked for again, it keeps its old
  answer on the screen, and the restore cannot start.
- `RequestReturns` and `DropReturns` excuse a socket that the broker leaves full for good. The
  write that waits there keeps the writer mutex; a request's timeout starts after its own
  write, and `Drop` and `close` need the mutex to shut the socket, so none of them returns.
- `SnapshotsExact` excuses the count of snapshots, and nothing else, in one case: a torn
  container superblock, a retry that has begun to reuse the blocks it names and fails, and then
  a checksum repair that reseals the superblock, so that it is mounted as the newest
  (`src/repair_ops.rs:1794`).

### Bounds

The sequence space is 32 numbers and the initial number 29, so that every run of the
session wraps. Windows are 2 bytes and the segment size 2: small against half the
space, as in the code, and a full, a partial and a held-back segment all occur. One
loss with retransmission covers each segment kind being the one lost. `MuxPair` has two
workloads: both sides write and shut; the host alone writes more than a window, and the
device resets the session or sends odd flags. `MuxLink` counts packets modulo 3, so counters
wrap within a run. Its behaviours have one of three workloads: a fresh port for each of two
dials with a restart, a loss and a device packet; three dials over two ports with a loss
and a device packet; four dials over two ports. `InboundWait` has one thread of each
kind, any two of them in a call at once (`MaxCallers`), one packet and one cancellation,
since a lost wakeup needs one sleeper and one event; the theorem covers the rest.
`BridgeTransport` also has workloads: packets both ways (three host credits above two guest
buffers, three packets one way and one the other, and the reverse), and one request, answered
as a plain one or as a DETACH, next to a packet or next to a ping. The socket holds one frame,
so that every second write can stall. Several requests at once are in the theorems.
`RestoreClient` has three workers: one that fails, one that echoes, one that fails late.

`SnapshotRepair` has twelve images: eight with damage of every repairable kind, at different
places of the ring, some with so little room in the first chunk that the transaction spills
into the second, and four with too little room at one of the places that can run out.
The rings have 6 and 4 blocks for checkpoints of 3 or 4, so that appends wrap, and those of
four are refused; at most three runs. Two writes of a behaviour are cut short: both fail
cleanly, or one does and the other is torn, in either order. The violation run has no faults. `RecoverySession` has queues of
two, so that both fill, and three workloads: four keys from the first screen, four keys
with a kit, two keys with a kit and two moves of the inventory. `Scratch` has two processes and two workloads:
one directory name with three crashes, two with one. `UnmarkedIdle` is 3 and `Prompt` 1,
the smallest that leave a sweep something to get wrong.

Deadlock is checked in `scratch`, where a process can always go on. The other systems may
stop, at a bound or at their end.

### Fairness

`delivery`: the writer's loop comes round while it is inside a call; a flush or probe
that found no capacity, and a route that waited for the lock, are retried in every
turn, hence strong fairness. The device reads and acknowledges; nothing makes it
announce a reopened window. `inbound_wait`: threads are scheduled, and a thread that
keeps asking for the mutex gets it; no timeout is used. `CancelEndsTheCall` alone adds,
as its premise, that a slice of sleep ends. Both runs rest on a holder of the link not being
stuck in `write_frame`, which `bridge_stuck` shows it can be: they hold while the broker reads
what it is sent. `bridge`: threads of this process and a request's timeout go on, and a write goes
on as soon as there is room. Nothing is assumed of the broker in the specification, not even
that it reads; the two properties say themselves what they need of it. `restore_client`: threads are
scheduled and a blocked receive sees the flag in time (the streams are dialled with it, and
`CancelEndsTheCall` shows that it returns); nothing is assumed of the guest, or of a
transfer that is not cancelled. `recovery`: the worker's thread goes on while it can, the
check of a file ends, a run and a call of the bridge end (a run looks at the stop flag and its waits
are bounded, as long as the broker reads), and `Drop` sends as soon as there is room; nothing
is assumed of the user or of the inventory.
`scratch`: time passes, the processes take their steps and are started again, and a process
that keeps being able to call with a sweep does so in the end (strong: its other calls
come between). A call under way goes on to its end or to a failure.

## Proofs

`MuxSessionProofs`, about `MuxSession!Spec`, for every sequence space, window, segment
size and number of bytes, assuming only that a window is less than half the sequence
space (`WindowAssumption`; 2^24 against 2^31 in the code) and the device's contract:

- `TypeCorrect`: the types, action by action.
- `FlightIsAccounted`, `FlightFits`, `FinStaysLast` from the inductive invariant
  `FlightInv`. Accounting alone is not inductive. That the queue drains by what the
  numbers in flight drop by needs the flight to be shorter than half the space, and that
  needs `EdgeInReach`: the window edge is at most a window ahead of `snd_una`, or not so
  far behind as to look ahead. Three lemmas hold the wrapping arithmetic.
- `StreamIsContiguous`: the two queues hold consecutive bytes, inductive given the types.
- `SessionIsSound`: the four together, the invariant the runs check.
- `EpochNames`: the action property, from the types alone.

`ThreadProofs` holds three.

About `InboundWait`, for any number of threads, packets and credits: `WaitTypeCorrect`,
and `NoLostWakeup` from `WaitInv`. The strengthening is about threads on their way to
sleep: while a thread's sample is still current, the queue is empty and it has nothing
to do (`CurrentIsIdle`); a parked thread's sample is current (`ParkedIsCurrent`).

About `LinkActivity`, for any number of threads and holds: `PhantomFree`, from the
invariant that a stamp or phase that is set has a thread that will still clear it.

About `RestoreClient`, for any number of workers: `RootCauseIsReported` and
`SuccessHidesNothing`, from an invariant that relates each worker's position to what it has
published, the cancellation flag to the failure or the clean-up that raised it, and the list of
joined failures to the results behind them. A cancelled transfer counts as a failure only
if the flag was raised for one, and then that one was published before.

`StorageProofs` holds two.

About `Checkpoint`, for rings and checkpoint maps of any size, any objects and any image that
mounts: `ImageAlwaysMounts` and `PublicationIsAtomic`. The inductive invariant adds to
`MountLoads` that no two superblocks that verify share a transaction id, and, during an append, that
the mounted checkpoint is still the one it extends, that the slots it writes are none of
that checkpoint's, and that what it has written so far is in place (`AppendSound`).
The core is arithmetic of windows in a ring: the new window follows the old one, and the two
fit the ring together because `RingFull` refused otherwise.

About `Scratch`, for any number of processes and directories: `TheLivingAreSpared`. The
invariant follows a sweep that has already read something: the modification time it saw of a
directory still being made is at most as old as that creation and its own look together, so that
`2 * Prompt < UnmarkedIdle` keeps it from judging the directory abandoned (`Made`); a marked
directory has its lock taken from before the marker appears (`Held`).

`MuxPairSends`, `MuxPairReceives` and `MuxPairProofs`, about the pair and `MuxDelivery`, over
channels that lose packets, for every sequence space, window, number of bytes, workload and
number of losses. They assume besides that two windows and one are less than half the sequence space (`DeviceAssumption`,
2^25 + 1 against 2^31 in the code): a retransmission can be a window behind the
receiver while new data is a window ahead of it. The inductive invariant `PairInv` is
`FlightInv` and, once the device has seen the SYN, four facts for each direction: the
receiver has exactly the bytes before the number it waits for; every segment on the channel
carries the bytes its number stands for, none from beyond what was sent; the
acknowledgements on the channel never fall from one to the next, lie between what the
sender knows and what the receiver has, and promise no more than the receiver's room; and
the same holds of the window edge the sender goes by. Positions in the stream are exact numbers
and those on the wire wrap, so the link between them is `Apart(x, y, k)`: x is k after y.
The invariant itself and the steps of the two readers are in `MuxSessionProofs`; the steps that
send, and those that take or lose a segment, have a module each.

- `DeviceMeetsContract`, `PairImplementsSession`: the contract `MuxSessionProofs` assumes
  is met, and the pair's session implements `MuxSession!Spec`.
- `BuffersAlwaysSuffice`, `OrderlyCloseLosesNothing`: the two safety invariants of `pair`.
- `DownIsAPipe`, `UpIsAPipe`: the refinements of `BytePipe`, step by step. A step that
  gives the receiver new bytes is a delivery, one that only repeats some is a stutter.
- `ShutdownDelivers`: from `PairInv` and that the writer's `finishing` and `finished` mean
  a FIN queued and a FIN received.

`BridgeRequestProofs` and `BridgeTransportProofs`, for any number of credits, buffers, packets
and requests and any workload: `CreditsAreConserved`, `FlowStaysSound`, `HonestBrokerIsBelieved` and
`DetachIsAlwaysHeard`, the invariants of `bridge`. The inductive invariant comes in layers:
the types; how a session ends (`Ending`: waiters are cleared only after the queue was
closed); the two sums of credits, at most the agreed number always and exactly it while the
socket is up (`FlowInv`); the number of every packet by the place it is in (`OrderInv`);
and for each request the one place its frame is in, and that its waiter is registered as long
as it is under way, unless it timed out or the session was closed (`RequestInv`). Frames
are counted by the cardinality of sets of positions, so that no lemma needs a fold.

Only model-checked: everything under fairness (liveness is beyond this prover), and the
properties of `MuxLink`, `SnapshotRepair` and `RecoverySession` that the theorems above do
not name. `SnapshotRepair` uses recursive operators, which the prover does not take;
the properties of `MuxLink` and `RecoverySession` speak of what is left when a queue of any
length has been folded, which needs an induction over the queue.

## Not modelled

Byte layouts of headers and records, traces and statistics, the length of timeouts,
segments too large for the transport after a change of framing, relaxed memory orderings
beyond program order, the watchdog's sampling thread (its fields are read one by one, so a
sample can mix two holds). A device or broker that breaks its protocol is modelled only as far
as the code's checks go: resets and odd flags in `MuxPair`, restarts in `MuxLink`.

In the repair: magic numbers, custom boot volumes, trees of more than one node, snapshots
whose metadata and names disagree, and writes that reach the disc in another order than
they were made. In the recovery session: more than one device, folders and IPSWs as inputs
(a folder handed over while a file is checked leaves `verifying` set,
`src/recovery_runtime.rs:426`), the choice of a behaviour, and the contents of a plan.

Most of the crate by lines is outside what these models can say anything about: readers,
verifiers and writers of APFS, FAT and ext4, property lists, DER, tickets, manifests, IPSW
archives, binary patches, cryptography, and the drawing of screens. They hold no state
between calls and share none between threads; what can be wrong in them is a
byte or a field, which tests on fixtures reach and a bounded instance does not. The map
therefore covers a small share of the lines, those where order matters. Of the concurrent
code, the reverse proxy, the retry window of `ramrod/dial.rs` and the servers of a restore
(ASR, seal, HTTP assets) are left out; their threads meet only in the link and in the
cancellation that `MuxLink`, `InboundWait` and `RestoreClient` model.
