# Verification of the core ledger stream

TLA+ models of `corestreamd` (a relay that streams Stellar ledgers to
subscribers while they are still being emitted), of its client library
`remoteledger`, of the sources it streams from and of its startup and
shutdown, with TLC runs on small instances and TLAPS proofs, for every value of
the constants, about the ring, the source loop, the chunk pipeline, the sources,
startup, the daemon and the composition. Paths below are relative to the repository.

## The system

One process pulls ledgers from a source, publishes each one chunk by chunk as
it is read, and keeps the last N on disk. Any number of subscribers follow over
WebSocket connections. A subscription is a cursor: behind the current ledger it
reads whole ledgers from disk, at the current ledger it follows the chunks.

| Part | State | Operations | Interacts with |
|---|---|---|---|
| wire protocol, `internal/wire/wire.go` | none | BEGIN, CHUNK, END, close reasons; Decode | everything below |
| chunk codec, `internal/server/compress.go`, `remoteledger/decompress.go` | none | compressChunk, encodeChunk, appendChunkPayload | source loop, serve, client |
| broadcaster, `internal/server/broadcast.go` | current flow, notify channel, ended, source error | begin, chunk, end, finish, watch, failure | called by the source loop and the pipeline, watched by serve |
| retention ring, `internal/store/store.go` | directory, oldest, latest, filled | Open, PutParts, Get, Bounds | written by the source loop, read by serve |
| source loop, `Server.Run` | previous sequence, emission, parts, chunk index | pull, read, submit, flush, END, put, return | source, pipeline, broadcaster, ring |
| chunk pipeline, `compress.go` | work and ordered queues | submit, workers, publisher, flush, close | source loop, broadcaster |
| ledger hasher, `internal/server/ledgerwork.go` | queue, digest | write, sum, close | source loop |
| subscription loop, `Server.serve` | next, live flow and progress, last watch | watch, live, pinned END, ring, sleep, close | broadcaster, ring, connection |
| client, `remoteledger/stream.go` | assembly, sequence tracker | BEGIN, CHUNK, END, close, read error, cancel | connection, consumer |
| paced source, `emit.go`, over `filesource.go` or `synthetic.go` | grid, body, place in the dump, one buffer | Emissions, Read, sleepUntil | source loop, clock |
| pipe source, `pipesource.go` | pipe, child process and its group | Emissions, Read, the deferred teardown | source loop, the command, os/exec, kernel |
| captive source, `captive.go` | none | builds a configuration for the SDK | daemon, bench runner |
| daemon, `cmd/corestreamd` | two services and a signal context | parseFlags, run, runServices | source loop, HTTP server, connections |
| bench runner, `cmd/benchrunner` | samples | consume, statistics | client |

What is hard here, and which properties are about it (PROJECT.json lists each
hazard at its line):

* **Cursor against flow.** serve takes a snapshot under a lock and then writes
  for as long as the socket takes. Meanwhile the flow completes, goes to disk,
  is replaced, is replaced again, and pruning may catch up.
  `NoProtocolError`, `DeliversWhatWasEmitted`, `StampsAreHonest`,
  `DiscardsAreAbandons`, `TooFarBehindMeansOlder`.
* **Memory to disk.** END is published before the ledger is on disk, and a
  cursor below the flow relies on the disk. `BelowFlowOnDisk`, `ResetOnlyFirst`.
* **Two publishers.** Chunks are published by the pipeline's goroutine, BEGIN
  and END by the source loop's. `NoPanic`, `EndMatchesChunks`,
  `SourceImplementsPublishInOrder`.
* **Sleeping.** `NoLostWakeup`, `SubscriptionsEnd`, `Delivered`.
* **Ends.** A source failure, a truncated range or a dropped connection must
  not look like success. `CleanEndIsHonest`, `ImplementsLedgerStream`.
* **Crashes and failing system calls in the ring.** `DiskContiguous`,
  `AckedIsDurable`, `GetIsWhole`, `IndexMatchesDisk`, `RingIsRange`.
* **The last uint32 sequence.** The run `stream`, `RangeIsStreamable`.
* **Shared buffers.** A chunk is a slice of memory that Run, a worker, the
  publisher, the hasher, PutParts and the subscribers use at once.
  `ImplementsPublishInOrder`, `RetainedIsPublished`.
* **Full queues and closing.** `LedgerEnds`, `EverythingStops`,
  `DegradationIsCounted`.
* **A child process.** It may die at any byte, fork, leave its group, ignore
  SIGTERM or hang, and the shutdown that kills it must not look like its failure.
  `NoShortLedger`, `CancelIsNotFailure`, `FailureIsNotClean`, `GroupIsSwept`,
  `CancelEnds`, `StopEnds`.
* **Schedules.** `NoBurst`, `NeverEarly`, `CancelEndsSleep`, `BodiesAreLedgers`.
* **Starting and stopping the daemon.** `DumpIsNotRing`, `EndsInteroperate`,
  `HugeCapIsACap`, `FailureIsReported`, `DaemonEnds`, `SubscribersAreFinishedOff`.

## Modules

| Module | Models | Composes |
|---|---|---|
| `Wire` | messages, codec, close frames, chunk cutting | |
| `Broadcaster` | broadcast.go | `Wire` |
| `Store` | store.go, one step per system call | `Wire` |
| `RetentionRing` | the ring alone: any writer, concurrent readers, crashes | `Store` |
| `ChunkQueue` | the pipeline as Run sees it: a queue with a publisher | `Broadcaster` |
| `SourceLoop` | `Server.Run` | `ChunkQueue`, `Store`; implements `PublishInOrder` |
| `PublishInOrder` | what Run promises of every flow (abstract) | `ChunkQueue` |
| `ChunkPipeline` | `Server.Run` with its workers, publisher, hasher and memory | `Broadcaster`; implements `PublishInOrder` |
| `Conn` | the WebSocket library as both ends use it (external) | `Wire` |
| `Serve` | `handleStream`, `serve`, `readRing` and the writers | `Broadcaster`, `Store`, `Conn` |
| `RemoteLedger` | the client's read loop | `Conn` |
| `CoreStream` | all of them, with fairness and the refinement mapping | `SourceLoop`, `Serve`, `RemoteLedger` |
| `LedgerStream` | what the stream promises a consumer, with no server | |
| `PipeSource` | pipesource.go, with the command, the kernel and os/exec | |
| `PacedSource` | emit.go over filesource.go and synthetic.go | |
| `Startup` | parseFlags, `run` up to the listener, `server.New`; the client's limits | |
| `Daemon` | runServices, the HTTP shutdown and the connections | |
| `WireProofs` | lemmas about bodies, their ranges and their concatenation | `Wire` |
| `RetentionRingProofs`, `SourceLoopProofs`, `ChunkPipelineProofs`, `CoreStreamProofs`, `PacedSourceProofs`, `PipeSourceProofs` | theorems about the module each is named after | that module |
| `CorestreamdProofs` | theorems about startup and the daemon | `Startup`, `Daemon` |
| `MCRetentionRing`, `MCSourceLoop`, `MCCoreStream`, `MCPacedSource`, `MCStartup` | sets for the TLC configurations | |

Operators that begin with "Mutant" in their comment are wrong versions of the
definition that follows them. Nothing uses them; replacing the definition by one
of them makes TLC find the property named in PROJECT.json violated, which shows
that the property depends on that code.

### How the models correspond to the code

**Data.** A ledger body is a sequence of units, each naming its origin, ledger
and position, so two bodies are equal only if they are the same bytes. The
checksum of a body is the body (no collisions). A zstd frame is one opaque unit
around the body it encodes, so a compressed chunk really has a different payload
and a chunk decoded with the wrong codec really is wrong. Sequences are
`0..MaxSeq`, their successor wraps, and the server's cursor, a uint64, does
not. An emit stamp is the number of the flow it was taken for, 0 for none.

**Broadcaster.** Every method holds the mutex throughout and is one step. Flow
objects stay reachable from subscribers that pin them, so `flows` keeps all of
them and the last is `cur`. The notify channel is a counter: channel `c` is
closed when the counter has moved on or the stream is finished. The panics are a
flag, and so is closing a closed channel.

**Store.** put holds the write lock, so no other call sees its intermediate
index; but readers open files with no lock, so every system call of put is a
step. Each may fail; put then returns with the index it had reached. A crash
keeps the directory, including a directory half emptied; temporary files have
names the scan ignores and are left out. Durability is across process crashes:
the code never syncs, so nothing is said about power loss.

**SourceLoop.** The source is the environment: any sequence from `FirstSeqs` or
`SourceSeqs`, any declared size, and a body that ends short, runs long, fails or
is cancelled at any read. This covers every source in the repository. `fillChunk`
returns short of a chunk only with an error, or past the declared size where the
arena's last buffer is short. With compression, chunks wait in an in-order queue
(`ChunkQueue`) until the publisher takes them, raw or compressed; the queue's bound
stands for its capacity and the chunk in the publisher's hand. The checksum is of
what was handed over. Both simplifications are what `ChunkPipeline` is for.

**ChunkPipeline** is Run again, with the goroutines and the memory. A buffer is a
sequence of cells and a slice a range of it; the flows hold slices, as the code's
do, so a write under a published chunk changes what a subscriber would send. The
reader may scribble on all of the buffer it is given. A worker's encode is one
step that reads the payload and either frames it in place or makes a copy. Each
channel has its capacity, and each blocking send, receive and Wait is a guard.
The ring is reduced to the sequence of bodies PutParts read.

**PublishInOrder** is what both promise: a flow is the source's bytes in order, in
chunks of at most a chunk's size, raw or compressed, no chunk ever changed, END
after all of them with their count, length and checksum, nothing after finish.
`ChunkPipeline` implements it with slices mapped to the messages they hold now and
the jobs in flight mapped to the queue. `SourceLoop` implements it too. So the
stream, checked over `SourceLoop`, rests on nothing about publication that the
detailed pipeline does not provide.

**PipeSource.** A frame is a marker of two units and payload units; the writer is
any process of the command, and each process may write, close its end, exit well
or badly, or hang, at any unit. Which of them left the group and which ignore
SIGTERM is chosen at the start. The context's AfterFunc, os/exec's watch (SIGTERM
to the group, after WaitDelay SIGKILL to the direct child) and the iterator are
separate. Run is there as the consumer: it reads the body, may stop for reasons
of its own, and turns what the iterator yields into its result.

**PacedSource.** The clock is an integer that may move between any two steps, so a
sleep may overshoot and a consumer may be slow by any amount. Due times are
integer divisions where the code uses floats (to avoid overflow, emit.go:146); both
put the last unit at the window's close. After an overrun the grid starts anew at
the present, so two emissions may come back to back once; three never fall within
one cadence, which is what `NoBurst` says.

**Startup.** Flags are numbers wider than uint32, of which only values at and
around the bounds matter; `MaxUint32`, `MaxInt64` and the chunk bounds are small.
Directories are identities that two paths, or a link, may share. `cadence` stands
for `--synthetic-interval` with that source. The library's read limit is external:
it stores what it is given plus one.

**Daemon.** runServices' three goroutines with the channel they send to, the
signal, and a state for each connection. A serve loop hangs on the request's
context, which the signal cancels and runServices' own cancel does not.

**Serve.** Each step takes one lock once, or writes one message. When an
iteration decides to write several messages, they are queued in the local state
and the cursor is moved at once; the cursor is local, and a failed write ends the
subscription, so nothing can tell. `readRing` is its four separate accesses
(Bounds, Get's check, the file, Bounds again). A write that finds the socket
full may time out at any moment. A client that is gone is noticed in a write or
in the sleep.

**RemoteLedger.** One message is one step. On every exit the connection is torn
down and what was in flight is dropped; a connection lost in the network may
still yield what was sent before. The consumer may stop at any ledger, or be
cancelled in any read. A failed dial only yields an error and is left out.

**LedgerStream** is the promise: a source completes consecutive ledgers into a
log; a consumer is given the ledgers it asked for, whole and consecutive, from
the log or from an earlier run; its iteration ends cleanly only when it has its
range, or when the source ended without failing and there is no more. `CoreStream`
maps the completed flows to the log and the client's outcome to that end.

## Runs

| Run | Shows |
|---|---|
| `ring` | Under any puts (gaps, rewinds and 0 included), failures and two crashes: the directory stays contiguous, so Open accepts it; a reader gets a whole ledger or none; an acknowledged put survives; with no failure the index is the directory and within the retention. |
| `source_loop` | With any source and two chunks in the pipeline: no panic, END matches the chunks in order, every earlier flow is on disk or pruned, only a run's first ledger empties the ring, the ring is a range unless an unlink failed, and `PublishInOrder` is implemented. |
| `stream` | The composition with a retention of one, so pruning follows the cursor, over a fresh ring, one the source continues and one it rewinds into; ledger 4 is the last sequence and the source may go on to 0: all safety properties of delivery. |
| `stream_live` | The composition with the pipeline, over a fresh ring and one the source rewinds into: `LedgerStream` is implemented, every subscription ends after Run returns, and a pulling consumer gets the ledger it waits for, or an end. |
| `pipeline` | With two workers and full queues, and without compression: `PublishInOrder` is implemented, the retained bytes are those END describes, raw fallbacks are counted, and flush, sum and close return. |
| `pipe_source` | A command with a child, two frames, a shutdown at any moment: how frames, failures and cancellations end, and that a cancellation does end it. |
| `paced_source` | Three cadences and windows, a dump of three records (one empty) cycled, any delays: bodies, schedule, cancellation. |
| `startup` | All flags around their bounds, aliased directories, client caps up to MaxInt64. |
| `daemon` | Two connections, every order of returns and a signal: exit status and exit. |
| `pipe_stop` (violated) | See findings. |
| `daemon_cut` (violated) | See findings. |
| `too_far_behind` (violated) | See findings. |

**Bounds.** One subscriber suffices for safety: serve loops share only state
they read, apart from the abandon counter, which only grows. A socket buffer of
one message makes every write a point where a subscriber may fall behind. Two or
three ledgers over a retention of one or two make a cursor fall one ledger
behind, two, and out of retention; two chunks to a ledger make BEGIN, a chunk,
a later chunk and END distinct places to stop. Longer bodies and ranges only
repeat these. Two crashes cover a crash during the recovery from a crash.

In `ChunkPipeline` the queue to the workers and the ordered queue hold one job
each, so either is full while the other is not, and a body of five units in chunks
of two leaves a short chunk, the arena's slack and, when the declared size is
exceeded, the spare buffers; two ledgers let a buffer of the first be met by the
second. In `PipeSource` one forked process beside the shell gives every relation
of a grandchild to the group, the pipe and SIGTERM, and a pipe of one unit
makes every read a place to block or be cut. In `PacedSource` the clock runs
past two cadences of the longest schedule. `Startup`'s widths are powers of two
small enough to list every value around each bound.

**Fairness.** `ServerFairness` is weak fairness for what the Go scheduler and
the operating system run: the source loop once a ledger's body has been read
(flush, put, return), the pipeline's publisher, every serve step, and a write,
which finds room, fails or times out (`chunkWriteTimeout`, server.go:52). The
source may stall for ever and the network and the client may do nothing.
`Delivered` has that assumption in itself (`KeepsPulling`): only it needs a client
that reads.
Each liveness property is checked with no state constraint.

`ChunkPipeline` assumes weak fairness of Run between reads and of each goroutine;
its source may block for ever. `PipeSource` assumes it of the iterator, the
AfterFunc, os/exec's watch with its timer, and of the kernel delivering SIGTERM to
a process that does not ignore it; the command may do nothing for ever.
`PacedSource` assumes it of the source and its consumer and nothing of the clock.
`Daemon` assumes that a cancelled Run returns, which is `CancelEnds` of the pipe
source, `CancelEndsSleep` of the paced one and `EverythingStops` of the pipeline.

**Deadlock** is checked in every run but two: the paced source stops at its
clock's bound, and in the pipeline `LedgerEnds` and `EverythingStops` say more than
the absence of deadlock does (the source, which may always go on, hides one).
`Terminated`, `AllDone` and `Stopped` are the states in which the system really is
over.

## Findings

* `too_far_behind`: close code 4001 is documented as "the subscriber needs a
  ledger older than the server's retention". After a restart over a ring that
  the source does not continue, the run's first put empties the ring. A
  subscriber whose `readRing` read the old bounds before it and reads the file
  after it is closed with 4001 and the new ring's bounds, although its ledger is
  ahead of them and the source would have reached it.
* `pipe_stop`: the comment over the pipe source's teardown says that the wait is
  bounded "so a process ignoring SIGTERM cannot stall the daemon". WaitDelay counts
  from the context's cancellation. When Run gives up by itself, with the context
  live (a put that fails, a ledger over the cap), the teardown sends SIGTERM and
  waits without a bound for a direct child that ignores it; a child that still
  writes dies of the closed pipe, one that does not stalls Run, and with it the
  daemon, until a signal arrives.
* `daemon_cut`: Run's comment says that every connected subscriber is finished off
  with a normal close. In the daemon, Run's return also starts the shutdown, which
  does not wait for hijacked connections, and the process may exit before a serve
  loop has sent the rest and its close. The client reports it as a dropped
  connection, so nothing is taken for complete that is not.

The models also show that "the ring is always a contiguous range" (store.go:5) has
an exception: when an unlink fails while `clearLocked` empties the ring, the bounds
stay as they were although the first files are gone. The source loop stops on that
error; `RingIsRange` states what does hold, and is proved.

Two more things they show: closing the ordered queue before the workers have
returned would be harmless (`EverythingStops` still holds), since the publisher
waits for each job; and after an overrun the paced source may emit two ledgers back
to back once.

The model also shows a wait that no property forbids: over a fresh ring, a
subscriber that asks for a ledger older than the run's first sleeps during that
ledger, since a put wakes nobody, and is closed with 4001 at the next BEGIN.
`NoLostWakeup` names this case.

## Proofs

Every theorem is `Spec => []P` for a property `P` that a run checks, or for the
inductive invariant it follows from, except three that state refinements; each
holds for every value of the constants.
What is assumed of them is the named `ASSUME` of the module that declares them;
TLC evaluates each in the runs. They include that the payload cap, a fixed
nonzero constant in the code (wire.DefaultMaxPayloadSize), is at least one unit.
TLC checked each inductive invariant, or its parts, before it was proved, except
`DeliverInv` and `PipeInv`, which quantify over paths and over functions that TLC
cannot list.

| Module | Theorems | For every |
|---|---|---|
| `RetentionRingProofs` | `CrashesLeaveARange`, `GetIsAlwaysWhole`, `AckedIsAlwaysDurable`, `IndexIsTheDirectory` | width, retention, body length, puts, crashes, readers, ring left behind |
| `SourceLoopProofs` | `SourceTypeCorrect`, `SourceNeverPanics`, `BelowFlowIsOnDisk`, `OnlyFirstResets`, `RingStaysRange`, `EndAlwaysMatchesChunks`; `SourcePublishesInOrder` | width, chunk size, cap, retention, queue depth, source, initial ring; with or without compression |
| `ChunkPipelineProofs` | `PipelineInvariant`, `RingGetsWhatWasPublished`, `FallbacksAreCounted`; `PipelinePublishesInOrder` | set of workers, capacity of each queue, chunk size, declared sizes, cap, number of ledgers; with or without compression |
| `CoreStreamProofs` | `CoreInvariant`, `NeverALostWakeup`; `DeliveryInvariant`, `NeverAProtocolError`, `WhatWasEmittedIsDelivered`, `StampsStayHonest`, `DiscardsStayAbandons`, `CleanEndsAreHonest`; `StreamImplementsLedgerStream` | the same, and any number of subscribers, requests and socket buffers |
| `PacedSourceProofs` | `BodiesAreAlwaysLedgers`, `NeverABurst`, `UnitsAreNeverEarly` | dump, cadence, window, chunk size, clock |
| `PipeSourceProofs` | `NeverAShortLedger`, `CancelIsNeverFailure`, `CleanIsComplete`, `GroupIsAlwaysSwept` | set of processes, frame sizes, pipe capacity |
| `CorestreamdProofs` | `RangeIsAlwaysStreamable`, `DumpIsNeverRing`, `EndsAlwaysInteroperate`, `HugeCapStaysACap`; `FailureIsAlwaysReported`, `SendsNeverBlock` | widths, flags, chunk bounds, client caps; set of connections |

**The source loop.** `SourceInv` carries the first five theorems. None of them is
inductive alone: that a publish does not panic depends on where Run is
(`FlowInv`: pending chunks imply an open flow, and the pipeline is empty when Run
pulls or puts), and `BelowFlowOnDisk` survives a BEGIN only because the ring's
newest ledger is then the current flow (`HandOver`), which depends on the density
check and on put having succeeded step by step (`PutInv`: the ledger being put
continues the ring or the ring is empty, and the index is the directory except
while clearing). The proof has a lemma for the types of each step, one for
`FlowInv`, and one per step of put for the rest; `QuietStep` covers the
steps that leave the ring alone.

`EndMatchesChunks` speaks of completed flows only; `CutInv` says what it needs
before END. The chunks published, followed by the ones pending, are piece 1,
piece 2, ... of what Run has read, each expanded from whichever codec it has, and
their indices are consecutive. It holds while the body is within its declared
size: past it the arena's last buffer is short, and Run rejects the ledger instead
of publishing END. A read then adds one piece (`NextPiece`: all earlier pieces are
full, so the new one starts where they end), a publish moves the border
between the two lists, and END finds the second list empty.

`SourcePublishesInOrder` says that the loop with its queue refines `PublishInOrder`.
Begin, Publish, End and Finish map to the actions of those names, a read that
yields units to Submit, and nothing else touches the flows or the queue
(`StepPublishes`). Submit and End speak of the body published so far, which
`PublishInOrder` obtains by concatenating the chunks of the flow, a fold. `ChainInv`
names the range of units each chunk is, so it is enough that the concatenation of
ranges that follow each other is the range they make up together (`FlattenUnits` in
`WireProofs`). That is an induction over data, which the provers here cannot be
handed as such; `WireProofs` shows instead that `FlattenSeq` obeys its recursion, since
the recursive function exists, and that there is no least number of chunks for which
the claim fails, by well-foundedness of the naturals.

**The pipeline.** In the code the goroutines share the chunks' memory with no lock,
and what makes that right is who owns which byte when. `PipeInv` says it.

* Ownership. `Given` are the slices Run has handed on in this ledger (the region it
  has just read is one of them from the read on, although it is counted as used, and
  the spare buffer let go, only after submit). Each lies within its buffer, past its
  own header cell, out of the arena's free part and not in the spare buffer
  (`Placed`), and no two overlap, headers included (`Apart`). `MemInv` says which
  buffers exist, so that a name used for a new one is new. A read then writes only
  what nobody was given (`ReadSafe`), and an encode only the header cell of its own
  slice, or a buffer nobody has (`Writes`, `WritesSafe`). Both leave alone the data of
  every slice, the chunks of earlier ledgers and the frames (`Safe`), which is all the
  rest of the proof uses of them.
* What is in it. `Story` ties the slices to the source: an offset for each, rising by its
  length, with the units between two offsets in the slice's cells. The sum the hasher
  has is the body up to the parts it took in, and the rest are in its channel in order
  (`HashInv`); so at END the digest, `total` and the chunks are one body. PutParts
  concatenates the same parts later, which is `RingGetsWhatWasPublished`.
* Who does what. `OrderInv` counts: the jobs are exactly those between the last chunk
  published and the last submitted, in the publisher's hand or in the ordered queue,
  in order. `WorkInv` says that a job to be encoded is in one place at most (one worker's
  hand, the queue to them, or Run's, about to offer it), so it is encoded once and never
  after it is done; a done job's message is what its slice makes, raw or compressed
  (`JobOK`, `Out`), before and after it is published (`PubInv`, `OldInv`).
* Counting. A chunk that compresses and is raw is either published (`Fell`) or a done
  job (`Falling`). A publication moves one from the second set to the first, only a
  fallback adds one, and that adds one to the counter; so no induction over the flows
  is needed for `FallbacksAreCounted`.
* The promise. `PipelinePublishesInOrder`: under the mapping at the end of `ChunkPipeline`
  (a flow's slices read as messages, the jobs in flight as the queue), Submit and
  SubmitInline are Submit, Publish is Publish, since the publisher's hand is the head of
  the queue and what it publishes is the message of its slice (`NewMsg`), and End is End,
  with nothing in flight. Every other step changes neither a message nor the queue
  (`StutterStep`): no write is under either.

**The ring.** A failed unlink leaves the index ahead of the directory, so "the index
is the directory" is not inductive without knowing whether one has failed. What
survives every failure and crash is `Suffix`: the directory is empty or a range that
ends where the index ends. The next ledger then extends the range, pruning eats
it from the front, and a crash keeps it. `Exact` and `Short` add the rest while
nothing has failed. The proof needs that a contiguous set of naturals is a range
(`ContiguousIsRange`, by well-foundedness), since Open builds its index from a
scan.

**The composition.** `NeverALostWakeup` rests on `SourceSide` (the source loop's
invariant, which the composition keeps because every step of it is a step of Run or
leaves Run's state alone, with `FlowsDense` and `DiskIn`: the flows are consecutive
and no file is newer than the index) and on `WakeInv`: a subscriber inside a flow
has a place in it, its channel is never newer than the broadcaster's, and one that
is about to ask the ring for its bounds was behind the flow when it looked, if
its channel is still open. A step of Run either leaves the flows and
the channel as they are, or closes the channel; the steps of put, which change
the ring and close nothing, are the interesting ones (`ZeroStores`, `NewFile`,
`NotRetained`). The invariant is a conjunction over subscribers, each of which only
changes itself, so one proof (`OneSub`) serves any number of them.

**Delivery.** The five properties of what a consumer is given follow from one
invariant, `DeliverInv`, over what lies between the source and the consumer: the
flows and the ring, the messages serve has decided on (`sub[s].out`), those in
flight (`net[s]`), and the client's assembly.

* On the source's side (`StreamInv`) each chunk of a flow is a range of the units of
  its ledger that starts where the chunk before it ended (`ChainInv`; this replaces
  "the chunks together are the body", which would be an induction over data), every
  file holds a body that was completed (`DiskEmitted`), and the flows' sequences rise
  except for a last one that wrapped (`FlowsRise`).
* A `Tip` is what a client has made of the messages up to a point: the ledger it is
  in, its chunks, bytes and stamp, whether it was started over. `Takes(a, m, b)`
  is the client's check of one message, and `Reads(a, w, b)` says that a path of
  tips leads through the messages `w`. Queueing appends to a path (`ReadsConcat`), the
  client's step takes off its head (`ReadsHead`), a failed write cuts it
  (`ReadsPrefix`), and a write only moves a message from `out` to `net`, so none of
  them is an induction.
* `Deliver` says that everything decided on and not yet read is a path from the
  client's tip to a tip `b`, and `At(b, x)` that serve's local state `x` fits `b`: inside a
  flow with as many chunks sent as the tip has, in the middle of a flow it gave up (the
  flow is then not the last, and the next BEGIN must be stampless), or between two
  ledgers. Each step of serve is then one lemma (`Lands`): live chunks, the pinned
  END after its flow was replaced, the stampless replay, the ring, the closes.
* `CliOK` is what the client itself remembers; each of its handlers is a lemma
  (`BeginHeard`, `ChunkHeard`, `EndHeard`, `CloseHeard`) that a message its tip takes
  raises no error. A clean close is only ever queued when `Honest`, and that
  stays true because nothing is published after the end.
* Restarts are counted on the path: a tip carries the number so far, bounded by
  `liveAbandons`, which only grows. The bound is on the total, as in the code, which
  has one counter for all subscribers.

Two details of it are easy to get wrong: a client that has left is excused from
reading, but its serve loop, which notices later, not from its place; and a flow that
wrapped to 0 may be current but is never one that serve is inside, since a cursor of 0
asks for the newest ledger.

**The promise.** `StreamImplementsLedgerStream` says that the composition refines
`LedgerStream`, under the mapping `CompletedLog`, `SourceStatus`, `AskedFor`, `GivenTo`,
`EndOf` at the end of `CoreStream`. Neither specification states fairness, so this is
what may happen, not what must. The initial states map to the initial state
(`InitImplements`), and `StepImplements` maps each step under the invariants above and
`ShowInv`, which was checked with TLC first: every flow but the last is complete, no
message, assembly or delivery names the ledger 0 (serve's cursor has left 0 before
it writes), and nothing of a subscription moves before it is dialled.

* A step of Run completes the log's next entry, stops the source, or does not show
  (`SourceImplements`).
* A dial is `Ask` (`ConnectImplements`).
* Whatever a client reads, its step is a `ClientTurn`: it yields one ledger and goes on,
  ends or has its range, or yields none (`ClientShows`). A yield is `Give`: the ledger
  follows the last one and was emitted, by `DeliverInv'`. A clean end is `EndClean`, and
  `EndsExhausted` is the reason: an unbounded consumer that saw the source end well
  has every completed ledger, and a bounded one that `truncated` lets through named no
  first ledger and was given none.
* serve and the network change nothing that shows (`UnseenStep`).

**The paced source.** Three arguments that share only the types: `LedgerInv` for what
the shared buffer and the reads of it hold, `GridInv` for where the grid stands
relative to the last two emissions, `WindowInv` for what a released unit says about
the clock.

**The pipe source.** The iterator knows how much of a frame it has read, the command
how much it has written; `StreamInv` and `ReaderInv` tie the two through the units in
the pipe and in the reader's buffer, which follow each other with no gap from where
the iterator stands to the last unit written. `BlameInv` says that until the
context is cancelled or the iterator gives up, a command that is gone, or that
stopped inside a frame, went by itself. The attempt to prove `BodyInv` showed that the
model's writer stopped one unit too early on a bad marker, so that the iterator never
met one; the writer now writes the marker and stops after it.

**Startup** carries what each stage has checked of the flags to the stages after it,
and then does the arithmetic. **The daemon**'s invariant says how many results the
channel holds and that it holds a failure exactly when a goroutine that has sent
its result had one.

**Only model-checked:**

* Liveness (`Delivered`, `SubscriptionsEnd`, `LedgerEnds`, `EverythingStops`,
  `CancelEnds`, `CancelEndsSleep`, `DaemonEnds`): it needs fairness and ENABLED, which
  the prover does not have.

## Not modelled

* The captive source: it fills in a configuration for the SDK's captive core, scans
  a file for the passphrase, and the SDK (not in the repository) checks both and
  does the streaming. `Startup` lets it be refused at any point.
* The health endpoint and the counters it reads: reading changes nothing.
* The bench runner: loops over a source or a client that add a sample for each
  ledger, statistics and formatting. Its loopback mode runs the server and the
  client in one process, which is the composition `CoreStream` checks.
* Dialling options and the client's URL handling; a failed dial yields an error.
* The byte layout of messages, the formatting of close reasons, logging.
* The bytes a synthetic ledger holds; that `--verify` can regenerate them.
* The slice a consumer is given: it is the client's assembly buffer and valid until
  the next pull, and what a consumer does with it later is its own affair.
* Power loss: the store never syncs.

## Plan

The models are complete as far as this document says, and every safety property the
passing runs check is proved. What is left is liveness, with a prover that has
fairness and ENABLED.
