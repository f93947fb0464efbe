------------------------------ MODULE Startup -------------------------------
(***************************************************************************)
(* How corestreamd starts (cmd/corestreamd/main.go, run up to the listener,*)
(* with parseFlags, server.New and store.Open), and the limits a client    *)
(* (remoteledger) is configured with.  Any flags may be given, over any    *)
(* directory tree; startup refuses them or gets to the listener.           *)
(*                                                                         *)
(* Widths are small: MaxUint32 is the last uint32, flag values are wider;  *)
(* MaxInt64 is the last int64, which wraps to the first.  A directory is a *)
(* number, 0 is none; the ring's path, the dump's and a link to either are *)
(* the paths an operator may name.                                         *)
(***************************************************************************)
EXTENDS Integers

CONSTANTS
    MaxUint32, MaxInt64,
    MinChunkSize, MaxChunkSize, ChunkHeaderSize, EndSize,
    MaxWorkers, MaxPayload,
    Flags,          \* the flags an operator may give
    ClientCaps      \* the values of WithMaxChunkSize

ASSUME StartupAssumption ==
    /\ {MaxUint32, MaxInt64, MinChunkSize, MaxChunkSize, ChunkHeaderSize, EndSize} \subseteq Nat \ {0}
    /\ EndSize <= MinChunkSize + ChunkHeaderSize
    /\ MaxChunkSize + ChunkHeaderSize + 1 < MaxInt64
    /\ ClientCaps \subseteq (-MaxInt64 - 1)..MaxInt64

\* The flag package parses --start-ledger and the counts as unsigned, and
\* --chunk-size as signed.
ASSUME FlagsAssumption ==
    \A f \in Flags : /\ f.start \in Nat /\ f.count \in Nat /\ f.chunk \in Int
                     /\ f.fileDir \in {"ring", "dump", "link"}

VARIABLES
    pc,      \* the next stage, "refused", or "subscribed" once a client is
    o,       \* options: the flags as given
    rng,     \* the range the source is asked for; to matters when bounded
    dir,     \* the directories: what each path names
    link,    \* the path the symbolic link leads to
    cap      \* the client's WithMaxChunkSize

flagVars == <<o, dir, link, cap>>
startVars == <<pc, rng, flagVars>>

\* Two paths may name one directory (a bind mount), or none.
StartInit ==
    /\ pc = "parse"
    /\ o \in Flags
    /\ rng = [from |-> 0, to |-> 0, bounded |-> FALSE]
    /\ dir \in [{"ring", "dump"} -> 0..2]
    /\ link \in {"ring", "dump"}
    /\ cap = 0

\* What a path leads to: 0 when there is no such directory.
Stat(path) == dir[IF path = "link" THEN link ELSE path]

uint32(n) == n % (MaxUint32 + 1)

-----------------------------------------------------------------------------
ledgerCount == IF o.source \in {"synthetic", "file"} THEN uint32(o.count) ELSE 0
startLedger == IF o.start = 0 THEN 1 ELSE o.start

\* Mutant: the sequence before the last.
lastSequenceShort == IF ledgerCount > 0 THEN startLedger + ledgerCount - 2 ELSE startLedger

\* Computed in uint64, so it cannot wrap.
lastSequence == IF ledgerCount > 0 THEN startLedger + ledgerCount - 1 ELSE startLedger

\* Mutant: the upper bound is not checked.
ValidateChunkSizeBelow(n) == n >= MinChunkSize
ValidateChunkSize(n) == n \in MinChunkSize..MaxChunkSize

Refuse == pc' = "refused" /\ UNCHANGED <<rng, flagVars>>

\* The pacing window must fit the interval it is repeated at: --cadence, or
\* --synthetic-interval for that source.
WindowFits ==
    /\ o.window >= 0
    /\ o.source # "synthetic" => o.cadence >= 0
    /\ (o.source \in {"file", "synthetic"} /\ o.cadence > 0) => o.window <= o.cadence

parseFlags ==
    /\ pc = "parse"
    /\ IF /\ o.source \in {"captive", "file", "synthetic", "pipe"}
          /\ o.start <= MaxUint32
          /\ o.count <= MaxUint32
          /\ ValidateChunkSize(o.chunk)
          /\ WindowFits
          /\ lastSequence < MaxUint32
          /\ o.size <= MaxPayload
          /\ o.source = "captive" => o.start > 0
          /\ o.named                 \* --core-config, --file-dir or --pipe-cmd is given
       THEN pc' = "source" /\ UNCHANGED <<rng, flagVars>>
       ELSE Refuse

\* Mutant: only the paths are compared.
validateFilePath == o.fileDir # "ring"

\* The dump may not be the ring, by name or, where both exist, by identity.
validateFileDir == /\ o.fileDir # "ring"
                   /\ Stat(o.fileDir) # 0 => Stat(o.fileDir) # Stat("ring")

CountedRange(start, count) ==
    [from |-> start, to |-> uint32(start + count - 1), bounded |-> count # 0]

\* The source is built.  A dump must exist, and may turn out empty or with a
\* gap; a captive core may be refused for many reasons (CaptiveConfig).
buildSource ==
    /\ pc = "source"
    /\ \/ /\ o.source = "file" => validateFileDir /\ Stat(o.fileDir) # 0
          /\ rng' = CountedRange(uint32(startLedger), ledgerCount)
          /\ pc' = "store"
          /\ UNCHANGED flagVars
       \/ o.source \in {"captive", "file"} /\ Refuse

\* store.Open creates the ring's directory, and may refuse what it holds.
openStore ==
    /\ pc = "store"
    /\ \/ /\ o.retention > 0
          /\ dir' = IF dir["ring"] = 0 THEN [dir EXCEPT !["ring"] = 3] ELSE dir
          /\ pc' = "server"
          /\ UNCHANGED <<o, rng, link, cap>>
       \/ Refuse

newServer ==
    /\ pc = "server"
    /\ IF /\ rng.from # 0
          /\ rng.bounded => rng.to >= rng.from
          /\ ValidateChunkSize(o.chunk)
          /\ o.workers \in 0..MaxWorkers
       THEN pc' = "listen" /\ UNCHANGED <<rng, flagVars>>
       ELSE Refuse

listen ==
    /\ pc = "listen"
    /\ \/ pc' = "listening" /\ UNCHANGED <<rng, flagVars>>
       \/ Refuse

-----------------------------------------------------------------------------
\* The client.

\* Mutant: the cap plus the header may wrap in the library's increment.
readLimitUnsaturated(n) ==
    IF n < 0 THEN -1
    ELSE IF n = 0 THEN MaxChunkSize + ChunkHeaderSize
    ELSE IF n > MaxInt64 - ChunkHeaderSize THEN MaxInt64
    ELSE IF n + ChunkHeaderSize > EndSize THEN n + ChunkHeaderSize ELSE EndSize

\* A negative cap is no limit, zero the default, and a huge one saturates.
readLimit(n) ==
    IF n < 0 THEN -1
    ELSE IF n = 0 THEN MaxChunkSize + ChunkHeaderSize
    ELSE IF n > MaxInt64 - ChunkHeaderSize - 1 THEN MaxInt64 - 1
    ELSE IF n + ChunkHeaderSize > EndSize THEN n + ChunkHeaderSize ELSE EndSize

\* SetReadLimit keeps one more than it is given, in an int64; a negative limit
\* is none.
int64(n) == IF n > MaxInt64 THEN n - 2 * (MaxInt64 + 1) ELSE n
SetReadLimit(n) == IF n < 0 THEN -1 ELSE int64(n + 1)
Limit(n) == SetReadLimit(readLimit(n))

\* newDecoder: what one chunk may expand to.
newDecoder(n) == IF n <= 0 \/ n > MaxChunkSize THEN MaxChunkSize ELSE n

\* A client with some cap connects.
subscribe ==
    /\ pc = "listening"
    /\ cap' \in ClientCaps
    /\ pc' = "subscribed"
    /\ UNCHANGED <<o, rng, dir, link>>

StartNext == parseFlags \/ buildSource \/ openStore \/ newServer \/ listen \/ subscribe

StartSpec == StartInit /\ [][StartNext \/ (pc \in {"subscribed", "refused"} /\ UNCHANGED startVars)]_startVars

-----------------------------------------------------------------------------
\* A daemon that listens streams a range that has no wrap in it and does not
\* reach the last sequence, and it is the range that was asked for: the checks
\* are in uint64 (main.go:239), the range is computed in uint32
\* (synthetic.go:149), and the flags are cut down to it (main.go:253).
RangeIsStreamable ==
    pc = "listening" =>
        /\ rng.from \in 1..MaxUint32 - 1
        /\ o.start # 0 => rng.from = o.start
        /\ rng.bounded => rng.to < MaxUint32 /\ rng.to - rng.from + 1 = o.count
        /\ (o.source \in {"synthetic", "file"} /\ o.count # 0) => rng.bounded

\* No daemon prunes the dump it replays (main.go:205), whatever the ring's path
\* and the dump's lead to once startup has made the ring's directory.
DumpIsNotRing ==
    (pc = "listening" /\ o.source = "file") => Stat(o.fileDir) # Stat("ring")

\* "default-configured ends always interoperate whatever the server's flag"
\* (wire.go:71): a client whose cap is the default, off, or at least the chunk
\* size admits every message of the daemon and expands every chunk.
EndsInteroperate ==
    (pc = "subscribed" /\ (cap <= 0 \/ cap >= o.chunk)) =>
        /\ Limit(cap) < 0 \/ Limit(cap) >= (IF EndSize > o.chunk + ChunkHeaderSize
                                            THEN EndSize ELSE o.chunk + ChunkHeaderSize)
        /\ newDecoder(cap) >= o.chunk

\* A huge cap is still a cap (stream.go:95): only a negative one is unlimited.
HugeCapIsACap == (pc = "subscribed" /\ cap > 0) => Limit(cap) > 0
=============================================================================
