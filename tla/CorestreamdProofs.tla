------------------------- MODULE CorestreamdProofs -------------------------
(***************************************************************************)
(* Proofs about cmd/corestreamd: its startup and the limits, for every     *)
(* width, every flag value and every client cap, and runServices, for any  *)
(* set of connections.  The two share no state.                            *)
(*                                                                         *)
(* The invariant of startup is what each stage has checked of the flags,   *)
(* carried to the stages after it.  That of runServices says how many      *)
(* results the channel errs holds and that it holds a failure exactly when *)
(* a goroutine that has sent its result had one: the exit status is        *)
(* computed from the channel, the failures happen in the goroutines.       *)
(***************************************************************************)
EXTENDS Startup, Daemon, TLAPS

Stages == {"parse", "source", "store", "server", "listen", "listening", "subscribed", "refused"}
AfterParse == {"source", "store", "server", "listen", "listening", "subscribed"}
AfterSource == {"store", "server", "listen", "listening", "subscribed"}

StartTypeInv ==
    /\ pc \in Stages
    /\ o \in Flags
    /\ dir \in [{"ring", "dump"} -> 0..3]
    /\ link \in {"ring", "dump"}
    /\ cap \in ClientCaps \cup {0}

\* What parseFlags let through: the range ends below the last sequence, and
\* nothing that is converted to uint32 later is too wide for it.
ParsedInv ==
    pc \in AfterParse => /\ o.start <= MaxUint32 /\ o.count <= MaxUint32
                         /\ ValidateChunkSize(o.chunk)
                         /\ lastSequence < MaxUint32

RangeInv ==
    pc \in AfterSource => rng = CountedRange(uint32(startLedger), ledgerCount)

\* The dump is a directory other than the ring's; until the store is opened
\* the ring's may not exist, and the one that is made then is new.
DumpInv ==
    /\ pc \in {"parse", "source", "store"} => dir \in [{"ring", "dump"} -> 0..2]
    /\ pc \in AfterSource /\ o.source = "file" =>
         Stat(o.fileDir) # 0 /\ Stat(o.fileDir) # Stat("ring")

StartupInv == StartTypeInv /\ ParsedInv /\ RangeInv /\ DumpInv

LEMMA StartInvInit == StartInit => StartupInv
<1> SUFFICES ASSUME StartInit PROVE StartupInv
  OBVIOUS
<1>1. dir \in [{"ring", "dump"} -> 0..2] /\ pc = "parse" /\ o \in Flags /\ cap = 0
      /\ link \in {"ring", "dump"}
  BY DEF StartInit
<1>2. dir \in [{"ring", "dump"} -> 0..3]
  BY <1>1
<1> QED BY <1>1, <1>2 DEF StartupInv, StartTypeInv, ParsedInv, RangeInv, DumpInv, Stages, AfterParse, AfterSource

\* The stages only read the flags; openStore is the one that makes a directory.
LEMMA StartInvStep ==
    ASSUME StartupInv, [StartNext]_startVars
    PROVE  StartupInv'
<1> USE DEF Stages, AfterParse, AfterSource
<1>0. StartTypeInv /\ ParsedInv /\ RangeInv /\ DumpInv
  BY DEF StartupInv
<1>1. CASE Refuse
  BY <1>0, <1>1 DEF Refuse, flagVars, StartupInv, StartTypeInv, ParsedInv, RangeInv, DumpInv
<1>2. CASE parseFlags /\ ~Refuse
  <2>1. pc = "parse" /\ pc' = "source" /\ UNCHANGED <<rng, o, dir, link, cap>>
        /\ o.start <= MaxUint32 /\ o.count <= MaxUint32 /\ ValidateChunkSize(o.chunk)
        /\ lastSequence < MaxUint32
    BY <1>2 DEF parseFlags, flagVars
  <2>2. ParsedInv'
    BY <2>1 DEF ParsedInv, ValidateChunkSize, lastSequence, ledgerCount, startLedger, uint32
  <2> QED BY <1>0, <2>1, <2>2 DEF StartupInv, StartTypeInv, RangeInv, DumpInv
<1>3. CASE buildSource /\ ~Refuse
  <2>1. pc = "source" /\ pc' = "store" /\ UNCHANGED <<o, dir, link, cap>>
        /\ rng' = CountedRange(uint32(startLedger), ledgerCount)
        /\ (o.source = "file" => validateFileDir /\ Stat(o.fileDir) # 0)
    BY <1>3 DEF buildSource, flagVars
  <2>2. ParsedInv'
    BY <1>0, <2>1 DEF ParsedInv, ValidateChunkSize, lastSequence, ledgerCount, startLedger, uint32
  <2>3. RangeInv'
    BY <2>1 DEF RangeInv, CountedRange, ledgerCount, startLedger, uint32
  <2>4. DumpInv'
    BY <1>0, <2>1 DEF DumpInv, validateFileDir, Stat
  <2> QED BY <1>0, <2>1, <2>2, <2>3, <2>4 DEF StartupInv, StartTypeInv
<1>4. CASE openStore /\ ~Refuse
  <2>1. pc = "store" /\ pc' = "server" /\ UNCHANGED <<o, rng, link, cap>>
        /\ dir' = IF dir["ring"] = 0 THEN [dir EXCEPT !["ring"] = 3] ELSE dir
    BY <1>4 DEF openStore
  <2>2. ParsedInv' /\ RangeInv'
    BY <1>0, <2>1 DEF ParsedInv, RangeInv, CountedRange, ValidateChunkSize, lastSequence,
                      ledgerCount, startLedger, uint32
  <2>3. dir \in [{"ring", "dump"} -> 0..2] /\ link \in {"ring", "dump"}
        /\ o.fileDir \in {"ring", "dump", "link"}
    BY <1>0, <2>1, FlagsAssumption DEF DumpInv, StartTypeInv
  <2>4. dir' \in [{"ring", "dump"} -> 0..3]
    BY <2>1, <2>3
  <2>5. DumpInv'
    BY <1>0, <2>1, <2>3 DEF DumpInv, Stat
  <2> QED BY <1>0, <2>1, <2>2, <2>4, <2>5 DEF StartupInv, StartTypeInv
<1>5. CASE (newServer \/ listen) /\ ~Refuse
  <2>1. pc \in {"server", "listen"} /\ pc' \in {"listen", "listening"}
        /\ UNCHANGED <<o, rng, dir, link, cap>>
    BY <1>5 DEF newServer, listen, flagVars
  <2> QED BY <1>0, <2>1 DEF StartupInv, StartTypeInv, ParsedInv, RangeInv, DumpInv, CountedRange, Stat,
                            ValidateChunkSize, lastSequence, ledgerCount, startLedger, uint32
<1>6. CASE subscribe
  <2>1. pc = "listening" /\ pc' = "subscribed" /\ UNCHANGED <<o, rng, dir, link>> /\ cap' \in ClientCaps
    BY <1>6 DEF subscribe
  <2> QED BY <1>0, <2>1 DEF StartupInv, StartTypeInv, ParsedInv, RangeInv, DumpInv, CountedRange, Stat,
                            ValidateChunkSize, lastSequence, ledgerCount, startLedger, uint32
<1>7. CASE UNCHANGED startVars
  BY <1>0, <1>7 DEF startVars, flagVars, StartupInv, StartTypeInv, ParsedInv, RangeInv, DumpInv, CountedRange,
                    Stat, ValidateChunkSize, lastSequence, ledgerCount, startLedger, uint32
<1> QED BY <1>1, <1>2, <1>3, <1>4, <1>5, <1>6, <1>7 DEF StartNext

\* The inductive invariant holds throughout.
THEOREM StartupInvariant == StartSpec => []StartupInv
<1>1. StartupInv /\ [StartNext \/ (pc \in {"subscribed", "refused"} /\ UNCHANGED startVars)]_startVars => StartupInv'
  BY StartInvStep
<1> QED BY <1>1, StartInvInit, PTL DEF StartSpec

-----------------------------------------------------------------------------
\* A value that fits is not changed by the conversion.
LEMMA FitsUint32 == \A n \in 0..MaxUint32 : uint32(n) = n
<1>1. \A n, m \in Nat : n <= m => n % (m + 1) = n
  OBVIOUS
<1> QED BY <1>1, StartupAssumption DEF uint32

\* A daemon that listens streams the range it was asked for, without a wrap
\* and below the last sequence, for any width and any flags (main.go:239).
THEOREM RangeIsAlwaysStreamable == StartSpec => []RangeIsStreamable
<1>1. StartupInv => RangeIsStreamable
  <2> SUFFICES ASSUME StartupInv, pc = "listening" PROVE RangeIsStreamable
    BY DEF RangeIsStreamable
  <2>1. /\ o.start \in Nat /\ o.count \in Nat /\ MaxUint32 \in Nat /\ MaxUint32 > 0
        /\ o.start <= MaxUint32 /\ o.count <= MaxUint32 /\ lastSequence < MaxUint32
        /\ rng = CountedRange(uint32(startLedger), ledgerCount)
    BY FlagsAssumption, StartupAssumption
       DEF StartupInv, StartTypeInv, ParsedInv, RangeInv, AfterParse, AfterSource
  <2>2. startLedger \in 1..MaxUint32 /\ (o.start # 0 => startLedger = o.start)
    BY <2>1 DEF startLedger
  <2>3. uint32(startLedger) = startLedger
    BY <2>1, <2>2, FitsUint32
  <2>4. ledgerCount \in 0..MaxUint32 /\ (ledgerCount # 0 => ledgerCount = o.count)
        /\ (o.source \in {"synthetic", "file"} => ledgerCount = o.count)
    BY <2>1, FitsUint32 DEF ledgerCount
  <2>5. startLedger < MaxUint32
    BY <2>1, <2>2, <2>4 DEF lastSequence
  <2>6. CASE ledgerCount = 0
    <3>1. rng.from = startLedger
      BY <2>1, <2>3 DEF CountedRange
    <3>2. ~rng.bounded
      BY <2>1, <2>6, Zenon DEF CountedRange
    <3> QED BY <2>1, <2>2, <2>4, <2>5, <2>6, <3>1, <3>2 DEF RangeIsStreamable
  <2>7. CASE ledgerCount # 0
    <3>1. startLedger + ledgerCount - 1 \in 0..MaxUint32 /\ startLedger + ledgerCount - 1 < MaxUint32
      BY <2>1, <2>2, <2>4, <2>7 DEF lastSequence
    <3>2. rng.from = startLedger /\ rng.to = startLedger + ledgerCount - 1 /\ rng.bounded
      BY <2>1, <2>3, <2>7, <3>1, FitsUint32 DEF CountedRange
    <3> QED BY <2>1, <2>2, <2>4, <2>5, <2>7, <3>1, <3>2 DEF RangeIsStreamable
  <2> QED BY <2>6, <2>7
<1> QED BY <1>1, StartupInvariant, PTL

\* No daemon that listens prunes the dump it replays (main.go:205).
THEOREM DumpIsNeverRing == StartSpec => []DumpIsNotRing
<1>1. StartupInv => DumpIsNotRing
  BY DEF StartupInv, DumpInv, DumpIsNotRing, AfterSource
<1> QED BY <1>1, StartupInvariant, PTL

-----------------------------------------------------------------------------
\* The limits, once some chunk size is valid: the library's increment of what
\* readLimit returns does not wrap.
LEMMA LimitFacts ==
    ASSUME NEW n \in (-MaxInt64 - 1)..MaxInt64, NEW size \in MinChunkSize..MaxChunkSize
    PROVE  /\ n > 0 => Limit(n) > 0
           /\ n < 0 => Limit(n) < 0
           /\ n = 0 => Limit(n) = MaxChunkSize + ChunkHeaderSize + 1
           /\ n >= size => Limit(n) >= EndSize /\ Limit(n) >= size + ChunkHeaderSize
<1>1. /\ MaxInt64 \in Nat /\ MinChunkSize \in Nat /\ MaxChunkSize \in Nat /\ ChunkHeaderSize \in Nat
      /\ EndSize \in Nat /\ MinChunkSize > 0 /\ ChunkHeaderSize > 0 /\ EndSize > 0
      /\ EndSize <= MinChunkSize + ChunkHeaderSize /\ MaxChunkSize + ChunkHeaderSize + 1 < MaxInt64
      /\ MinChunkSize <= size /\ size <= MaxChunkSize /\ size \in Nat /\ n \in Int /\ n <= MaxInt64
  BY StartupAssumption
<1> QED BY <1>1 DEF Limit, SetReadLimit, readLimit, int64

\* A client with the default cap, none, or one that covers the chunk size
\* admits every message and expands every chunk of the daemon (wire.go:71).
THEOREM EndsAlwaysInteroperate == StartSpec => []EndsInteroperate
<1>1. StartupInv => EndsInteroperate
  <2> SUFFICES ASSUME StartupInv, pc = "subscribed", cap <= 0 \/ cap >= o.chunk
               PROVE  /\ Limit(cap) < 0 \/ (Limit(cap) >= EndSize /\ Limit(cap) >= o.chunk + ChunkHeaderSize)
                      /\ newDecoder(cap) >= o.chunk
    BY DEF EndsInteroperate
  <2>1. /\ o.chunk \in MinChunkSize..MaxChunkSize /\ o.chunk \in Int
        /\ MinChunkSize \in Nat /\ MaxChunkSize \in Nat /\ MaxInt64 \in Nat /\ ChunkHeaderSize \in Nat
        /\ EndSize \in Nat /\ EndSize <= MinChunkSize + ChunkHeaderSize
        /\ cap \in (-MaxInt64 - 1)..MaxInt64
    BY FlagsAssumption, StartupAssumption DEF StartupInv, StartTypeInv, ParsedInv, AfterParse, ValidateChunkSize
  <2>2. newDecoder(cap) >= o.chunk
    BY <2>1 DEF newDecoder
  <2> QED BY <2>1, <2>2, LimitFacts
<1> QED BY <1>1, StartupInvariant, PTL

\* A cap that is set is never turned into "no limit" (stream.go:95).
THEOREM HugeCapStaysACap == StartSpec => []HugeCapIsACap
<1>1. StartupInv => HugeCapIsACap
  <2> SUFFICES ASSUME StartupInv, pc = "subscribed", cap > 0 PROVE Limit(cap) > 0
    BY DEF HugeCapIsACap
  <2>1. o.chunk \in MinChunkSize..MaxChunkSize /\ cap \in (-MaxInt64 - 1)..MaxInt64
    BY StartupAssumption DEF StartupInv, StartTypeInv, ParsedInv, AfterParse, ValidateChunkSize
  <2> QED BY <2>1, LimitFacts
<1> QED BY <1>1, StartupInvariant, PTL

-----------------------------------------------------------------------------
\* The daemon.

Step == {"run", "send", "cancel", "done"}

\* The goroutine has put its result into the channel.
Sent(g) == g \in {"cancel", "done"}

Results == (IF Sent(run) THEN 1 ELSE 0) + (IF Sent(serve) THEN 1 ELSE 0)

TypeInv ==
    /\ run \in Step
    /\ serve \in Step
    /\ failed \subseteq {"run", "serve"}
    /\ errs \in Seq(BOOLEAN)

\* Only a component that has returned has failed.
FailedHasReturned ==
    /\ run = "run" => "run" \notin failed
    /\ serve = "run" => "serve" \notin failed

\* The channel holds one result for each goroutine that sent its own, and a
\* failure among them if and only if one of these failed.
ChannelInv ==
    /\ Len(errs) = Results
    /\ Joined <=> \/ Sent(run) /\ "run" \in failed
                  \/ Sent(serve) /\ "serve" \in failed

ExitInv ==
    exit # "no" => /\ run = "done" /\ serve = "done"
                   /\ exit = IF Joined THEN "fail" ELSE "ok"

DaemonInv == TypeInv /\ FailedHasReturned /\ ChannelInv /\ ExitInv

\* A result sent to the channel joins the others.
LEMMA JoinedAppend ==
    ASSUME errs \in Seq(BOOLEAN), NEW b \in BOOLEAN, errs' = Append(errs, b)
    PROVE  /\ errs' \in Seq(BOOLEAN)
           /\ Len(errs') = Len(errs) + 1
           /\ Joined' <=> Joined \/ b
<1>1. /\ errs' \in Seq(BOOLEAN) /\ Len(errs') = Len(errs) + 1 /\ Len(errs) \in Nat
      /\ \A i \in 1..Len(errs) : errs'[i] = errs[i]
      /\ errs'[Len(errs) + 1] = b
  OBVIOUS
<1>2. \A i : i \in 1..Len(errs') <=> i \in 1..Len(errs) \/ i = Len(errs) + 1
  BY <1>1
<1>3. Joined' <=> (\E i \in 1..Len(errs) : errs'[i]) \/ errs'[Len(errs) + 1]
  BY <1>2, Zenon DEF Joined
<1> QED BY <1>1, <1>3, Zenon DEF Joined

LEMMA InvInit == Init => DaemonInv
BY DEF Init, DaemonInv, TypeInv, FailedHasReturned, ChannelInv, ExitInv, Joined, Results, Sent, Step

\* The steps that touch neither goroutine's progress nor the channel.
LEMMA QuietStep ==
    ASSUME DaemonInv, UNCHANGED <<run, serve, failed, errs, exit>>
    PROVE  DaemonInv'
BY DEF DaemonInv, TypeInv, FailedHasReturned, ChannelInv, ExitInv, Joined, Results

\* Every step keeps the invariant.
LEMMA InvStep ==
    ASSUME DaemonInv, [Next]_vars
    PROVE  DaemonInv'
<1> USE DEF Alive
<1>0. TypeInv /\ FailedHasReturned /\ ChannelInv /\ ExitInv
  BY DEF DaemonInv
<1>1. CASE RunEnds
  <2>1. exit = "no" /\ run = "run" /\ run' = "send" /\ UNCHANGED <<serve, errs, exit>>
        /\ failed' \in {failed, failed \cup {"run"}}
    BY <1>1 DEF RunEnds
  <2>2. Joined' <=> Joined
    BY <2>1 DEF Joined
  <2> QED BY <1>0, <2>1, <2>2
          DEF DaemonInv, TypeInv, FailedHasReturned, ChannelInv, ExitInv, Results, Sent, Step
<1>2. CASE RunSends
  <2>1. exit = "no" /\ run = "send" /\ run' = "cancel" /\ UNCHANGED <<serve, failed, exit>>
        /\ errs' = Append(errs, "run" \in failed)
    BY <1>2 DEF RunSends
  <2>2. errs \in Seq(BOOLEAN) /\ ("run" \in failed) \in BOOLEAN
    BY <1>0 DEF TypeInv
  <2>3. /\ errs' \in Seq(BOOLEAN) /\ Len(errs') = Len(errs) + 1
        /\ Joined' <=> Joined \/ "run" \in failed
    BY <2>1, <2>2, JoinedAppend
  <2> QED BY <1>0, <2>1, <2>3
          DEF DaemonInv, TypeInv, FailedHasReturned, ChannelInv, ExitInv, Results, Sent, Step
<1>3. CASE ServeEnds
  <2>1. exit = "no" /\ serve = "run" /\ serve' = "send" /\ UNCHANGED <<run, errs, exit>>
        /\ failed' \in {failed, failed \cup {"serve"}}
    BY <1>3 DEF ServeEnds
  <2>2. Joined' <=> Joined
    BY <2>1 DEF Joined
  <2> QED BY <1>0, <2>1, <2>2
          DEF DaemonInv, TypeInv, FailedHasReturned, ChannelInv, ExitInv, Results, Sent, Step
<1>4. CASE ServeSends
  <2>1. exit = "no" /\ serve = "send" /\ serve' = "cancel" /\ UNCHANGED <<run, failed, exit>>
        /\ errs' = Append(errs, "serve" \in failed)
    BY <1>4 DEF ServeSends
  <2>2. errs \in Seq(BOOLEAN) /\ ("serve" \in failed) \in BOOLEAN
    BY <1>0 DEF TypeInv
  <2>3. /\ errs' \in Seq(BOOLEAN) /\ Len(errs') = Len(errs) + 1
        /\ Joined' <=> Joined \/ "serve" \in failed
    BY <2>1, <2>2, JoinedAppend
  <2> QED BY <1>0, <2>1, <2>3
          DEF DaemonInv, TypeInv, FailedHasReturned, ChannelInv, ExitInv, Results, Sent, Step
<1>5. CASE RunCancels \/ ServeCancels
  <2>1. /\ exit = "no" /\ UNCHANGED <<failed, errs, exit>>
        /\ \/ run = "cancel" /\ run' = "done" /\ UNCHANGED serve
           \/ serve = "cancel" /\ serve' = "done" /\ UNCHANGED run
    BY <1>5 DEF RunCancels, ServeCancels
  <2>2. Joined' <=> Joined
    BY <2>1 DEF Joined
  <2> QED BY <1>0, <2>1, <2>2
          DEF DaemonInv, TypeInv, FailedHasReturned, ChannelInv, ExitInv, Results, Sent, Step
<1>6. CASE Exit
  <2>1. run = "done" /\ serve = "done" /\ UNCHANGED <<run, serve, failed, errs>>
        /\ exit' = IF Joined THEN "fail" ELSE "ok"
    BY <1>6 DEF Exit
  <2>2. Joined' <=> Joined
    BY <2>1 DEF Joined
  <2> QED BY <1>0, <2>1, <2>2
          DEF DaemonInv, TypeInv, FailedHasReturned, ChannelInv, ExitInv, Results
<1>7. CASE Signal \/ ShutdownBegins \/ ShutdownReturns
  BY <1>7, QuietStep DEF Signal, ShutdownBegins, ShutdownReturns
<1>8. ASSUME NEW c \in Conns, Accept(c) \/ Answer(c) \/ ServeCloses(c) \/ ClientLeaves(c)
      PROVE  DaemonInv'
  BY <1>8, QuietStep DEF Accept, Answer, ServeCloses, ClientLeaves
<1>9. CASE UNCHANGED vars
  BY <1>9, QuietStep DEF vars
<1> QED BY <1>1, <1>2, <1>3, <1>4, <1>5, <1>6, <1>7, <1>8, <1>9 DEF Next, Services

\* The inductive invariant holds throughout.
THEOREM DaemonInvariant == Spec => []DaemonInv
<1>1. DaemonInv /\ [Next \/ (~Alive /\ UNCHANGED vars)]_vars => DaemonInv'
  BY InvStep
<1> QED BY <1>1, InvInit, PTL DEF Spec

-----------------------------------------------------------------------------
\* The process exits with a failure exactly when the source loop or the HTTP
\* server returned one (main.go:380), in every order of their returns.
THEOREM FailureIsAlwaysReported == Spec => []FailureIsReported
<1>1. DaemonInv => FailureIsReported
  <2> SUFFICES ASSUME DaemonInv, exit # "no"
               PROVE  (exit = "fail") <=> (failed # {})
    BY DEF FailureIsReported, Alive
  <2>1. run = "done" /\ serve = "done" /\ exit = IF Joined THEN "fail" ELSE "ok"
    BY DEF DaemonInv, ExitInv
  <2>2. Joined <=> "run" \in failed \/ "serve" \in failed
    BY <2>1 DEF DaemonInv, ChannelInv, Sent
  <2>3. failed \subseteq {"run", "serve"}
    BY DEF DaemonInv, TypeInv
  <2> QED BY <2>1, <2>2, <2>3
<1> QED BY <1>1, DaemonInvariant, PTL

\* No goroutine waits to hand over its result, whoever returns first: the
\* channel has room for each (main.go:390), so neither can hold up wg.Wait.
THEOREM SendsNeverBlock == Spec => [](run = "send" \/ serve = "send" => HasRoom)
<1>1. DaemonInv => (run = "send" \/ serve = "send" => HasRoom)
  BY DEF DaemonInv, ChannelInv, Results, Sent, HasRoom
<1> QED BY <1>1, DaemonInvariant, PTL
=============================================================================
