---------------------------- MODULE ChunkPipeline ---------------------------
(***************************************************************************)
(* Server.Run with the goroutines and the memory it shares with them:      *)
(* the compression workers and the publisher (compress.go), the hasher     *)
(* (ledgerwork.go) and the arena chunks are carved from (server.go:284).   *)
(*                                                                         *)
(* A buffer is a sequence of cells, a slice a range of one, a cell a unit  *)
(* of the body, a CHUNK header or junk; a chunk is a slice of a header     *)
(* cell and its payload.  The broadcaster's flows hold slices, so a write  *)
(* under a published chunk changes what a subscriber sends.  The source    *)
(* numbers its ledgers from 1; the ring is the sequence of stored bodies.  *)
(***************************************************************************)
EXTENDS Broadcaster, SequencesExt, FiniteSets

CONSTANTS
    Workers,         \* the compression workers (--compress-workers)
    EncodeSlots,     \* encodeSlots: room in the queue to the workers
    PendingChunks,   \* pendingChunks: room in the ordered queue
    HashSlots,       \* room in the hasher's queue
    MaxLedgers,      \* bound: ledgers the source emits
    DeclaredSizes    \* the sizes an emission may declare; 0 is "unknown"

ASSUME PipelineAssumption ==
    /\ {EncodeSlots, PendingChunks, HashSlots, MaxLedgers} \subseteq Nat \ {0}
    /\ Workers # {} /\ Workers \cap {"publisher", "hasher"} = {}
    /\ MaxLedgers <= MaxSeq
    /\ DeclaredSizes \subseteq 0..MaxPayload

VARIABLES
    compress,   \* whether this server compresses; with Compress FALSE none does
    mem,        \* the buffers allocated, by name
    pc,         \* where Run is
    em,         \* the emission in progress
    used,       \* cells of its arena carved so far
    spare,      \* the fallback buffer, or NoBuf
    got,        \* the read in progress: its slice, whether the arena's, and its error
    chunkIdx, total, parts,   \* chunks submitted, units read, their slices
    runErr,     \* whether Run returns an error
    jobs,       \* the chunkJobs in flight, by sequence and index
    ordered, work,   \* the two channels: jobs in submission order
    closed,     \* the channels Run closed
    hand,       \* what each worker is encoding
    pubHand,    \* what the publisher waits to publish
    exited,     \* the goroutines that returned
    inflight,   \* the WaitGroup's count
    fallbacks,  \* chunks framed raw because the workers' queue was full
    hin, hashed, hashPc,   \* the hasher's channel, digest and state
    stored      \* the bodies PutParts read, in order

readVars == <<compress, em, used, spare, got, chunkIdx, total, parts>>
srcVars == <<pc, runErr, readVars>>
pipeVars == <<jobs, ordered, work, closed, hand, pubHand, inflight, fallbacks>>
hashVars == <<hin, hashed, hashPc>>
restVars == <<hashVars, exited, stored>>
vars == <<bVars, mem, srcVars, pipeVars, restVars>>

NoBuf == <<"nil", 0, 0>>
NoJob == <<0, 0>>
Junk == <<"junk">>
Header(seq, idx, codec) == <<"header", seq, idx, codec>>
EndOfLedger == [buf |-> NoBuf, lo |-> 0, len |-> 0]   \* the nil sent to the hasher

Goroutines == Workers \cup {"publisher", "hasher"}

\* What a slice holds, and a message without its header.
Cells(s) == SubSeq(mem[s.buf], s.lo, s.lo + s.len - 1)
DataOf(s) == [s EXCEPT !.lo = @ + 1, !.len = @ - 1]

With(f, k, v) == [x \in DOMAIN f \cup {k} |-> IF x = k THEN v ELSE f[x]]
Alloc(buf, size) == With(mem, buf, [i \in 1..size |-> Junk])

Init ==
    /\ newBroadcaster
    /\ mem = [b \in {NoBuf} |-> <<>>]
    /\ pc = "pull"
    /\ em = [seq |-> 0, size |-> 0]
    /\ used = 0 /\ spare = NoBuf
    /\ got = [msg |-> EndOfLedger, arena |-> FALSE, rerr |-> "nil"]
    /\ chunkIdx = 0 /\ total = 0 /\ parts = <<>> /\ runErr = FALSE
    /\ jobs = << >> /\ ordered = <<>> /\ work = <<>> /\ closed = {}
    /\ hand = [w \in Workers |-> NoJob] /\ pubHand = NoJob
    /\ compress \in {Compress, FALSE}
    /\ exited = IF compress THEN {} ELSE Workers \cup {"publisher"}
    /\ inflight = 0 /\ fallbacks = 0
    /\ hin = <<>> /\ hashed = <<>> /\ hashPc = "idle"
    /\ stored = <<>>

-----------------------------------------------------------------------------
\* The source, and Run's reads.

Return(failed) == pc' = "return" /\ runErr' = failed

\* The iterator ends, fails or is cancelled, or hands over what Run refuses.
Stop ==
    /\ pc = "pull"
    /\ \E failed \in BOOLEAN : Return(failed)
    /\ UNCHANGED <<bVars, mem, readVars, pipeVars, restVars>>

Arena(seq) == <<"arena", seq, 0>>
ArenaSize(size) == size + (size \div ChunkSize + 2)

Begin ==
    /\ pc = "pull"
    /\ em.seq < MaxLedgers
    /\ LET seq == em.seq + 1 IN
         \E size \in DeclaredSizes :
            /\ em' = [seq |-> seq, size |-> size]
            /\ mem' = IF size > 0 THEN Alloc(Arena(seq), ArenaSize(size)) ELSE mem
            /\ begin(seq, AppendBegin(seq, Len(flows) + 1))
    /\ used' = 0 /\ chunkIdx' = 0 /\ total' = 0 /\ parts' = <<>>
    /\ pc' = "read"
    /\ UNCHANGED <<compress, spare, got, runErr, pipeVars, restVars>>

\* The buffer of the next read: the arena's next region, or a spare one.
ArenaLeft == IF em.size > 0 THEN ArenaSize(em.size) - used ELSE 0
Region ==
    IF ArenaLeft >= 2
    THEN [buf |-> Arena(em.seq), lo |-> used + 1,
          len |-> IF ChunkSize + 1 < ArenaLeft THEN ChunkSize + 1 ELSE ArenaLeft]
    ELSE [buf |-> IF spare = NoBuf THEN <<"spare", em.seq, chunkIdx>> ELSE spare,
          lo |-> 1, len |-> ChunkSize + 1]

\* The region's memory after n units were read into it.  A reader may use all
\* of the buffer it is given as scratch space: the slack after them is junk.
Filled(m, r, n) ==
    [m EXCEPT ![r.buf] =
        [i \in 1..Len(@) |->
            IF i <= r.lo \/ i >= r.lo + r.len THEN @[i]
            ELSE IF i <= r.lo + n THEN <<"live", em.seq, total + i - r.lo>> ELSE Junk]]

\* What Run does once the units of a read are handed on.
AfterRead(rerr) ==
    CASE rerr = "nil"    -> pc' = "read" /\ UNCHANGED runErr
      [] rerr = "eof"    -> pc' = "flush" /\ UNCHANGED runErr
      [] rerr = "cancel" -> Return(FALSE)
      [] rerr = "fail"   -> Return(TRUE)

\* fillChunk stops short of the whole buffer only with an error.
Read ==
    /\ pc = "read"
    /\ LET r == Region
           m == IF r.buf \in DOMAIN mem THEN mem ELSE Alloc(r.buf, ChunkSize + 1)
       IN \E n \in 0..r.len - 1, rerr \in {"nil", "eof", "cancel", "fail"} :
            /\ rerr = "nil" => n = r.len - 1
            /\ mem' = Filled(m, r, n)
            /\ spare' = IF ArenaLeft >= 2 THEN spare ELSE r.buf
            /\ IF n = 0 THEN AfterRead(rerr) /\ UNCHANGED got
               ELSE IF total + n > MaxPayload THEN Return(TRUE) /\ UNCHANGED got
               ELSE /\ got' = [msg |-> [r EXCEPT !.len = n + 1],
                               arena |-> ArenaLeft >= 2, rerr |-> rerr]
                    /\ pc' = "submit"
                    /\ UNCHANGED runErr
    /\ UNCHANGED <<bVars, compress, em, used, chunkIdx, total, parts, pipeVars, restVars>>

-----------------------------------------------------------------------------
\* submit, and the bookkeeping after it.

PutChunkHeader(s, seq, idx) == [mem EXCEPT ![s.buf][s.lo] = Header(seq, idx, "raw")]

Key == <<em.seq, chunkIdx>>

\* Without compression the chunk is framed in place and published inline.
SubmitInline ==
    /\ pc = "submit"
    /\ ~compress
    /\ mem' = PutChunkHeader(got.msg, em.seq, chunkIdx)
    /\ chunk(got.msg)
    /\ pc' = "hash"
    /\ UNCHANGED <<readVars, runErr, pipeVars, restVars>>

HasRoom == Len(ordered) < PendingChunks

\* With it, a job is queued in order (which waits for room) ...
Submit ==
    /\ pc = "submit"
    /\ compress
    /\ HasRoom
    /\ jobs' = With(jobs, Key, [msg |-> got.msg, out |-> got.msg, done |-> FALSE])
    /\ ordered' = Append(ordered, Key)
    /\ inflight' = inflight + 1
    /\ pc' = "offer"
    /\ UNCHANGED <<bVars, mem, readVars, runErr, work, closed, hand, pubHand, fallbacks, restVars>>

\* Mutant: the chunk that found no room is left to nobody.
OfferDropped ==
    /\ pc = "offer"
    /\ work' = IF Len(work) < EncodeSlots THEN Append(work, Key) ELSE work
    /\ pc' = "hash"
    /\ UNCHANGED <<bVars, mem, readVars, runErr,
                   jobs, ordered, closed, hand, pubHand, inflight, fallbacks, restVars>>

\* Mutant: the fallback is not counted.
OfferUncounted ==
    /\ pc = "offer"
    /\ IF Len(work) < EncodeSlots
       THEN work' = Append(work, Key) /\ UNCHANGED <<mem, jobs>>
       ELSE /\ mem' = PutChunkHeader(got.msg, em.seq, chunkIdx)
            /\ jobs' = [jobs EXCEPT ![Key].done = TRUE]
            /\ UNCHANGED work
    /\ pc' = "hash"
    /\ UNCHANGED <<bVars, readVars, runErr, ordered, closed, hand, pubHand,
                   inflight, fallbacks, restVars>>

\* ... and offered to the workers, or framed raw when their queue is full.
Offer ==
    /\ pc = "offer"
    /\ IF Len(work) < EncodeSlots
       THEN work' = Append(work, Key) /\ UNCHANGED <<mem, jobs, fallbacks>>
       ELSE /\ mem' = PutChunkHeader(got.msg, em.seq, chunkIdx)
            /\ jobs' = [jobs EXCEPT ![Key].done = TRUE]
            /\ fallbacks' = fallbacks + 1
            /\ UNCHANGED work
    /\ pc' = "hash"
    /\ UNCHANGED <<bVars, readVars, runErr, ordered, closed, hand, pubHand, inflight, restVars>>

\* Mutant: the spare buffer is kept after its chunk was handed on.
KeepSpare == spare

\* A published spare buffer belongs to the subscribers.
NextSpare == IF got.arena THEN spare ELSE NoBuf

\* Mutant: the next region starts inside this one, its header on our last unit.
NextUsedPayload == IF got.arena THEN used + got.msg.len - 1 ELSE used

\* The next region starts where the message ends, not where the buffer does.
NextUsed == IF got.arena THEN used + got.msg.len ELSE used

\* The payload is queued for the hasher, which waits for room.
Hash ==
    /\ pc = "hash"
    /\ Len(hin) < HashSlots
    /\ hin' = Append(hin, DataOf(got.msg))
    /\ used' = NextUsed
    /\ spare' = NextSpare
    /\ chunkIdx' = chunkIdx + 1
    /\ parts' = Append(parts, DataOf(got.msg))
    /\ total' = total + got.msg.len - 1
    /\ AfterRead(got.rerr)
    /\ UNCHANGED <<bVars, mem, compress, em, got, pipeVars, hashed, hashPc, exited, stored>>

-----------------------------------------------------------------------------
\* The end of a ledger.

\* flush: every submitted chunk is published.  Then the size is checked.
Flush ==
    /\ pc = "flush"
    /\ inflight = 0
    /\ IF em.size > 0 /\ total # em.size THEN Return(TRUE)
                                         ELSE pc' = "sum" /\ UNCHANGED runErr
    /\ UNCHANGED <<bVars, mem, readVars, pipeVars, restVars>>

\* sum sends the end of the ledger and waits for the checksum.
AskSum ==
    /\ pc = "sum"
    /\ Len(hin) < HashSlots
    /\ hin' = Append(hin, EndOfLedger)
    /\ pc' = "end"
    /\ UNCHANGED <<bVars, mem, readVars, runErr, pipeVars, hashed, hashPc, exited, stored>>

\* The checksum is handed over, and END published.
End ==
    /\ pc = "end"
    /\ hashPc = "report"
    /\ end(AppendEnd(em.seq, chunkIdx, total, Len(flows), Sum64(hashed)))
    /\ hashed' = <<>>
    /\ hashPc' = "idle"
    /\ pc' = "put"
    /\ UNCHANGED <<mem, readVars, runErr, pipeVars, hin, exited, stored>>

\* PutParts reads the ledger back from the parts, and may fail.
PutParts ==
    /\ pc = "put"
    /\ \/ /\ stored' = Append(stored, FlattenSeq([k \in 1..Len(parts) |-> Cells(parts[k])]))
          /\ pc' = "pull"
          /\ UNCHANGED runErr
       \/ Return(TRUE) /\ UNCHANGED stored
    /\ UNCHANGED <<bVars, mem, readVars, pipeVars, hashVars, exited>>

-----------------------------------------------------------------------------
\* The deferred calls, last first: hasher.close, pipeline.close, finish.

CloseQueues ==
    /\ pc = "return"
    /\ closed' = closed \cup {"hin"} \cup (IF compress THEN {"work"} ELSE {})
    /\ pc' = IF compress THEN "wait" ELSE "drain"
    /\ UNCHANGED <<bVars, mem, readVars, runErr, jobs, ordered, work, hand, pubHand,
                   inflight, fallbacks, restVars>>

CloseOrdered ==
    /\ pc = "wait"
    /\ Workers \subseteq exited
    /\ closed' = closed \cup {"ordered"}
    /\ pc' = "drain"
    /\ UNCHANGED <<bVars, mem, readVars, runErr, jobs, ordered, work, hand, pubHand,
                   inflight, fallbacks, restVars>>

Finish ==
    /\ pc = "drain"
    /\ "publisher" \in exited
    /\ finish(runErr)
    /\ pc' = "done"
    /\ UNCHANGED <<mem, readVars, runErr, pipeVars, restVars>>

-----------------------------------------------------------------------------
\* A worker: take a job, encode it, and on a closed and empty queue return.

Take(w) ==
    /\ hand[w] = NoJob /\ w \notin exited
    /\ work # <<>>
    /\ hand' = [hand EXCEPT ![w] = Head(work)]
    /\ work' = Tail(work)
    /\ UNCHANGED <<bVars, mem, srcVars, jobs, ordered, closed, pubHand,
                   inflight, fallbacks, restVars>>

\* A message copied out of the scratch buffer gets an allocation of its own.
CloneOf(job) == <<"clone", job[1], job[2]>>

\* The frame goes to a copy when it is smaller; else the buffer is framed raw
\* in place.
Encode(w) ==
    /\ hand[w] # NoJob
    /\ LET job == hand[w]
           raw == Cells(DataOf(jobs[job].msg))
           out == [buf |-> CloneOf(job), lo |-> 1, len |-> 2]
       IN IF Smaller(raw)
          THEN /\ mem' = With(mem, out.buf, <<Header(job[1], job[2], "zstd")>> \o EncodeAll(raw))
               /\ jobs' = [jobs EXCEPT ![job].out = out, ![job].done = TRUE]
          ELSE /\ mem' = PutChunkHeader(jobs[job].msg, job[1], job[2])
               /\ jobs' = [jobs EXCEPT ![job].done = TRUE]
    /\ hand' = [hand EXCEPT ![w] = NoJob]
    /\ UNCHANGED <<bVars, srcVars, ordered, work, closed, pubHand, inflight, fallbacks, restVars>>

\* Mutant: a worker returns as soon as the queue is closed.
WorkClosedAtOnce == "work" \in closed

\* The range over a closed channel ends once what was queued is received.
WorkClosed == "work" \in closed /\ work = <<>>

WorkerReturns(w) ==
    /\ hand[w] = NoJob /\ w \notin exited
    /\ WorkClosed
    /\ exited' = exited \cup {w}
    /\ UNCHANGED <<bVars, mem, srcVars, pipeVars, hashVars, stored>>

-----------------------------------------------------------------------------
\* The publisher: take the oldest job, wait for it, publish it.

TakeOrdered ==
    /\ pubHand = NoJob
    /\ ordered # <<>>
    /\ pubHand' = Head(ordered)
    /\ ordered' = Tail(ordered)
    /\ UNCHANGED <<bVars, mem, srcVars, jobs, work, closed, hand, inflight, fallbacks, restVars>>

Ready(job) == jobs[job].done

Publish ==
    /\ pubHand # NoJob
    /\ Ready(pubHand)
    /\ chunk(jobs[pubHand].out)
    /\ jobs' = [j \in DOMAIN jobs \ {pubHand} |-> jobs[j]]
    /\ pubHand' = NoJob
    /\ inflight' = inflight - 1
    /\ UNCHANGED <<mem, srcVars, ordered, work, closed, hand, fallbacks, restVars>>

PublisherReturns ==
    /\ pubHand = NoJob /\ "publisher" \notin exited
    /\ ordered = <<>> /\ "ordered" \in closed
    /\ exited' = exited \cup {"publisher"}
    /\ UNCHANGED <<bVars, mem, srcVars, pipeVars, hashVars, stored>>

-----------------------------------------------------------------------------
\* The hasher: digest what comes in; at the end of a ledger offer the sum.

HashNext ==
    /\ hashPc = "idle"
    /\ hin # <<>>
    /\ IF Head(hin) = EndOfLedger
       THEN hashPc' = "report" /\ UNCHANGED hashed
       ELSE hashed' = hashed \o Cells(Head(hin)) /\ UNCHANGED hashPc
    /\ hin' = Tail(hin)
    /\ UNCHANGED <<bVars, mem, srcVars, pipeVars, exited, stored>>

HasherReturns ==
    /\ hashPc = "idle" /\ "hasher" \notin exited
    /\ hin = <<>> /\ "hin" \in closed
    /\ exited' = exited \cup {"hasher"}
    /\ UNCHANGED <<bVars, mem, srcVars, pipeVars, hashVars, stored>>

-----------------------------------------------------------------------------
Source == Stop \/ Begin \/ Read
Run == \/ SubmitInline \/ Submit \/ Offer \/ Hash \/ Flush \/ AskSum \/ End \/ PutParts
       \/ CloseQueues \/ CloseOrdered \/ Finish
Worker(w) == Take(w) \/ Encode(w) \/ WorkerReturns(w)
Publisher == TakeOrdered \/ Publish \/ PublisherReturns
Hasher == HashNext \/ HasherReturns

Stopped == pc = "done" /\ exited = Goroutines

Next == Source \/ Run \/ (\E w \in Workers : Worker(w)) \/ Publisher \/ Hasher

Spec == Init /\ [][Next \/ (Stopped /\ UNCHANGED vars)]_vars

\* The scheduler runs every goroutine that can go on.  Nothing is assumed of
\* the source: a read may block for ever.
FairSpec == Spec /\ WF_vars(Run) /\ (\A w \in Workers : WF_vars(Worker(w)))
                 /\ WF_vars(Publisher) /\ WF_vars(Hasher)

-----------------------------------------------------------------------------
\* The pipeline seen as a queue: the publisher's hand and the ordered queue,
\* each job with the raw bytes its buffer holds; the flows seen as messages.
Msg(s) ==
    LET h == Cells(s)[1] IN
    IF h[1] = "header" THEN AppendChunk(h[2], h[3], h[4], Tail(Cells(s)))
                       ELSE AppendChunk(0, 0, "raw", Cells(s))

Messages ==
    [i \in 1..Len(flows) |->
        [flows[i] EXCEPT !.chunks = [k \in 1..Len(@) |-> Msg(@[k])]]]

Queue ==
    LET keys == (IF pubHand = NoJob THEN <<>> ELSE <<pubHand>>) \o ordered IN
    [k \in 1..Len(keys) |->
        [seq |-> keys[k][1], idx |-> keys[k][2], raw |-> Cells(DataOf(jobs[keys[k]].msg))]]

P == INSTANCE PublishInOrder WITH
        flows <- Messages, pending <- Queue, PendingChunks <- PendingChunks + 1

\* Every ledger is published as PublishInOrder says: the goroutines keep the
\* source's order (compress.go:121), no buffer is written under a published or
\* queued chunk (server.go:275), flush and sum come before END (server.go:352)
\* and nothing is published into a finished broadcaster (server.go:220).
ImplementsPublishInOrder == P!Spec

\* The ring gets the bytes END described.  PutParts reads the parts after the
\* publisher framed and sent the same buffers and the hasher read them
\* (server.go:334): all three saw the same body.
RetainedIsPublished == \A i \in 1..Len(stored) : stored[i] = flows[i].end.sum

\* A flow never stops compressing unnoticed: every chunk that would have
\* compressed and went out raw is counted in fallbacks (compress.go:128).
DegradationIsCounted ==
    LET raw == {x \in (1..Len(flows)) \X (1..MaxPayload) :
                  /\ x[2] <= Len(flows[x[1]].chunks)
                  /\ LET m == Msg(flows[x[1]].chunks[x[2]]) IN m.codec = "raw" /\ Smaller(m.payload)}
    IN compress => Cardinality(raw) <= fallbacks

\* flush and sum return (compress.go:248, ledgerwork.go:74): with every queue
\* at its bound, a ledger that was read to its end gets its END or an error.
LedgerEnds == (pc = "flush") ~> (pc \in {"put", "return"})

\* close returns, whatever is queued when Run gives up (compress.go:252), and
\* leaves no goroutine behind.
EverythingStops == (pc = "return") ~> Stopped
=============================================================================
