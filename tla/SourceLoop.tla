----------------------------- MODULE SourceLoop -----------------------------
(***************************************************************************)
(* Server.Run (internal/server/server.go): the one goroutine that pulls    *)
(* ledgers from the source, publishes each chunk as it is read, publishes  *)
(* END and only then writes the ledger to the retention ring.  Beside it   *)
(* the chunk pipeline (ChunkQueue) publishes the submitted chunks.         *)
(*                                                                         *)
(* The source is the environment: it may hand over any sequence and any    *)
(* declared size, and a body may end early, run long, fail or be           *)
(* cancelled at any read.                                                  *)
(***************************************************************************)
EXTENDS ChunkQueue, Store

CONSTANTS
    FirstSeqs,       \* the sequences the source may emit first (its range's start)
    SourceSeqs,      \* the sequences it may emit after that
    DeclaredSizes,   \* the sizes an emission may declare; 0 is "unknown"
    Rings            \* the ring at start: the ranges an earlier run may leave

ASSUME SourceAssumption ==
    /\ FirstSeqs \subseteq Seqs
    /\ SourceSeqs \subseteq Seqs
    /\ DeclaredSizes \subseteq Nat

\* A ring that Open accepts: no ledgers, or lo..hi within the retention.
ASSUME RingsAssumption ==
    Rings \subseteq { S \in SUBSET (Seqs \ {0}) :
                        Contiguous(S) /\ \A p, q \in S : p - q < Retention }

VARIABLES
    pc,        \* where Run is
    prevSeq,   \* the last emitted sequence, 0 before the first
    em,        \* the emission in progress: its sequence and declared size
    parts,     \* the units read of it, which the ring will retain
    chunkIdx,  \* chunks submitted of it
    runErr     \* what Run returns: "none" is nil

runVars == <<pc, prevSeq, em, parts, chunkIdx, pending, runErr>>
sourceVars == <<bVars, storeVars, runVars>>

RunPc == {"pull", "read", "end", "put", "return", "done"}
RunErr == {"none", "source", "dense", "cap", "size", "retain"}

SourceTypeOK ==
    /\ BroadcasterTypeOK
    /\ StoreTypeOK
    /\ pc \in RunPc
    /\ prevSeq \in Seqs
    /\ em \in [seq : Seqs, size : Nat]
    /\ parts \in Body
    /\ chunkIdx \in Nat
    /\ pending \in Seq(Job)
    /\ runErr \in RunErr

\* The ring as Open leaves it over the files of S.
RingOver(S) ==
    /\ disk = [q \in S |-> << <<"old", q, 1>> >>]
    /\ IF S = {} THEN ring = EmptyRing
       ELSE \E lo, hi \in S : /\ \A q \in S : lo <= q /\ q <= hi
                              /\ ring = [oldest |-> lo, latest |-> hi, filled |-> TRUE]
    /\ put = IdlePut

SourceInit ==
    /\ newBroadcaster
    /\ \E S \in Rings : RingOver(S)
    /\ pc = "pull"
    /\ prevSeq = 0
    /\ em = [seq |-> 0, size |-> 0]
    /\ parts = <<>>
    /\ chunkIdx = 0
    /\ pending = <<>>
    /\ runErr = "none"

-----------------------------------------------------------------------------
Return(err) == pc' = "return" /\ runErr' = err

\* The iterator yields an error, or ends.  A cancelled context and an
\* exhausted source both make Run return nil.
SourceStops ==
    /\ pc = "pull"
    /\ \E err \in {"none", "source"} : Return(err)
    /\ UNCHANGED <<bVars, storeVars, prevSeq, em, parts, chunkIdx, pending>>

\* The sequences the iterator may yield next.
Emitted == IF flows = <<>> THEN FirstSeqs ELSE SourceSeqs

\* A sequence that does not follow the last emitted one is refused before
\* anything is published; so is a declared size over the payload cap.
DenseUnchecked(seq) == TRUE   \* Mutant: no density check.
Dense(seq) == prevSeq = 0 \/ seq = Succ(prevSeq)

Refuse ==
    /\ pc = "pull"
    /\ \E seq \in Emitted, size \in DeclaredSizes :
         \/ /\ ~Dense(seq)
            /\ Return("dense")
            /\ UNCHANGED prevSeq
         \/ /\ Dense(seq)
            /\ size > MaxPayload
            /\ Return("cap")
            /\ prevSeq' = seq
    /\ UNCHANGED <<bVars, storeVars, em, parts, chunkIdx, pending>>

\* BEGIN is published before the first read of the body.
Begin ==
    /\ pc = "pull"
    /\ \E seq \in Emitted, size \in DeclaredSizes :
         /\ Dense(seq)
         /\ size <= MaxPayload
         /\ prevSeq' = seq
         /\ em' = [seq |-> seq, size |-> size]
         /\ begin(seq, AppendBegin(seq, Len(flows) + 1))
    /\ parts' = <<>>
    /\ chunkIdx' = 0
    /\ pc' = "read"
    /\ UNCHANGED <<storeVars, pending, runErr>>

-----------------------------------------------------------------------------
\* fillChunk returns n units and rerr.  It stops short of a full chunk only
\* with an error, except past the declared size, where the arena's last
\* buffer may be shorter than a chunk.
fillChunk(n, rerr) ==
    rerr = "nil" => \/ n = ChunkSize
                    \/ n > 0 /\ em.size > 0 /\ Len(parts) + n > em.size

Data(n) == [i \in 1..n |-> <<"live", em.seq, Len(parts) + i>>]

\* The chunk just read is handed to the pipeline.
submit(data) == submitChunk(em.seq, chunkIdx, data)

\* What Run does with rerr once the units it came with are handed on.
AfterRead(rerr) ==
    CASE rerr = "nil"    -> pc' = "read" /\ UNCHANGED runErr
      [] rerr = "eof"    -> pc' = "end" /\ UNCHANGED runErr
      [] rerr = "cancel" -> Return("none")
      [] rerr = "fail"   -> Return("source")

Read ==
    /\ pc = "read"
    /\ \E n \in 0..ChunkSize, rerr \in {"nil", "eof", "cancel", "fail"} :
         /\ fillChunk(n, rerr)
         /\ IF n = 0
            THEN AfterRead(rerr) /\ UNCHANGED <<bVars, parts, chunkIdx, pending>>
            ELSE /\ Len(parts) + n <= MaxPayload
                 /\ submit(Data(n))
                 /\ chunkIdx' = chunkIdx + 1
                 /\ parts' = parts \o Data(n)
                 /\ AfterRead(rerr)
    /\ UNCHANGED <<storeVars, prevSeq, em>>

\* A read that takes the body past the cap ends Run before it is submitted.
ReadPastCap ==
    /\ pc = "read"
    /\ Len(parts) + ChunkSize > MaxPayload
    /\ Return("cap")
    /\ UNCHANGED <<bVars, storeVars, prevSeq, em, parts, chunkIdx, pending>>

\* The pipeline publishes its oldest chunk.
Publish ==
    /\ publishNext
    /\ UNCHANGED <<storeVars, pc, prevSeq, em, parts, chunkIdx, runErr>>

-----------------------------------------------------------------------------
\* A body that is not the declared size gets no END.
SizeMismatch == em.size > 0 /\ Len(parts) # em.size

End ==
    /\ pc = "end"
    /\ flush
    /\ IF SizeMismatch
       THEN Return("size") /\ UNCHANGED bVars
       ELSE /\ end(AppendEnd(em.seq, chunkIdx, Len(parts), Len(flows), Sum64(parts)))
            /\ pc' = "put"
            /\ UNCHANGED runErr
    /\ UNCHANGED <<storeVars, prevSeq, em, parts, chunkIdx, pending>>

\* PutParts is called, takes its steps and returns, before the next pull.
CallPut ==
    /\ pc = "put"
    /\ PutParts(em.seq, parts)
    /\ UNCHANGED <<bVars, runVars>>

PutStep ==
    /\ pc = "put"
    /\ StoreStep
    /\ UNCHANGED <<bVars, runVars>>

\* Mutant: a ledger that could not be retained does not stop the loop.
ReturnPutIgnoringError ==
    /\ pc = "put"
    /\ PutReturned
    /\ pc' = "pull"
    /\ UNCHANGED <<bVars, runErr, prevSeq, em, parts, chunkIdx, pending>>

ReturnPut ==
    /\ pc = "put"
    /\ PutReturned
    /\ IF put.err # "none" THEN Return("retain")
                           ELSE pc' = "pull" /\ UNCHANGED runErr
    /\ UNCHANGED <<bVars, prevSeq, em, parts, chunkIdx, pending>>

\* Mutant: the broadcaster is finished before the pipeline is closed.
FinishUndrained ==
    /\ pc = "return"
    /\ finish(runErr # "none")
    /\ pc' = "done"
    /\ UNCHANGED <<storeVars, prevSeq, em, parts, chunkIdx, pending, runErr>>

\* The deferred calls, last first: the pipeline is closed, which drains it,
\* and then the broadcaster is finished with Run's error.
Finish ==
    /\ pc = "return"
    /\ flush
    /\ finish(runErr # "none")
    /\ pc' = "done"
    /\ UNCHANGED <<storeVars, prevSeq, em, parts, chunkIdx, pending, runErr>>

Terminated ==
    /\ pc = "done"
    /\ UNCHANGED sourceVars

SourceNext ==
    \/ SourceStops \/ Refuse \/ Begin
    \/ Read \/ ReadPastCap \/ Publish
    \/ End \/ CallPut \/ PutStep \/ ReturnPut
    \/ Finish

SourceSpec == SourceInit /\ [][SourceNext \/ Terminated]_sourceVars

-----------------------------------------------------------------------------
\* No call into the broadcaster panics: the publisher never publishes outside
\* an open flow or after finish, and no flow begins over an open one.  This is
\* what flush before END (server.go:354) and the order of the deferred calls
\* (server.go:216, 230) are for.
NoPanic == ~panicked

\* END announces what was published: the chunks of a completed flow, expanded,
\* are the pieces of the body END carries the length and checksum of, in order.
EndMatchesChunks ==
    \A i \in 1..Len(flows) : LET f == flows[i] IN complete(f) =>
        /\ f.end.seq = f.seq
        /\ f.end.count = Len(f.chunks)
        /\ f.end.count = Pieces(f.end.sum)
        /\ f.end.total = Len(f.end.sum)
        /\ \A k \in 1..Len(f.chunks) :
             /\ f.chunks[k].seq = f.seq
             /\ f.chunks[k].idx = k - 1
             /\ Expand(f.chunks[k]) = Piece(f.end.sum, k)

\* Retained(q): the ring serves ledger q, or has pruned it.
Retained(q, body) ==
    ring.filled /\ (q < ring.oldest \/ (q <= ring.latest /\ Exists(q) /\ disk[q] = body))

\* "Everything below the current flow is on disk": each Put completes before
\* the next BEGIN (server.go:207), so every flow but the last can be read back
\* from the ring, with the body its END announced, unless pruning took it.
BelowFlowOnDisk ==
    \A i \in 1..Len(flows) - 1 : Retained(flows[i].seq, flows[i].end.sum)

\* The ring is emptied at most once, by the first ledger of a run: the density
\* check (server.go:258) keeps every later Put a continuation.
ResetOnlyFirst == put.pc = "clear" => Len(flows) = 1

\* The index describes the directory, and the directory is a range.
IndexIsRange ==
    IF ring.filled THEN DOMAIN disk = ring.oldest..ring.latest /\ ring.oldest <= ring.latest
                   ELSE DOMAIN disk = {}

\* "The ring is always a contiguous range [oldest, latest]" (store.go:5): it
\* is, within the retention, at every moment the lock is free, unless clearing
\* (store.go:244), or pruning, stopped half way on a failed unlink.
RingIsRange ==
    Unlocked =>
        /\ put.err # "clear" => IndexIsRange
        /\ put.err \notin {"clear", "prune"} => (ring.filled => ring.latest - ring.oldest < Retention)

\* The pipeline as a queue, and the flows, seen as PublishInOrder sees them.
P == INSTANCE PublishInOrder

\* The source loop publishes as PublishInOrder says (server.go:352, the flush
\* before END): with ChunkPipeline, which implements the same specification,
\* this is what makes the queue a sound stand-in for the pipeline.
SourceImplementsPublishInOrder == P!Spec
=============================================================================
