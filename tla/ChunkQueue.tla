----------------------------- MODULE ChunkQueue -----------------------------
(***************************************************************************)
(* The chunk pipeline as the source loop sees it                           *)
(* (internal/server/compress.go): chunks go in, are published in           *)
(* submission order by another goroutine, each compressed by then or raw,  *)
(* and flush waits for all of them.  ChunkPipeline has the workers, the    *)
(* channels and the buffers, and is shown to implement this.               *)
(***************************************************************************)
EXTENDS Broadcaster

CONSTANT PendingChunks   \* chunks the pipeline holds: its ordered queue and the publisher's hand

ASSUME QueueAssumption == PendingChunks \in Nat \ {0}

VARIABLE pending         \* chunks submitted to the pipeline, not published

Job == [seq : Seqs, idx : Nat, raw : Body]

\* Mutant: the queue is a stack.
submitChunkLast(seq, idx, data) ==
    /\ Len(pending) < PendingChunks
    /\ pending' = <<[seq |-> seq, idx |-> idx, raw |-> data]>> \o pending
    /\ UNCHANGED bVars

\* submit publishes inline without compression; with it, the chunk waits for
\* its turn in the ordered queue, and submit waits for room there.
submitChunk(seq, idx, data) ==
    IF Compress
    THEN /\ Len(pending) < PendingChunks
         /\ pending' = Append(pending, [seq |-> seq, idx |-> idx, raw |-> data])
         /\ UNCHANGED bVars
    ELSE /\ chunk(RawChunk(seq, idx, data))
         /\ UNCHANGED pending

\* The publisher takes the oldest chunk, compressed by a worker if that made it
\* smaller, or raw (incompressible, or every worker was busy).
publishNext ==
    /\ pending # <<>>
    /\ LET job == Head(pending) IN
         \E msg \in {RawChunk(job.seq, job.idx, job.raw)} \cup
                    (IF Smaller(job.raw) THEN {compressChunk(job.seq, job.idx, job.raw)} ELSE {}) :
            chunk(msg)
    /\ pending' = Tail(pending)

\* flush: every chunk submitted has been published.
flushSkipped == TRUE   \* Mutant: END does not wait for the pipeline.
flush == pending = <<>>
=============================================================================
