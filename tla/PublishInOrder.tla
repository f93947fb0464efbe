--------------------------- MODULE PublishInOrder ---------------------------
(***************************************************************************)
(* What the source loop promises its subscribers of every flow, whatever   *)
(* publishes the chunks: the flow is the source's bytes in the source's    *)
(* order, each chunk once, none changed after it is published, all of them *)
(* before an END that describes exactly them, and nothing after finish.    *)
(* SourceLoop is shown to implement this with the pipeline as a queue,     *)
(* ChunkPipeline with its goroutines and buffers.                          *)
(***************************************************************************)
EXTENDS ChunkQueue, SequencesExt

vars == <<bVars, pending>>

Init ==
    /\ newBroadcaster
    /\ pending = <<>>

\* The body published of the current flow, and how much more is on its way.
Published == FlattenSeq([k \in 1..Len(cur.chunks) |-> Expand(cur.chunks[k])])
Underway == FlattenSeq([k \in 1..Len(pending) |-> pending[k].raw])

Begin ==
    /\ ~ended /\ ~OpenFlow
    /\ \E seq \in Seqs : begin(seq, AppendBegin(seq, Len(flows) + 1))
    /\ UNCHANGED pending

\* The next units of the body, at most a chunk of them.
NextChunks ==
    LET sofar == Len(Published) + Len(Underway)
    IN {[i \in 1..n |-> <<"live", cur.seq, sofar + i>>] : n \in 1..ChunkSize}

\* A chunk is queued, or published at once when none is queued before it.
Submit ==
    /\ ~ended /\ OpenFlow
    /\ \E raw \in NextChunks : LET idx == Len(cur.chunks) + Len(pending) IN
         \/ /\ Len(pending) < PendingChunks
            /\ pending' = Append(pending, [seq |-> cur.seq, idx |-> idx, raw |-> raw])
            /\ UNCHANGED bVars
         \/ /\ flush
            /\ chunk(RawChunk(cur.seq, idx, raw))
            /\ UNCHANGED pending

Publish ==
    /\ ~ended /\ OpenFlow
    /\ publishNext

End ==
    /\ ~ended /\ OpenFlow
    /\ flush
    /\ end(AppendEnd(cur.seq, Len(cur.chunks), Len(Published), Len(flows), Sum64(Published)))
    /\ UNCHANGED pending

Finish ==
    /\ flush
    /\ \E failed \in BOOLEAN : finish(failed)
    /\ UNCHANGED pending

Next == Begin \/ Submit \/ Publish \/ End \/ Finish

Spec == Init /\ [][Next]_vars
=============================================================================
