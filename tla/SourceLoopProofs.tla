-------------------------- MODULE SourceLoopProofs --------------------------
(***************************************************************************)
(* Proofs about the source loop, for every value of the constants.         *)
(*                                                                         *)
(* The invariant follows the goroutine: FlowInv ties the state of the      *)
(* broadcaster to Run's control point, PutInv ties the ring to the step    *)
(* put has reached, and HandOver says what the ring holds when Run comes   *)
(* back for the next ledger, which is what makes BelowFlowOnDisk survive   *)
(* the next BEGIN.                                                         *)
(***************************************************************************)
EXTENDS SourceLoop, WireProofs

\* The broadcaster, by Run's control point.
FlowInv ==
    /\ ~panicked
    /\ ended <=> pc = "done"
    /\ pending # <<>> => OpenFlow
    /\ pc \in {"pull", "put", "done"} => pending = <<>>
    /\ pc = "pull" => ~OpenFlow
    /\ pc \in {"read", "end"} => OpenFlow
    /\ pc = "put" => flows # <<>> /\ complete(cur) /\ cur.end.sum = parts
    /\ pc \in {"read", "end", "put"} => em.seq = cur.seq /\ prevSeq = cur.seq

\* The index is a range with no wrap, and no longer than the retention.
RangeInv == ring.filled => 1 <= ring.oldest /\ ring.oldest <= ring.latest
Short == ring.filled => ring.latest - ring.oldest < Retention

\* The ledger being put continues the ring, or the ring is empty.
Continues == put.seq # 0 /\ (ring.filled => put.seq = Succ(ring.latest))

\* The ledger just put is the ring's newest.
Newest == ring.filled /\ ring.latest = em.seq /\ em.seq \in DOMAIN disk /\ disk[em.seq] = parts

\* The ring, by the step put has reached.
PutInv ==
    /\ put.op = "put"
    /\ put.pc # "down"
    /\ RangeInv
    /\ pc # "put" => put.pc = "idle"
    /\ put.pc = "idle" /\ pc \notin {"return", "done"} => put.err = "none"
    /\ put.pc \notin {"idle", "done"} => put.err = "none"
    /\ put.pc # "idle" => put.seq = em.seq /\ put.parts = parts
    /\ put.pc # "clear" /\ put.err # "clear" => IndexIsRange
    /\ put.pc # "prune" /\ put.err \notin {"clear", "prune"} => Short
    /\ put.pc = "clear" =>
         /\ ring.filled /\ Len(flows) = 1 /\ put.seq # 0
         /\ ring.oldest <= put.at /\ put.at <= ring.latest
         /\ DOMAIN disk = put.at..ring.latest
    /\ put.pc \in {"write", "rename"} => Continues
    /\ put.pc = "rename" => put.tmp = parts
    /\ put.pc = "prune" => Newest /\ em.seq # 0
    /\ put.pc = "done" /\ put.err = "none" => Newest /\ em.seq # 0

\* Before the current ledger reaches the ring, the ring ends at the one before
\* it, and the current one follows; after, it ends at the current one.
HandOver ==
    /\ pc = "pull" /\ flows # <<>> =>
         /\ ring.filled /\ ring.latest = cur.seq /\ cur.seq # 0 /\ prevSeq = cur.seq
         /\ cur.seq \in DOMAIN disk /\ disk[cur.seq] = cur.end.sum
    /\ pc \in {"read", "end", "put"} /\ Len(flows) > 1 /\ put.pc \in {"idle", "write", "rename"} =>
         ring.filled /\ cur.seq = Succ(ring.latest)

SourceInv ==
    /\ SourceTypeOK
    /\ FlowInv
    /\ PutInv
    /\ HandOver
    /\ BelowFlowOnDisk

-----------------------------------------------------------------------------
\* Facts about the store's operators: uint32 arithmetic, and the types through
\* a put.

\* The uint32 difference pruneLocked computes is the plain one on a range.
LEMMA RingSizeFacts ==
    ASSUME ring.oldest \in Seqs, ring.latest \in Seqs, ring.oldest <= ring.latest
    PROVE  RingSize = ring.latest - ring.oldest + 1
<1>1. /\ MaxSeq \in Nat /\ ring.oldest \in Nat /\ ring.latest \in Nat
      /\ ring.latest - ring.oldest \in Nat /\ ring.latest - ring.oldest <= MaxSeq
  BY WireAssumption DEF Seqs
<1>2. \A a, m \in Nat : a <= m => a % (m + 1) = a
  OBVIOUS
<1> QED BY <1>1, <1>2 DEF RingSize

\* The empty index is well typed.
LEMMA EmptyRingType == EmptyRing \in [oldest : Seqs, latest : Seqs, filled : BOOLEAN]
<1>1. 0 \in Seqs
  BY WireAssumption DEF Seqs
<1> QED BY <1>1, Zenon DEF EmptyRing

\* Each step of put keeps the store well typed.
LEMMA StoreTypeStep ==
    ASSUME StoreTypeOK
    PROVE  /\ StoreStep => StoreTypeOK'
           /\ PutReturned => StoreTypeOK'
           /\ \A q \in Seqs, b \in Body : PutParts(q, b) => StoreTypeOK'
<1> USE DEF StoreTypeOK, PutPc, PutErr
<1>0. 0 \in Seqs /\ <<>> \in Body
  BY WireAssumption DEF Seqs, Body
<1>1. clearLocked => StoreTypeOK'
  BY SuccFacts, EmptyRingType DEF clearLocked, Remove
<1>2. write => StoreTypeOK'
  BY DEF write
<1>3. rename => StoreTypeOK'
  BY DEF rename
<1>4. pruneLocked => StoreTypeOK'
  BY <1>0, SuccFacts DEF pruneLocked, Remove, IdlePut
<1>5. Fail => StoreTypeOK'
  BY DEF Fail
<1>6. PutReturned => StoreTypeOK'
  BY <1>0 DEF PutReturned, IdlePut
<1>7. \A q \in Seqs, b \in Body : PutParts(q, b) => StoreTypeOK'
  BY <1>0 DEF PutParts
<1> QED BY <1>1, <1>2, <1>3, <1>4, <1>5, <1>6, <1>7 DEF StoreStep

-----------------------------------------------------------------------------
\* Bodies and the chunks made of them are well typed.
LEMMA ChunkTypes ==
    ASSUME NEW seq \in Seqs, NEW idx \in Nat, NEW raw \in Body
    PROVE  /\ RawChunk(seq, idx, raw) \in ChunkMsg
           /\ compressChunk(seq, idx, raw) \in ChunkMsg
<1>1. raw \in Payload
  BY DEF Body, Payload
<1>2. EncodeAll(raw) \in Payload
  BY DEF EncodeAll, Payload
<1> QED BY <1>1, <1>2 DEF RawChunk, compressChunk, AppendChunk, ChunkMsg, Codec

\* What a read appends to the body is a body.
LEMMA DataType ==
    ASSUME SourceTypeOK, NEW n \in Nat
    PROVE  Data(n) \in Body
BY DEF Data, SourceTypeOK, Body, Unit, Seqs

\* A body followed by a body is one.
LEMMA BodyConcat == \A a, b \in Body : a \o b \in Body
BY DEF Body

\* END is not nil, and a flow's end tells whether it is complete.
LEMMA EndIsNotNil ==
    \A m \in EndMsg : m # NoMsg
BY DEF EndMsg, NoMsg

-----------------------------------------------------------------------------
\* What the broadcaster's methods do when they do not panic.

\* begin appends an open flow and leaves the others alone.
LEMMA BeginEffect ==
    ASSUME BroadcasterTypeOK, ~ended, ~OpenFlow,
           NEW seq \in Seqs, NEW m \in BeginMsg, begin(seq, m)
    PROVE  /\ BroadcasterTypeOK'
           /\ Len(flows') = Len(flows) + 1
           /\ \A i \in 1..Len(flows) : flows'[i] = flows[i]
           /\ cur'.seq = seq /\ cur'.begin = m /\ cur'.chunks = <<>> /\ OpenFlow'
           /\ ended' = ended /\ panicked' = panicked /\ notify' = notify + 1
<1>1. flows \in Seq(Flow) /\ notify \in Nat
  BY DEF BroadcasterTypeOK
<1> DEFINE f == [seq |-> seq, begin |-> m, chunks |-> <<>>, end |-> NoMsg]
<1>2. f \in Flow
  BY DEF Flow
<1>3. flows' = Append(flows, f) /\ notify' = notify + 1
      /\ panicked' = panicked /\ ended' = ended /\ srcErr' = srcErr
  BY DEF begin, wakeLocked
<1> HIDE DEF f
<1>4. /\ flows' \in Seq(Flow) /\ Len(flows') = Len(flows) + 1
      /\ \A i \in 1..Len(flows) : flows'[i] = flows[i]
      /\ flows'[Len(flows) + 1] = f
  BY <1>1, <1>2, <1>3
<1>5. f.seq = seq /\ f.begin = m /\ f.end = NoMsg /\ f.chunks = <<>>
  BY DEF f
<1>6. cur' = f
  BY <1>4 DEF cur
<1>7. flows' # <<>>
  BY <1>1, <1>4
<1> QED BY <1>1, <1>3, <1>4, <1>5, <1>6, <1>7 DEF BroadcasterTypeOK, OpenFlow, complete

\* chunk appends to the open flow; its sequence, and its being open, remain.
LEMMA ChunkEffect ==
    ASSUME BroadcasterTypeOK, ~ended, OpenFlow, NEW m \in ChunkMsg, chunk(m)
    PROVE  /\ BroadcasterTypeOK'
           /\ Len(flows') = Len(flows) /\ flows' # <<>>
           /\ \A i \in 1..Len(flows) - 1 : flows'[i] = flows[i]
           /\ cur'.seq = cur.seq /\ cur'.begin = cur.begin /\ OpenFlow'
           /\ cur \in Flow /\ cur'.chunks = Append(cur.chunks, m)
           /\ ended' = ended /\ panicked' = panicked /\ notify' = notify + 1
<1>1. flows \in Seq(Flow) /\ notify \in Nat /\ Len(flows) \in Nat /\ Len(flows) > 0
  BY DEF BroadcasterTypeOK, OpenFlow
<1>2. /\ flows' = [flows EXCEPT ![Len(flows)].chunks = Append(@, m)]
      /\ notify' = notify + 1 /\ panicked' = panicked /\ ended' = ended /\ srcErr' = srcErr
  BY DEF chunk, wakeLocked
<1> DEFINE g == [cur EXCEPT !.chunks = Append(@, m)]
<1>3. cur \in Flow
  BY <1>1 DEF cur
<1>4. g \in Flow /\ g.seq = cur.seq /\ g.begin = cur.begin /\ g.end = cur.end
      /\ g.chunks = Append(cur.chunks, m)
  BY <1>3 DEF Flow
<1>5. flows' = [flows EXCEPT ![Len(flows)] = g]
  BY <1>2 DEF cur
<1> HIDE DEF g
<1>6. /\ flows' \in Seq(Flow) /\ Len(flows') = Len(flows)
      /\ \A i \in 1..Len(flows) - 1 : flows'[i] = flows[i]
      /\ flows'[Len(flows)] = g
  BY <1>1, <1>4, <1>5
<1>7. cur' = g /\ flows' # <<>>
  BY <1>1, <1>6 DEF cur
<1> QED BY <1>1, <1>2, <1>3, <1>4, <1>6, <1>7 DEF BroadcasterTypeOK, OpenFlow, complete

\* end closes the open flow with its message.
LEMMA EndEffect ==
    ASSUME BroadcasterTypeOK, ~ended, OpenFlow, NEW m \in EndMsg, end(m)
    PROVE  /\ BroadcasterTypeOK'
           /\ Len(flows') = Len(flows) /\ flows' # <<>>
           /\ \A i \in 1..Len(flows) - 1 : flows'[i] = flows[i]
           /\ cur'.seq = cur.seq /\ cur'.begin = cur.begin /\ cur'.chunks = cur.chunks
           /\ cur'.end = m /\ complete(cur')
           /\ ended' = ended /\ panicked' = panicked /\ notify' = notify + 1
<1>1. flows \in Seq(Flow) /\ notify \in Nat /\ Len(flows) \in Nat /\ Len(flows) > 0
  BY DEF BroadcasterTypeOK, OpenFlow
<1>2. /\ flows' = [flows EXCEPT ![Len(flows)].end = m]
      /\ notify' = notify + 1 /\ panicked' = panicked /\ ended' = ended /\ srcErr' = srcErr
  BY DEF end, wakeLocked
<1> DEFINE g == [cur EXCEPT !.end = m]
<1>3. cur \in Flow
  BY <1>1 DEF cur
<1>4. g \in Flow /\ g.seq = cur.seq /\ g.begin = cur.begin /\ g.end = m /\ g.chunks = cur.chunks
  BY <1>3 DEF Flow
<1>5. flows' = [flows EXCEPT ![Len(flows)] = g]
  BY <1>2 DEF cur
<1> HIDE DEF g
<1>6. /\ flows' \in Seq(Flow) /\ Len(flows') = Len(flows)
      /\ \A i \in 1..Len(flows) - 1 : flows'[i] = flows[i]
      /\ flows'[Len(flows)] = g
  BY <1>1, <1>4, <1>5
<1>7. cur' = g /\ flows' # <<>>
  BY <1>1, <1>6 DEF cur
<1>8. g.end # NoMsg
  BY <1>4, EndIsNotNil
<1> QED BY <1>1, <1>2, <1>4, <1>6, <1>7, <1>8 DEF BroadcasterTypeOK, complete

-----------------------------------------------------------------------------
\* The initial states are well typed.
LEMMA TypeInit == SourceInit => SourceTypeOK
<1> SUFFICES ASSUME SourceInit PROVE SourceTypeOK
  OBVIOUS
<1>1. PICK S \in Rings : RingOver(S)
  BY DEF SourceInit
<1>2. S \subseteq Seqs
  BY <1>1, RingsAssumption
<1>3. 0 \in Seqs /\ <<>> \in Body
  BY WireAssumption DEF Seqs, Body
<1>4. disk \in [DOMAIN disk -> Body] /\ DOMAIN disk \subseteq Seqs
  BY <1>1, <1>2 DEF RingOver, Body, Unit
<1>5. ring \in [oldest : Seqs, latest : Seqs, filled : BOOLEAN]
  <2>1. CASE S = {}
    BY <1>1, <2>1, EmptyRingType DEF RingOver
  <2>2. CASE S # {}
    <3>1. PICK lo, hi \in S : ring = [oldest |-> lo, latest |-> hi, filled |-> TRUE]
      BY <1>1, <2>2 DEF RingOver
    <3>2. lo \in Seqs /\ hi \in Seqs
      BY <1>2
    <3> QED BY <3>1, <3>2, Zenon
  <2> QED BY <2>1, <2>2
<1>6. StoreTypeOK
  BY <1>1, <1>3, <1>4, <1>5 DEF StoreTypeOK, RingOver, IdlePut, PutPc, PutErr
<1>7. BroadcasterTypeOK
  <2>1. flows \in Seq(Flow) /\ notify \in Nat
    BY DEF SourceInit, newBroadcaster
  <2>2. ended \in BOOLEAN /\ srcErr \in BOOLEAN /\ panicked \in BOOLEAN
    BY Zenon DEF SourceInit, newBroadcaster
  <2> QED BY <2>1, <2>2 DEF BroadcasterTypeOK
<1> QED BY <1>3, <1>6, <1>7 DEF SourceInit, SourceTypeOK, RunPc, RunErr

\* Every step keeps the types, given that the broadcaster is called where its
\* methods do not panic.
LEMMA TypeStep ==
    ASSUME SourceTypeOK, FlowInv, [SourceNext]_sourceVars
    PROVE  SourceTypeOK'
<1> USE DEF RunPc, RunErr, Return
<1>0. BroadcasterTypeOK /\ StoreTypeOK
  BY DEF SourceTypeOK
<1>1. CASE SourceStops
  BY <1>1 DEF SourceStops, SourceTypeOK, bVars, storeVars, BroadcasterTypeOK, StoreTypeOK
<1>2. CASE Refuse
  <2>1. Emitted \subseteq Seqs
    BY SourceAssumption DEF Emitted
  <2> QED BY <1>2, <2>1 DEF Refuse, SourceTypeOK, bVars, storeVars, BroadcasterTypeOK, StoreTypeOK
<1>3. CASE Begin
  <2>1. PICK seq \in Emitted, size \in DeclaredSizes :
          /\ prevSeq' = seq
          /\ em' = [seq |-> seq, size |-> size]
          /\ begin(seq, AppendBegin(seq, Len(flows) + 1))
    BY <1>3 DEF Begin
  <2>2. seq \in Seqs /\ size \in Nat
    BY SourceAssumption DEF Emitted
  <2>3. ~ended /\ ~OpenFlow
    BY <1>3 DEF Begin, FlowInv
  <2>4. AppendBegin(seq, Len(flows) + 1) \in BeginMsg
    BY <1>0, <2>2 DEF AppendBegin, BeginMsg, BroadcasterTypeOK
  <2>5. BroadcasterTypeOK'
    BY <1>0, <2>1, <2>2, <2>3, <2>4, BeginEffect
  <2>6. StoreTypeOK'
    BY <1>0, <1>3 DEF Begin, storeVars, StoreTypeOK
  <2> QED BY <1>3, <2>1, <2>2, <2>5, <2>6 DEF Begin, SourceTypeOK, Body
<1>4. CASE Read
  <2>1. StoreTypeOK'
    BY <1>0, <1>4 DEF Read, storeVars, StoreTypeOK
  <2>2. PICK n \in 0..ChunkSize, rerr \in {"nil", "eof", "cancel", "fail"} :
          IF n = 0
          THEN AfterRead(rerr) /\ UNCHANGED <<bVars, parts, chunkIdx, pending>>
          ELSE /\ submit(Data(n))
               /\ chunkIdx' = chunkIdx + 1
               /\ parts' = parts \o Data(n)
               /\ AfterRead(rerr)
    BY <1>4 DEF Read
  <2>3. pc' \in RunPc /\ runErr' \in RunErr
    <3>1. AfterRead(rerr)
      BY <2>2
    <3> QED BY <3>1, <2>2 DEF AfterRead, SourceTypeOK
  <2>4. prevSeq' \in Seqs /\ em' \in [seq : Seqs, size : Nat]
    BY <1>4 DEF Read, SourceTypeOK
  <2>5. n \in Nat
    BY WireAssumption
  <2>6. CASE n = 0
    BY <2>1, <2>2, <2>3, <2>4, <2>6 DEF SourceTypeOK, bVars, BroadcasterTypeOK
  <2>7. CASE n # 0
    <3>1. Data(n) \in Body
      BY <2>5, DataType
    <3>2. parts' \in Body /\ chunkIdx' \in Nat
      <4>1. parts \in Body /\ chunkIdx \in Nat
        BY DEF SourceTypeOK
      <4>2. parts' = parts \o Data(n) /\ chunkIdx' = chunkIdx + 1
        BY <2>2, <2>7
      <4> QED BY <3>1, <4>1, <4>2, BodyConcat
    <3>3. CASE Compress
      <4>1. [seq |-> em.seq, idx |-> chunkIdx, raw |-> Data(n)] \in Job
        BY <3>1 DEF Job, SourceTypeOK
      <4>2. pending' \in Seq(Job) /\ UNCHANGED bVars
        <5> DEFINE job == [seq |-> em.seq, idx |-> chunkIdx, raw |-> Data(n)]
        <5>1. pending' = Append(pending, job) /\ UNCHANGED bVars
          BY <2>2, <2>7, <3>3 DEF submit, submitChunk
        <5>2. pending \in Seq(Job)
          BY DEF SourceTypeOK
        <5> HIDE DEF job
        <5>3. Append(pending, job) \in Seq(Job)
          BY <4>1, <5>2 DEF job
        <5> QED BY <5>1, <5>3
      <4> QED BY <2>1, <2>3, <2>4, <3>2, <4>2 DEF SourceTypeOK, bVars, BroadcasterTypeOK
    <3>4. CASE ~Compress
      <4>1. RawChunk(em.seq, chunkIdx, Data(n)) \in ChunkMsg
        BY <3>1, ChunkTypes DEF SourceTypeOK
      <4>2. chunk(RawChunk(em.seq, chunkIdx, Data(n))) /\ pending' = pending
        BY <2>2, <2>7, <3>4 DEF submit, submitChunk
      <4>3. ~ended /\ OpenFlow
        BY <1>4 DEF Read, FlowInv
      <4>4. BroadcasterTypeOK'
        BY <1>0, <4>1, <4>2, <4>3, ChunkEffect
      <4> QED BY <2>1, <2>3, <2>4, <3>2, <4>2, <4>4 DEF SourceTypeOK
    <3> QED BY <3>3, <3>4
  <2> QED BY <2>6, <2>7
<1>5. CASE ReadPastCap
  BY <1>5 DEF ReadPastCap, SourceTypeOK, bVars, storeVars, BroadcasterTypeOK, StoreTypeOK
<1>6. CASE Publish
  <2>1. pending \in Seq(Job) /\ pending # <<>> /\ pending' = Tail(pending)
    BY <1>6 DEF Publish, publishNext, SourceTypeOK
  <2>2. Head(pending) \in Job /\ pending' \in Seq(Job)
    BY <2>1
  <2>3. PICK m \in ChunkMsg : chunk(m)
    BY <1>6, <2>2, ChunkTypes DEF Publish, publishNext, Job
  <2>4. OpenFlow /\ ~ended
    BY <2>1 DEF FlowInv
  <2>5. BroadcasterTypeOK'
    BY <1>0, <2>3, <2>4, ChunkEffect
  <2> QED BY <1>6, <2>2, <2>5 DEF Publish, publishNext, SourceTypeOK, storeVars, StoreTypeOK
<1>7. CASE End
  <2>1. StoreTypeOK'
    BY <1>0, <1>7 DEF End, storeVars, StoreTypeOK
  <2>2. CASE SizeMismatch
    BY <1>7, <2>1, <2>2 DEF End, SourceTypeOK, bVars, BroadcasterTypeOK
  <2>3. CASE ~SizeMismatch
    <3> DEFINE m == AppendEnd(em.seq, chunkIdx, Len(parts), Len(flows), Sum64(parts))
    <3>1. m \in EndMsg
      BY <1>0 DEF AppendEnd, EndMsg, Sum64, SourceTypeOK, BroadcasterTypeOK, Body
    <3>2. end(m) /\ ~ended /\ OpenFlow
      BY <1>7, <2>3 DEF End, FlowInv
    <3> HIDE DEF m
    <3>3. BroadcasterTypeOK'
      BY <1>0, <3>1, <3>2, EndEffect
    <3> QED BY <1>7, <2>1, <2>3, <3>3 DEF End, SourceTypeOK
  <2> QED BY <2>2, <2>3
<1>8. CASE CallPut
  BY <1>0, <1>8, StoreTypeStep DEF CallPut, SourceTypeOK, bVars, runVars, BroadcasterTypeOK
<1>9. CASE PutStep
  BY <1>0, <1>9, StoreTypeStep DEF PutStep, SourceTypeOK, bVars, runVars, BroadcasterTypeOK
<1>10. CASE ReturnPut
  BY <1>0, <1>10, StoreTypeStep DEF ReturnPut, SourceTypeOK, bVars, BroadcasterTypeOK
<1>11. CASE Finish
  <2>1. ended' \in BOOLEAN /\ srcErr' \in BOOLEAN
    BY <1>0, <1>11, Zenon DEF Finish, finish, BroadcasterTypeOK
  <2>2. BroadcasterTypeOK'
    BY <1>0, <1>11, <2>1 DEF Finish, finish, BroadcasterTypeOK
  <2> QED BY <1>11, <2>2 DEF Finish, SourceTypeOK, storeVars, StoreTypeOK
<1>12. CASE UNCHANGED sourceVars
  BY <1>12 DEF sourceVars, SourceTypeOK, bVars, storeVars, runVars, BroadcasterTypeOK, StoreTypeOK
<1> QED BY <1>1, <1>2, <1>3, <1>4, <1>5, <1>6, <1>7, <1>8, <1>9, <1>10, <1>11, <1>12 DEF SourceNext

-----------------------------------------------------------------------------
\* Every step keeps the broadcaster in step with Run: the methods are called
\* only where they do not panic, and flush empties the pipeline before END.
LEMMA FlowStep ==
    ASSUME SourceTypeOK, FlowInv, [SourceNext]_sourceVars
    PROVE  FlowInv'
<1> USE DEF Return
<1>0. BroadcasterTypeOK /\ pc \in RunPc /\ parts \in Body /\ pending \in Seq(Job)
  BY DEF SourceTypeOK
<1>1. CASE SourceStops
  BY <1>1 DEF SourceStops, FlowInv, bVars, OpenFlow, cur, complete
<1>2. CASE Refuse
  BY <1>2 DEF Refuse, FlowInv, bVars, OpenFlow, cur, complete
<1>3. CASE Begin
  <2>1. PICK seq \in Emitted, size \in DeclaredSizes :
          /\ prevSeq' = seq
          /\ em' = [seq |-> seq, size |-> size]
          /\ begin(seq, AppendBegin(seq, Len(flows) + 1))
    BY <1>3 DEF Begin
  <2>2. seq \in Seqs
    BY SourceAssumption DEF Emitted
  <2>3. ~ended /\ ~OpenFlow /\ pending = <<>>
    BY <1>3 DEF Begin, FlowInv
  <2>4. AppendBegin(seq, Len(flows) + 1) \in BeginMsg
    BY <1>0, <2>2 DEF AppendBegin, BeginMsg, BroadcasterTypeOK
  <2>5. cur'.seq = seq /\ OpenFlow' /\ ended' = ended /\ panicked' = panicked
    BY <1>0, <2>1, <2>2, <2>3, <2>4, BeginEffect
  <2>6. pc' = "read" /\ pending' = pending /\ em'.seq = seq
    BY <1>3, <2>1 DEF Begin
  <2> QED BY <2>1, <2>3, <2>5, <2>6 DEF FlowInv
<1>4. CASE Read
  <2>1. PICK n \in 0..ChunkSize, rerr \in {"nil", "eof", "cancel", "fail"} :
          IF n = 0
          THEN AfterRead(rerr) /\ UNCHANGED <<bVars, parts, chunkIdx, pending>>
          ELSE submit(Data(n)) /\ AfterRead(rerr)
    BY <1>4 DEF Read
  <2>2. pc = "read" /\ pc' \in {"read", "end", "return"} /\ em' = em /\ prevSeq' = prevSeq
    BY <1>4, <2>1 DEF Read, AfterRead
  <2>3. OpenFlow /\ ~ended /\ em.seq = cur.seq /\ prevSeq = cur.seq /\ ~panicked
    BY <2>2 DEF FlowInv
  <2>4. OpenFlow' /\ ~ended' /\ cur'.seq = cur.seq /\ ~panicked'
    <3>1. CASE n = 0 \/ Compress
      BY <2>1, <2>3, <3>1 DEF submit, submitChunk, bVars, OpenFlow, cur, complete
    <3>2. CASE n # 0 /\ ~Compress
      <4>1. chunk(RawChunk(em.seq, chunkIdx, Data(n)))
        BY <2>1, <3>2 DEF submit, submitChunk
      <4>2. n \in Nat
        BY WireAssumption
      <4>3. RawChunk(em.seq, chunkIdx, Data(n)) \in ChunkMsg
        BY <4>2, DataType, ChunkTypes DEF SourceTypeOK
      <4> QED BY <1>0, <2>3, <4>1, <4>3, ChunkEffect
    <3> QED BY <3>1, <3>2
  <2> QED BY <2>2, <2>3, <2>4 DEF FlowInv
<1>5. CASE ReadPastCap
  BY <1>5 DEF ReadPastCap, FlowInv, bVars, OpenFlow, cur, complete
<1>6. CASE Publish
  <2>1. pending # <<>> /\ pc' = pc /\ em' = em /\ prevSeq' = prevSeq
    BY <1>6 DEF Publish, publishNext
  <2>2. Head(pending) \in Job
    BY <1>0, <2>1
  <2>3. PICK m \in ChunkMsg : chunk(m)
    BY <1>6, <2>2, ChunkTypes DEF Publish, publishNext, Job
  <2>4. OpenFlow /\ ~ended /\ ~panicked /\ pc \in {"read", "end", "return"}
    BY <1>0, <2>1 DEF FlowInv, RunPc
  <2>5. OpenFlow' /\ ~ended' /\ cur'.seq = cur.seq /\ ~panicked'
    BY <1>0, <2>3, <2>4, ChunkEffect
  <2> QED BY <2>1, <2>4, <2>5 DEF FlowInv
<1>7. CASE End
  <2>1. CASE SizeMismatch
    BY <1>7, <2>1 DEF End, FlowInv, bVars, OpenFlow, cur, complete
  <2>2. CASE ~SizeMismatch
    <3> DEFINE m == AppendEnd(em.seq, chunkIdx, Len(parts), Len(flows), Sum64(parts))
    <3>1. m \in EndMsg /\ m.sum = parts
      BY <1>0 DEF AppendEnd, EndMsg, Sum64, SourceTypeOK, BroadcasterTypeOK, Body
    <3>2. end(m) /\ ~ended /\ OpenFlow /\ ~panicked /\ em.seq = cur.seq /\ prevSeq = cur.seq
      BY <1>7, <2>2 DEF End, FlowInv
    <3>3. pc' = "put" /\ pending = <<>> /\ pending' = pending /\ em' = em
          /\ prevSeq' = prevSeq /\ parts' = parts
      BY <1>7, <2>2 DEF End, flush
    <3> HIDE DEF m
    <3>4. flows' # <<>> /\ cur'.seq = cur.seq /\ cur'.end = m /\ complete(cur')
          /\ ~ended' /\ ~panicked'
      BY <1>0, <3>1, <3>2, EndEffect
    <3> QED BY <3>1, <3>2, <3>3, <3>4 DEF FlowInv
  <2> QED BY <2>1, <2>2
<1>8. CASE CallPut
  BY <1>8 DEF CallPut, FlowInv, bVars, runVars, OpenFlow, cur, complete
<1>9. CASE PutStep
  BY <1>9 DEF PutStep, FlowInv, bVars, runVars, OpenFlow, cur, complete
<1>10. CASE ReturnPut
  BY <1>10 DEF ReturnPut, FlowInv, bVars, OpenFlow, cur, complete
<1>11. CASE Finish
  BY <1>11 DEF Finish, finish, flush, FlowInv, OpenFlow, cur, complete
<1>12. CASE UNCHANGED sourceVars
  BY <1>12 DEF sourceVars, FlowInv, bVars, runVars, OpenFlow, cur, complete
<1> QED BY <1>1, <1>2, <1>3, <1>4, <1>5, <1>6, <1>7, <1>8, <1>9, <1>10, <1>11, <1>12 DEF SourceNext

-----------------------------------------------------------------------------
\* Outside Begin no flow is added, and only the current one changes.
LEMMA FlowFrame ==
    ASSUME SourceTypeOK, FlowInv, [SourceNext]_sourceVars, ~Begin
    PROVE  /\ Len(flows') = Len(flows)
           /\ \A i \in 1..Len(flows) - 1 : flows'[i] = flows[i]
           /\ cur'.seq = cur.seq
<1>0. BroadcasterTypeOK /\ pc \in RunPc /\ parts \in Body /\ pending \in Seq(Job)
  BY DEF SourceTypeOK
<1>1. CASE UNCHANGED flows
  BY <1>1 DEF cur
<1>2. CASE Read
  <2>1. PICK n \in 0..ChunkSize : (n = 0 /\ UNCHANGED bVars) \/ submit(Data(n))
    BY <1>2 DEF Read
  <2>2. CASE UNCHANGED bVars
    BY <1>1, <2>2 DEF bVars
  <2>3. CASE submit(Data(n)) /\ Compress
    BY <1>1, <2>3 DEF submit, submitChunk, bVars
  <2>4. CASE submit(Data(n)) /\ ~Compress
    <3>1. chunk(RawChunk(em.seq, chunkIdx, Data(n)))
      BY <2>4 DEF submit, submitChunk
    <3>2. n \in Nat
      BY WireAssumption
    <3>3. RawChunk(em.seq, chunkIdx, Data(n)) \in ChunkMsg
      BY <3>2, DataType, ChunkTypes DEF SourceTypeOK
    <3>4. ~ended /\ OpenFlow
      BY <1>2 DEF Read, FlowInv
    <3> QED BY <1>0, <3>1, <3>3, <3>4, ChunkEffect
  <2> QED BY <2>1, <2>2, <2>3, <2>4
<1>3. CASE Publish
  <2>1. pending # <<>>
    BY <1>3 DEF Publish, publishNext
  <2>2. Head(pending) \in Job
    BY <1>0, <2>1
  <2>3. PICK m \in ChunkMsg : chunk(m)
    BY <1>3, <2>2, ChunkTypes DEF Publish, publishNext, Job
  <2>4. OpenFlow /\ ~ended
    BY <2>1 DEF FlowInv
  <2> QED BY <1>0, <2>3, <2>4, ChunkEffect
<1>4. CASE End
  <2>1. CASE SizeMismatch
    BY <1>1, <1>4, <2>1 DEF End, bVars
  <2>2. CASE ~SizeMismatch
    <3> DEFINE m == AppendEnd(em.seq, chunkIdx, Len(parts), Len(flows), Sum64(parts))
    <3>1. m \in EndMsg
      BY <1>0 DEF AppendEnd, EndMsg, Sum64, SourceTypeOK, BroadcasterTypeOK, Body
    <3>2. end(m) /\ ~ended /\ OpenFlow
      BY <1>4, <2>2 DEF End, FlowInv
    <3> HIDE DEF m
    <3> QED BY <1>0, <3>1, <3>2, EndEffect
  <2> QED BY <2>1, <2>2
<1>5. SourceStops \/ Refuse \/ ReadPastCap \/ CallPut \/ PutStep \/ ReturnPut \/ Finish => UNCHANGED flows
  BY DEF SourceStops, Refuse, ReadPastCap, CallPut, PutStep, ReturnPut, Finish, finish, bVars
<1>6. UNCHANGED sourceVars => UNCHANGED flows
  BY DEF sourceVars, bVars
<1> QED BY <1>1, <1>2, <1>3, <1>4, <1>5, <1>6 DEF SourceNext

\* A step of Run outside a put, other than Begin, leaves the ring alone and
\* carries over what is known of it.
LEMMA QuietStep ==
    ASSUME SourceInv, [SourceNext]_sourceVars, UNCHANGED storeVars,
           pc # "put", pc' # "pull",
           pc' \in {"read", "end", "put"} => pc \in {"read", "end"},
           pc' \notin {"return", "done"} => pc \notin {"return", "done"}
    PROVE  PutInv' /\ HandOver' /\ BelowFlowOnDisk'
<1>1. SourceTypeOK /\ FlowInv /\ PutInv /\ HandOver /\ BelowFlowOnDisk
  BY DEF SourceInv
<1>2. disk' = disk /\ ring' = ring /\ put' = put
  BY DEF storeVars
<1>3. PutInv'
  BY <1>1, <1>2 DEF PutInv, RangeInv, Short, IndexIsRange
<1>4. /\ Len(flows') = Len(flows)
      /\ \A i \in 1..Len(flows) - 1 : flows'[i] = flows[i]
      /\ cur'.seq = cur.seq
  <2>1. ~Begin
    BY DEF Begin
  <2> QED BY <1>1, <2>1, FlowFrame
<1>5. HandOver'
  BY <1>1, <1>2, <1>4 DEF HandOver, cur
<1>6. BelowFlowOnDisk'
  BY <1>1, <1>2, <1>4 DEF BelowFlowOnDisk, Retained, Exists
<1> QED BY <1>3, <1>5, <1>6

\* BEGIN: the ledger below is the ring's newest, so it may become history.
LEMMA BeginStep ==
    ASSUME SourceInv, Begin
    PROVE  PutInv' /\ HandOver' /\ BelowFlowOnDisk'
<1>1. SourceTypeOK /\ FlowInv /\ PutInv /\ HandOver /\ BelowFlowOnDisk
  BY DEF SourceInv
<1>2. disk' = disk /\ ring' = ring /\ put' = put /\ pc = "pull" /\ pc' = "read"
  BY DEF Begin, storeVars
<1>3. PICK seq \in Emitted, size \in DeclaredSizes :
        /\ Dense(seq)
        /\ begin(seq, AppendBegin(seq, Len(flows) + 1))
  BY DEF Begin
<1>4. seq \in Seqs /\ BroadcasterTypeOK
  BY <1>1, SourceAssumption DEF Emitted, SourceTypeOK
<1>5. AppendBegin(seq, Len(flows) + 1) \in BeginMsg
  BY <1>4 DEF AppendBegin, BeginMsg, BroadcasterTypeOK
<1>6. ~ended /\ ~OpenFlow
  BY <1>1, <1>2 DEF FlowInv
<1>7. /\ Len(flows') = Len(flows) + 1
      /\ \A i \in 1..Len(flows) : flows'[i] = flows[i]
      /\ cur'.seq = seq
  BY <1>3, <1>4, <1>5, <1>6, BeginEffect
<1>8. Len(flows) \in Nat /\ (flows = <<>> <=> Len(flows) = 0)
  BY <1>4 DEF BroadcasterTypeOK
<1>9. PutInv'
  BY <1>1, <1>2 DEF PutInv, RangeInv, Short, IndexIsRange
<1>10. HandOver'
  BY <1>1, <1>2, <1>3, <1>7, <1>8 DEF HandOver, Dense
<1>11. BelowFlowOnDisk'
  <2> SUFFICES ASSUME NEW i \in 1..Len(flows)
               PROVE  Retained(flows[i].seq, flows[i].end.sum)
    BY <1>2, <1>7, <1>8 DEF BelowFlowOnDisk, Retained, Exists
  <2>1. CASE i < Len(flows)
    BY <1>1, <1>8, <2>1 DEF BelowFlowOnDisk
  <2>2. CASE i = Len(flows)
    <3>1. flows # <<>> /\ flows[i] = cur
      BY <1>8, <2>2 DEF cur
    <3>2. ring.latest \in Nat
      BY <1>1 DEF SourceTypeOK, StoreTypeOK, Seqs
    <3> QED BY <1>1, <1>2, <3>1, <3>2 DEF HandOver, Retained, Exists
  <2> QED BY <1>8, <2>1, <2>2
<1> QED BY <1>9, <1>10, <1>11

-----------------------------------------------------------------------------
\* The steps of a put.  Run waits for it, so only the store changes.

\* What every step of a put may assume.
LEMMA PutFacts ==
    ASSUME SourceInv, pc = "put"
    PROVE  /\ StoreTypeOK /\ PutInv /\ HandOver /\ BelowFlowOnDisk
           /\ em.seq \in Seqs /\ em.seq = cur.seq /\ prevSeq = cur.seq
           /\ cur.end.sum = parts /\ parts \in Body
           /\ Len(flows) \in Nat /\ Len(flows) >= 1
           /\ \A i \in 1..Len(flows) : flows[i].seq \in Seqs
           /\ ring.oldest \in Nat /\ ring.latest \in Nat /\ put.at \in Nat
           /\ Retention \in Nat /\ Retention >= 1 /\ MaxSeq \in Nat
<1>1. SourceTypeOK /\ FlowInv /\ PutInv /\ HandOver /\ BelowFlowOnDisk
  BY DEF SourceInv
<1>2. StoreTypeOK /\ em.seq \in Seqs /\ flows \in Seq(Flow) /\ parts \in Body
  BY <1>1 DEF SourceTypeOK, BroadcasterTypeOK
<1>3. flows # <<>> /\ em.seq = cur.seq /\ prevSeq = cur.seq /\ cur.end.sum = parts
  BY <1>1 DEF FlowInv
<1>4. \A i \in 1..Len(flows) : flows[i] \in Flow
  BY <1>2
<1>5. \A i \in 1..Len(flows) : flows[i].seq \in Seqs
  BY <1>4 DEF Flow
<1>6. ring.oldest \in Nat /\ ring.latest \in Nat /\ put.at \in Nat
  BY <1>2 DEF StoreTypeOK, Seqs
<1> QED BY <1>1, <1>2, <1>3, <1>5, <1>6, WireAssumption, RetentionAssumption

\* put's checks: only the first ledger of a run can find a ring it does not continue.
LEMMA CallPutStep ==
    ASSUME SourceInv, CallPut
    PROVE  PutInv' /\ HandOver' /\ BelowFlowOnDisk'
<1>1. pc = "put" /\ PutParts(em.seq, parts) /\ UNCHANGED <<bVars, runVars, disk, ring>>
      /\ put.pc = "idle"
  BY DEF CallPut, PutParts
<1>2. UNCHANGED <<flows, pc, em, parts, prevSeq, cur, Len(flows)>>
  BY <1>1 DEF bVars, runVars, cur
<1>3. /\ put'.op = "put" /\ put'.seq = em.seq /\ put'.parts = parts /\ put'.at = ring.oldest
      /\ put'.pc = IF em.seq = 0 THEN "done"
                   ELSE IF ring.filled /\ em.seq # Succ(ring.latest) THEN "clear" ELSE "write"
      /\ put'.err = IF em.seq = 0 THEN "sequence" ELSE "none"
  BY <1>1 DEF PutParts
<1>4. RangeInv /\ IndexIsRange /\ Short
  BY <1>1, PutFacts DEF PutInv
<1>5. RangeInv' /\ IndexIsRange' /\ Short'
  BY <1>1, <1>4 DEF RangeInv, IndexIsRange, Short
<1>6. put'.pc = "clear" => Len(flows) = 1
  <2>1. Len(flows) > 1 => em.seq = Succ(ring.latest)
    BY <1>1, PutFacts DEF HandOver
  <2>2. put'.pc = "clear" => em.seq # Succ(ring.latest)
    BY <1>3
  <2>3. Len(flows) \in Nat /\ Len(flows) >= 1
    BY <1>1, PutFacts
  <2>4. \A k \in Nat : k >= 1 => k > 1 \/ k = 1
    OBVIOUS
  <2> QED BY <2>1, <2>2, <2>3, <2>4
<1>7. PutInv'
  BY <1>1, <1>2, <1>3, <1>4, <1>5, <1>6, PutFacts DEF PutInv, Continues, IndexIsRange, RangeInv
<1>8. HandOver'
  BY <1>1, <1>2, <1>3, PutFacts DEF HandOver
<1>9. BelowFlowOnDisk'
  BY <1>1, <1>2, PutFacts DEF BelowFlowOnDisk, Retained, Exists
<1> QED BY <1>7, <1>8, <1>9

\* Unlinking the old ring, in the first put only: no earlier flow needs it.
LEMMA ClearStep ==
    ASSUME SourceInv, pc = "put", clearLocked, UNCHANGED <<bVars, runVars>>
    PROVE  PutInv' /\ HandOver' /\ BelowFlowOnDisk'
<1>1. UNCHANGED <<flows, pc, em, parts, prevSeq, cur, Len(flows)>>
  BY DEF bVars, runVars, cur
<1>2. /\ put.pc = "clear" /\ ring.filled /\ Len(flows) = 1 /\ put.seq # 0
      /\ ring.oldest <= put.at /\ put.at <= ring.latest /\ DOMAIN disk = put.at..ring.latest
      /\ put.op = "put" /\ put.err = "none" /\ put.seq = em.seq /\ put.parts = parts
      /\ 1 <= ring.oldest
  BY PutFacts DEF clearLocked, PutInv, RangeInv
<1>3. DOMAIN disk' = DOMAIN disk \ {put.at}
  BY DEF clearLocked, Remove
<1>4. CASE put.at = ring.latest
  <2>1. ring' = EmptyRing /\ put' = [put EXCEPT !.pc = "write"]
    BY <1>4 DEF clearLocked
  <2>2. DOMAIN disk' = {}
    BY <1>2, <1>3, <1>4, PutFacts
  <2>3. ~ring'.filled
    BY <2>1 DEF EmptyRing
  <2>4. put'.pc = "write" /\ put'.op = "put" /\ put'.err = "none" /\ put'.seq = em.seq
        /\ put'.parts = parts
    BY <1>2, <2>1, PutFacts DEF StoreTypeOK
  <2>5. PutInv'
    BY <1>1, <1>2, <2>2, <2>3, <2>4 DEF PutInv, RangeInv, Short, IndexIsRange, Continues
  <2> QED BY <1>1, <1>2, <2>5 DEF HandOver, BelowFlowOnDisk
<1>5. CASE put.at # ring.latest
  <2>1. ring' = ring /\ put' = [put EXCEPT !.at = Succ(@)]
    BY <1>5 DEF clearLocked
  <2>2. put.at < ring.latest /\ ring.latest <= MaxSeq
    BY <1>2, <1>5, PutFacts DEF StoreTypeOK, Seqs
  <2>3. Succ(put.at) = put.at + 1
    BY <2>2, PutFacts, SuccFacts DEF StoreTypeOK
  <2>4. put'.pc = "clear" /\ put'.op = "put" /\ put'.err = "none" /\ put'.seq = em.seq
        /\ put'.parts = parts /\ put'.at = put.at + 1
    BY <1>2, <2>1, <2>3, PutFacts DEF StoreTypeOK
  <2>5. DOMAIN disk' = put'.at..ring.latest
    BY <1>2, <1>3, <2>2, <2>4, PutFacts
  <2>6. PutInv'
    BY <1>1, <1>2, <2>1, <2>2, <2>4, <2>5, PutFacts DEF PutInv, RangeInv, Short
  <2> QED BY <1>1, <1>2, <2>4, <2>6 DEF HandOver, BelowFlowOnDisk
<1> QED BY <1>4, <1>5

\* Filling the temporary file touches neither the ring nor a ledger file.
LEMMA TempStep ==
    ASSUME SourceInv, pc = "put", write, UNCHANGED <<bVars, runVars>>
    PROVE  PutInv' /\ HandOver' /\ BelowFlowOnDisk'
<1>1. UNCHANGED <<flows, pc, em, parts, prevSeq, cur, Len(flows), disk, ring>>
  BY DEF bVars, runVars, cur, write
<1>2. put.pc = "write" /\ put.op = "put" /\ put.err = "none" /\ put.seq = em.seq
      /\ put.parts = parts /\ Continues /\ RangeInv /\ IndexIsRange /\ Short
  BY PutFacts DEF write, PutInv
<1>3. put'.pc = "rename" /\ put'.op = "put" /\ put'.err = "none" /\ put'.seq = em.seq
      /\ put'.parts = parts /\ put'.tmp = parts
  BY <1>2, PutFacts DEF write, StoreTypeOK
<1>4. Continues' /\ RangeInv' /\ IndexIsRange' /\ Short'
  BY <1>1, <1>2, <1>3 DEF Continues, RangeInv, IndexIsRange, Short
<1>5. PutInv'
  BY <1>1, <1>3, <1>4 DEF PutInv
<1>6. HandOver'
  BY <1>1, <1>2, <1>3, PutFacts DEF HandOver
<1>7. BelowFlowOnDisk'
  BY <1>1, PutFacts DEF BelowFlowOnDisk, Retained, Exists
<1> QED BY <1>5, <1>6, <1>7

\* rename makes the ledger the ring's newest, beside the ones already there.
LEMMA RenameStep ==
    ASSUME SourceInv, pc = "put", rename, UNCHANGED <<bVars, runVars>>
    PROVE  PutInv' /\ HandOver' /\ BelowFlowOnDisk'
<1>1. UNCHANGED <<flows, pc, em, parts, prevSeq, cur, Len(flows)>>
  BY DEF bVars, runVars, cur
<1>2. put.pc = "rename" /\ put.op = "put" /\ put.err = "none" /\ put.seq = em.seq
      /\ put.parts = parts /\ put.tmp = parts /\ Continues /\ RangeInv /\ IndexIsRange
  BY PutFacts DEF rename, PutInv
<1>3. em.seq # 0 /\ em.seq \in Nat /\ em.seq >= 1
  BY <1>2, PutFacts DEF Continues, Seqs
<1>4. ring.filled => em.seq = ring.latest + 1 /\ ring.oldest <= ring.latest /\ 1 <= ring.oldest
  BY <1>2, <1>3, PutFacts, SuccFacts DEF Continues, RangeInv, StoreTypeOK
<1>5. put'.pc = "prune" /\ put'.op = "put" /\ put'.err = "none" /\ put'.seq = em.seq
      /\ put'.parts = parts
  BY <1>2, PutFacts DEF rename, StoreTypeOK
<1>6. /\ ring'.filled /\ ring'.latest = em.seq
      /\ ring'.oldest = IF ring.filled THEN ring.oldest ELSE em.seq
  BY <1>2 DEF rename
<1>7. DOMAIN disk' = DOMAIN disk \cup {em.seq} /\ disk'[em.seq] = parts
      /\ \A q \in DOMAIN disk : q # em.seq => disk'[q] = disk[q]
  BY <1>2 DEF rename
<1>8. DOMAIN disk' = ring'.oldest..ring'.latest
  BY <1>2, <1>3, <1>4, <1>6, <1>7, PutFacts DEF IndexIsRange
<1>9. PutInv'
  BY <1>1, <1>3, <1>4, <1>5, <1>6, <1>7, <1>8, PutFacts DEF PutInv, RangeInv, IndexIsRange, Newest
<1>10. HandOver'
  BY <1>1, <1>5 DEF HandOver
<1>11. BelowFlowOnDisk'
  <2> SUFFICES ASSUME NEW i \in 1..Len(flows) - 1
               PROVE  Retained(flows[i].seq, flows[i].end.sum)'
    BY <1>1 DEF BelowFlowOnDisk
  <2>1. Retained(flows[i].seq, flows[i].end.sum) /\ flows[i].seq \in Nat
    <3>1. BelowFlowOnDisk /\ Len(flows) \in Nat /\ \A k \in 1..Len(flows) : flows[k].seq \in Seqs
      BY PutFacts
    <3>2. i \in 1..Len(flows)
      BY <3>1
    <3>3. \A q \in Seqs : q \in Nat
      BY DEF Seqs
    <3> QED BY <3>1, <3>2, <3>3 DEF BelowFlowOnDisk
  <2>2. flows'[i] = flows[i]
    BY <1>1
  <2> QED BY <1>4, <1>6, <1>7, <2>1, <2>2, PutFacts DEF Retained, Exists
<1> QED BY <1>9, <1>10, <1>11

\* Pruning takes the oldest ledger only while the ring is over its limit, so
\* never the newest, and what it takes is below the new bound.
LEMMA PruneStep ==
    ASSUME SourceInv, pc = "put", pruneLocked, UNCHANGED <<bVars, runVars>>
    PROVE  PutInv' /\ HandOver' /\ BelowFlowOnDisk'
<1>1. UNCHANGED <<flows, pc, em, parts, prevSeq, cur, Len(flows)>>
  BY DEF bVars, runVars, cur
<1>2. put.pc = "prune" /\ put.op = "put" /\ put.err = "none" /\ put.seq = em.seq
      /\ put.parts = parts /\ Newest /\ em.seq # 0 /\ RangeInv /\ IndexIsRange
  BY PutFacts DEF pruneLocked, PutInv
<1>3. ring.filled /\ ring.latest = em.seq /\ 1 <= ring.oldest /\ ring.oldest <= ring.latest
  BY <1>2 DEF Newest, RangeInv
<1>4. RingSize = ring.latest - ring.oldest + 1
  BY <1>3, PutFacts, RingSizeFacts DEF StoreTypeOK
<1>5. CASE RingSize > Retention
  <2>1. ring' = [ring EXCEPT !.oldest = Succ(@)] /\ put' = put
        /\ disk' = [x \in DOMAIN disk \ {ring.oldest} |-> disk[x]]
    BY <1>3, <1>5 DEF pruneLocked, Remove
  <2>2. ring.oldest < ring.latest /\ ring.latest <= MaxSeq
    BY <1>4, <1>5, PutFacts DEF StoreTypeOK, Seqs
  <2>3. Succ(ring.oldest) = ring.oldest + 1
    BY <2>2, PutFacts, SuccFacts DEF StoreTypeOK
  <2>4. ring'.oldest = ring.oldest + 1 /\ ring'.latest = ring.latest /\ ring'.filled = ring.filled
    BY <2>1, <2>3, PutFacts DEF StoreTypeOK
  <2>5. DOMAIN disk' = ring'.oldest..ring'.latest
        /\ \A q \in DOMAIN disk' : disk'[q] = disk[q]
    BY <1>2, <1>3, <2>1, <2>2, <2>4, PutFacts DEF IndexIsRange
  <2>6. PutInv'
    BY <1>1, <1>2, <1>3, <2>1, <2>2, <2>4, <2>5, PutFacts DEF PutInv, RangeInv, IndexIsRange, Newest
  <2>7. HandOver'
    BY <1>1, <1>2, <2>1 DEF HandOver
  <2>8. BelowFlowOnDisk'
    <3> SUFFICES ASSUME NEW i \in 1..Len(flows) - 1
                 PROVE  Retained(flows[i].seq, flows[i].end.sum)'
      BY <1>1 DEF BelowFlowOnDisk
    <3>1. Retained(flows[i].seq, flows[i].end.sum) /\ flows[i].seq \in Nat
      <4>1. BelowFlowOnDisk /\ Len(flows) \in Nat /\ \A k \in 1..Len(flows) : flows[k].seq \in Seqs
        BY PutFacts
      <4>2. i \in 1..Len(flows)
        BY <4>1
      <4>3. \A q \in Seqs : q \in Nat
        BY DEF Seqs
      <4> QED BY <4>1, <4>2, <4>3 DEF BelowFlowOnDisk
    <3>2. flows'[i] = flows[i]
      BY <1>1
    <3> QED BY <1>3, <2>4, <2>5, <3>1, <3>2, PutFacts DEF Retained, Exists
  <2> QED BY <2>6, <2>7, <2>8
<1>6. CASE ~(RingSize > Retention)
  <2>1. put' = [put EXCEPT !.pc = "done"] /\ disk' = disk /\ ring' = ring
    BY <1>2, <1>6 DEF pruneLocked
  <2>2. put'.pc = "done" /\ put'.op = "put" /\ put'.err = "none" /\ put'.seq = em.seq
        /\ put'.parts = parts
    BY <1>2, <2>1, PutFacts DEF StoreTypeOK
  <2>3. Short
    BY <1>4, <1>6, PutFacts DEF Short
  <2>4. Short' /\ Newest' /\ RangeInv' /\ IndexIsRange'
    BY <1>1, <1>2, <2>1, <2>3 DEF Short, Newest, RangeInv, IndexIsRange
  <2>5. PutInv'
    BY <1>1, <1>2, <2>2, <2>4 DEF PutInv
  <2>6. HandOver' /\ BelowFlowOnDisk'
    BY <1>1, <2>1, <2>2, PutFacts DEF HandOver, BelowFlowOnDisk, Retained, Exists
  <2> QED BY <2>5, <2>6
<1> QED BY <1>5, <1>6

\* A failed system call leaves the ring as it was, and names the step.
LEMMA FailStep ==
    ASSUME SourceInv, pc = "put", Fail, UNCHANGED <<bVars, runVars>>
    PROVE  PutInv' /\ HandOver' /\ BelowFlowOnDisk'
<1>1. UNCHANGED <<flows, pc, em, parts, prevSeq, cur, Len(flows), disk, ring>>
  BY DEF bVars, runVars, cur, Fail
<1>2. put.pc \in {"clear", "write", "rename", "prune"} /\ put.op = "put" /\ put.seq = em.seq
      /\ put.parts = parts /\ RangeInv /\ put.err = "none"
  BY PutFacts DEF Fail, PutInv
<1>3. put'.pc = "done" /\ put'.op = "put" /\ put'.seq = em.seq /\ put'.parts = parts
      /\ put'.err = IF put.pc = "rename" THEN "write" ELSE put.pc
  BY <1>2, PutFacts DEF Fail, StoreTypeOK
<1>4. RangeInv' /\ (put.pc # "clear" => IndexIsRange') /\ (put.pc \notin {"prune"} => Short')
  BY <1>1, <1>2, PutFacts DEF PutInv, RangeInv, IndexIsRange, Short
<1>5. PutInv'
  BY <1>1, <1>2, <1>3, <1>4, PutFacts DEF PutInv
<1>6. HandOver' /\ BelowFlowOnDisk'
  BY <1>1, <1>3, PutFacts DEF HandOver, BelowFlowOnDisk, Retained, Exists
<1> QED BY <1>5, <1>6

\* Run goes back for the next ledger only after a put that succeeded.
LEMMA ReturnPutStep ==
    ASSUME SourceInv, ReturnPut
    PROVE  PutInv' /\ HandOver' /\ BelowFlowOnDisk'
<1> USE DEF Return
<1>1. pc = "put" /\ put.pc = "done" /\ pc' = IF put.err # "none" THEN "return" ELSE "pull"
  BY DEF ReturnPut, PutReturned
<1>2. UNCHANGED <<flows, em, parts, prevSeq, cur, Len(flows), disk, ring>>
  BY DEF ReturnPut, PutReturned, bVars, cur
<1>3. put'.pc = "idle" /\ put'.op = "put" /\ put'.err = put.err
  BY DEF ReturnPut, PutReturned, IdlePut
<1>4. PutInv /\ RangeInv
  BY <1>1, PutFacts DEF PutInv
<1>5. PutInv'
  BY <1>1, <1>2, <1>3, <1>4 DEF PutInv, RangeInv, IndexIsRange, Short
<1>6. HandOver'
  BY <1>1, <1>2, <1>3, PutFacts DEF PutInv, HandOver, Newest
<1>7. BelowFlowOnDisk'
  BY <1>1, <1>2, PutFacts DEF BelowFlowOnDisk, Retained, Exists
<1> QED BY <1>5, <1>6, <1>7

-----------------------------------------------------------------------------
\* The invariant holds at the start and survives every step.
LEMMA InvInit == SourceInit => SourceInv
<1> SUFFICES ASSUME SourceInit PROVE SourceInv
  OBVIOUS
<1>1. SourceTypeOK
  BY TypeInit
<1>2. flows = <<>> /\ pc = "pull" /\ pending = <<>> /\ ~panicked /\ ~ended
  BY DEF SourceInit, newBroadcaster
<1>3. FlowInv
  BY <1>2 DEF FlowInv, OpenFlow
<1>4. PICK S \in Rings : RingOver(S)
  BY DEF SourceInit
<1>5. S \subseteq Seqs \ {0} /\ Contiguous(S) /\ \A p, q \in S : p - q < Retention
  BY <1>4, RingsAssumption
<1>6. DOMAIN disk = S /\ put.pc = "idle" /\ put.op = "put" /\ put.err = "none"
  BY <1>4 DEF RingOver, IdlePut
<1>7. RangeInv /\ IndexIsRange /\ Short
  <2>1. CASE S = {}
    BY <1>4, <1>6, <2>1 DEF RingOver, EmptyRing, RangeInv, IndexIsRange, Short
  <2>2. CASE S # {}
    <3>1. PICK lo, hi \in S : /\ \A q \in S : lo <= q /\ q <= hi
                              /\ ring = [oldest |-> lo, latest |-> hi, filled |-> TRUE]
      BY <1>4, <2>2 DEF RingOver
    <3>2. lo \in Nat /\ hi \in Nat /\ 1 <= lo /\ lo <= hi /\ \A q \in S : q \in Nat
      BY <1>5, <3>1 DEF Seqs
    <3>3. S = lo..hi
      <4>1. \A x \in lo..hi : x \in S
        BY <1>5 DEF Contiguous
      <4>2. \A x \in S : x \in lo..hi
        BY <3>1, <3>2
      <4> QED BY <4>1, <4>2
    <3>4. ring.filled /\ ring.oldest = lo /\ ring.latest = hi
      BY <3>1
    <3> QED BY <1>5, <1>6, <3>2, <3>3, <3>4 DEF RangeInv, IndexIsRange, Short
  <2> QED BY <2>1, <2>2
<1>8. PutInv
  BY <1>2, <1>6, <1>7 DEF PutInv
<1>9. HandOver /\ BelowFlowOnDisk
  BY <1>2 DEF HandOver, BelowFlowOnDisk
<1> QED BY <1>1, <1>3, <1>8, <1>9 DEF SourceInv

\* Each action keeps it: the store steps by the lemmas above, the rest quietly.
LEMMA InvStep == SourceInv /\ [SourceNext \/ Terminated]_sourceVars => SourceInv'
<1> SUFFICES ASSUME SourceInv, [SourceNext]_sourceVars PROVE SourceInv'
  BY DEF Terminated
<1>1. SourceTypeOK /\ FlowInv /\ PutInv /\ HandOver /\ BelowFlowOnDisk /\ pc \in RunPc
  BY DEF SourceInv, SourceTypeOK
<1>2. SourceTypeOK' /\ FlowInv'
  BY <1>1, TypeStep, FlowStep
<1>3. PutInv' /\ HandOver' /\ BelowFlowOnDisk'
  <2> USE DEF Return
  <2>1. CASE Begin
    BY <2>1, BeginStep
  <2>2. CASE CallPut
    BY <2>2, CallPutStep
  <2>3. CASE PutStep
    <3>1. pc = "put" /\ UNCHANGED <<bVars, runVars>> /\ StoreStep
      BY <2>3 DEF PutStep
    <3> QED BY <3>1, ClearStep, TempStep, RenameStep, PruneStep, FailStep DEF StoreStep
  <2>4. CASE ReturnPut
    BY <2>4, ReturnPutStep
  <2>5. CASE SourceStops \/ Refuse \/ Read \/ ReadPastCap \/ End \/ Finish
    <3>1. UNCHANGED storeVars
      BY <2>5 DEF SourceStops, Refuse, Read, ReadPastCap, End, Finish
    <3>2. pc \in {"pull", "read", "end", "return"} /\ pc' # "pull"
          /\ (pc' \in {"read", "end", "put"} => pc \in {"read", "end"})
          /\ (pc' \notin {"return", "done"} => pc \notin {"return", "done"})
      BY <2>5 DEF SourceStops, Refuse, Read, AfterRead, ReadPastCap, End, Finish
    <3> QED BY <3>1, <3>2, QuietStep
  <2>6. CASE Publish
    <3>1. UNCHANGED storeVars /\ pc' = pc /\ pending # <<>>
      BY <2>6 DEF Publish, publishNext
    <3>2. pc \in {"read", "end", "return"}
      BY <1>1, <3>1 DEF FlowInv, RunPc
    <3> QED BY <3>1, <3>2, QuietStep
  <2>7. CASE UNCHANGED sourceVars
    BY <1>1, <2>7 DEF sourceVars, bVars, storeVars, runVars, PutInv, RangeInv, Short, IndexIsRange,
       Continues, Newest, HandOver, cur, BelowFlowOnDisk, Retained, Exists
  <2> QED BY <2>1, <2>2, <2>3, <2>4, <2>5, <2>6, <2>7 DEF SourceNext
<1> QED BY <1>2, <1>3 DEF SourceInv

\* The source loop's inductive invariant holds throughout: the broadcaster, the
\* ring and what is handed from one to the other follow Run's control point.
THEOREM SourceInvariant == SourceSpec => []SourceInv
BY InvInit, InvStep, PTL DEF SourceSpec

-----------------------------------------------------------------------------
\* The types of Run, the broadcaster and the store, whatever the source emits.
THEOREM SourceTypeCorrect == SourceSpec => []SourceTypeOK
<1>1. SourceInv => SourceTypeOK
  BY DEF SourceInv
<1> QED BY <1>1, SourceInvariant, PTL

\* No call into the broadcaster panics, whatever the source emits: begin over
\* an open flow, chunk or end without one, and any publish after finish
\* (broadcast.go:71, 87, 100) are unreachable from Run and the pipeline.
THEOREM SourceNeverPanics == SourceSpec => []NoPanic
<1>1. SourceInv => NoPanic
  BY DEF SourceInv, FlowInv, NoPanic
<1> QED BY <1>1, SourceInvariant, PTL

\* Everything below the current flow is on disk (server.go:207), for any chunk
\* size, retention, initial ring and behaviour of the source and file system.
THEOREM BelowFlowIsOnDisk == SourceSpec => []BelowFlowOnDisk
<1>1. SourceInv => BelowFlowOnDisk
  BY DEF SourceInv
<1> QED BY <1>1, SourceInvariant, PTL

\* Only the first ledger of a run can empty the ring.
THEOREM OnlyFirstResets == SourceSpec => []ResetOnlyFirst
<1>1. SourceInv => ResetOnlyFirst
  BY DEF SourceInv, PutInv, ResetOnlyFirst
<1> QED BY <1>1, SourceInvariant, PTL

\* Whenever the ring's lock is free, the index and the directory are the same
\* range, within the retention, unless an unlink failed.
THEOREM RingStaysRange == SourceSpec => []RingIsRange
<1>1. SourceInv => RingIsRange
  <2> SUFFICES ASSUME SourceInv, Unlocked PROVE RingIsRange
    BY DEF RingIsRange
  <2>1. PutInv /\ put.pc \notin {"clear", "prune"}
    BY DEF SourceInv, Unlocked
  <2> QED BY <2>1 DEF PutInv, RingIsRange, Short
<1> QED BY <1>1, SourceInvariant, PTL

-----------------------------------------------------------------------------
\* What END announces.  EndMatchesChunks is about a flow that is complete, but
\* its chunks were cut, queued and published one at a time before: CutInv says
\* of the flow in progress that the chunks published and then those pending
\* are the pieces of what was read so far.

\* The body is not past its declared size.  Past it the arena may cut a short
\* chunk in the middle; such a body gets no END.
Regular == em.size = 0 \/ Len(parts) <= em.size

CutInv ==
    /\ ~Compress => pending = <<>>
    /\ pc \in {"read", "end"} /\ Regular =>
         /\ chunkIdx = Len(cur.chunks) + Len(pending)
         /\ pc = "read" => Len(parts) = chunkIdx * ChunkSize
         /\ pc = "end" => chunkIdx = Pieces(parts)
         /\ \A k \in 1..Len(cur.chunks) :
              /\ cur.chunks[k].seq = cur.seq
              /\ cur.chunks[k].idx = k - 1
              /\ Expand(cur.chunks[k]) = Piece(parts, k)
         /\ \A j \in 1..Len(pending) :
              /\ pending[j].seq = cur.seq
              /\ pending[j].idx = Len(cur.chunks) + j - 1
              /\ pending[j].raw = Piece(parts, Len(cur.chunks) + j)

\* The client's Expand undoes either form a chunk is published in.
LEMMA ExpandFacts ==
    ASSUME NEW seq, NEW idx, NEW raw
    PROVE  /\ RawChunk(seq, idx, raw).seq = seq /\ RawChunk(seq, idx, raw).idx = idx
           /\ Expand(RawChunk(seq, idx, raw)) = raw
           /\ compressChunk(seq, idx, raw).seq = seq /\ compressChunk(seq, idx, raw).idx = idx
           /\ Expand(compressChunk(seq, idx, raw)) = raw
BY DEF RawChunk, compressChunk, AppendChunk, Expand, EncodeAll, DecodeAll

\* A quotient is the one the remainder is small for.
LEMMA DivUnique ==
    ASSUME NEW a \in Nat, NEW b \in Nat, b > 0, NEW q \in Nat, NEW r \in Nat, r < b, a = q * b + r
    PROVE  a \div b = q
OBVIOUS

\* Multiplication is monotone.
LEMMA MulMono ==
    ASSUME NEW a \in Nat, NEW b \in Nat, NEW c \in Nat, a <= b
    PROVE  a * c \in Nat /\ b * c \in Nat /\ a * c <= b * c
<1>1. b - a \in Nat /\ (b - a) * c \in Nat /\ b * c = a * c + (b - a) * c
  OBVIOUS
<1>2. a * c \in Nat /\ b * c \in Nat
  OBVIOUS
<1> QED BY <1>1, <1>2

\* A body of m full chunks has m pieces.
LEMMA FullPieces ==
    ASSUME NEW p \in Body, NEW m \in Nat, Len(p) = m * ChunkSize
    PROVE  Pieces(p) = m
<1>1. ChunkSize \in Nat /\ ChunkSize > 0 /\ Len(p) \in Nat
  BY WireAssumption DEF Body
<1>2. Len(p) + ChunkSize - 1 = m * ChunkSize + (ChunkSize - 1)
  BY <1>1
<1> QED BY <1>1, <1>2, DivUnique DEF Pieces

\* A range of a concatenation within its first part, and its second part.
LEMMA SubSeqConcat ==
    ASSUME NEW p \in Body, NEW d \in Body
    PROVE  /\ \A a \in Nat \ {0}, b \in Nat : b <= Len(p) => SubSeq(p \o d, a, b) = SubSeq(p, a, b)
           /\ SubSeq(p \o d, Len(p) + 1, Len(p) + Len(d)) = d
<1>1. p \in Seq(Unit) /\ d \in Seq(Unit) /\ Len(p) \in Nat /\ Len(d) \in Nat
  BY DEF Body
<1>2. /\ p \o d \in Seq(Unit) /\ Len(p \o d) = Len(p) + Len(d)
      /\ \A i \in 1..Len(p) : (p \o d)[i] = p[i]
      /\ \A i \in 1..Len(d) : (p \o d)[Len(p) + i] = d[i]
  BY <1>1
<1>3. ASSUME NEW a \in Nat \ {0}, NEW b \in Nat, b <= Len(p)
      PROVE  SubSeq(p \o d, a, b) = SubSeq(p, a, b)
  <2>1. \A i \in 1..(b - a + 1) : SubSeq(p \o d, a, b)[i] = SubSeq(p, a, b)[i]
    BY <1>1, <1>2, <1>3
  <2> QED BY <1>1, <1>2, <1>3, <2>1
<1>4. SubSeq(p \o d, Len(p) + 1, Len(p) + Len(d)) = d
  BY <1>1, <1>2
<1> QED BY <1>3, <1>4

\* A full chunk of p is the same piece of what p is a prefix of.
LEMMA PieceWithin ==
    ASSUME NEW p \in Body, NEW d \in Body, NEW k \in Nat \ {0}, (k - 1) * ChunkSize \in Nat,
           k * ChunkSize \in Nat, k * ChunkSize <= Len(p)
    PROVE  Piece(p \o d, k) = Piece(p, k)
<1>1. p \o d \in Body /\ Len(p \o d) = Len(p) + Len(d) /\ Len(p) \in Nat /\ Len(d) \in Nat
  BY DEF Body
<1>2. (k - 1) * ChunkSize + 1 \in Nat \ {0}
  OBVIOUS
<1>3. ASSUME NEW x \in Body, k * ChunkSize <= Len(x), Len(x) \in Nat
      PROVE  Piece(x, k) = SubSeq(x, (k - 1) * ChunkSize + 1, k * ChunkSize)
  <2>1. ~(k * ChunkSize < Len(x)) => k * ChunkSize = Len(x)
    BY <1>3
  <2> QED BY <2>1, Zenon DEF Piece
<1>4. k * ChunkSize <= Len(p \o d) /\ Len(p \o d) \in Nat
  BY <1>1
<1>5. Piece(p \o d, k) = SubSeq(p \o d, (k - 1) * ChunkSize + 1, k * ChunkSize)
  BY <1>1, <1>3, <1>4, Zenon
<1>6. Piece(p, k) = SubSeq(p, (k - 1) * ChunkSize + 1, k * ChunkSize)
  BY <1>1, <1>3
<1> QED BY <1>2, <1>5, <1>6, SubSeqConcat

\* The next chunk d of a body p of m full ones is the next piece, and the
\* pieces before stay what they were (fillChunk, server.go:300).
LEMMA NextPiece ==
    ASSUME NEW p \in Body, NEW d \in Body, NEW m \in Nat, Len(p) = m * ChunkSize,
           Len(d) \in 1..ChunkSize
    PROVE  /\ Pieces(p \o d) = m + 1
           /\ \A k \in 1..m : Piece(p \o d, k) = Piece(p, k)
           /\ Piece(p \o d, m + 1) = d
<1>0. ChunkSize \in Nat /\ ChunkSize > 0 /\ Len(p) \in Nat /\ Len(d) \in Nat
  BY WireAssumption DEF Body
<1>1. p \o d \in Body /\ Len(p \o d) = Len(p) + Len(d)
      /\ (\A i \in 1..Len(p) : (p \o d)[i] = p[i])
      /\ \A i \in 1..Len(d) : (p \o d)[Len(p) + i] = d[i]
  BY DEF Body
<1>2. (m + 1) * ChunkSize = m * ChunkSize + ChunkSize
  BY <1>0
<1>3. Len(p \o d) + ChunkSize - 1 = (m + 1) * ChunkSize + (Len(d) - 1)
  BY <1>0, <1>1, <1>2
<1>4. Pieces(p \o d) = m + 1
  <2>1. Len(d) - 1 \in Nat /\ Len(d) - 1 < ChunkSize /\ m + 1 \in Nat
        /\ Len(p \o d) + ChunkSize - 1 \in Nat
    BY <1>0, <1>1
  <2> QED BY <1>0, <1>3, <2>1, DivUnique DEF Pieces
<1>5. ASSUME NEW k \in 1..m PROVE Piece(p \o d, k) = Piece(p, k)
  <2>0. k \in Nat /\ k <= m /\ k - 1 \in Nat /\ k - 1 <= m
    OBVIOUS
  <2>1. k * ChunkSize <= Len(p) /\ k * ChunkSize \in Nat /\ (k - 1) * ChunkSize \in Nat
    BY <1>0, <2>0, MulMono
  <2> QED BY <2>1, PieceWithin
<1>6. Piece(p \o d, m + 1) = d
  <2>1. (m + 1) - 1 = m
    OBVIOUS
  <2>2. Piece(p \o d, m + 1) = SubSeq(p \o d, Len(p) + 1, Len(p) + Len(d))
    <3>1. ~((m + 1) * ChunkSize < Len(p \o d))
      BY <1>0, <1>1, <1>2
    <3> QED BY <1>1, <2>1, <3>1, Zenon DEF Piece
  <2> QED BY <2>2, SubSeqConcat
<1> QED BY <1>4, <1>5, <1>6

\* A completed flow stays as it was: END is checked when it is published.
LEMMA CompletedKept ==
    ASSUME EndMatchesChunks, Len(flows) \in Nat, Len(flows') \in Nat,
           \A i \in 1..Len(flows') : complete(flows'[i]) => i \in 1..Len(flows) /\ flows'[i] = flows[i]
    PROVE  EndMatchesChunks'
BY DEF EndMatchesChunks, complete

\* A read hands its units to the pipeline as the next chunk.
LEMMA ReadCut ==
    ASSUME SourceInv, EndMatchesChunks, CutInv, Read
    PROVE  EndMatchesChunks' /\ CutInv'
<1>0. /\ SourceTypeOK /\ FlowInv /\ BroadcasterTypeOK /\ parts \in Body /\ pending \in Seq(Job)
      /\ chunkIdx \in Nat /\ em.seq \in Seqs /\ em.size \in Nat /\ Len(parts) \in Nat
      /\ Len(flows) \in Nat
  BY DEF SourceInv, SourceTypeOK, Body, BroadcasterTypeOK
<1>1. /\ pc = "read" /\ em' = em /\ OpenFlow /\ ~ended /\ em.seq = cur.seq /\ flows # <<>>
      /\ cur \in Flow /\ Len(cur.chunks) \in Nat /\ cur.chunks \in Seq(ChunkMsg)
  <2>1. pc = "read" /\ em' = em /\ OpenFlow /\ ~ended /\ em.seq = cur.seq
    BY <1>0 DEF Read, FlowInv
  <2>2. cur \in Flow
    BY <1>0, <2>1 DEF OpenFlow, cur, BroadcasterTypeOK
  <2> QED BY <2>1, <2>2 DEF OpenFlow, Flow
<1>2. PICK n \in 0..ChunkSize, rerr \in {"nil", "eof", "cancel", "fail"} :
         /\ fillChunk(n, rerr)
         /\ AfterRead(rerr)
         /\ \/ n = 0 /\ UNCHANGED <<bVars, parts, chunkIdx, pending>>
            \/ /\ n # 0 /\ submit(Data(n)) /\ chunkIdx' = chunkIdx + 1
               /\ parts' = parts \o Data(n)
  BY DEF Read
<1>3. n \in Nat /\ n <= ChunkSize /\ ChunkSize \in Nat /\ ChunkSize > 0
  BY WireAssumption
<1>4. /\ pc' \in {"read", "end", "return"} /\ (pc' = "read" => rerr = "nil")
  BY <1>2 DEF AfterRead, Return
<1>5. CASE n = 0
  <2>1. UNCHANGED <<flows, parts, chunkIdx, pending>>
    BY <1>2, <1>5 DEF bVars
  <2>2. pc' # "read"
    BY <1>2, <1>3, <1>4, <1>5 DEF fillChunk
  <2>3. Regular => chunkIdx = Pieces(parts)
    BY <1>0, <1>1, FullPieces DEF CutInv
  <2>4. EndMatchesChunks'
    BY <2>1 DEF EndMatchesChunks
  <2>5. CutInv'
    BY <1>1, <1>4, <2>1, <2>2, <2>3 DEF CutInv, Regular, cur
  <2> QED BY <2>4, <2>5
<1>6. CASE n # 0
  <2> DEFINE d == Data(n)
  <2>1. d \in Body /\ Len(d) = n
    <3>1. d \in Body
      BY <1>0, <1>3, DataType
    <3>2. Len(d) = n
      BY <1>3 DEF Data
    <3> QED BY <3>1, <3>2
  <2>2. submit(d) /\ chunkIdx' = chunkIdx + 1 /\ parts' = parts \o d
    BY <1>2, <1>6
  <2> HIDE DEF d
  <2>3. Len(parts') = Len(parts) + n /\ parts' \in Body
    <3>1. Len(parts \o d) = Len(parts) + Len(d) /\ parts \o d \in Body
      BY <1>0, <2>1 DEF Body
    <3> QED BY <2>1, <2>2, <3>1
  <2>4. Regular' => Regular
    BY <1>0, <1>1, <1>3, <2>3 DEF Regular
  <2>5. pc' = "read" /\ Regular' => n = ChunkSize
    BY <1>0, <1>1, <1>2, <1>3, <1>4, <2>3 DEF fillChunk, Regular
  <2>6. Regular => /\ Len(parts) = chunkIdx * ChunkSize /\ chunkIdx = Len(cur.chunks) + Len(pending)
                   /\ Pieces(parts') = chunkIdx + 1
                   /\ \A k \in 1..chunkIdx : Piece(parts', k) = Piece(parts, k)
                   /\ Piece(parts', chunkIdx + 1) = d
    <3> SUFFICES ASSUME Regular
                 PROVE /\ Len(parts) = chunkIdx * ChunkSize /\ chunkIdx = Len(cur.chunks) + Len(pending)
                       /\ Pieces(parts') = chunkIdx + 1
                       /\ \A k \in 1..chunkIdx : Piece(parts', k) = Piece(parts, k)
                       /\ Piece(parts', chunkIdx + 1) = d
      OBVIOUS
    <3>1. Len(parts) = chunkIdx * ChunkSize /\ chunkIdx = Len(cur.chunks) + Len(pending)
      BY <1>1 DEF CutInv
    <3>2. Len(d) \in 1..ChunkSize
      BY <1>3, <1>6, <2>1
    <3>3. /\ Pieces(parts \o d) = chunkIdx + 1
          /\ \A k \in 1..chunkIdx : Piece(parts \o d, k) = Piece(parts, k)
          /\ Piece(parts \o d, chunkIdx + 1) = d
      BY <1>0, <2>1, <3>1, <3>2, NextPiece
    <3> QED BY <2>2, <3>1, <3>3
  <2>7. pc' = "read" /\ Regular' => Len(parts') = chunkIdx' * ChunkSize
    <3>1. (chunkIdx + 1) * ChunkSize = chunkIdx * ChunkSize + ChunkSize
      BY <1>0, <1>3
    <3> QED BY <2>2, <2>3, <2>4, <2>5, <2>6, <3>1
  <2>8. CASE Compress
    <3> DEFINE job == [seq |-> em.seq, idx |-> chunkIdx, raw |-> d]
    <3>1. pending' = Append(pending, job) /\ flows' = flows
      BY <2>2, <2>8 DEF submit, submitChunk, bVars
    <3>2. job.seq = em.seq /\ job.idx = chunkIdx /\ job.raw = d /\ job \in Job
      BY <1>0, <2>1 DEF Job
    <3> HIDE DEF job
    <3>3. /\ Len(pending') = Len(pending) + 1 /\ Len(pending) \in Nat
          /\ \A j \in 1..Len(pending) : pending'[j] = pending[j]
          /\ pending'[Len(pending) + 1] = job
      BY <1>0, <3>1, <3>2
    <3>4. cur' = cur
      BY <3>1 DEF cur
    <3>4a. Len(cur.chunks) \in Nat /\ Len(pending) \in Nat
      BY <1>1, <3>3
    <3>4b. \A a, b \in Nat : a + b + 1 = a + (b + 1) /\ a + (b + 1) - 1 = a + b
      OBVIOUS
    <3>5. EndMatchesChunks'
      BY <3>1 DEF EndMatchesChunks
    <3>6. ASSUME Regular', pc' \in {"read", "end"}
          PROVE  /\ chunkIdx' = Len(cur.chunks) + Len(pending')
                 /\ pc' = "end" => chunkIdx' = Pieces(parts')
                 /\ \A k \in 1..Len(cur.chunks) :
                      /\ cur.chunks[k].seq = cur.seq
                      /\ cur.chunks[k].idx = k - 1
                      /\ Expand(cur.chunks[k]) = Piece(parts', k)
                 /\ \A j \in 1..Len(pending') :
                      /\ pending'[j].seq = cur.seq
                      /\ pending'[j].idx = Len(cur.chunks) + j - 1
                      /\ pending'[j].raw = Piece(parts', Len(cur.chunks) + j)
      <4>1. Regular
        BY <2>4, <3>6
      <4>2. \A k \in 1..Len(cur.chunks) :
              /\ cur.chunks[k].seq = cur.seq
              /\ cur.chunks[k].idx = k - 1
              /\ Expand(cur.chunks[k]) = Piece(parts', k)
        BY <1>1, <2>6, <3>3, <4>1 DEF CutInv
      <4>3. \A j \in 1..Len(pending) :
              /\ pending'[j].seq = cur.seq
              /\ pending'[j].idx = Len(cur.chunks) + j - 1
              /\ pending'[j].raw = Piece(parts', Len(cur.chunks) + j)
        <5> SUFFICES ASSUME NEW j \in 1..Len(pending)
                     PROVE  /\ pending'[j].seq = cur.seq
                            /\ pending'[j].idx = Len(cur.chunks) + j - 1
                            /\ pending'[j].raw = Piece(parts', Len(cur.chunks) + j)
          OBVIOUS
        <5>1. Len(cur.chunks) + j \in 1..chunkIdx
          BY <1>1, <2>6, <3>3, <4>1
        <5> QED BY <1>1, <2>6, <3>3, <4>1, <5>1 DEF CutInv
      <4>4. /\ pending'[Len(pending) + 1].seq = cur.seq
            /\ pending'[Len(pending) + 1].idx = Len(cur.chunks) + Len(pending)
            /\ pending'[Len(pending) + 1].raw = Piece(parts', Len(cur.chunks) + Len(pending) + 1)
        BY <1>1, <2>6, <3>2, <3>3, <4>1
      <4>5. \A j \in 1..Len(pending') : j \in 1..Len(pending) \/ j = Len(pending) + 1
        BY <3>3
      <4>6. chunkIdx' = Len(cur.chunks) + Len(pending') /\ chunkIdx' = Pieces(parts')
        <5>1. chunkIdx = Len(cur.chunks) + Len(pending) /\ chunkIdx + 1 = Pieces(parts')
          BY <2>6, <4>1
        <5>2. Len(cur.chunks) + Len(pending) + 1 = Len(cur.chunks) + (Len(pending) + 1)
          BY <3>4a, <3>4b, Zenon
        <5> QED BY <2>2, <3>3, <5>1, <5>2
      <4>7. ASSUME NEW j \in 1..Len(pending')
            PROVE  /\ pending'[j].seq = cur.seq
                   /\ pending'[j].idx = Len(cur.chunks) + j - 1
                   /\ pending'[j].raw = Piece(parts', Len(cur.chunks) + j)
        <5>1. CASE j \in 1..Len(pending)
          BY <4>3, <5>1
        <5>2. CASE j = Len(pending) + 1
          <6>1. Len(cur.chunks) + (Len(pending) + 1) - 1 = Len(cur.chunks) + Len(pending)
                /\ Len(cur.chunks) + (Len(pending) + 1) = Len(cur.chunks) + Len(pending) + 1
            BY <3>4a, <3>4b, Zenon
          <6>2. /\ pending'[Len(pending) + 1].seq = cur.seq
                /\ pending'[Len(pending) + 1].idx = Len(cur.chunks) + (Len(pending) + 1) - 1
                /\ pending'[Len(pending) + 1].raw = Piece(parts', Len(cur.chunks) + (Len(pending) + 1))
            BY <4>4, <6>1, Zenon
          <6> QED BY <5>2, <6>2
        <5> QED BY <4>5, <5>1, <5>2
      <4> QED BY <4>2, <4>6, <4>7
    <3>7. CutInv'
      BY <2>7, <2>8, <3>4, <3>6, Zenon DEF CutInv
    <3> QED BY <3>5, <3>7
  <2>9. CASE ~Compress
    <3> DEFINE m == RawChunk(em.seq, chunkIdx, d)
    <3>1. m \in ChunkMsg /\ chunk(m) /\ pending' = pending /\ pending = <<>> /\ Len(pending) = 0
      BY <1>0, <2>1, <2>2, <2>9, ChunkTypes DEF submit, submitChunk, CutInv
    <3>2. m.seq = em.seq /\ m.idx = chunkIdx /\ Expand(m) = d
      BY ExpandFacts
    <3> HIDE DEF m
    <3>3. /\ Len(flows') = Len(flows) /\ OpenFlow'
          /\ \A i \in 1..Len(flows) - 1 : flows'[i] = flows[i]
          /\ cur'.seq = cur.seq /\ cur'.chunks = Append(cur.chunks, m)
      BY <1>0, <1>1, <3>1, ChunkEffect
    <3>4. EndMatchesChunks'
      <4>1. ~complete(flows'[Len(flows)])
        BY <3>3 DEF OpenFlow, cur, complete
      <4> QED BY <1>0, <3>3, <4>1, CompletedKept
    <3>5. /\ Len(cur'.chunks) = Len(cur.chunks) + 1
          /\ \A k \in 1..Len(cur.chunks) : cur'.chunks[k] = cur.chunks[k]
          /\ cur'.chunks[Len(cur.chunks) + 1] = m
      BY <1>1, <3>1, <3>3
    <3>6. ASSUME Regular', pc' \in {"read", "end"}
          PROVE  /\ chunkIdx' = Len(cur'.chunks) + Len(pending')
                 /\ pc' = "end" => chunkIdx' = Pieces(parts')
                 /\ \A k \in 1..Len(cur'.chunks) :
                      /\ cur'.chunks[k].seq = cur'.seq
                      /\ cur'.chunks[k].idx = k - 1
                      /\ Expand(cur'.chunks[k]) = Piece(parts', k)
      <4>1. Regular
        BY <2>4, <3>6
      <4>2. \A k \in 1..Len(cur.chunks) :
              /\ cur'.chunks[k].seq = cur.seq
              /\ cur'.chunks[k].idx = k - 1
              /\ Expand(cur'.chunks[k]) = Piece(parts', k)
        <5>1. chunkIdx = Len(cur.chunks)
          BY <1>1, <2>6, <3>1, <4>1
        <5> QED BY <1>1, <2>6, <3>5, <4>1, <5>1 DEF CutInv
      <4>3. /\ cur'.chunks[Len(cur.chunks) + 1].seq = cur.seq
            /\ cur'.chunks[Len(cur.chunks) + 1].idx = Len(cur.chunks)
            /\ Expand(cur'.chunks[Len(cur.chunks) + 1]) = Piece(parts', Len(cur.chunks) + 1)
        BY <1>1, <2>6, <3>1, <3>2, <3>5, <4>1
      <4>4. \A k \in 1..Len(cur'.chunks) : k \in 1..Len(cur.chunks) \/ k = Len(cur.chunks) + 1
        BY <1>1, <3>5
      <4> QED BY <1>1, <2>2, <2>6, <3>1, <3>3, <3>5, <4>1, <4>2, <4>3, <4>4
    <3>7. CutInv'
      BY <2>7, <3>1, <3>6 DEF CutInv
    <3> QED BY <3>4, <3>7
  <2> QED BY <2>8, <2>9
<1> QED BY <1>5, <1>6

\* The publisher moves the oldest pending chunk, compressed or raw, to the flow.
LEMMA PublishCut ==
    ASSUME SourceInv, EndMatchesChunks, CutInv, Publish
    PROVE  EndMatchesChunks' /\ CutInv'
<1>0. /\ SourceTypeOK /\ FlowInv /\ BroadcasterTypeOK /\ pending \in Seq(Job) /\ Len(flows) \in Nat
      /\ Len(pending) \in Nat
  BY DEF SourceInv, SourceTypeOK, BroadcasterTypeOK
<1>1. pending # <<>> /\ pending' = Tail(pending) /\ UNCHANGED <<pc, em, parts, chunkIdx>>
  BY DEF Publish, publishNext
<1>2. OpenFlow /\ ~ended
  BY <1>0, <1>1 DEF FlowInv
<1> DEFINE job == pending[1]
<1>3. job \in Job /\ Head(pending) = job
  BY <1>0, <1>1
<1>4. /\ job.seq \in Seqs /\ job.idx \in Nat /\ job.raw \in Body
  BY <1>3 DEF Job
<1>5. PICK m \in {RawChunk(job.seq, job.idx, job.raw), compressChunk(job.seq, job.idx, job.raw)} : chunk(m)
  BY <1>3 DEF Publish, publishNext
<1>6. m \in ChunkMsg /\ m.seq = job.seq /\ m.idx = job.idx /\ Expand(m) = job.raw
  BY <1>4, <1>5, ChunkTypes, ExpandFacts
<1>7. /\ Len(flows') = Len(flows) /\ OpenFlow'
      /\ \A i \in 1..Len(flows) - 1 : flows'[i] = flows[i]
      /\ cur'.seq = cur.seq /\ cur \in Flow /\ cur'.chunks = Append(cur.chunks, m)
  BY <1>0, <1>2, <1>5, <1>6, ChunkEffect
<1>8. EndMatchesChunks'
  <2>1. ~complete(flows'[Len(flows)])
    BY <1>7 DEF OpenFlow, cur, complete
  <2> QED BY <1>0, <1>7, <2>1, CompletedKept
<1>9. /\ Len(pending') = Len(pending) - 1 /\ Len(pending) >= 1
      /\ \A j \in 1..Len(pending) - 1 : pending'[j] = pending[j + 1]
  BY <1>0, <1>1
<1>10. cur.chunks \in Seq(ChunkMsg) /\ Len(cur.chunks) \in Nat
  BY <1>7 DEF Flow
<1>11. /\ Len(cur'.chunks) = Len(cur.chunks) + 1
       /\ \A k \in 1..Len(cur.chunks) : cur'.chunks[k] = cur.chunks[k]
       /\ cur'.chunks[Len(cur.chunks) + 1] = m
  BY <1>6, <1>7, <1>10
<1> HIDE DEF job
<1>12. ASSUME pc \in {"read", "end"}, Regular
       PROVE  /\ chunkIdx = Len(cur'.chunks) + Len(pending')
              /\ \A k \in 1..Len(cur'.chunks) :
                   /\ cur'.chunks[k].seq = cur'.seq
                   /\ cur'.chunks[k].idx = k - 1
                   /\ Expand(cur'.chunks[k]) = Piece(parts, k)
              /\ \A j \in 1..Len(pending') :
                   /\ pending'[j].seq = cur'.seq
                   /\ pending'[j].idx = Len(cur'.chunks) + j - 1
                   /\ pending'[j].raw = Piece(parts, Len(cur'.chunks) + j)
  <2> DEFINE c == Len(cur.chunks)
             p == Len(pending)
  <2>0. /\ c \in Nat /\ p \in Nat /\ p >= 1
        /\ Len(cur'.chunks) = c + 1 /\ Len(pending') = p - 1
    BY <1>0, <1>9, <1>10, <1>11
  <2>1. /\ chunkIdx = c + p
        /\ \A k \in 1..c : /\ cur.chunks[k].seq = cur.seq
                           /\ cur.chunks[k].idx = k - 1
                           /\ Expand(cur.chunks[k]) = Piece(parts, k)
        /\ \A j \in 1..p : /\ pending[j].seq = cur.seq
                           /\ pending[j].idx = c + j - 1
                           /\ pending[j].raw = Piece(parts, c + j)
    BY <1>12 DEF CutInv
  <2>2. /\ \A k \in 1..c : cur'.chunks[k] = cur.chunks[k]
        /\ cur'.chunks[c + 1] = m
        /\ \A j \in 1..p - 1 : pending'[j] = pending[j + 1]
    BY <1>9, <1>11
  <2>3. m.seq = cur.seq /\ m.idx = c /\ Expand(m) = Piece(parts, c + 1)
    <3>1. 1 \in 1..p /\ c + 1 - 1 = c
      BY <2>0
    <3> QED BY <1>6, <2>1, <3>1 DEF job
  <2> HIDE DEF c, p
  <2>4. chunkIdx = Len(cur'.chunks) + Len(pending')
    <3>1. c + p = (c + 1) + (p - 1)
      BY <2>0
    <3> QED BY <2>0, <2>1, <3>1
  <2>5. ASSUME NEW k \in 1..c + 1
        PROVE  /\ cur'.chunks[k].seq = cur'.seq
               /\ cur'.chunks[k].idx = k - 1
               /\ Expand(cur'.chunks[k]) = Piece(parts, k)
    <3>1. CASE k \in 1..c
      BY <1>7, <2>1, <2>2, <3>1
    <3>2. CASE k = c + 1
      <4>1. c + 1 - 1 = c
        BY <2>0
      <4>2. m.seq = cur'.seq /\ m.idx = c + 1 - 1 /\ Expand(m) = Piece(parts, c + 1)
        BY <1>7, <2>3, <4>1, Zenon
      <4>3. cur'.chunks[k] = m
        BY <2>2, <3>2
      <4>4. m.idx = k - 1
        <5>1. k - 1 = c
          BY <2>0, <3>2
        <5> QED BY <2>3, <5>1
      <4>6. Expand(m) = Piece(parts, k)
        BY <3>2, <4>2
      <4>5. Expand(cur'.chunks[k]) = Expand(m)
        BY <4>3, Zenon
      <4> QED BY <4>2, <4>3, <4>4, <4>5, <4>6
    <3> QED BY <2>0, <3>1, <3>2
  <2>6. ASSUME NEW j \in 1..p - 1
        PROVE  /\ pending'[j].seq = cur'.seq
               /\ pending'[j].idx = (c + 1) + j - 1
               /\ pending'[j].raw = Piece(parts, (c + 1) + j)
    <3>1. j + 1 \in 1..p /\ c + (j + 1) - 1 = (c + 1) + j - 1 /\ c + (j + 1) = (c + 1) + j
      BY <2>0
    <3>2. pending'[j] = pending[j + 1]
      BY <2>2
    <3>3. /\ pending[j + 1].seq = cur.seq
          /\ pending[j + 1].idx = c + (j + 1) - 1
          /\ pending[j + 1].raw = Piece(parts, c + (j + 1))
      BY <2>1, <3>1
    <3> QED BY <1>7, <3>1, <3>2, <3>3, Zenon
  <2> QED BY <2>0, <2>4, <2>5, <2>6, Zenon
<1>13. Regular' => Regular
  BY <1>1 DEF Regular
<1>14. ~Compress => pending' = <<>>
  BY <1>1 DEF CutInv
<1>15. pc \in {"read", "end"} /\ Regular =>
         (pc = "read" => Len(parts) = chunkIdx * ChunkSize) /\ (pc = "end" => chunkIdx = Pieces(parts))
  BY DEF CutInv
<1>16. CutInv'
  <2>1. CASE pc \in {"read", "end"} /\ Regular
    BY <1>1, <1>12, <1>14, <1>15, <2>1 DEF CutInv
  <2>2. CASE ~(pc \in {"read", "end"} /\ Regular)
    BY <1>1, <1>13, <1>14, <2>2 DEF CutInv
  <2> QED BY <2>1, <2>2
<1> QED BY <1>8, <1>16

\* END is published over a pipeline that flush found empty.
LEMMA EndCut ==
    ASSUME SourceInv, EndMatchesChunks, CutInv, End
    PROVE  EndMatchesChunks' /\ CutInv'
<1>0. /\ SourceTypeOK /\ FlowInv /\ BroadcasterTypeOK /\ Len(flows) \in Nat /\ parts \in Body
      /\ em.size \in Nat /\ Len(parts) \in Nat
  BY DEF SourceInv, SourceTypeOK, BroadcasterTypeOK, Body
<1>1. pc = "end" /\ pending = <<>> /\ pending' = pending /\ OpenFlow /\ ~ended /\ em.seq = cur.seq
  BY <1>0 DEF End, flush, FlowInv
<1>2. CASE SizeMismatch
  <2>1. flows' = flows /\ pc' = "return"
    BY <1>2 DEF End, Return, bVars
  <2> QED BY <1>1, <2>1 DEF EndMatchesChunks, CutInv
<1>3. CASE ~SizeMismatch
  <2> DEFINE m == AppendEnd(em.seq, chunkIdx, Len(parts), Len(flows), Sum64(parts))
  <2>1. m \in EndMsg /\ m.seq = em.seq /\ m.count = chunkIdx /\ m.total = Len(parts) /\ m.sum = parts
    BY <1>0 DEF AppendEnd, EndMsg, Sum64, SourceTypeOK, BroadcasterTypeOK, Body
  <2>2. end(m) /\ pc' = "put"
    BY <1>3 DEF End
  <2> HIDE DEF m
  <2>3. /\ Len(flows') = Len(flows) /\ flows' # <<>>
        /\ \A i \in 1..Len(flows) - 1 : flows'[i] = flows[i]
        /\ cur'.seq = cur.seq /\ cur'.end = m /\ cur'.chunks = cur.chunks
    BY <1>0, <1>1, <2>1, <2>2, EndEffect
  <2>4. Regular
    BY <1>0, <1>3 DEF SizeMismatch, Regular
  <2>5. /\ chunkIdx = Len(cur.chunks) + Len(pending) /\ chunkIdx = Pieces(parts)
        /\ \A k \in 1..Len(cur.chunks) :
             /\ cur.chunks[k].seq = cur.seq
             /\ cur.chunks[k].idx = k - 1
             /\ Expand(cur.chunks[k]) = Piece(parts, k)
    BY <1>1, <2>4 DEF CutInv
  <2>6. chunkIdx = Len(cur.chunks)
    <3>1. cur \in Flow
      BY <1>0, <1>1 DEF OpenFlow, cur, BroadcasterTypeOK
    <3>2. Len(cur.chunks) \in Nat /\ Len(pending) = 0
      BY <1>1, <3>1 DEF Flow
    <3>3. Len(cur.chunks) + 0 = Len(cur.chunks)
      BY <3>2
    <3> QED BY <2>5, <3>2, <3>3
  <2>7. /\ cur'.end.seq = cur'.seq
        /\ cur'.end.count = Len(cur'.chunks)
        /\ cur'.end.count = Pieces(cur'.end.sum)
        /\ cur'.end.total = Len(cur'.end.sum)
        /\ \A k \in 1..Len(cur'.chunks) :
             /\ cur'.chunks[k].seq = cur'.seq
             /\ cur'.chunks[k].idx = k - 1
             /\ Expand(cur'.chunks[k]) = Piece(cur'.end.sum, k)
    BY <1>1, <2>1, <2>3, <2>5, <2>6, Zenon
  <2>8. \A i \in 1..Len(flows') : i \in 1..Len(flows) - 1 \/ i = Len(flows')
    BY <1>0, <2>3
  <2>9. EndMatchesChunks'
    <3> SUFFICES ASSUME NEW i \in 1..Len(flows'), complete(flows'[i])
                 PROVE  /\ flows'[i].end.seq = flows'[i].seq
                        /\ flows'[i].end.count = Len(flows'[i].chunks)
                        /\ flows'[i].end.count = Pieces(flows'[i].end.sum)
                        /\ flows'[i].end.total = Len(flows'[i].end.sum)
                        /\ \A k \in 1..Len(flows'[i].chunks) :
                             /\ flows'[i].chunks[k].seq = flows'[i].seq
                             /\ flows'[i].chunks[k].idx = k - 1
                             /\ Expand(flows'[i].chunks[k]) = Piece(flows'[i].end.sum, k)
      BY DEF EndMatchesChunks, complete
    <3>1. CASE i \in 1..Len(flows) - 1
      <4>1. i \in 1..Len(flows) /\ flows'[i] = flows[i]
        BY <1>0, <2>3, <3>1
      <4> QED BY <4>1 DEF EndMatchesChunks
    <3>2. CASE i = Len(flows')
      BY <2>7, <3>2, Zenon DEF cur
    <3> QED BY <2>8, <3>1, <3>2
  <2> QED BY <1>1, <2>2, <2>9 DEF CutInv
<1> QED BY <1>2, <1>3

\* BEGIN opens a flow with nothing in it.
LEMMA BeginCut ==
    ASSUME SourceInv, EndMatchesChunks, CutInv, Begin
    PROVE  EndMatchesChunks' /\ CutInv'
<1>0. SourceTypeOK /\ FlowInv /\ BroadcasterTypeOK /\ Len(flows) \in Nat /\ ChunkSize \in Nat
  BY WireAssumption DEF SourceInv, SourceTypeOK, BroadcasterTypeOK
<1>1. PICK seq \in Emitted : begin(seq, AppendBegin(seq, Len(flows) + 1))
  BY DEF Begin
<1>2. /\ pc' = "read" /\ parts' = <<>> /\ chunkIdx' = 0 /\ pending' = pending /\ pending = <<>>
      /\ ~ended /\ ~OpenFlow
  BY <1>0 DEF Begin, FlowInv
<1>3. seq \in Seqs
  BY SourceAssumption DEF Emitted
<1>4. AppendBegin(seq, Len(flows) + 1) \in BeginMsg
  BY <1>0, <1>3 DEF AppendBegin, BeginMsg
<1>5. /\ Len(flows') = Len(flows) + 1 /\ OpenFlow' /\ cur'.chunks = <<>>
      /\ \A i \in 1..Len(flows) : flows'[i] = flows[i]
  BY <1>0, <1>1, <1>2, <1>3, <1>4, BeginEffect
<1>6. EndMatchesChunks'
  <2>1. ~complete(flows'[Len(flows) + 1])
    BY <1>5 DEF OpenFlow, cur, complete
  <2> QED BY <1>0, <1>5, <2>1, CompletedKept
<1>7. Len(parts') = 0 * ChunkSize /\ Len(pending') = 0 /\ Len(cur'.chunks) = 0 /\ 0 + 0 = 0
      /\ 1..0 = {}
  BY <1>0, <1>2, <1>5
<1>8. CutInv'
  BY <1>2, <1>7 DEF CutInv
<1> QED BY <1>6, <1>8

\* What END announces is what was published, with the queue and without.
LEMMA CutStep ==
    SourceInv /\ EndMatchesChunks /\ CutInv /\ [SourceNext \/ Terminated]_sourceVars
        => EndMatchesChunks' /\ CutInv'
<1> SUFFICES ASSUME SourceInv, EndMatchesChunks, CutInv, [SourceNext]_sourceVars
             PROVE  EndMatchesChunks' /\ CutInv'
  BY DEF Terminated
<1>1. CASE SourceStops \/ Refuse \/ ReadPastCap \/ CallPut \/ PutStep \/ ReturnPut \/ Finish
  <2>1. flows' = flows /\ pending' = pending /\ pc' \notin {"read", "end"}
    BY <1>1 DEF SourceStops, Refuse, ReadPastCap, CallPut, PutStep, ReturnPut, Finish, finish, Return,
       bVars, runVars
  <2> QED BY <2>1 DEF EndMatchesChunks, CutInv
<1>2. CASE UNCHANGED sourceVars
  <2>1. UNCHANGED <<flows, pending, pc, em, parts, chunkIdx>>
    BY <1>2 DEF sourceVars, bVars, runVars
  <2> QED BY <2>1 DEF EndMatchesChunks, CutInv, Regular, cur
<1> QED BY <1>1, <1>2, ReadCut, PublishCut, EndCut, BeginCut DEF SourceNext

\* END announces what was published (server.go:352), for every chunk size,
\* queue depth and choice of codec, and however reads and the pipeline
\* interleave: the chunks of a completed flow are the pieces of the body whose
\* length and checksum END carries, each expanded from either codec, in order.
THEOREM EndAlwaysMatchesChunks == SourceSpec => []EndMatchesChunks
<1>1. SourceInit => EndMatchesChunks /\ CutInv
  BY DEF SourceInit, newBroadcaster, EndMatchesChunks, CutInv
<1> QED BY <1>1, CutStep, SourceInvariant, PTL DEF SourceSpec

-----------------------------------------------------------------------------
\* What a delivery is made of.  A body is the run of units 1..n of one ledger
\* from one origin, and a chunk of it a range of them, so the place of a chunk
\* in its body can be read off its last unit.

\* Where the first k chunks end.
Ext(cs, k) == IF k = 0 THEN 0 ELSE LastPos(Expand(cs[k]))

\* The chunk m of ledger q, with k before it, goes from unit lo to unit hi.
Piecewise(q, m, k, lo, hi) ==
    /\ m.seq = q /\ m.idx = k /\ Decodable(m)
    /\ Expand(m) = Units("live", q, lo, hi)
    /\ lo \in Nat /\ hi \in Nat /\ lo < hi /\ hi <= MaxPayload

\* Each chunk continues the one before it.
Chained(q, cs) == \A k \in 1..Len(cs) : Piecewise(q, cs[k], k - 1, Ext(cs, k - 1), Ext(cs, k))

\* Where the chunks published and the first j pending ones end.
PendExt(cs, ps, j) == IF j = 0 THEN Ext(cs, Len(cs)) ELSE LastPos(ps[j].raw)

\* Each pending chunk continues the one before it, the first the last published.
PendChained(q, cs, ps) ==
    \A j \in 1..Len(ps) : LET lo == PendExt(cs, ps, j - 1) hi == PendExt(cs, ps, j) IN
        /\ ps[j].seq = q /\ ps[j].idx = Len(cs) + j - 1
        /\ ps[j].raw = Units("live", q, lo, hi)
        /\ lo \in Nat /\ hi \in Nat /\ lo < hi /\ hi <= MaxPayload

\* A flow is its BEGIN, chunks that continue each other, and the END of those.
FlowChained(i) == LET f == flows[i] n == Ext(f.chunks, Len(f.chunks)) IN
    /\ f.begin = AppendBegin(f.seq, i)
    /\ Chained(f.seq, f.chunks)
    /\ complete(f) => f.end = AppendEnd(f.seq, Len(f.chunks), n, i, Units("live", f.seq, 0, n))

\* The chunks on their way continue the ones published, and both together are
\* what Run has read, past the declared size too.
ChainInv ==
    /\ \A i \in 1..Len(flows) : FlowChained(i)
    /\ pending # <<>> => PendChained(cur.seq, cur.chunks, pending)
    /\ pc \in {"read", "end"} =>
         /\ chunkIdx = Len(cur.chunks) + Len(pending)
         /\ PendExt(cur.chunks, pending, Len(pending)) = Len(parts)
         /\ parts = Units("live", cur.seq, 0, Len(parts))

\* A chunk added to a chain, and what it leaves of the chain before it.
LEMMA AppendChained ==
    ASSUME NEW q \in Seqs, NEW cs \in Seq(ChunkMsg), Chained(q, cs), NEW m \in ChunkMsg, NEW e,
           Piecewise(q, m, Len(cs), Ext(cs, Len(cs)), e)
    PROVE  /\ Chained(q, Append(cs, m))
           /\ \A k \in 0..Len(cs) : Ext(Append(cs, m), k) = Ext(cs, k)
           /\ Ext(Append(cs, m), Len(cs) + 1) = e
<1> DEFINE n == Len(cs)
           ds == Append(cs, m)
<1>1. /\ n \in Nat /\ Len(ds) = n + 1 /\ ds[n + 1] = m
      /\ \A k \in 1..n : ds[k] = cs[k]
  OBVIOUS
<1> HIDE DEF ds
<1>2. ASSUME NEW k \in 0..n PROVE Ext(ds, k) = Ext(cs, k)
  <2>1. k # 0 => ds[k] = cs[k]
    BY <1>1
  <2> QED BY <2>1, Zenon DEF Ext
<1>3. Ext(ds, n + 1) = e
  <2>1. Ext(ds, n + 1) = LastPos(Expand(m))
    BY <1>1 DEF Ext
  <2>2. LastPos(Units("live", q, Ext(cs, n), e)) = e
    <3>1. Ext(cs, n) \in Nat /\ e \in Nat /\ Ext(cs, n) < e /\ Ext(cs, n) <= e
      BY DEF Piecewise
    <3> QED BY <3>1, UnitsFacts
  <2> QED BY <2>1, <2>2 DEF Piecewise
<1>4. ASSUME NEW k \in 1..n + 1 PROVE Piecewise(q, ds[k], k - 1, Ext(ds, k - 1), Ext(ds, k))
  <2>1. CASE k \in 1..n
    <3>1. k \in 0..n /\ k - 1 \in 0..n
      BY <1>1, <2>1
    <3>2. Ext(ds, k) = Ext(cs, k) /\ Ext(ds, k - 1) = Ext(cs, k - 1) /\ ds[k] = cs[k]
      BY <1>1, <1>2, <2>1, <3>1
    <3> QED BY <2>1, <3>2 DEF Chained
  <2>2. CASE k = n + 1
    <3>1. n \in 0..n /\ k - 1 = n
      BY <1>1, <2>2
    <3>2. Ext(ds, n) = Ext(cs, n)
      BY <1>2, <3>1
    <3> QED BY <1>1, <1>3, <2>2, <3>1, <3>2
  <2> QED BY <1>1, <2>1, <2>2
<1>5. Chained(q, ds)
  BY <1>1, <1>4 DEF Chained
<1> QED BY <1>2, <1>3, <1>5 DEF ds

\* A chain ends at a unit within the cap.
LEMMA ExtFacts ==
    ASSUME NEW q \in Seqs, NEW cs \in Seq(ChunkMsg), Chained(q, cs), NEW k \in 0..Len(cs)
    PROVE  Ext(cs, k) \in Nat /\ Ext(cs, k) <= MaxPayload
<1>1. MaxPayload \in Nat
  BY WireAssumption
<1>2. CASE k = 0
  BY <1>1, <1>2 DEF Ext
<1>3. CASE k # 0
  <2>1. k \in 1..Len(cs)
    BY <1>3
  <2> QED BY <2>1 DEF Chained, Piecewise
<1> QED BY <1>2, <1>3

\* Either form of a chunk decodes to what it was made of.
LEMMA ChunkForms ==
    ASSUME NEW q, NEW k, NEW raw
    PROVE  /\ Decodable(RawChunk(q, k, raw)) /\ Expand(RawChunk(q, k, raw)) = raw
           /\ RawChunk(q, k, raw).seq = q /\ RawChunk(q, k, raw).idx = k
           /\ Decodable(compressChunk(q, k, raw)) /\ Expand(compressChunk(q, k, raw)) = raw
           /\ compressChunk(q, k, raw).seq = q /\ compressChunk(q, k, raw).idx = k
           /\ RawChunk(q, k, raw).type = "chunk" /\ compressChunk(q, k, raw).type = "chunk"
<1>1. /\ Decodable(RawChunk(q, k, raw)) /\ RawChunk(q, k, raw).type = "chunk"
      /\ compressChunk(q, k, raw).type = "chunk"
  BY DEF Decodable, RawChunk, compressChunk, AppendChunk
<1>2. Decodable(compressChunk(q, k, raw))
  BY DEF Decodable, compressChunk, AppendChunk, IsFrame, EncodeAll
<1> QED BY <1>1, <1>2, ExpandFacts

\* A chunk published: the flow's chain grows by it, the other flows stay.
LEMMA ChunkChain ==
    ASSUME SourceInv, ChainInv, ~ended, OpenFlow, NEW m \in ChunkMsg, chunk(m), NEW e,
           Piecewise(cur.seq, m, Len(cur.chunks), Ext(cur.chunks, Len(cur.chunks)), e)
    PROVE  /\ \A i \in 1..Len(flows') : FlowChained(i)'
           /\ cur'.seq = cur.seq /\ Len(cur'.chunks) = Len(cur.chunks) + 1 /\ Len(cur.chunks) \in Nat
           /\ Ext(cur'.chunks, Len(cur'.chunks)) = e
<1>1. BroadcasterTypeOK
  BY DEF SourceInv, SourceTypeOK
<1>2. /\ Len(flows') = Len(flows) /\ flows' # <<>>
      /\ \A i \in 1..Len(flows) - 1 : flows'[i] = flows[i]
      /\ cur'.seq = cur.seq /\ cur'.begin = cur.begin /\ OpenFlow'
      /\ cur \in Flow /\ cur'.chunks = Append(cur.chunks, m)
  BY <1>1, ChunkEffect
<1>3. Len(flows) \in Nat /\ Len(flows) >= 1 /\ Len(flows) \in 1..Len(flows)
  BY <1>1 DEF BroadcasterTypeOK, OpenFlow
<1>4. cur.seq \in Seqs /\ cur.chunks \in Seq(ChunkMsg)
  BY <1>2 DEF Flow
<1>5. FlowChained(Len(flows))
  BY <1>3 DEF ChainInv
<1>6. Chained(cur.seq, cur.chunks) /\ cur.begin = AppendBegin(cur.seq, Len(flows))
  BY <1>5 DEF FlowChained, cur
<1>7. /\ Chained(cur.seq, Append(cur.chunks, m))
      /\ Ext(Append(cur.chunks, m), Len(cur.chunks) + 1) = e
  BY <1>4, <1>6, AppendChained
<1>8. Len(cur'.chunks) = Len(cur.chunks) + 1 /\ Len(cur.chunks) \in Nat
  BY <1>2, <1>4
<1>9. ASSUME NEW i \in 1..Len(flows') PROVE FlowChained(i)'
  <2>1. CASE i = Len(flows)
    <3>1. flows'[i] = cur'
      BY <1>2, <2>1 DEF cur
    <3>2. ~complete(cur')
      BY <1>2 DEF OpenFlow
    <3> QED BY <1>2, <1>6, <1>7, <2>1, <3>1, <3>2 DEF FlowChained, complete
  <2>2. CASE i # Len(flows)
    <3>1. i \in 1..Len(flows) - 1 /\ i \in 1..Len(flows)
      BY <1>2, <1>3, <2>2
    <3>2. flows'[i] = flows[i] /\ FlowChained(i)
      BY <1>2, <3>1 DEF ChainInv
    <3> QED BY <3>2 DEF FlowChained, complete
  <2> QED BY <2>1, <2>2
<1> QED BY <1>2, <1>7, <1>8, <1>9

\* A read hands over the units after those already read.
LEMMA ReadChain ==
    ASSUME SourceInv, ChainInv, CutInv, Read
    PROVE  ChainInv'
<1>0. /\ SourceTypeOK /\ FlowInv /\ BroadcasterTypeOK /\ parts \in Body /\ pending \in Seq(Job)
      /\ chunkIdx \in Nat /\ em.seq \in Seqs /\ Len(parts) \in Nat
      /\ Len(flows) \in Nat /\ Len(pending) \in Nat
  BY DEF SourceInv, SourceTypeOK, Body, BroadcasterTypeOK
<1>1. /\ pc = "read" /\ em' = em /\ OpenFlow /\ ~ended /\ em.seq = cur.seq /\ flows # <<>>
      /\ cur \in Flow /\ Len(cur.chunks) \in Nat /\ cur.chunks \in Seq(ChunkMsg)
  <2>1. pc = "read" /\ em' = em /\ OpenFlow /\ ~ended /\ em.seq = cur.seq
    BY <1>0 DEF Read, FlowInv
  <2>2. cur \in Flow
    BY <1>0, <2>1 DEF OpenFlow, cur, BroadcasterTypeOK
  <2> QED BY <2>1, <2>2 DEF OpenFlow, Flow
<1>2. PICK n \in 0..ChunkSize, rerr \in {"nil", "eof", "cancel", "fail"} :
         /\ AfterRead(rerr)
         /\ \/ n = 0 /\ UNCHANGED <<bVars, parts, chunkIdx, pending>>
            \/ /\ n # 0 /\ submit(Data(n)) /\ chunkIdx' = chunkIdx + 1
               /\ parts' = parts \o Data(n) /\ Len(parts) + n <= MaxPayload
  BY DEF Read
<1>3. n \in Nat /\ MaxPayload \in Nat
  BY WireAssumption
<1>4. CASE n = 0
  <2>1. UNCHANGED <<flows, parts, chunkIdx, pending>>
    BY <1>2, <1>4 DEF bVars
  <2> QED BY <1>1, <2>1 DEF ChainInv, FlowChained, cur
<1>5. CASE n # 0
  <2> DEFINE lo == Len(parts)
             hi == Len(parts) + n
  <2>1. Data(n) = Units("live", cur.seq, lo, hi)
    <3>1. hi - lo = n
      BY <1>0, <1>3
    <3> QED BY <1>1, <3>1 DEF Data, Units
  <2>2. /\ chunkIdx = Len(cur.chunks) + Len(pending)
        /\ PendExt(cur.chunks, pending, Len(pending)) = lo
        /\ parts = Units("live", cur.seq, 0, lo)
    BY <1>1 DEF ChainInv
  <2> HIDE DEF lo, hi
  <2>3. lo \in Nat /\ hi \in Nat /\ lo < hi /\ hi <= MaxPayload
    BY <1>0, <1>2, <1>3, <1>5 DEF lo, hi
  <2>4. /\ parts' = Units("live", cur.seq, 0, hi)
        /\ Len(parts') = hi
        /\ LastPos(Data(n)) = hi /\ Data(n) \in Body
    <3>0. cur.seq \in Seqs /\ 0 \in Nat /\ lo <= hi /\ 0 <= hi
      BY <1>0, <1>1, <2>3
    <3>1. /\ Units("live", cur.seq, 0, lo) \o Units("live", cur.seq, lo, hi) = Units("live", cur.seq, 0, hi)
          /\ LastPos(Units("live", cur.seq, lo, hi)) = hi /\ Units("live", cur.seq, lo, hi) \in Body
      BY <2>3, <3>0, UnitsFacts
    <3>2. Len(Units("live", cur.seq, 0, hi)) = hi - 0
      BY <2>3, <3>0, UnitsFacts
    <3>3. parts' = parts \o Data(n)
      BY <1>2, <1>5
    <3>4. parts' = Units("live", cur.seq, 0, hi)
      BY <2>1, <2>2, <3>1, <3>3, Zenon
    <3> QED BY <2>1, <2>3, <3>1, <3>2, <3>4
  <2>5. submitChunk(cur.seq, chunkIdx, Data(n))
    BY <1>1, <1>2, <1>5 DEF submit
  <2>6. CASE Compress
    <3> DEFINE job == [seq |-> cur.seq, idx |-> chunkIdx, raw |-> Data(n)]
    <3>1. UNCHANGED flows /\ pending' = Append(pending, job)
      BY <2>5, <2>6 DEF submitChunk, bVars
    <3>2. job \in Job /\ job.seq = cur.seq /\ job.idx = chunkIdx /\ job.raw = Data(n)
      BY <1>0, <1>1, <2>4 DEF Job
    <3> HIDE DEF job
    <3>3. /\ Len(pending') = Len(pending) + 1 /\ pending'[Len(pending) + 1] = job
          /\ \A j \in 1..Len(pending) : pending'[j] = pending[j]
      BY <1>0, <3>1, <3>2
    <3>4. cur' = cur
      BY <3>1 DEF cur
    <3> DEFINE old(j) == PendExt(cur.chunks, pending, j)
               new(j) == PendExt(cur.chunks, pending', j)
    <3>5. ASSUME NEW j \in 0..Len(pending) PROVE new(j) = old(j)
      <4>1. j # 0 => pending'[j] = pending[j]
        BY <1>0, <3>3
      <4> QED BY <4>1, Zenon DEF PendExt
    <3>6. new(Len(pending) + 1) = hi
      <4>1. Len(pending) + 1 # 0
        BY <1>0
      <4> QED BY <2>4, <3>2, <3>3, <4>1 DEF PendExt
    <3>61. pending # <<>> => PendChained(cur.seq, cur.chunks, pending)
      BY DEF ChainInv
    <3>62. old(Len(pending)) = lo
      BY <2>2
    <3> HIDE DEF old, new
    <3>7. ASSUME NEW j \in 1..Len(pending')
          PROVE  /\ pending'[j].seq = cur.seq /\ pending'[j].idx = Len(cur.chunks) + j - 1
                 /\ pending'[j].raw = Units("live", cur.seq, new(j - 1), new(j))
                 /\ new(j - 1) \in Nat /\ new(j) \in Nat
                 /\ new(j - 1) < new(j) /\ new(j) <= MaxPayload
      <4>1. CASE j \in 1..Len(pending)
        <5>1. j \in 0..Len(pending) /\ j - 1 \in 0..Len(pending) /\ pending # <<>>
          BY <1>0, <4>1
        <5>2. new(j) = old(j) /\ new(j - 1) = old(j - 1) /\ pending'[j] = pending[j]
          BY <3>3, <3>5, <4>1, <5>1
        <5>3. /\ pending[j].seq = cur.seq /\ pending[j].idx = Len(cur.chunks) + j - 1
              /\ pending[j].raw = Units("live", cur.seq, old(j - 1), old(j))
              /\ old(j - 1) \in Nat /\ old(j) \in Nat
              /\ old(j - 1) < old(j) /\ old(j) <= MaxPayload
          BY <3>61, <4>1, <5>1 DEF PendChained, old
        <5> QED BY <5>2, <5>3
      <4>2. CASE j = Len(pending) + 1
        <5>1. Len(pending) \in 0..Len(pending) /\ j - 1 = Len(pending)
          BY <1>0, <4>2
        <5>2. new(j - 1) = lo /\ new(j) = hi
          BY <3>5, <3>6, <3>62, <4>2, <5>1
        <5>3. Len(cur.chunks) + j - 1 = chunkIdx
          BY <1>0, <1>1, <2>2, <4>2
        <5> QED BY <2>1, <2>3, <3>2, <3>3, <4>2, <5>2, <5>3
      <4> QED BY <1>0, <3>3, <4>1, <4>2
    <3>71. PendChained(cur.seq, cur.chunks, pending')
      BY <3>7 DEF PendChained, new
    <3>8. ASSUME NEW i \in 1..Len(flows') PROVE FlowChained(i)'
      BY <3>1, <3>8 DEF ChainInv, FlowChained
    <3>9. chunkIdx' = Len(cur.chunks) + Len(pending')
      <4>1. chunkIdx' = chunkIdx + 1
        BY <1>2, <1>5
      <4>2. \A a, b \in Nat : (a + b) + 1 = a + (b + 1)
        OBVIOUS
      <4>3. (Len(cur.chunks) + Len(pending)) + 1 = Len(cur.chunks) + (Len(pending) + 1)
        BY <1>0, <1>1, <4>2
      <4> QED BY <2>2, <3>3, <4>1, <4>3, Zenon
    <3>10. PendExt(cur.chunks, pending', Len(pending')) = Len(parts')
      BY <2>4, <3>3, <3>6 DEF new
    <3> QED BY <2>4, <3>4, <3>71, <3>8, <3>9, <3>10 DEF ChainInv
  <2>7. CASE ~Compress
    <3> DEFINE m == RawChunk(cur.seq, chunkIdx, Data(n))
    <3>1. chunk(m) /\ UNCHANGED pending /\ pending = <<>>
      BY <2>5, <2>7 DEF submitChunk, CutInv
    <3>2. m \in ChunkMsg
      BY <1>0, <1>1, <2>4, ChunkTypes
    <3>3. chunkIdx = Len(cur.chunks) /\ lo = Ext(cur.chunks, Len(cur.chunks))
      BY <1>1, <2>2, <3>1 DEF PendExt
    <3>4. Piecewise(cur.seq, m, Len(cur.chunks), Ext(cur.chunks, Len(cur.chunks)), hi)
      BY <2>1, <2>3, <3>3, ChunkForms DEF Piecewise
    <3> HIDE DEF m
    <3>5. /\ \A i \in 1..Len(flows') : FlowChained(i)'
          /\ cur'.seq = cur.seq /\ Len(cur'.chunks) = Len(cur.chunks) + 1
          /\ Ext(cur'.chunks, Len(cur'.chunks)) = hi
      BY <1>1, <3>1, <3>2, <3>4, ChunkChain
    <3>6. Len(pending') = 0 /\ pending' = <<>>
      BY <3>1
    <3>7. PendExt(cur'.chunks, pending', Len(pending')) = hi
      BY <3>5, <3>6 DEF PendExt
    <3>8. chunkIdx' = Len(cur'.chunks) + Len(pending')
      BY <1>1, <1>2, <1>5, <3>3, <3>5, <3>6
    <3> QED BY <2>4, <3>5, <3>6, <3>7, <3>8 DEF ChainInv
  <2> QED BY <2>6, <2>7
<1> QED BY <1>4, <1>5

\* The publisher moves the oldest pending chunk to the end of the flow's chain.
LEMMA PublishChain ==
    ASSUME SourceInv, ChainInv, Publish
    PROVE  ChainInv'
<1>0. /\ SourceTypeOK /\ FlowInv /\ BroadcasterTypeOK /\ pending \in Seq(Job) /\ Len(pending) \in Nat
      /\ pending # <<>>
  BY DEF SourceInv, SourceTypeOK, Publish, publishNext
<1>1. OpenFlow /\ ~ended /\ cur \in Flow /\ Len(cur.chunks) \in Nat
  <2>1. OpenFlow /\ ~ended
    BY <1>0 DEF FlowInv
  <2>2. cur \in Flow
    BY <1>0, <2>1 DEF OpenFlow, cur, BroadcasterTypeOK
  <2> QED BY <2>1, <2>2 DEF Flow
<1>2. /\ Len(pending) >= 1 /\ pending' = Tail(pending) /\ pending' \in Seq(Job)
      /\ Len(pending') = Len(pending) - 1 /\ Head(pending) = pending[1] /\ pending[1] \in Job
      /\ \A j \in 1..Len(pending) - 1 : pending'[j] = pending[j + 1]
  BY <1>0 DEF Publish, publishNext
<1> DEFINE job == pending[1]
           old(j) == PendExt(cur.chunks, pending, j)
<1>3. PICK m \in {RawChunk(job.seq, job.idx, job.raw), compressChunk(job.seq, job.idx, job.raw)} : chunk(m)
  BY <1>2 DEF Publish, publishNext
<1>4. m \in ChunkMsg
  BY <1>2, <1>3, ChunkTypes DEF Job
<1>5. ASSUME NEW j \in 1..Len(pending)
      PROVE  /\ pending[j].seq = cur.seq /\ pending[j].idx = Len(cur.chunks) + j - 1
             /\ pending[j].raw = Units("live", cur.seq, old(j - 1), old(j))
             /\ old(j - 1) \in Nat /\ old(j) \in Nat
             /\ old(j - 1) < old(j) /\ old(j) <= MaxPayload
  BY <1>0, <1>5 DEF ChainInv, PendChained
<1>6. Piecewise(cur.seq, m, Len(cur.chunks), Ext(cur.chunks, Len(cur.chunks)), old(1))
  <2>1. 1 \in 1..Len(pending) /\ 1 - 1 = 0
    BY <1>2
  <2>2. old(1 - 1) = Ext(cur.chunks, Len(cur.chunks)) /\ old(0) = Ext(cur.chunks, Len(cur.chunks))
    BY <2>1 DEF PendExt
  <2>3. Len(cur.chunks) + 1 - 1 = Len(cur.chunks)
    BY <1>1
  <2>4. /\ m.seq = job.seq /\ m.idx = job.idx /\ Decodable(m) /\ Expand(m) = job.raw
    BY <1>3, ChunkForms
  <2>5. /\ job.seq = cur.seq /\ job.idx = Len(cur.chunks) + 1 - 1
        /\ job.raw = Units("live", cur.seq, old(1 - 1), old(1))
        /\ old(1 - 1) \in Nat /\ old(1) \in Nat
        /\ old(1 - 1) < old(1) /\ old(1) <= MaxPayload
    BY <1>5, <2>1
  <2> HIDE DEF old, job
  <2> QED BY <2>2, <2>3, <2>4, <2>5 DEF Piecewise
<1>7. /\ \A i \in 1..Len(flows') : FlowChained(i)'
      /\ cur'.seq = cur.seq /\ Len(cur'.chunks) = Len(cur.chunks) + 1
      /\ Ext(cur'.chunks, Len(cur'.chunks)) = old(1)
  BY <1>1, <1>3, <1>4, <1>6, ChunkChain
<1> DEFINE new(j) == PendExt(cur'.chunks, pending', j)
<1>8. ASSUME NEW j \in 0..Len(pending') PROVE new(j) = old(j + 1)
  <2>1. CASE j = 0
    <3>1. j + 1 = 1
      BY <2>1
    <3>2. new(j) = Ext(cur'.chunks, Len(cur'.chunks))
      BY <2>1 DEF PendExt
    <3> QED BY <1>7, <3>1, <3>2
  <2>2. CASE j # 0
    <3>1. j \in 1..Len(pending) - 1 /\ j + 1 # 0
      BY <1>2, <2>2
    <3>2. pending'[j] = pending[j + 1]
      BY <1>2, <3>1
    <3>3. new(j) = LastPos(pending'[j].raw)
      BY <2>2 DEF PendExt
    <3>4. old(j + 1) = LastPos(pending[j + 1].raw)
      BY <3>1 DEF PendExt
    <3> QED BY <3>2, <3>3, <3>4
  <2> QED BY <2>1, <2>2
<1> HIDE DEF old, new, job
<1>9. ASSUME NEW j \in 1..Len(pending')
      PROVE  /\ pending'[j].seq = cur'.seq /\ pending'[j].idx = Len(cur'.chunks) + j - 1
             /\ pending'[j].raw = Units("live", cur'.seq, new(j - 1), new(j))
             /\ new(j - 1) \in Nat /\ new(j) \in Nat
             /\ new(j - 1) < new(j) /\ new(j) <= MaxPayload
  <2>1. /\ j + 1 \in 1..Len(pending) /\ j \in 0..Len(pending') /\ j - 1 \in 0..Len(pending')
        /\ (j + 1) - 1 = j /\ (j - 1) + 1 = j /\ j \in 1..Len(pending) - 1 /\ j \in Nat
    BY <1>2
  <2>2. new(j) = old(j + 1) /\ new(j - 1) = old((j - 1) + 1) /\ pending'[j] = pending[j + 1]
    BY <1>2, <1>8, <2>1
  <2>3. new(j - 1) = old(j)
    BY <2>1, <2>2
  <2>4. /\ pending[j + 1].seq = cur.seq /\ pending[j + 1].idx = Len(cur.chunks) + (j + 1) - 1
        /\ pending[j + 1].raw = Units("live", cur.seq, old((j + 1) - 1), old(j + 1))
        /\ old((j + 1) - 1) \in Nat /\ old(j + 1) \in Nat
        /\ old((j + 1) - 1) < old(j + 1) /\ old(j + 1) <= MaxPayload
    BY <1>5, <2>1
  <2>5. Len(cur.chunks) + (j + 1) - 1 = Len(cur'.chunks) + j - 1
    BY <1>1, <1>7, <2>1
  <2> QED BY <1>7, <2>1, <2>2, <2>3, <2>4, <2>5
<1>10. PendChained(cur'.seq, cur'.chunks, pending')
  BY <1>9 DEF PendChained, new
<1>11. ASSUME pc' \in {"read", "end"}
       PROVE  /\ chunkIdx' = Len(cur'.chunks) + Len(pending')
              /\ PendExt(cur'.chunks, pending', Len(pending')) = Len(parts')
              /\ parts' = Units("live", cur'.seq, 0, Len(parts'))
  <2>1. UNCHANGED <<pc, parts, chunkIdx>>
    BY DEF Publish
  <2>2. /\ chunkIdx = Len(cur.chunks) + Len(pending)
        /\ old(Len(pending)) = Len(parts)
        /\ parts = Units("live", cur.seq, 0, Len(parts))
    BY <1>11, <2>1 DEF ChainInv, old
  <2>3. Len(pending') \in 0..Len(pending') /\ Len(pending') + 1 = Len(pending)
    BY <1>2
  <2>4. new(Len(pending')) = old(Len(pending') + 1)
    BY <1>8, <2>3
  <2>5. new(Len(pending')) = Len(parts)
    BY <2>2, <2>3, <2>4
  <2>6. chunkIdx = Len(cur'.chunks) + Len(pending')
    BY <1>0, <1>1, <1>2, <1>7, <2>2
  <2> QED BY <1>7, <2>1, <2>2, <2>5, <2>6 DEF new
<1> QED BY <1>7, <1>10, <1>11 DEF ChainInv

\* END is the end of the chain: flush has emptied the pipeline.
LEMMA EndChain ==
    ASSUME SourceInv, ChainInv, End
    PROVE  ChainInv'
<1>0. /\ SourceTypeOK /\ FlowInv /\ BroadcasterTypeOK /\ parts \in Body /\ Len(parts) \in Nat
      /\ chunkIdx \in Nat /\ em.seq \in Seqs /\ Len(flows) \in Nat
  BY DEF SourceInv, SourceTypeOK, Body, BroadcasterTypeOK
<1>1. /\ pc = "end" /\ OpenFlow /\ ~ended /\ em.seq = cur.seq /\ pending = <<>> /\ pending' = <<>>
      /\ Len(pending) = 0 /\ pc' \notin {"read", "end"}
  BY <1>0 DEF End, FlowInv, flush, Return
<1>2. CASE UNCHANGED flows
  BY <1>1, <1>2 DEF ChainInv, FlowChained, cur
<1>3. CASE end(AppendEnd(em.seq, chunkIdx, Len(parts), Len(flows), Sum64(parts)))
  <2> DEFINE m == AppendEnd(em.seq, chunkIdx, Len(parts), Len(flows), Sum64(parts))
  <2>1. m \in EndMsg
    BY <1>0 DEF AppendEnd, EndMsg, Sum64
  <2>2. /\ Len(flows') = Len(flows)
        /\ \A i \in 1..Len(flows) - 1 : flows'[i] = flows[i]
        /\ cur'.seq = cur.seq /\ cur'.begin = cur.begin /\ cur'.chunks = cur.chunks
        /\ cur'.end = m
    BY <1>0, <1>1, <1>3, <2>1, EndEffect
  <2>3. /\ chunkIdx = Len(cur.chunks) + Len(pending)
        /\ PendExt(cur.chunks, pending, Len(pending)) = Len(parts)
        /\ parts = Units("live", cur.seq, 0, Len(parts))
    BY <1>1 DEF ChainInv
  <2>4. cur \in Flow /\ Len(flows) \in 1..Len(flows)
    BY <1>0, <1>1 DEF OpenFlow, cur, BroadcasterTypeOK
  <2>5. chunkIdx = Len(cur.chunks) /\ Ext(cur.chunks, Len(cur.chunks)) = Len(parts)
    <3>1. Len(cur.chunks) \in Nat
      BY <2>4 DEF Flow
    <3> QED BY <1>1, <2>3, <3>1 DEF PendExt
  <2>6. m = AppendEnd(cur.seq, Len(cur.chunks), Len(parts), Len(flows), Units("live", cur.seq, 0, Len(parts)))
    BY <1>1, <2>3, <2>5 DEF Sum64
  <2> HIDE DEF m
  <2>7. ASSUME NEW i \in 1..Len(flows') PROVE FlowChained(i)'
    <3>1. CASE i = Len(flows)
      <4>1. flows'[i] = cur' /\ FlowChained(i) /\ flows[i] = cur
        BY <2>2, <2>4, <3>1 DEF cur, ChainInv
      <4>2. cur.begin = AppendBegin(cur.seq, i) /\ Chained(cur.seq, cur.chunks)
        BY <4>1 DEF FlowChained
      <4> QED BY <2>2, <2>5, <2>6, <3>1, <4>1, <4>2 DEF FlowChained
    <3>2. CASE i # Len(flows)
      <4>1. i \in 1..Len(flows) - 1 /\ i \in 1..Len(flows)
        BY <1>0, <2>2, <3>2
      <4>2. flows'[i] = flows[i] /\ FlowChained(i)
        BY <2>2, <4>1 DEF ChainInv
      <4> QED BY <4>2 DEF FlowChained, complete
    <3> QED BY <3>1, <3>2
  <2> QED BY <1>1, <2>7 DEF ChainInv
<1> QED BY <1>2, <1>3 DEF End, bVars

\* BEGIN opens an empty chain.
LEMMA BeginChain ==
    ASSUME SourceInv, ChainInv, Begin
    PROVE  ChainInv'
<1>0. /\ SourceTypeOK /\ FlowInv /\ BroadcasterTypeOK /\ Len(flows) \in Nat
  BY DEF SourceInv, SourceTypeOK, BroadcasterTypeOK
<1>1. pc = "pull" /\ ~OpenFlow /\ ~ended /\ pending = <<>> /\ pending' = <<>> /\ parts' = <<>> /\ chunkIdx' = 0
  BY <1>0 DEF Begin, FlowInv
<1>2. PICK seq \in Seqs : begin(seq, AppendBegin(seq, Len(flows) + 1))
  BY SourceAssumption DEF Begin, Emitted
<1> DEFINE m == AppendBegin(seq, Len(flows) + 1)
<1>3. m \in BeginMsg
  BY <1>0 DEF AppendBegin, BeginMsg
<1>4. /\ Len(flows') = Len(flows) + 1
      /\ \A i \in 1..Len(flows) : flows'[i] = flows[i]
      /\ cur'.seq = seq /\ cur'.begin = m /\ cur'.chunks = <<>> /\ OpenFlow'
  BY <1>0, <1>1, <1>2, <1>3, BeginEffect
<1> HIDE DEF m
<1>5. ASSUME NEW i \in 1..Len(flows') PROVE FlowChained(i)'
  <2>1. CASE i = Len(flows) + 1
    <3>1. flows'[i] = cur'
      BY <1>4, <2>1 DEF cur
    <3>2. ~complete(cur')
      BY <1>4 DEF OpenFlow
    <3>3. Chained(seq, <<>>)
      BY DEF Chained
    <3> QED BY <1>4, <2>1, <3>1, <3>2, <3>3 DEF FlowChained, complete, m
  <2>2. CASE i # Len(flows) + 1
    <3>1. i \in 1..Len(flows)
      BY <1>0, <1>4, <2>2
    <3>2. flows'[i] = flows[i] /\ FlowChained(i)
      BY <1>4, <3>1 DEF ChainInv
    <3> QED BY <3>2 DEF FlowChained, complete
  <2> QED BY <2>1, <2>2
<1>6. Len(pending') = 0 /\ Len(cur'.chunks) = 0 /\ Len(parts') = 0
  BY <1>1, <1>4
<1>7. PendExt(cur'.chunks, pending', Len(pending')) = 0
  BY <1>6 DEF PendExt, Ext
<1>8. parts' = Units("live", cur'.seq, 0, Len(parts'))
  BY <1>1, <1>6 DEF Units
<1> QED BY <1>1, <1>5, <1>6, <1>7, <1>8 DEF ChainInv

\* The chain survives every step of Run.
LEMMA ChainStep ==
    ASSUME SourceInv, ChainInv, CutInv, [SourceNext]_sourceVars
    PROVE  ChainInv'
<1>1. ASSUME UNCHANGED <<flows, pending>>, pc' \in {"read", "end"} => UNCHANGED <<pc, parts, chunkIdx>>
      PROVE  ChainInv'
  BY <1>1 DEF ChainInv, FlowChained, cur
<1>2. CASE SourceStops \/ Refuse \/ ReadPastCap
  BY <1>1, <1>2 DEF SourceStops, Refuse, ReadPastCap, Return, bVars
<1>3. CASE CallPut \/ PutStep
  BY <1>1, <1>3 DEF CallPut, PutStep, bVars, runVars
<1>4. CASE ReturnPut
  BY <1>1, <1>4 DEF ReturnPut, Return, bVars
<1>5. CASE Finish
  BY <1>1, <1>5 DEF Finish, finish
<1>6. CASE UNCHANGED sourceVars
  BY <1>1, <1>6 DEF sourceVars, bVars, runVars
<1> QED BY <1>2, <1>3, <1>4, <1>5, <1>6, ReadChain, PublishChain, EndChain, BeginChain DEF SourceNext

-----------------------------------------------------------------------------
\* What the loop promises.  PublishInOrder concatenates the chunks of a flow;
\* since each chunk is a range that starts where the one before ended, the
\* first k of them make up a range too, and that is the concatenation.

\* One FlattenSeq, by two names.
LEMMA SameFlatten ==
    ASSUME NEW s
    PROVE  P!FlattenSeq(s) = SeqOps!FlattenSeq(s)
BY DEF P!FlattenSeq, SeqOps!FlattenSeq

\* The body published of the open flow ends where its last chunk ends.
LEMMA PublishedIs ==
    ASSUME SourceInv, ChainInv, OpenFlow
    PROVE  /\ P!Published = Units("live", cur.seq, 0, Ext(cur.chunks, Len(cur.chunks)))
           /\ Len(P!Published) = Ext(cur.chunks, Len(cur.chunks))
           /\ Ext(cur.chunks, Len(cur.chunks)) \in Nat
<1>1. BroadcasterTypeOK
  BY DEF SourceInv, SourceTypeOK
<1>2. Len(flows) \in 1..Len(flows) /\ cur \in Flow
  BY <1>1 DEF BroadcasterTypeOK, OpenFlow, cur
<1>3. cur.chunks \in Seq(ChunkMsg) /\ cur.seq \in Seqs
  BY <1>2 DEF Flow
<1>4. Chained(cur.seq, cur.chunks)
  BY <1>2 DEF ChainInv, FlowChained, cur
<1> DEFINE n == Len(cur.chunks)
           s == [k \in 1..n |-> Expand(cur.chunks[k])]
           off == [k \in 0..n |-> Ext(cur.chunks, k)]
<1>5. n \in Nat /\ Len(s) = n
  BY <1>3
<1>6. P!Published = P!FlattenSeq(s)
  BY DEF P!Published, P!Expand, P!cur, Expand, cur, P!DecodeAll, DecodeAll
<1>61. P!FlattenSeq(s) = SeqOps!FlattenSeq(s)
  BY SameFlatten
<1>7. Cuts(cur.seq, s, off)
  <2>1. ASSUME NEW k \in 1..n
        PROVE  /\ s[k] = Units("live", cur.seq, off[k - 1], off[k])
               /\ off[k - 1] \in Nat /\ off[k] \in Nat /\ off[k - 1] < off[k]
    <3>1. Piecewise(cur.seq, cur.chunks[k], k - 1, Ext(cur.chunks, k - 1), Ext(cur.chunks, k))
      BY <1>4 DEF Chained
    <3>2. k \in 0..n /\ k - 1 \in 0..n
      BY <1>5
    <3>3. off[k] = Ext(cur.chunks, k) /\ off[k - 1] = Ext(cur.chunks, k - 1)
      BY <3>2
    <3>4. s[k] = Expand(cur.chunks[k])
      OBVIOUS
    <3> HIDE DEF s, off
    <3> QED BY <3>1, <3>3, <3>4 DEF Piecewise
  <2> HIDE DEF s, off
  <2> QED BY <1>5, <2>1 DEF Cuts
<1>8. off[0] = 0 /\ off[n] = Ext(cur.chunks, n)
  <2>1. 0 \in 0..n /\ n \in 0..n
    BY <1>5
  <2> QED BY <2>1 DEF Ext
<1>9. s = <<>> <=> n = 0
  BY <1>5
<1> HIDE DEF s, off
<1>10. CASE n = 0
  <2>1. P!Published = <<>>
    BY <1>5, <1>6, <1>61, <1>9, <1>10, FlattenNone
  <2>2. Ext(cur.chunks, n) = 0
    BY <1>10 DEF Ext
  <2>3. Units("live", cur.seq, 0, 0) = <<>>
    BY DEF Units
  <2> QED BY <2>1, <2>2, <2>3
<1>11. CASE n # 0
  <2>1. /\ off[n] \in Nat
        /\ P!FlattenSeq(s) = Units("live", cur.seq, off[0], off[n])
    BY <1>3, <1>5, <1>61, <1>7, <1>11, FlattenUnits
  <2>2. Len(Units("live", cur.seq, 0, off[n])) = off[n] - 0
    <3>1. \A a, b \in Nat : a <= b => Len(Units("live", cur.seq, a, b)) = b - a
      BY <1>3, UnitsFacts
    <3>2. 0 \in Nat /\ off[n] \in Nat /\ 0 <= off[n]
      BY <2>1
    <3> QED BY <3>1, <3>2, Zenon
  <2>3. P!Published = Units("live", cur.seq, 0, off[n])
    BY <1>6, <1>8, <2>1, Zenon
  <2> QED BY <1>8, <2>1, <2>2, <2>3
<1> QED BY <1>10, <1>11

\* The units on their way are those from there to what Run has read.
LEMMA UnderwayIs ==
    ASSUME SourceInv, ChainInv, OpenFlow
    PROVE  /\ Len(P!Underway) = PendExt(cur.chunks, pending, Len(pending))
                                  - Ext(cur.chunks, Len(cur.chunks))
           /\ PendExt(cur.chunks, pending, Len(pending)) \in Nat
<1>1. pending \in Seq(Job) /\ Len(pending) \in Nat
  BY DEF SourceInv, SourceTypeOK
<1>2. Ext(cur.chunks, Len(cur.chunks)) \in Nat
  BY PublishedIs
<1>3. cur.seq \in Seqs
  <2>1. BroadcasterTypeOK
    BY DEF SourceInv, SourceTypeOK
  <2>2. cur \in Flow
    BY <2>1 DEF BroadcasterTypeOK, OpenFlow, cur
  <2> QED BY <2>2 DEF Flow
<1> DEFINE n == Len(pending)
           s == [k \in 1..n |-> pending[k].raw]
           off == [k \in 0..n |-> PendExt(cur.chunks, pending, k)]
<1>5. Len(s) = n /\ P!Underway = P!FlattenSeq(s)
  BY <1>1 DEF P!Underway
<1>6. P!FlattenSeq(s) = SeqOps!FlattenSeq(s)
  BY SameFlatten
<1>8. off[0] = Ext(cur.chunks, Len(cur.chunks)) /\ off[n] = PendExt(cur.chunks, pending, n)
  <2>1. 0 \in 0..n /\ n \in 0..n
    BY <1>1
  <2> QED BY <2>1 DEF PendExt
<1>9. CASE n = 0
  <2>1. P!Underway = s
    BY <1>5, <1>6, <1>9, FlattenNone
  <2>2. PendExt(cur.chunks, pending, n) = Ext(cur.chunks, Len(cur.chunks))
    BY <1>9 DEF PendExt
  <2> HIDE DEF s, off
  <2> QED BY <1>2, <1>5, <1>9, <2>1, <2>2
<1>10. CASE n # 0
  <2>1. PendChained(cur.seq, cur.chunks, pending)
    BY <1>1, <1>10 DEF ChainInv
  <2>2. ASSUME NEW k \in 1..n
        PROVE  /\ s[k] = Units("live", cur.seq, off[k - 1], off[k])
               /\ off[k - 1] \in Nat /\ off[k] \in Nat /\ off[k - 1] < off[k]
    <3>2. k \in 0..n /\ k - 1 \in 0..n
      BY <1>1
    <3>3. off[k] = PendExt(cur.chunks, pending, k) /\ off[k - 1] = PendExt(cur.chunks, pending, k - 1)
      BY <3>2
    <3>4. s[k] = pending[k].raw
      OBVIOUS
    <3> HIDE DEF s, off
    <3> QED BY <2>1, <3>3, <3>4 DEF PendChained
  <2> HIDE DEF s, off
  <2>3. Cuts(cur.seq, s, off)
    BY <1>5, <2>2 DEF Cuts
  <2>4. /\ off[0] \in Nat /\ off[n] \in Nat /\ off[0] <= off[n]
        /\ P!FlattenSeq(s) = Units("live", cur.seq, off[0], off[n])
    BY <1>1, <1>3, <1>5, <1>6, <1>10, <2>3, FlattenUnits
  <2>5. \A a, b \in Nat : a <= b => Len(Units("live", cur.seq, a, b)) = b - a
    BY <1>3, UnitsFacts
  <2> QED BY <1>5, <1>8, <2>4, <2>5
<1> QED BY <1>9, <1>10

\* Each step of the loop is a step of PublishInOrder, or leaves the flows and
\* the queue alone.
LEMMA StepPublishes ==
    ASSUME SourceInv, CutInv, ChainInv, [SourceNext \/ Terminated]_sourceVars
    PROVE  [P!Next]_(P!vars)
<1>1. FlowInv /\ SourceTypeOK /\ BroadcasterTypeOK
  BY DEF SourceInv, SourceTypeOK
<1>2. ASSUME UNCHANGED <<bVars, pending>> PROVE [P!Next]_(P!vars)
  BY <1>2 DEF P!vars, P!bVars, bVars
<1>3. CASE SourceStops \/ Refuse \/ ReadPastCap \/ ReturnPut
  BY <1>2, <1>3 DEF SourceStops, Refuse, ReadPastCap, ReturnPut
<1>4. CASE CallPut \/ PutStep
  BY <1>2, <1>4 DEF CallPut, PutStep, runVars
<1>5. CASE UNCHANGED sourceVars \/ Terminated
  BY <1>2, <1>5 DEF Terminated, sourceVars, runVars
<1>6. CASE Begin
  <2>1. ~ended /\ ~OpenFlow
    BY <1>1, <1>6 DEF FlowInv, Begin
  <2>2. PICK seq \in Emitted : Dense(seq) /\ begin(seq, AppendBegin(seq, Len(flows) + 1))
    BY <1>6 DEF Begin
  <2>3. seq \in Seqs
    BY SourceAssumption DEF Emitted
  <2>4. UNCHANGED pending
    BY <1>6 DEF Begin
  <2>5. P!Begin
    BY <2>1, <2>2, <2>3, <2>4
       DEF P!Begin, P!OpenFlow, P!complete, P!cur, P!NoMsg, P!begin, P!AppendBegin, P!Seqs, P!Panic, P!wakeLocked,
           OpenFlow, complete, cur, NoMsg, begin, AppendBegin, Seqs, Panic, wakeLocked
  <2> QED BY <2>5 DEF P!Next
<1>7. CASE Publish
  <2>1. publishNext /\ ~ended /\ OpenFlow
    BY <1>1, <1>7 DEF FlowInv, Publish, publishNext
  <2>2. P!Publish
    BY <2>1
       DEF P!Publish, P!publishNext, publishNext, P!OpenFlow, P!complete, P!cur, P!NoMsg, OpenFlow, complete,
           cur, NoMsg, P!chunk, chunk, P!Panic, Panic, P!wakeLocked, wakeLocked, P!RawChunk, RawChunk,
           P!compressChunk, compressChunk, P!AppendChunk, AppendChunk, P!EncodeAll, EncodeAll, P!Smaller, Smaller
  <2> QED BY <2>2 DEF P!Next
<1>8. CASE Finish
  <2>1. flush /\ UNCHANGED pending /\ finish(runErr # "none") /\ (runErr # "none") \in BOOLEAN
    BY <1>8 DEF Finish
  <2>2. P!Finish
    BY <2>1 DEF P!Finish, P!flush, flush, P!finish, finish
  <2> QED BY <2>2 DEF P!Next
<1>9. CASE Read
  <2>0. OpenFlow /\ ~ended /\ em.seq = cur.seq /\ pc = "read"
    BY <1>1, <1>9 DEF FlowInv, Read
  <2>1. PICK n \in 0..ChunkSize :
           IF n = 0 THEN UNCHANGED <<bVars, pending>> ELSE submit(Data(n))
    <3>1. PICK n \in 0..ChunkSize, rerr \in {"nil", "eof", "cancel", "fail"} :
             IF n = 0 THEN UNCHANGED <<bVars, parts, chunkIdx, pending>> ELSE submit(Data(n))
      BY <1>9, Zenon DEF Read
    <3> QED BY <3>1
  <2>2. CASE n = 0
    BY <1>2, <2>1, <2>2
  <2>3. CASE n # 0
    <3>1. n \in 1..ChunkSize /\ submit(Data(n))
      BY <2>1, <2>3, WireAssumption
    <3>2. /\ chunkIdx = Len(cur.chunks) + Len(pending)
          /\ PendExt(cur.chunks, pending, Len(pending)) = Len(parts)
      BY <2>0 DEF ChainInv
    <3>3. Len(P!Published) + Len(P!Underway) = Len(parts)
      <4>1. /\ Len(P!Published) = Ext(cur.chunks, Len(cur.chunks))
            /\ Ext(cur.chunks, Len(cur.chunks)) \in Nat
        BY <2>0, PublishedIs
      <4>2. Len(P!Underway) = Len(parts) - Ext(cur.chunks, Len(cur.chunks)) /\ Len(parts) \in Nat
        BY <2>0, <3>2, UnderwayIs
      <4> QED BY <4>1, <4>2
    <3>4. Data(n) = [i \in 1..n |-> <<"live", cur.seq, Len(parts) + i>>]
      BY <2>0 DEF Data
    <3>5. Data(n) \in P!NextChunks
      BY <3>1, <3>3, <3>4, Zenon DEF P!NextChunks, P!cur, cur
    <3> DEFINE raw == Data(n)
    <3>6. submitChunk(cur.seq, Len(cur.chunks) + Len(pending), raw)
      BY <2>0, <3>1, <3>2 DEF submit
    <3> HIDE DEF raw
    <3>7. raw \in P!NextChunks
      BY <3>5 DEF raw
    <3>8. CASE Compress
      <4>1. /\ Len(pending) < PendingChunks
            /\ pending' = Append(pending, [seq |-> cur.seq, idx |-> Len(cur.chunks) + Len(pending),
                                           raw |-> raw])
            /\ UNCHANGED bVars
        BY <3>6, <3>8 DEF submitChunk
      <4>2. P!Submit
        BY <2>0, <3>7, <4>1
           DEF P!Submit, P!OpenFlow, P!complete, P!cur, P!NoMsg, OpenFlow, complete, cur, NoMsg,
               P!bVars, bVars
      <4> QED BY <4>2 DEF P!Next
    <3>9. CASE ~Compress
      <4>1. pending = <<>>
        BY <3>9 DEF CutInv
      <4>2. /\ chunk(RawChunk(cur.seq, Len(cur.chunks) + Len(pending), raw))
            /\ UNCHANGED pending
        BY <3>6, <3>9 DEF submitChunk
      <4>3. P!Submit
        BY <2>0, <3>7, <4>1, <4>2
           DEF P!Submit, P!flush, P!OpenFlow, P!complete, P!cur, P!NoMsg, OpenFlow, complete, cur, NoMsg,
               P!chunk, chunk, P!Panic, Panic, P!wakeLocked, wakeLocked,
               P!RawChunk, RawChunk, P!AppendChunk, AppendChunk
      <4> QED BY <4>3 DEF P!Next
    <3> QED BY <3>8, <3>9
  <2> QED BY <2>2, <2>3
<1>10. CASE End
  <2>0. OpenFlow /\ ~ended /\ em.seq = cur.seq /\ pc = "end" /\ pending = <<>> /\ UNCHANGED pending
    BY <1>1, <1>10 DEF FlowInv, End, flush
  <2>1. CASE UNCHANGED bVars
    BY <1>2, <2>0, <2>1
  <2>2. CASE end(AppendEnd(em.seq, chunkIdx, Len(parts), Len(flows), Sum64(parts)))
    <3>1. /\ chunkIdx = Len(cur.chunks) + Len(pending)
          /\ PendExt(cur.chunks, pending, Len(pending)) = Len(parts)
          /\ parts = Units("live", cur.seq, 0, Len(parts))
      BY <2>0 DEF ChainInv
    <3>2. Len(pending) = 0 /\ Len(cur.chunks) \in Nat
      <4>1. cur \in Flow
        BY <1>1, <2>0 DEF OpenFlow, cur, BroadcasterTypeOK
      <4> QED BY <2>0, <4>1 DEF Flow
    <3>3. chunkIdx = Len(cur.chunks) /\ Ext(cur.chunks, Len(cur.chunks)) = Len(parts)
      BY <3>1, <3>2 DEF PendExt
    <3>4. P!Published = parts
      BY <2>0, <3>1, <3>3, PublishedIs
    <3> DEFINE m == AppendEnd(cur.seq, Len(cur.chunks), Len(P!Published), Len(flows), Sum64(P!Published))
    <3>5. end(m)
      BY <2>0, <2>2, <3>3, <3>4
    <3>6. m = P!AppendEnd(P!cur.seq, Len(P!cur.chunks), Len(P!Published), Len(flows), P!Sum64(P!Published))
      BY DEF P!AppendEnd, AppendEnd, P!Sum64, Sum64, P!cur, cur
    <3> HIDE DEF m
    <3>7. P!End
      <4>1. P!end(m)
        BY <3>5 DEF P!end, end, P!OpenFlow, P!complete, P!cur, P!NoMsg, OpenFlow, complete, cur, NoMsg,
                    P!Panic, Panic, P!wakeLocked, wakeLocked
      <4>2. ~ended /\ P!OpenFlow /\ P!flush /\ UNCHANGED pending
        BY <2>0 DEF P!OpenFlow, P!complete, P!cur, P!NoMsg, OpenFlow, complete, cur, NoMsg, P!flush
      <4> QED BY <3>6, <4>1, <4>2, Zenon DEF P!End
    <3> QED BY <3>7 DEF P!Next
  <2> QED BY <1>10, <2>1, <2>2 DEF End
<1> QED BY <1>3, <1>4, <1>5, <1>6, <1>7, <1>8, <1>9, <1>10 DEF SourceNext

\* The loop with the queue publishes every flow as PublishInOrder says.
THEOREM SourcePublishesInOrder == SourceSpec => SourceImplementsPublishInOrder
<1>1. SourceInit => P!Init
  BY DEF SourceInit, P!Init, P!newBroadcaster, newBroadcaster
<1>2. SourceInit => SourceInv /\ EndMatchesChunks /\ CutInv /\ ChainInv
  BY InvInit DEF SourceInit, newBroadcaster, EndMatchesChunks, CutInv, ChainInv
<1>3. SourceInv /\ EndMatchesChunks /\ CutInv /\ ChainInv /\ [SourceNext \/ Terminated]_sourceVars
        => (SourceInv /\ EndMatchesChunks /\ CutInv /\ ChainInv)'
  BY InvStep, CutStep, ChainStep DEF Terminated
<1>4. SourceInv /\ EndMatchesChunks /\ CutInv /\ ChainInv /\ [SourceNext \/ Terminated]_sourceVars
        => [P!Next]_(P!vars)
  BY StepPublishes
<1> QED BY <1>1, <1>2, <1>3, <1>4, PTL DEF SourceSpec, SourceImplementsPublishInOrder, P!Spec
=============================================================================
