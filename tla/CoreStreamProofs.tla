-------------------------- MODULE CoreStreamProofs --------------------------
(***************************************************************************)
(* Proofs about the composed stream, for every number of subscribers and   *)
(* every value of the constants: that no wakeup is lost, that what a       *)
(* consumer is given, and told when its iteration ends, is true, and that  *)
(* the whole implements LedgerStream.                                      *)
(***************************************************************************)
EXTENDS CoreStream, SourceLoopProofs, FiniteSetTheorems

\* The flows are consecutive, and only the last one may have wrapped to 0.
FlowsDense ==
    \A i \in 1..Len(flows) - 1 : flows[i].seq # 0 /\ flows[i + 1].seq = Succ(flows[i].seq)

\* No file is newer than the index says.
DiskIn == \A q \in DOMAIN disk : ring.filled /\ q <= ring.latest

\* What the source loop alone guarantees, in the composition.
SourceSide == SourceInv /\ EndMatchesChunks /\ CutInv /\ FlowsDense /\ DiskIn

-----------------------------------------------------------------------------
\* Every step of the composition is a step of Run, or leaves its state alone.
LEMMA NextIsSource == [Next]_vars => [SourceNext]_sourceVars
<1> QED BY DEF Next, Source, Connect, ServeStep, WriteStep, GoneStep, ClientStep, ClientCancels,
         NetworkDrops, AllDone, vars

\* Flows only grow: one already complete is never touched again, the last one
\* may gain chunks or its END, and whoever changed them woke the watchers.
LEMMA FlowGrowth ==
    ASSUME SourceInv, [SourceNext]_sourceVars
    PROVE  /\ Len(flows') \in Nat /\ Len(flows') >= Len(flows)
           /\ \A i \in 1..Len(flows) :
                /\ flows'[i].seq = flows[i].seq /\ flows'[i].begin = flows[i].begin
                /\ Len(flows'[i].chunks) >= Len(flows[i].chunks)
                /\ \A k \in 1..Len(flows[i].chunks) : flows'[i].chunks[k] = flows[i].chunks[k]
                /\ complete(flows[i]) => flows'[i] = flows[i]
           /\ (UNCHANGED <<flows, notify>>) \/ notify' = notify + 1
<1>0. /\ SourceTypeOK /\ FlowInv /\ BroadcasterTypeOK /\ Len(flows) \in Nat /\ flows \in Seq(Flow)
      /\ \A i \in 1..Len(flows) : flows[i] \in Flow /\ Len(flows[i].chunks) \in Nat
  <2>1. SourceTypeOK /\ FlowInv /\ BroadcasterTypeOK /\ Len(flows) \in Nat /\ flows \in Seq(Flow)
    BY DEF SourceInv, SourceTypeOK, BroadcasterTypeOK
  <2>2. \A i \in 1..Len(flows) : flows[i] \in Flow
    BY <2>1
  <2>3. \A f \in Flow : Len(f.chunks) \in Nat
    BY DEF Flow
  <2> QED BY <2>1, <2>2, <2>3
<1>1. CASE UNCHANGED <<flows, notify>>
  <2>1. flows' = flows
    BY <1>1
  <2>2. \A i \in 1..Len(flows) : flows'[i] = flows[i] /\ Len(flows[i].chunks) >= Len(flows[i].chunks)
    BY <1>0, <2>1
  <2> QED BY <1>0, <1>1, <2>1, <2>2
<1>2. ASSUME OpenFlow, ~ended, NEW m \in ChunkMsg, chunk(m)
      PROVE  /\ Len(flows') = Len(flows) /\ notify' = notify + 1
             /\ \A i \in 1..Len(flows) :
                  /\ flows'[i].seq = flows[i].seq /\ flows'[i].begin = flows[i].begin
                  /\ Len(flows'[i].chunks) >= Len(flows[i].chunks)
                  /\ \A k \in 1..Len(flows[i].chunks) : flows'[i].chunks[k] = flows[i].chunks[k]
                  /\ complete(flows[i]) => flows'[i] = flows[i]
  <2>1. /\ Len(flows') = Len(flows) /\ notify' = notify + 1
        /\ \A i \in 1..Len(flows) - 1 : flows'[i] = flows[i]
        /\ cur'.seq = cur.seq /\ cur'.begin = cur.begin
        /\ cur \in Flow /\ cur'.chunks = Append(cur.chunks, m)
    BY <1>0, <1>2, ChunkEffect
  <2>2. cur' = flows'[Len(flows)] /\ cur = flows[Len(flows)] /\ ~complete(cur)
    BY <1>2, <2>1 DEF cur, OpenFlow
  <2>3. cur.chunks \in Seq(ChunkMsg)
    BY <2>1 DEF Flow
  <2>4. /\ Len(cur'.chunks) >= Len(cur.chunks)
        /\ \A k \in 1..Len(cur.chunks) : cur'.chunks[k] = cur.chunks[k]
    BY <1>2, <2>1, <2>3
  <2>5. \A i \in 1..Len(flows) : i \in 1..Len(flows) - 1 \/ i = Len(flows)
    BY <1>0
  <2>6. ASSUME NEW i \in 1..Len(flows)
        PROVE  /\ flows'[i].seq = flows[i].seq /\ flows'[i].begin = flows[i].begin
               /\ Len(flows'[i].chunks) >= Len(flows[i].chunks)
               /\ \A k \in 1..Len(flows[i].chunks) : flows'[i].chunks[k] = flows[i].chunks[k]
               /\ complete(flows[i]) => flows'[i] = flows[i]
    <3>1. CASE i = Len(flows)
      BY <2>1, <2>2, <2>4, <3>1
    <3>2. CASE i \in 1..Len(flows) - 1
      <4>1. flows'[i] = flows[i] /\ Len(flows[i].chunks) \in Nat
        BY <1>0, <2>1, <3>2
      <4>2. Len(flows[i].chunks) >= Len(flows[i].chunks)
        BY <4>1
      <4> QED BY <4>1, <4>2, Zenon
    <3> QED BY <2>5, <3>1, <3>2
  <2> QED BY <2>1, <2>6
<1>3. CASE Read
  <2>1. PICK n \in 0..ChunkSize : (n = 0 /\ UNCHANGED bVars) \/ submit(Data(n))
    BY <1>3 DEF Read
  <2>2. CASE UNCHANGED bVars
    BY <1>1, <2>2 DEF bVars
  <2>3. CASE submit(Data(n)) /\ Compress
    BY <1>1, <2>3 DEF submit, submitChunk, bVars
  <2>4. CASE submit(Data(n)) /\ ~Compress
    <3>1. chunk(RawChunk(em.seq, chunkIdx, Data(n)))
      BY <2>4 DEF submit, submitChunk
    <3>2. n \in Nat
      BY WireAssumption
    <3>3. RawChunk(em.seq, chunkIdx, Data(n)) \in ChunkMsg
      BY <1>0, <3>2, DataType, ChunkTypes DEF SourceTypeOK
    <3>4. ~ended /\ OpenFlow
      BY <1>0, <1>3 DEF Read, FlowInv
    <3> QED BY <1>0, <1>2, <3>1, <3>3, <3>4
  <2> QED BY <2>1, <2>2, <2>3, <2>4
<1>4. CASE Publish
  <2>1. pending # <<>> /\ pending \in Seq(Job)
    BY <1>0, <1>4 DEF Publish, publishNext, SourceTypeOK
  <2>2. Head(pending) \in Job
    BY <2>1
  <2>3. PICK m \in ChunkMsg : chunk(m)
    BY <1>4, <2>2, ChunkTypes DEF Publish, publishNext, Job
  <2>4. OpenFlow /\ ~ended
    BY <1>0, <2>1 DEF FlowInv
  <2> QED BY <1>0, <1>2, <2>3, <2>4
<1>5. CASE End
  <2>1. CASE SizeMismatch
    BY <1>1, <1>5, <2>1 DEF End, bVars
  <2>2. CASE ~SizeMismatch
    <3> DEFINE m == AppendEnd(em.seq, chunkIdx, Len(parts), Len(flows), Sum64(parts))
    <3>1. m \in EndMsg
      BY <1>0 DEF AppendEnd, EndMsg, Sum64, SourceTypeOK, BroadcasterTypeOK, Body
    <3>2. end(m) /\ ~ended /\ OpenFlow
      BY <1>0, <1>5, <2>2 DEF End, FlowInv
    <3> HIDE DEF m
    <3>3. /\ Len(flows') = Len(flows) /\ notify' = notify + 1
          /\ \A i \in 1..Len(flows) - 1 : flows'[i] = flows[i]
          /\ cur'.seq = cur.seq /\ cur'.begin = cur.begin /\ cur'.chunks = cur.chunks
      BY <1>0, <3>1, <3>2, EndEffect
    <3>4. cur' = flows'[Len(flows)] /\ cur = flows[Len(flows)] /\ ~complete(cur)
      BY <3>2, <3>3 DEF cur, OpenFlow
    <3>5. \A i \in 1..Len(flows) : i \in 1..Len(flows) - 1 \/ i = Len(flows)
      BY <1>0
    <3> QED BY <1>0, <3>3, <3>4, <3>5, SMTT(20)
  <2> QED BY <2>1, <2>2
<1>6. CASE Begin
  <2>1. PICK seq \in Emitted : begin(seq, AppendBegin(seq, Len(flows) + 1))
    BY <1>6 DEF Begin
  <2>2. seq \in Seqs /\ ~ended /\ ~OpenFlow
    BY <1>0, <1>6, SourceAssumption DEF Emitted, Begin, FlowInv
  <2>3. AppendBegin(seq, Len(flows) + 1) \in BeginMsg
    BY <1>0, <2>2 DEF AppendBegin, BeginMsg
  <2>4. Len(flows') = Len(flows) + 1 /\ notify' = notify + 1
        /\ \A i \in 1..Len(flows) : flows'[i] = flows[i]
    BY <1>0, <2>1, <2>2, <2>3, BeginEffect
  <2> QED BY <1>0, <2>4
<1>7. SourceStops \/ Refuse \/ ReadPastCap \/ CallPut \/ PutStep \/ ReturnPut \/ Finish => UNCHANGED <<flows, notify>>
  BY DEF SourceStops, Refuse, ReadPastCap, CallPut, PutStep, ReturnPut, Finish, finish, bVars
<1>8. UNCHANGED sourceVars => UNCHANGED <<flows, notify>>
  BY DEF sourceVars, bVars
<1> QED BY <1>1, <1>3, <1>4, <1>5, <1>6, <1>7, <1>8 DEF SourceNext

\* Outside a put, the ring does not change.
LEMMA RingFrame ==
    ASSUME [SourceNext]_sourceVars, pc # "put"
    PROVE  UNCHANGED storeVars
BY DEF SourceNext, SourceStops, Refuse, Begin, Read, ReadPastCap, Publish, End, CallPut, PutStep,
   ReturnPut, Finish, sourceVars

\* The files stay within the index: the index moves with the newest file, and
\* is forgotten only when the last file is unlinked.
LEMMA DiskInStep ==
    ASSUME SourceInv, DiskIn, [SourceNext]_sourceVars
    PROVE  DiskIn'
<1>0. /\ SourceTypeOK /\ StoreTypeOK /\ PutInv /\ DOMAIN disk \subseteq Seqs
      /\ ring.latest \in Seqs /\ put.seq \in Seqs /\ put.at \in Seqs
  BY DEF SourceInv, SourceTypeOK, StoreTypeOK
<1>1. CASE UNCHANGED <<disk, ring>>
  BY <1>1 DEF DiskIn
<1>2. CASE clearLocked
  <2>1. disk' = [x \in DOMAIN disk \ {put.at} |-> disk[x]] /\ put.pc = "clear"
    BY <1>2 DEF clearLocked, Remove
  <2>2. CASE put.at = ring.latest
    <3>1. DOMAIN disk = put.at..ring.latest
      BY <1>0, <2>1 DEF PutInv
    <3>2. DOMAIN disk' = {}
      BY <1>0, <2>1, <2>2, <3>1 DEF Seqs
    <3> QED BY <3>2 DEF DiskIn
  <2>3. CASE put.at # ring.latest
    <3>1. ring' = ring /\ DOMAIN disk' \subseteq DOMAIN disk
      BY <1>2, <2>1, <2>3 DEF clearLocked
    <3> QED BY <3>1 DEF DiskIn
  <2> QED BY <2>2, <2>3
<1>3. CASE rename
  <2>1. /\ DOMAIN disk' = DOMAIN disk \cup {put.seq} /\ ring'.filled /\ ring'.latest = put.seq
        /\ put.pc = "rename"
    BY <1>3, Zenon DEF rename
  <2>2. ring.filled => put.seq = ring.latest + 1
    BY <1>0, <2>1, SuccFacts DEF PutInv, Continues
  <2> QED BY <1>0, <2>1, <2>2 DEF DiskIn, Seqs
<1>4. CASE pruneLocked
  <2>1. CASE ring.filled /\ RingSize > Retention
    <3>1. /\ disk' = [x \in DOMAIN disk \ {ring.oldest} |-> disk[x]]
          /\ ring' = [ring EXCEPT !.oldest = Succ(@)]
      BY <1>4, <2>1 DEF pruneLocked, Remove
    <3>2. DOMAIN disk' \subseteq DOMAIN disk
      BY <3>1
    <3>3. ring'.latest = ring.latest /\ ring'.filled = ring.filled
      BY <1>0, <3>1 DEF StoreTypeOK
    <3> QED BY <2>1, <3>2, <3>3 DEF DiskIn
  <2>2. CASE ~(ring.filled /\ RingSize > Retention)
    BY <1>1, <1>4, <2>2 DEF pruneLocked
  <2> QED BY <2>1, <2>2
<1>5. write \/ Fail => UNCHANGED <<disk, ring>>
  BY DEF write, Fail
<1>6. SourceStops \/ Refuse \/ Begin \/ Read \/ ReadPastCap \/ Publish \/ End \/ CallPut \/ ReturnPut \/ Finish
        => UNCHANGED <<disk, ring>>
  BY DEF SourceStops, Refuse, Begin, Read, ReadPastCap, Publish, End, CallPut, PutParts, ReturnPut,
     PutReturned, Finish, storeVars
<1>7. UNCHANGED sourceVars => UNCHANGED <<disk, ring>>
  BY DEF sourceVars, storeVars
<1> QED BY <1>1, <1>2, <1>3, <1>4, <1>5, <1>6, <1>7 DEF SourceNext, PutStep, StoreStep

\* Each BEGIN follows the flow before it.
LEMMA DenseStep ==
    ASSUME SourceInv, FlowsDense, [SourceNext]_sourceVars
    PROVE  FlowsDense'
<1>0. /\ SourceTypeOK /\ FlowInv /\ HandOver /\ BroadcasterTypeOK /\ Len(flows) \in Nat
  BY DEF SourceInv, SourceTypeOK, BroadcasterTypeOK
<1>1. CASE Begin
  <2>1. PICK seq \in Emitted : Dense(seq) /\ begin(seq, AppendBegin(seq, Len(flows) + 1))
    BY <1>1 DEF Begin
  <2>2. seq \in Seqs /\ ~ended /\ ~OpenFlow /\ pc = "pull"
    BY <1>0, <1>1, SourceAssumption DEF Emitted, Begin, FlowInv
  <2>3. AppendBegin(seq, Len(flows) + 1) \in BeginMsg
    BY <1>0, <2>2 DEF AppendBegin, BeginMsg
  <2>4. Len(flows') = Len(flows) + 1 /\ cur'.seq = seq
        /\ \A i \in 1..Len(flows) : flows'[i] = flows[i]
    BY <1>0, <2>1, <2>2, <2>3, BeginEffect
  <2>5. flows'[Len(flows) + 1].seq = seq
    BY <2>4 DEF cur
  <2>6. Len(flows) >= 1 => flows[Len(flows)].seq # 0 /\ seq = Succ(flows[Len(flows)].seq)
    <3>1. Len(flows) >= 1 => flows # <<>>
      OBVIOUS
    <3> QED BY <1>0, <2>1, <2>2, <3>1 DEF HandOver, Dense, cur
  <2>7. ASSUME NEW i \in 1..Len(flows') - 1
        PROVE  flows'[i].seq # 0 /\ flows'[i + 1].seq = Succ(flows'[i].seq)
    <3>1. CASE i = Len(flows)
      BY <1>0, <2>4, <2>5, <2>6, <3>1
    <3>2. CASE i # Len(flows)
      <4>1. i \in 1..Len(flows) - 1 /\ i \in 1..Len(flows) /\ i + 1 \in 1..Len(flows)
        BY <1>0, <2>4, <3>2
      <4> QED BY <2>4, <4>1 DEF FlowsDense
    <3> QED BY <3>1, <3>2
  <2> QED BY <2>7 DEF FlowsDense
<1>2. CASE ~Begin
  <2>1. Len(flows') = Len(flows) /\ \A i \in 1..Len(flows) - 1 : flows'[i] = flows[i]
    BY <1>0, <1>2, FlowFrame
  <2>2. \A i \in 1..Len(flows) : flows'[i].seq = flows[i].seq
    BY FlowGrowth
  <2>3. \A i \in 1..Len(flows) - 1 : i \in 1..Len(flows) /\ i + 1 \in 1..Len(flows)
    BY <1>0
  <2> QED BY <2>1, <2>2, <2>3 DEF FlowsDense
<1> QED BY <1>1, <1>2

\* The source loop's invariants survive the composition: subscribers and
\* clients only read what it publishes (server.go:188).
LEMMA SourceSideStep == SourceSide /\ [Next]_vars => SourceSide'
<1> SUFFICES ASSUME SourceSide, [Next]_vars PROVE SourceSide'
  OBVIOUS
<1>1. [SourceNext]_sourceVars /\ [SourceNext \/ Terminated]_sourceVars
  BY NextIsSource
<1> QED BY <1>1, InvStep, CutStep, DiskInStep, DenseStep DEF SourceSide

-----------------------------------------------------------------------------
\* The types of a subscription's local state.

CloseFrame == [type : {"close"}, code : Nat, oldest : Seqs, latest : Seqs]
Msg == BeginMsg \cup ChunkMsg \cup EndMsg \cup CloseFrame
SubPc == {"off", "anchor", "watch", "sleep", "bounds", "get", "read", "reason", "write", "closed", "gone"}
SubState == [pc : SubPc, start : Seqs, end : Seqs, next : Nat, f : Nat, begun : BOOLEAN, sent : Nat,
             changed : Nat, ended : BOOLEAN, out : Seq(Msg)]

SubTypeOK == sub \in [Subs -> SubState]

\* The ways serve makes its next local state from the last one.
LEMMA SubOps ==
    ASSUME NEW x \in SubState
    PROVE  /\ \A p \in SubPc : [x EXCEPT !.pc = p] \in SubState
           /\ \A n \in Nat : [x EXCEPT !.next = n] \in SubState
           /\ Served(x) \in SubState
           /\ LeaveFlow(x) \in SubState
           /\ Again(x) \in SubState
           /\ \A msgs \in Seq(Msg) : Write(x, msgs) \in SubState
           /\ \A f, sent \in Nat :
                [x EXCEPT !.f = f, !.begun = TRUE, !.sent = sent] \in SubState
           /\ \A n, c \in Nat, e \in BOOLEAN :
                [x EXCEPT !.next = n, !.changed = c, !.ended = e] \in SubState
<1>1. /\ \A p \in SubPc : [x EXCEPT !.pc = p] \in SubState
      /\ \A n \in Nat : [x EXCEPT !.next = n] \in SubState
      /\ Served(x) \in SubState
  BY DEF SubState, Served
<1>2. LeaveFlow(x) \in SubState /\ Again(x) \in SubState
  <2>1. LeaveFlow(x) \in SubState
    BY DEF SubState, LeaveFlow
  <2>2. Again(x) \in SubState
    <3>1. <<>> \in Seq(Msg) /\ "watch" \in SubPc /\ 0 \in Nat /\ FALSE \in BOOLEAN
      BY DEF SubPc
    <3>2. \A p \in SubPc, o \in Seq(Msg), c \in Nat, e \in BOOLEAN :
            [x EXCEPT !.pc = p, !.out = o, !.changed = c, !.ended = e] \in SubState
      BY DEF SubState
    <3> QED BY <3>1, <3>2, Zenon DEF Again
  <2> QED BY <2>1, <2>2
<1>3. \A msgs \in Seq(Msg) : Write(x, msgs) \in SubState
  BY DEF SubState, Write, SubPc
<1>4. \A f, sent \in Nat : [x EXCEPT !.f = f, !.begun = TRUE, !.sent = sent] \in SubState
  BY DEF SubState
<1>5. \A n, c \in Nat, e \in BOOLEAN :
        [x EXCEPT !.next = n, !.changed = c, !.ended = e] \in SubState
  BY DEF SubState
<1> QED BY <1>1, <1>2, <1>3, <1>4, <1>5

\* A close frame is a message, and what Idle makes of a state is a state.
LEMMA CloseTypes ==
    ASSUME NEW x \in SubState
    PROVE  /\ \A code \in Nat, o \in Seqs, l \in Seqs : Close(x, code, o, l) \in SubState
           /\ Idle(x) \in SubState
<1>1. ASSUME NEW code \in Nat, NEW o \in Seqs, NEW l \in Seqs PROVE Close(x, code, o, l) \in SubState
  <2>1. CloseMsg(code, o, l) \in Msg
    BY DEF CloseMsg, CloseFrame, Msg
  <2>2. <<CloseMsg(code, o, l)>> \in Seq(Msg)
    BY <2>1
  <2> QED BY <2>2, SubOps DEF Close
<1>2. Idle(x) \in SubState
  <2>1. 0 \in Seqs
    BY WireAssumption DEF Seqs
  <2>2. (IF srcErr THEN InternalError ELSE endedClose(x)) \in Nat
    BY DEF InternalError, endedClose, GoingAway, NormalClosure
  <2>3. [x EXCEPT !.pc = "sleep"] \in SubState
    BY SubOps DEF SubPc
  <2> QED BY <1>1, <2>1, <2>2, <2>3 DEF Idle
<1> QED BY <1>1, <1>2

\* What serve writes of a flow are messages.
LEMMA FlowMsgs ==
    ASSUME BroadcasterTypeOK, flows # <<>>
    PROVE  /\ cur \in Flow /\ cur = flows[Len(flows)]
           /\ snapComplete => StamplessFlow(cur) \in Seq(Msg)
           /\ \A x \in SubState : Unsent(x) \in Seq(Msg)
<1>1. cur \in Flow /\ cur = flows[Len(flows)]
  BY DEF BroadcasterTypeOK, cur
<1>2. /\ cur.begin \in Msg /\ cur.chunks \in Seq(Msg)
      /\ snapComplete => cur.end \in EndMsg /\ cur.end \in Msg
      /\ cur.seq \in Seqs
  BY <1>1 DEF Flow, Msg, snapComplete, complete
<1>3. ASSUME snapComplete PROVE StamplessFlow(cur) \in Seq(Msg)
  <2>1. AppendBegin(cur.seq, 0) \in Msg
    BY <1>2 DEF AppendBegin, BeginMsg, Msg
  <2>2. AppendEnd(cur.seq, cur.end.count, cur.end.total, 0, cur.end.sum) \in Msg
    BY <1>2, <1>3 DEF AppendEnd, EndMsg, Msg
  <2> QED BY <1>2, <2>1, <2>2 DEF StamplessFlow
<1>4. ASSUME NEW x \in SubState PROVE Unsent(x) \in Seq(Msg)
  <2>1. (IF Fresh(x) THEN <<cur.begin>> ELSE <<>>) \in Seq(Msg)
    BY <1>2
  <2>2. (IF snapComplete THEN <<cur.end>> ELSE <<>>) \in Seq(Msg)
    BY <1>2
  <2>3. \A a \in Nat \ {0} : SubSeq(cur.chunks, a, Len(cur.chunks)) \in Seq(Msg)
    BY <1>2
  <2>4. (IF Fresh(x) THEN 1 ELSE x.sent + 1) \in Nat \ {0}
    BY DEF SubState
  <2>5. SubSeq(cur.chunks, IF Fresh(x) THEN 1 ELSE x.sent + 1, Len(cur.chunks)) \in Seq(Msg)
    BY <2>3, <2>4
  <2> QED BY <2>1, <2>2, <2>5 DEF Unsent
<1> QED BY <1>1, <1>3, <1>4

\* And so are those it writes of a stored ledger.
LEMMA RingMsgs ==
    ASSUME NEW q \in Seqs, NEW raw \in Body
    PROVE  RingFlow(q, raw) \in Seq(Msg)
<1>1. Len(raw) \in Nat /\ ChunkSize \in Nat /\ ChunkSize > 0
  BY WireAssumption DEF Body
<1>2. Pieces(raw) \in Nat
  BY <1>1 DEF Pieces
<1>3. ASSUME NEW i \in 1..Pieces(raw) PROVE encodeChunk(q, i - 1, Piece(raw, i)) \in Msg
  <2>1. Piece(raw, i) \in Body /\ i - 1 \in Nat
    <3>1. (i - 1) * ChunkSize + 1 \in Nat \ {0} /\ i * ChunkSize \in Nat
      <4>1. i \in Nat /\ i - 1 \in Nat
        BY <1>2
      <4> QED BY <1>1, <4>1, MulMono
    <3>2. \A a \in Nat \ {0}, b \in Nat : b <= Len(raw) => SubSeq(raw, a, b) \in Body
      BY DEF Body
    <3>3. (IF i * ChunkSize < Len(raw) THEN i * ChunkSize ELSE Len(raw)) \in Nat
          /\ (IF i * ChunkSize < Len(raw) THEN i * ChunkSize ELSE Len(raw)) <= Len(raw)
      BY <1>1, <3>1
    <3> QED BY <1>2, <3>1, <3>2, <3>3 DEF Piece
  <2> QED BY <2>1, ChunkTypes DEF encodeChunk, Msg
<1>4. [i \in 1..Pieces(raw) |-> encodeChunk(q, i - 1, Piece(raw, i))] \in Seq(Msg)
  <2> DEFINE s == [i \in 1..Pieces(raw) |-> encodeChunk(q, i - 1, Piece(raw, i))]
  <2>1. s \in [1..Pieces(raw) -> Msg]
    BY <1>3
  <2> QED BY <1>2, <2>1
<1>5. AppendBegin(q, 0) \in Msg
  BY DEF AppendBegin, BeginMsg, Msg
<1>6. AppendEnd(q, Pieces(raw), Len(raw), 0, Sum64(raw)) \in Msg
  BY <1>1, <1>2 DEF AppendEnd, EndMsg, Msg, Sum64
<1> QED BY <1>4, <1>5, <1>6 DEF RingFlow

-----------------------------------------------------------------------------
\* No lost wakeup.  NoLostWakeup speaks of a subscriber that sleeps; Wake adds
\* what serve knows on its way there: its place in the flow it is inside, that
\* its channel is not newer than the broadcaster's, and that one bound for the
\* ring was behind the flow when it looked.

Waits(x) ==
    \/ x.next = 0 /\ snapSeq = 0
    \/ x.next > snapSeq /\ (snapSeq = 0 => ~InBounds(x.next))
    \/ x.next < snapSeq /\ Len(flows) = 1 /\ ~Exists(x.next)
    \/ x.next = snapSeq /\ OpenFlow /\ x.begun /\ x.f = Len(flows) /\ x.sent = Len(cur.chunks)

Place(x) == x.begun => x.f \in 1..Len(flows) /\ x.sent <= Len(flows[x.f].chunks)

Wake(x) ==
    /\ Place(x)
    /\ x.changed <= notify
    /\ x.pc = "bounds" /\ ~Closed(x.changed) => x.next # 0 /\ (x.next < snapSeq \/ snapSeq = 0)
    /\ x.pc = "sleep" /\ ~Closed(x.changed) => Waits(x)

WakeInv == \A s \in Subs : Wake(sub[s])

\* The sequence a watch sees is a sequence.
LEMMA SnapType ==
    ASSUME BroadcasterTypeOK
    PROVE  /\ snapSeq \in Seqs /\ snapSeq \in Nat
           /\ snapSeq # 0 => flows # <<>> /\ snapSeq = cur.seq
<1>1. flows # <<>> => cur \in Flow
  BY DEF BroadcasterTypeOK, cur
<1>2. Seqs \subseteq Nat /\ 0 \in Seqs
  BY WireAssumption DEF Seqs
<1> QED BY <1>1, <1>2 DEF snapSeq, Flow

\* The broadcaster, once finished, stays finished.
LEMMA EndedStays ==
    ASSUME SourceInv, [SourceNext]_sourceVars, ended
    PROVE  ended'
<1>1. pc = "done"
  BY DEF SourceInv, FlowInv
<1>2. UNCHANGED ended
  <2>1. pending = <<>>
    BY <1>1 DEF SourceInv, FlowInv
  <2> QED BY <1>1, <2>1 DEF SourceNext, SourceStops, Refuse, Begin, Read, ReadPastCap, Publish, publishNext,
               End, CallPut, PutStep, ReturnPut, Finish, sourceVars, bVars
<1> QED BY <1>2, Zenon

\* The only file a step adds is the current flow's.
LEMMA NewFile ==
    ASSUME SourceInv, [SourceNext]_sourceVars, NEW q \in DOMAIN disk', q \notin DOMAIN disk
    PROVE  flows # <<>> /\ q = snapSeq
<1>1. PutInv /\ FlowInv
  BY DEF SourceInv
<1>2. pc = "put"
  <2>1. CASE pc # "put"
    BY <2>1, RingFrame DEF storeVars
  <2> QED BY <2>1
<1>3. PutStep
  <2>1. ~UNCHANGED sourceVars
    BY DEF sourceVars, storeVars
  <2> QED BY <1>2, <2>1 DEF SourceNext, SourceStops, Refuse, Begin, Read, ReadPastCap, Publish, End,
               CallPut, PutParts, ReturnPut, PutReturned, Finish, storeVars
<1>4. rename
  BY <1>3 DEF PutStep, StoreStep, clearLocked, write, pruneLocked, Fail, Remove
<1>5. put.pc = "rename" /\ DOMAIN disk' = DOMAIN disk \cup {put.seq}
  BY <1>4 DEF rename
<1>6. put.seq = em.seq
  BY <1>1, <1>5 DEF PutInv
<1> QED BY <1>1, <1>2, <1>5, <1>6 DEF FlowInv, snapSeq

\* Ledger 0 is refused by the ring, so under it, or under no flow, the ring stays.
LEMMA ZeroStores ==
    ASSUME SourceInv, [SourceNext]_sourceVars, snapSeq = 0
    PROVE  ring' = ring
<1>1. PutInv /\ FlowInv
  BY DEF SourceInv
<1>2. CASE pc # "put"
  BY <1>2, RingFrame DEF storeVars
<1>3. CASE pc = "put"
  <2>1. em.seq = 0
    BY <1>1, <1>3 DEF FlowInv, snapSeq
  <2>2. put.pc \in {"clear", "write", "rename", "prune"} => FALSE
    BY <1>1, <2>1 DEF PutInv, Continues
  <2>3. CASE PutStep
    BY <2>2, <2>3 DEF PutStep, StoreStep, clearLocked, write, rename, pruneLocked, Fail
  <2>4. CASE UNCHANGED sourceVars
    BY <2>4 DEF sourceVars, storeVars
  <2> QED BY <1>3, <2>3, <2>4 DEF SourceNext, SourceStops, Refuse, Begin, Read, ReadPastCap, Publish, End,
               CallPut, PutParts, ReturnPut, PutReturned, Finish, storeVars
<1> QED BY <1>2, <1>3

\* A step of Run either closes the channel a subscriber sleeps on, or changes
\* nothing that it waits for: a put alone never brings it its ledger.
LEMMA SourceWake ==
    ASSUME SourceSide, [SourceNext]_sourceVars, NEW x \in SubState, Wake(x)
    PROVE  Wake(x)'
<1>0. /\ SourceInv /\ SourceTypeOK /\ BroadcasterTypeOK /\ FlowInv /\ PutInv /\ DiskIn
      /\ Len(flows) \in Nat /\ notify \in Nat
      /\ x.changed \in Nat /\ x.next \in Nat /\ x.sent \in Nat /\ x.f \in Nat
  BY DEF SourceSide, SourceInv, SourceTypeOK, BroadcasterTypeOK, SubState
<1>1. /\ Len(flows') \in Nat /\ Len(flows') >= Len(flows)
      /\ \A i \in 1..Len(flows) : Len(flows'[i].chunks) >= Len(flows[i].chunks)
      /\ (UNCHANGED <<flows, notify>>) \/ notify' = notify + 1
  BY <1>0, FlowGrowth
<1>2. Place(x)'
  <2> SUFFICES ASSUME x.begun PROVE x.f \in 1..Len(flows') /\ x.sent <= Len(flows'[x.f].chunks)
    BY DEF Place
  <2>1. x.f \in 1..Len(flows) /\ x.sent <= Len(flows[x.f].chunks)
    BY DEF Wake, Place
  <2>2. Len(flows[x.f].chunks) \in Nat /\ Len(flows'[x.f].chunks) \in Nat
    <3>1. flows \in Seq(Flow) /\ flows' \in Seq(Flow)
      <4>1. SourceTypeOK'
        BY <1>0, TypeStep
      <4> QED BY <1>0, <4>1 DEF SourceTypeOK, BroadcasterTypeOK
    <3>2. flows[x.f] \in Flow /\ flows'[x.f] \in Flow
      BY <1>0, <1>1, <2>1, <3>1
    <3> QED BY <3>2 DEF Flow
  <2> QED BY <1>0, <1>1, <2>1, <2>2, SMTT(20)
<1>3. x.changed <= notify'
  BY <1>0, <1>1 DEF Wake
<1>4. CASE notify' = notify + 1
  <2>1. Closed(x.changed)'
    BY <1>0, <1>4 DEF Wake, Closed
  <2> QED BY <1>2, <1>3, <2>1 DEF Wake
<1>5. CASE UNCHANGED <<flows, notify>>
  <2>1. Closed(x.changed) => Closed(x.changed)'
    <3>1. ended => ended'
      BY <1>0, EndedStays
    <3>2. x.changed # notify => x.changed # notify'
      BY <1>5
    <3> QED BY <3>1, <3>2, Zenon DEF Closed
  <2>2. snapSeq' = snapSeq /\ OpenFlow' = OpenFlow /\ cur' = cur
    BY <1>5 DEF snapSeq, OpenFlow, cur, complete
  <2>3. x.next < snapSeq /\ Len(flows) = 1 /\ ~Exists(x.next) => ~Exists(x.next)'
    <3> SUFFICES ASSUME x.next < snapSeq, x.next \notin DOMAIN disk, x.next \in DOMAIN disk' PROVE FALSE
      BY DEF Exists
    <3>1. x.next = snapSeq
      BY <1>0, NewFile
    <3> QED BY <1>0, <3>1
  <2>4. snapSeq = 0 /\ ~InBounds(x.next) => ~InBounds(x.next)'
    BY <1>0, <2>2, ZeroStores DEF InBounds
  <2>5. Waits(x) => Waits(x)'
    BY <1>5, <2>2, <2>3, <2>4 DEF Waits
  <2> QED BY <1>2, <1>3, <2>1, <2>2, <2>5 DEF Wake
<1> QED BY <1>1, <1>4, <1>5

\* The watch of an iteration: its result is typed and knows the broadcaster's
\* state at that moment.
LEMMA WatchFacts ==
    ASSUME SourceSide, SubTypeOK, WakeInv, NEW s \in Subs
    PROVE  /\ Watched(s) \in SubState
           /\ Watched(s).changed = notify
           /\ Place(Watched(s)) /\ Place(sub[s]) /\ Wake(sub[s]) /\ sub[s] \in SubState
           /\ Watched(s).begun = sub[s].begun /\ Watched(s).f = sub[s].f /\ Watched(s).sent = sub[s].sent
           /\ Watched(s).next = IF sub[s].next = 0 THEN snapSeq ELSE sub[s].next
           /\ Watched(s).pc = sub[s].pc /\ Watched(s).end = sub[s].end
<1>1. /\ BroadcasterTypeOK /\ notify \in Nat /\ ended \in BOOLEAN
  BY DEF SourceSide, SourceInv, SourceTypeOK, BroadcasterTypeOK
<1>2. sub[s] \in SubState /\ Wake(sub[s]) /\ Place(sub[s])
  BY DEF SubTypeOK, WakeInv, Wake
<1>3. (IF sub[s].next = 0 THEN snapSeq ELSE sub[s].next) \in Nat
  BY <1>1, <1>2, SnapType DEF SubState
<1>4. Watched(s) \in SubState
  BY <1>1, <1>2, <1>3, SubOps DEF Watched
<1>5. /\ Watched(s).changed = notify
      /\ Watched(s).begun = sub[s].begun /\ Watched(s).f = sub[s].f /\ Watched(s).sent = sub[s].sent
      /\ Watched(s).next = IF sub[s].next = 0 THEN snapSeq ELSE sub[s].next
      /\ Watched(s).pc = sub[s].pc /\ Watched(s).end = sub[s].end
  BY <1>2 DEF Watched, SubState
<1>6. Place(Watched(s))
  BY <1>2, <1>5 DEF Place
<1> QED BY <1>2, <1>4, <1>5, <1>6

\* A state that is neither asleep nor bound for the ring has nothing to show.
LEMMA Awake ==
    ASSUME NEW y, y.pc \notin {"sleep", "bounds"}, Place(y), y.changed <= notify
    PROVE  Wake(y)
BY DEF Wake

\* Idle sleeps only while the watch saw the stream open, else it closes.
LEMMA IdleFacts ==
    ASSUME NEW x \in SubState, notify \in Nat
    PROVE  /\ Idle(x).pc \in {"sleep", "write"}
           /\ Idle(x).begun = x.begun /\ Idle(x).f = x.f /\ Idle(x).sent = x.sent
           /\ Idle(x).next = x.next /\ Idle(x).changed = x.changed
           /\ Place(x) /\ x.changed <= notify /\ (~Closed(x.changed) => Waits(x)) => Wake(Idle(x))
<1>1. /\ Idle(x).pc \in {"sleep", "write"}
      /\ Idle(x).begun = x.begun /\ Idle(x).f = x.f /\ Idle(x).sent = x.sent
      /\ Idle(x).next = x.next /\ Idle(x).changed = x.changed
  BY DEF Idle, Close, Write, SubState
<1> QED BY <1>1 DEF Wake, Place, Waits

\* Nothing left to write of the live flow: it is open, and all of it was sent.
LEMMA NothingUnsent ==
    ASSUME NEW x \in SubState, Unsent(x) = <<>>, cur.chunks \in Seq(Msg), cur.begin \in Msg,
           snapComplete => cur.end \in Msg
    PROVE  ~Fresh(x) /\ ~snapComplete /\ Len(cur.chunks) <= x.sent
<1> DEFINE a == IF Fresh(x) THEN <<cur.begin>> ELSE <<>>
           n == IF Fresh(x) THEN 1 ELSE x.sent + 1
           b == SubSeq(cur.chunks, n, Len(cur.chunks))
           c == IF snapComplete THEN <<cur.end>> ELSE <<>>
<1>1. a \in Seq(Msg) /\ c \in Seq(Msg) /\ n \in Nat \ {0}
  BY DEF SubState
<1>2. b \in Seq(Msg) /\ (n <= Len(cur.chunks) => Len(b) >= 1) /\ Len(b) \in Nat
  <2> HIDE DEF n
  <2> QED BY <1>1
<1>3. (Fresh(x) => Len(a) = 1) /\ (snapComplete => Len(c) = 1) /\ Len(a) \in Nat /\ Len(c) \in Nat
  BY DEF Fresh
<1>4. a \o b \o c = <<>>
  BY DEF Unsent
<1> HIDE DEF a, b, c
<1>5. Len(a \o b \o c) = Len(a) + Len(b) + Len(c)
  BY <1>1, <1>2
<1>6. Len(a) = 0 /\ Len(b) = 0 /\ Len(c) = 0
  BY <1>2, <1>3, <1>4, <1>5
<1>7. ~Fresh(x) /\ ~snapComplete /\ ~(n <= Len(cur.chunks))
  BY <1>2, <1>3, <1>6
<1> QED BY <1>1, <1>7 DEF SubState

\* The ring, when it does not hold the ledger of a subscriber behind the flow:
\* there is no earlier flow of this run, and no such file (server.go:207).
LEMMA NotRetained ==
    ASSUME SourceSide, NEW n \in Nat, n # 0, ~ring.filled \/ n > ring.latest,
           n < snapSeq \/ snapSeq = 0
    PROVE  \/ n > snapSeq /\ (snapSeq = 0 => ~InBounds(n))
           \/ n < snapSeq /\ Len(flows) = 1 /\ ~Exists(n)
<1>0. /\ SourceInv /\ SourceTypeOK /\ BroadcasterTypeOK /\ BelowFlowOnDisk /\ FlowsDense /\ DiskIn /\ PutInv
      /\ Len(flows) \in Nat /\ ring.latest \in Nat /\ ring.oldest \in Nat /\ snapSeq \in Nat
  <2>1. SourceInv /\ SourceTypeOK /\ BroadcasterTypeOK /\ BelowFlowOnDisk /\ FlowsDense /\ DiskIn /\ PutInv
        /\ StoreTypeOK /\ Len(flows) \in Nat
    BY DEF SourceSide, SourceInv, SourceTypeOK, BroadcasterTypeOK
  <2>2. ring.latest \in Seqs /\ ring.oldest \in Seqs /\ Seqs \subseteq Nat
    BY <2>1 DEF StoreTypeOK, Seqs
  <2> QED BY <2>1, <2>2, SnapType
<1>1. CASE snapSeq = 0
  BY <1>0, <1>1 DEF InBounds
<1>2. CASE snapSeq # 0
  <2>1. flows # <<>> /\ snapSeq = flows[Len(flows)].seq /\ Len(flows) >= 1
    BY <1>0, <1>2, SnapType DEF cur, BroadcasterTypeOK
  <2>2. ~Exists(n)
    BY <1>0 DEF DiskIn, Exists
  <2>3. ASSUME Len(flows) > 1 PROVE FALSE
    <3> DEFINE i == Len(flows) - 1
               q == flows[i].seq
    <3>1. i \in 1..Len(flows) - 1 /\ i + 1 = Len(flows) /\ i \in 1..Len(flows)
      BY <1>0, <2>3
    <3>2. snapSeq = Succ(q)
      BY <1>0, <2>1, <3>1 DEF FlowsDense
    <3>3. q \in Seqs
      <4>1. flows[i] \in Flow
        BY <1>0, <3>1 DEF BroadcasterTypeOK
      <4> QED BY <4>1 DEF Flow
    <3>4. snapSeq = q + 1
      BY <1>2, <3>2, <3>3, SuccFacts
    <3>5. ring.filled /\ (q < ring.oldest \/ q <= ring.latest)
      BY <1>0, <3>1 DEF BelowFlowOnDisk, Retained
    <3>6. ring.oldest <= ring.latest
      BY <1>0, <3>5 DEF PutInv, RangeInv
    <3>7. q \in Nat
      BY <3>3 DEF Seqs
    <3> QED BY <1>0, <1>2, <3>4, <3>5, <3>6, <3>7, SMTT(20)
  <2>4. n < snapSeq
    BY <1>2
  <2>5. Len(flows) = 1
    <3>1. PICK len \in Nat : len = Len(flows)
      BY <1>0
    <3>2. ~(len > 1) /\ len >= 1
      BY <2>1, <2>3, <3>1
    <3>3. len = 1
      BY <3>2
    <3> QED BY <3>1, <3>3
  <2> QED BY <2>2, <2>4, <2>5
<1> QED BY <1>1, <1>2

\* A woken subscriber starts its next iteration where it was.
LEMMA AgainWakes ==
    ASSUME NEW x \in SubState, Place(x), notify \in Nat
    PROVE  Again(x) \in SubState /\ Wake(Again(x))
<1>1. Again(x) \in SubState
  BY SubOps
<1>2. /\ Again(x).pc = "watch" /\ Again(x).changed = 0
      /\ Again(x).begun = x.begun /\ Again(x).f = x.f /\ Again(x).sent = x.sent
  BY DEF Again, SubState
<1>3. Place(Again(x))
  BY <1>2 DEF Place
<1> QED BY <1>1, <1>2, <1>3, Awake

\* Whatever an iteration of serve does, it keeps its place, and it goes to
\* sleep only when it has nothing to send.
LEMMA LocalWake ==
    ASSUME SourceSide, SubTypeOK, WakeInv, NEW s \in Subs, ServeLocal(s)
    PROVE  \E y \in SubState : Wake(y) /\ Set(s, y)
<1> DEFINE x == sub[s]
           w == Watched(s)
<1>0. /\ SourceInv /\ SourceTypeOK /\ BroadcasterTypeOK /\ StoreTypeOK /\ notify \in Nat /\ Len(flows) \in Nat
      /\ snapSeq \in Nat /\ 0 \in Seqs
  BY SnapType, WireAssumption DEF SourceSide, SourceInv, SourceTypeOK, BroadcasterTypeOK, Seqs
<1>1. /\ w \in SubState /\ w.changed = notify /\ Place(w) /\ Place(x) /\ Wake(x) /\ x \in SubState
      /\ w.begun = x.begun /\ w.f = x.f /\ w.sent = x.sent /\ x.changed <= notify
      /\ w.next = IF x.next = 0 THEN snapSeq ELSE x.next
      /\ w.pc = x.pc /\ w.end = x.end
  BY WatchFacts DEF Wake
<1>2. /\ w.next \in Nat /\ x.next \in Nat /\ x.changed \in Nat /\ w.changed <= notify
      /\ w.sent \in Nat /\ w.f \in Nat
  BY <1>0, <1>1 DEF SubState
<1> HIDE DEF w, x
<1>3. ASSUME NEW z \in SubState, z.changed <= notify, Place(z), NEW code \in Nat, NEW o \in Seqs, NEW l \in Seqs
      PROVE  Close(z, code, o, l) \in SubState /\ Wake(Close(z, code, o, l))
  <2>1. /\ Close(z, code, o, l).pc = "write" /\ Close(z, code, o, l).changed = z.changed
        /\ Close(z, code, o, l).begun = z.begun /\ Close(z, code, o, l).f = z.f
        /\ Close(z, code, o, l).sent = z.sent
    BY DEF Close, Write, SubState
  <2>2. Place(Close(z, code, o, l))
    BY <1>3, <2>1 DEF Place
  <2> QED BY <1>3, <2>1, <2>2, CloseTypes, Awake
<1>4. CASE anchorTip(s)
  <2> DEFINE n == IF snapComplete /\ snapSeq # 0 THEN snapSeq + 1 ELSE snapSeq
             y == [x EXCEPT !.pc = "watch", !.next = n]
  <2>1. n \in Nat /\ "watch" \in SubPc
    BY <1>0 DEF SubPc
  <2> HIDE DEF n
  <2>2. y \in SubState /\ y.pc = "watch" /\ y.changed = x.changed
        /\ y.begun = x.begun /\ y.f = x.f /\ y.sent = x.sent
    BY <1>1, <2>1 DEF SubState
  <2>3. Set(s, y)
    BY <1>4 DEF anchorTip, x, n
  <2> HIDE DEF y
  <2>4. Wake(y)
    BY <1>1, <2>2, Awake DEF Place
  <2> QED BY <2>2, <2>3, <2>4
<1>5. CASE ServeRangeDone(s)
  <2>1. Set(s, Close(w, NormalClosure, 0, 0))
    BY <1>5 DEF ServeRangeDone, w
  <2>2. NormalClosure \in Nat
    BY DEF NormalClosure
  <2> QED BY <1>0, <1>1, <1>2, <1>3, <2>1, <2>2
<1>6. ASSUME NEW z \in SubState, z.changed <= notify, Place(z), NEW msgs \in Seq(Msg)
      PROVE  /\ Served(Write(z, msgs)) \in SubState /\ Wake(Served(Write(z, msgs)))
             /\ Served(LeaveFlow(Write(z, msgs))) \in SubState /\ Wake(Served(LeaveFlow(Write(z, msgs))))
  <2>1. Served(Write(z, msgs)) \in SubState /\ Served(LeaveFlow(Write(z, msgs))) \in SubState
    BY SubOps
  <2>2. /\ Served(Write(z, msgs)).pc = "write" /\ Served(Write(z, msgs)).changed = z.changed
        /\ Served(Write(z, msgs)).begun = z.begun /\ Served(Write(z, msgs)).f = z.f
        /\ Served(Write(z, msgs)).sent = z.sent
    BY DEF SubState, Served, Write
  <2>3. /\ Served(LeaveFlow(Write(z, msgs))).pc = "write"
        /\ Served(LeaveFlow(Write(z, msgs))).changed = z.changed
        /\ ~Served(LeaveFlow(Write(z, msgs))).begun
    BY DEF SubState, Served, LeaveFlow, Write
  <2>4. Place(Served(Write(z, msgs)))
    BY <1>6, <2>2 DEF Place
  <2>5. Place(Served(LeaveFlow(Write(z, msgs))))
    BY <2>3, Zenon DEF Place
  <2> QED BY <1>6, <2>1, <2>2, <2>3, <2>4, <2>5, Awake
<1>7. CASE writeStamplessFlow(s)
  <2>1. Set(s, Served(Write(w, StamplessFlow(cur)))) /\ snapComplete
    BY <1>7 DEF writeStamplessFlow, w
  <2>2. StamplessFlow(cur) \in Seq(Msg)
    BY <1>0, <2>1, FlowMsgs DEF snapComplete
  <2> QED BY <1>1, <1>2, <1>6, <2>1, <2>2
<1>8. CASE ServeLive(s)
  <2>1. /\ AtFlow(w)
        /\ Set(s, IF Unsent(w) = <<>> THEN Idle(w)
                  ELSE IF snapComplete
                  THEN Served(LeaveFlow(Write(w, Unsent(w))))
                  ELSE [Write(w, Unsent(w)) EXCEPT !.f = Len(flows), !.begun = TRUE,
                                                   !.sent = Len(cur.chunks)])
    BY <1>8 DEF ServeLive, w
  <2>2. w.next # 0 /\ w.next = snapSeq /\ flows # <<>>
    BY <2>1 DEF AtFlow, snapSeq
  <2>3. cur \in Flow /\ cur = flows[Len(flows)] /\ Unsent(w) \in Seq(Msg)
    BY <1>0, <1>1, <2>2, FlowMsgs
  <2>4. cur.chunks \in Seq(Msg) /\ Len(cur.chunks) \in Nat /\ Len(flows) >= 1 /\ cur.begin \in Msg
        /\ (snapComplete => cur.end \in Msg)
    BY <1>0, <2>2, <2>3 DEF Flow, Msg, snapComplete, complete
  <2>5. CASE Unsent(w) = <<>>
    <3>1. Idle(w) \in SubState
      BY <1>1, CloseTypes
    <3>2. Waits(w)
      <4>1. ~Fresh(w) /\ ~snapComplete /\ Len(cur.chunks) <= w.sent
        BY <1>1, <1>2, <2>4, <2>5, NothingUnsent
      <4>2. w.begun /\ w.f = Len(flows)
        BY <1>1, <4>1 DEF Fresh, SubState
      <4>3. w.sent = Len(cur.chunks)
        BY <1>1, <1>2, <2>3, <2>4, <4>1, <4>2 DEF Place
      <4> QED BY <2>2, <4>1, <4>2, <4>3 DEF Waits, OpenFlow, snapComplete
    <3>3. Wake(Idle(w))
      BY <1>0, <1>1, <1>2, <3>2, IdleFacts
    <3>4. Set(s, Idle(w))
      BY <2>1, <2>5
    <3> QED BY <3>1, <3>3, <3>4
  <2>6. CASE Unsent(w) # <<>> /\ snapComplete
    <3>1. Set(s, Served(LeaveFlow(Write(w, Unsent(w)))))
      BY <2>1, <2>6
    <3> QED BY <1>1, <1>2, <1>6, <2>3, <3>1
  <2>7. CASE Unsent(w) # <<>> /\ ~snapComplete
    <3> DEFINE v == Write(w, Unsent(w))
               y == [v EXCEPT !.f = Len(flows), !.begun = TRUE, !.sent = Len(cur.chunks)]
    <3>1. v \in SubState /\ v.pc = "write" /\ v.changed = notify
      <4>1. v \in SubState
        BY <1>1, <2>3, SubOps
      <4>2. v.pc = "write" /\ v.changed = w.changed
        BY <1>1 DEF Write, SubState
      <4> QED BY <1>1, <4>1, <4>2
    <3>2. Set(s, y)
      BY <2>1, <2>7
    <3> HIDE DEF v
    <3>3. y \in SubState /\ y.pc = "write" /\ y.changed = notify /\ y.f = Len(flows)
          /\ y.sent = Len(cur.chunks)
      BY <1>0, <2>4, <3>1, SubOps DEF SubState
    <3> HIDE DEF y
    <3>4. Place(y)
      BY <1>0, <2>3, <2>4, <3>3 DEF Place
    <3> QED BY <1>2, <1>1, <3>2, <3>3, <3>4, Awake
  <2> QED BY <2>5, <2>6, <2>7
<1>9. CASE ServePinnedEnd(s)
  <2>1. Set(s, Served(LeaveFlow(Write(w, <<flows[w.f].end>>)))) /\ OwedOnlyEnd(w)
    BY <1>9 DEF ServePinnedEnd, w
  <2>2. w.f \in 1..Len(flows) /\ complete(flows[w.f])
    BY <1>1, <2>1 DEF OwedOnlyEnd, Place
  <2>3. flows[w.f] \in Flow
    BY <1>0, <2>2 DEF BroadcasterTypeOK
  <2>4. <<flows[w.f].end>> \in Seq(Msg)
    BY <2>2, <2>3 DEF Flow, Msg, complete
  <2> QED BY <1>1, <1>2, <1>6, <2>1, <2>4
<1>10. CASE ServeBehind(s)
  <2> DEFINE y == [LeaveFlow(w) EXCEPT !.pc = "bounds"]
  <2>1. Set(s, y) /\ Behind(w)
    BY <1>10 DEF ServeBehind, w
  <2>2. LeaveFlow(w) \in SubState /\ "bounds" \in SubPc
    BY <1>1, SubOps DEF SubPc
  <2>3. y \in SubState
    BY <2>2, SubOps
  <2>4. ~y.begun /\ y.next = w.next /\ y.changed = w.changed /\ y.pc = "bounds"
    BY <1>1, <2>2 DEF SubState, LeaveFlow
  <2> HIDE DEF y
  <2>5. Wake(y)
    BY <1>2, <2>1, <2>4 DEF Wake, Place, Behind
  <2> QED BY <2>1, <2>3, <2>5
<1>11. CASE ServeAhead(s)
  <2>1. Set(s, Idle(w)) /\ ~AtFlow(w) /\ ~Behind(w)
    BY <1>11 DEF ServeAhead, w
  <2>2. Waits(w)
    <3>1. CASE w.next = 0
      <4>1. snapSeq = 0
        BY <1>1, <3>1
      <4> QED BY <3>1, <4>1 DEF Waits
    <3>2. CASE w.next # 0
      BY <1>0, <1>2, <2>1, <3>2 DEF Waits, AtFlow, Behind
    <3> QED BY <3>1, <3>2
  <2>3. Idle(w) \in SubState /\ Wake(Idle(w))
    BY <1>0, <1>1, <1>2, <2>2, CloseTypes, IdleFacts
  <2> QED BY <2>1, <2>3
<1>12. CASE ServeBounds(s)
  <2>1. /\ x.pc = "bounds" /\ Unlocked
        /\ Set(s, IF ~ring.filled \/ x.next > ring.latest THEN Idle(x) ELSE [x EXCEPT !.pc = "get"])
    BY <1>12 DEF ServeBounds, x
  <2>2. CASE ~ring.filled \/ x.next > ring.latest
    <3>1. ASSUME ~Closed(x.changed) PROVE Waits(x)
      <4>1. x.next # 0 /\ (x.next < snapSeq \/ snapSeq = 0)
        BY <1>1, <2>1, <3>1 DEF Wake
      <4> QED BY <1>0, <1>2, <2>2, <4>1, NotRetained DEF Waits
    <3>2. Idle(x) \in SubState /\ Wake(Idle(x))
      BY <1>0, <1>1, <1>2, <3>1, CloseTypes, IdleFacts
    <3> QED BY <2>1, <2>2, <3>2
  <2>3. CASE ~(~ring.filled \/ x.next > ring.latest)
    <3> DEFINE y == [x EXCEPT !.pc = "get"]
    <3>1. Set(s, y)
      BY <2>1, <2>3
    <3>2. y \in SubState /\ y.pc = "get" /\ y.changed = x.changed
          /\ y.begun = x.begun /\ y.f = x.f /\ y.sent = x.sent
      BY <1>1 DEF SubState, SubPc
    <3> HIDE DEF y
    <3>3. Wake(y)
      BY <1>1, <3>2, Awake DEF Place
    <3> QED BY <3>1, <3>2, <3>3
  <2> QED BY <2>2, <2>3
<1>13. CASE ServeGet(s)
  <2>1. PICK p \in {"read", "reason"} : Set(s, [x EXCEPT !.pc = p])
    BY <1>13 DEF ServeGet, x
  <2> DEFINE y == [x EXCEPT !.pc = p]
  <2>2. y \in SubState /\ y.pc = p /\ y.changed = x.changed
        /\ y.begun = x.begun /\ y.f = x.f /\ y.sent = x.sent
    BY <1>1 DEF SubState, SubPc
  <2>3. Set(s, y)
    BY <2>1
  <2> HIDE DEF y
  <2>4. Wake(y)
    BY <1>1, <2>2, Awake DEF Place
  <2> QED BY <2>2, <2>3, <2>4
<1>14. CASE ServeRead(s)
  <2>1. CASE Exists(x.next)
    <3>1. Set(s, Served(Write(x, RingFlow(x.next, disk[x.next]))))
      BY <1>14, <2>1 DEF ServeRead, x
    <3>2. RingFlow(x.next, disk[x.next]) \in Seq(Msg)
      BY <1>0, <2>1, RingMsgs DEF Exists, StoreTypeOK
    <3> QED BY <1>1, <1>6, <3>1, <3>2
  <2>2. CASE ~Exists(x.next)
    <3> DEFINE y == [x EXCEPT !.pc = "reason"]
    <3>1. Set(s, y)
      BY <1>14, <2>2 DEF ServeRead, x
    <3>2. y \in SubState /\ y.pc = "reason" /\ y.changed = x.changed
          /\ y.begun = x.begun /\ y.f = x.f /\ y.sent = x.sent
      BY <1>1 DEF SubState, SubPc
    <3> HIDE DEF y
    <3>3. Wake(y)
      BY <1>1, <3>2, Awake DEF Place
    <3> QED BY <3>1, <3>2, <3>3
  <2> QED BY <2>1, <2>2
<1>15. CASE ServeReason(s)
  <2>1. Set(s, Close(x, TooFarBehind, ring.oldest, ring.latest))
    BY <1>15 DEF ServeReason, x
  <2>2. TooFarBehind \in Nat /\ ring.oldest \in Seqs /\ ring.latest \in Seqs
    BY <1>0 DEF TooFarBehind, StoreTypeOK
  <2> QED BY <1>1, <1>3, <2>1, <2>2
<1>16. CASE ServeWake(s)
  <2>1. Set(s, Again(x))
    BY <1>16 DEF ServeWake, x
  <2>2. Again(x) \in SubState /\ Wake(Again(x))
    BY <1>0, <1>1, AgainWakes
  <2> QED BY <2>1, <2>2
<1> QED BY <1>4, <1>5, <1>7, <1>8, <1>9, <1>10, <1>11, <1>12, <1>13, <1>14, <1>15, <1>16 DEF ServeLocal

\* A subscription's step touches no other one.
LEMMA OneSub ==
    ASSUME SourceSide, SubTypeOK, WakeInv, UNCHANGED sourceVars,
           NEW s \in Subs, NEW y \in SubState, Wake(y), Set(s, y)
    PROVE  SubTypeOK' /\ WakeInv'
<1>1. sub' = [sub EXCEPT ![s] = y]
  BY DEF Set
<1>2. SubTypeOK'
  BY <1>1 DEF SubTypeOK
<1>3. ASSUME NEW t \in Subs PROVE Wake(sub[t])'
  <2>1. PICK z \in SubState : Wake(z) /\ z = IF t = s THEN y ELSE sub[t]
    BY DEF SubTypeOK, WakeInv
  <2>2. sub'[t] = z
    BY <1>1, <2>1 DEF SubTypeOK
  <2>3. Wake(z)'
    BY <2>1, SourceWake
  <2> QED BY <2>2, <2>3 DEF Wake, Place, Waits
<1> QED BY <1>2, <1>3 DEF WakeInv

\* A state that serve starts or leaves a subscription in.
LEMMA OffFacts ==
    ASSUME BroadcasterTypeOK, NEW p \in SubPc \ {"sleep", "bounds"}, NEW q \in Seqs, NEW r \in Seqs
    PROVE  /\ [Off EXCEPT !.pc = p] \in SubState /\ Wake([Off EXCEPT !.pc = p])
           /\ [Off EXCEPT !.pc = p, !.start = q, !.end = r, !.next = q] \in SubState
           /\ Wake([Off EXCEPT !.pc = p, !.start = q, !.end = r, !.next = q])
<1>1. Off \in SubState
  <2>1. 0 \in Seqs /\ "off" \in SubPc /\ <<>> \in Seq(Msg) /\ FALSE \in BOOLEAN /\ 0 \in Nat
    BY WireAssumption DEF Seqs, SubPc
  <2> QED BY <2>1, Zenon DEF Off, SubState
<1>2. Off.begun = FALSE /\ Off.changed = 0
  BY DEF Off
<1> DEFINE a == [Off EXCEPT !.pc = p]
           b == [Off EXCEPT !.pc = p, !.start = q, !.end = r, !.next = q]
<1>3. a \in SubState /\ b \in SubState
  <2>1. p \in SubPc /\ q \in Nat
    BY DEF Seqs
  <2> QED BY <1>1, <2>1 DEF SubState
<1>4. /\ a.pc = p /\ a.begun = Off.begun /\ a.changed = 0
      /\ b.pc = p /\ b.begun = Off.begun /\ b.changed = 0
  BY <1>1, <1>2 DEF SubState
<1> HIDE DEF a, b
<1>5. ~a.begun /\ ~b.begun
  BY <1>2, <1>4, Zenon
<1>6. Place(a) /\ Place(b)
  BY <1>5, Zenon DEF Place
<1>7. 0 <= notify
  BY DEF BroadcasterTypeOK
<1>8. Wake(a) /\ Wake(b)
  BY <1>4, <1>6, <1>7, Awake
<1> QED BY <1>3, <1>8 DEF a, b

\* Every step of the composition keeps the subscriptions awake or rightly asleep.
LEMMA WakeStep == SourceSide /\ SubTypeOK /\ WakeInv /\ [Next]_vars => SubTypeOK' /\ WakeInv'
<1> SUFFICES ASSUME SourceSide, SubTypeOK, WakeInv, [Next]_vars PROVE SubTypeOK' /\ WakeInv'
  OBVIOUS
<1>0. BroadcasterTypeOK /\ notify \in Nat
  BY DEF SourceSide, SourceInv, SourceTypeOK, BroadcasterTypeOK
<1>1. ASSUME UNCHANGED sub PROVE SubTypeOK' /\ WakeInv'
  <2>1. [SourceNext]_sourceVars
    BY NextIsSource
  <2>2. ASSUME NEW t \in Subs PROVE Wake(sub[t])'
    <3>1. PICK z \in SubState : Wake(z) /\ z = sub[t]
      BY DEF SubTypeOK, WakeInv
    <3>2. Wake(z)'
      BY <2>1, <3>1, SourceWake
    <3> QED BY <1>1, <3>1, <3>2 DEF Wake, Place, Waits
  <2> QED BY <1>1, <2>2 DEF SubTypeOK, WakeInv
<1>2. ASSUME NEW s \in Subs, Connect(s) PROVE SubTypeOK' /\ WakeInv'
  <2>1. PICK r \in Requests : handleStream(s, r[1], r[2])
    BY <1>2 DEF Connect
  <2>2. r[1] \in Seqs /\ r[2] \in Seqs
    BY RequestsAssumption
  <2> DEFINE p == IF r[1] = 0 THEN "anchor" ELSE "watch"
  <2>3. p \in SubPc \ {"sleep", "bounds"}
    BY DEF SubPc
  <2>4. Set(s, [Off EXCEPT !.pc = p, !.start = r[1], !.end = r[2], !.next = r[1]])
    BY <2>1 DEF handleStream
  <2>5. UNCHANGED sourceVars
    BY <1>2 DEF Connect
  <2> HIDE DEF p
  <2> QED BY <1>0, <2>2, <2>3, <2>4, <2>5, OffFacts, OneSub
<1>3. ASSUME NEW s \in Subs, ServeStep(s) PROVE SubTypeOK' /\ WakeInv'
  <2>1. ServeLocal(s) /\ UNCHANGED sourceVars
    BY <1>3 DEF ServeStep
  <2> QED BY <2>1, LocalWake, OneSub
<1>4. ASSUME NEW s \in Subs, WriteStep(s) PROVE SubTypeOK' /\ WakeInv'
  <2> DEFINE x == sub[s]
  <2>1. /\ x.pc = "write" /\ UNCHANGED sourceVars
        /\ Set(s, IF Head(x.out).type = "close" THEN [Off EXCEPT !.pc = "closed"]
                  ELSE IF Len(x.out) > 1 THEN [x EXCEPT !.out = Tail(@)]
                  ELSE Again(x))
    BY <1>4 DEF WriteStep, ServeWrite
  <2>2. x \in SubState /\ Wake(x) /\ Place(x) /\ x.changed <= notify /\ x.out \in Seq(Msg)
    BY DEF SubTypeOK, WakeInv, Wake, SubState
  <2> HIDE DEF x
  <2>3. CASE Head(x.out).type = "close"
    <3>1. "closed" \in SubPc \ {"sleep", "bounds"} /\ 0 \in Seqs
      BY WireAssumption DEF SubPc, Seqs
    <3> QED BY <1>0, <2>1, <2>3, <3>1, OffFacts, OneSub
  <2>4. CASE Head(x.out).type # "close" /\ Len(x.out) > 1
    <3> DEFINE y == [x EXCEPT !.out = Tail(@)]
    <3>1. Tail(x.out) \in Seq(Msg)
      BY <2>2, <2>4
    <3>2. y \in SubState /\ y.pc = "write" /\ y.changed = x.changed
          /\ y.begun = x.begun /\ y.f = x.f /\ y.sent = x.sent
      BY <2>1, <2>2, <3>1 DEF SubState
    <3>3. Set(s, y)
      BY <2>1, <2>4
    <3> HIDE DEF y
    <3>4. Wake(y)
      BY <2>2, <3>2, Awake DEF Place
    <3> QED BY <2>1, <3>2, <3>3, <3>4, OneSub
  <2>5. CASE Head(x.out).type # "close" /\ ~(Len(x.out) > 1)
    <3>1. Set(s, Again(x))
      BY <2>1, <2>5
    <3>2. Again(x) \in SubState /\ Wake(Again(x))
      BY <1>0, <2>2, AgainWakes
    <3> QED BY <2>1, <3>1, <3>2, OneSub
  <2> QED BY <2>3, <2>4, <2>5
<1>5. ASSUME NEW s \in Subs, GoneStep(s) PROVE SubTypeOK' /\ WakeInv'
  <2>1. Set(s, [Off EXCEPT !.pc = "gone"]) /\ UNCHANGED sourceVars
    BY <1>5 DEF GoneStep, ServeGone
  <2>2. "gone" \in SubPc \ {"sleep", "bounds"} /\ 0 \in Seqs
    BY WireAssumption DEF SubPc, Seqs
  <2> QED BY <1>0, <2>1, <2>2, OffFacts, OneSub
<1>6. Source \/ (\E s \in Subs : ClientStep(s) \/ ClientCancels(s) \/ NetworkDrops(s)) \/ AllDone
        \/ UNCHANGED vars => UNCHANGED sub
  BY DEF Source, ClientStep, ClientCancels, NetworkDrops, AllDone, vars, serveVars
<1> QED BY <1>1, <1>2, <1>3, <1>4, <1>5, <1>6 DEF Next

-----------------------------------------------------------------------------
\* The composed stream starts in states with these invariants.
LEMMA CoreInit == Init => SourceSide /\ SubTypeOK /\ WakeInv
<1> SUFFICES ASSUME Init PROVE SourceSide /\ SubTypeOK /\ WakeInv
  OBVIOUS
<1>1. SourceInit /\ ServeInit
  BY DEF Init
<1>2. SourceInv
  BY <1>1, InvInit
<1>3. EndMatchesChunks /\ CutInv /\ FlowsDense
  BY <1>1 DEF SourceInit, newBroadcaster, EndMatchesChunks, CutInv, FlowsDense
<1>4. DiskIn
  <2>1. IndexIsRange
    BY <1>1, <1>2 DEF SourceInv, PutInv, SourceInit, RingOver, IdlePut
  <2>2. ring.oldest \in Int /\ ring.latest \in Int
    BY <1>2 DEF SourceInv, SourceTypeOK, StoreTypeOK, Seqs
  <2>3. CASE ring.filled
    <3>1. DOMAIN disk = ring.oldest..ring.latest
      BY <2>1, <2>3 DEF IndexIsRange
    <3> QED BY <2>2, <2>3, <3>1 DEF DiskIn
  <2>4. CASE ~ring.filled
    <3>1. DOMAIN disk = {}
      BY <2>1, <2>4 DEF IndexIsRange
    <3> QED BY <3>1 DEF DiskIn
  <2> QED BY <2>3, <2>4
<1>5. BroadcasterTypeOK
  BY <1>2 DEF SourceInv, SourceTypeOK
<1>6. [Off EXCEPT !.pc = "off"] \in SubState /\ Wake([Off EXCEPT !.pc = "off"])
  <2>1. "off" \in SubPc \ {"sleep", "bounds"} /\ 0 \in Seqs
    BY WireAssumption DEF SubPc, Seqs
  <2> QED BY <1>5, <2>1, OffFacts
<1>7. [Off EXCEPT !.pc = "off"] = Off
  BY DEF Off
<1>8. SubTypeOK /\ WakeInv
  BY <1>1, <1>6, <1>7 DEF ServeInit, SubTypeOK, WakeInv
<1> QED BY <1>2, <1>3, <1>4, <1>8 DEF SourceSide

\* Under the composition the source loop keeps its invariant, and every
\* subscription its types and its place, however many there are.
THEOREM CoreInvariant == Spec => [](SourceSide /\ SubTypeOK /\ WakeInv)
BY CoreInit, SourceSideStep, WakeStep, PTL DEF Spec

\* No wakeup is lost (broadcast.go:58, server.go:541): for any number of
\* subscribers and any interleaving with Run's publishing, finishing and ring
\* writes, which wake nobody, a subscriber asleep on an open channel has been
\* sent all there is to send it.
THEOREM NeverALostWakeup == Spec => []NoLostWakeup
<1>1. WakeInv => NoLostWakeup
  BY DEF WakeInv, Wake, Waits, NoLostWakeup
<1> QED BY <1>1, CoreInvariant, PTL

-----------------------------------------------------------------------------
\* A body that this run's source completed, or that an earlier run left.
WasEmitted(q, body) ==
    \/ \E i \in 1..Len(flows) : complete(flows[i]) /\ flows[i].seq = q /\ flows[i].end.sum = body
    \/ body = << <<"old", q, 1>> >>

\* The files hold nothing else.
DiskEmitted == \A q \in DOMAIN disk : WasEmitted(q, disk[q])

\* How Run ended: the broadcaster has its error, and without one the last
\* ledger that was completed is in the ring.
EndedWell ==
    /\ ended => (srcErr <=> runErr # "none")
    /\ pc \in {"return", "done"} /\ runErr = "none" /\ snapComplete =>
         ring.filled /\ ring.latest = cur.seq

\* What was emitted stays emitted.
LEMMA EmittedStays ==
    ASSUME SourceInv, [SourceNext]_sourceVars, NEW q, NEW body, WasEmitted(q, body)
    PROVE  WasEmitted(q, body)'
<1>1. /\ Len(flows') \in Nat /\ Len(flows') >= Len(flows)
      /\ \A i \in 1..Len(flows) : complete(flows[i]) => flows'[i] = flows[i]
  BY FlowGrowth
<1>2. Len(flows) \in Nat
  BY DEF SourceInv, SourceTypeOK, BroadcasterTypeOK
<1>3. ASSUME NEW i \in 1..Len(flows), complete(flows[i]), flows[i].seq = q, flows[i].end.sum = body
      PROVE  \E k \in 1..Len(flows') : complete(flows'[k]) /\ flows'[k].seq = q /\ flows'[k].end.sum = body
  <2>1. i \in 1..Len(flows') /\ flows'[i] = flows[i]
    BY <1>1, <1>2, <1>3
  <2> QED BY <1>3, <2>1
<1> QED BY <1>3 DEF WasEmitted, complete

\* A put stores the body of the flow that was just completed.
LEMMA DiskEmittedStep ==
    ASSUME SourceInv, DiskEmitted, [SourceNext]_sourceVars
    PROVE  DiskEmitted'
<1>1. CASE UNCHANGED disk
  <2> SUFFICES ASSUME NEW q \in DOMAIN disk PROVE WasEmitted(q, disk[q])'
    BY <1>1 DEF DiskEmitted
  <2>1. WasEmitted(q, disk[q])
    BY DEF DiskEmitted
  <2>2. \A body : WasEmitted(q, body) => WasEmitted(q, body)'
    BY EmittedStays
  <2> QED BY <1>1, <2>1, <2>2 DEF WasEmitted
<1>2. CASE pc = "put" /\ StoreStep /\ UNCHANGED <<bVars, runVars>>
  <2>1. ASSUME NEW q, Remove(q) PROVE DiskEmitted'
    <3>1. DOMAIN disk' \subseteq DOMAIN disk /\ \A x \in DOMAIN disk' : disk'[x] = disk[x]
      BY <2>1 DEF Remove
    <3>2. \A x \in DOMAIN disk' : WasEmitted(x, disk'[x])
      BY <3>1 DEF DiskEmitted
    <3>3. flows' = flows
      BY <1>2 DEF bVars
    <3> QED BY <3>2, <3>3 DEF DiskEmitted, WasEmitted
  <2>2. CASE rename
    <3>1. /\ DOMAIN disk' = DOMAIN disk \cup {put.seq} /\ disk'[put.seq] = put.tmp
          /\ \A x \in DOMAIN disk' : x # put.seq => x \in DOMAIN disk /\ disk'[x] = disk[x]
      BY <2>2 DEF rename
    <3>2. put.pc = "rename" /\ put.seq = em.seq /\ put.tmp = parts
      BY <1>2, <2>2 DEF rename, SourceInv, PutInv
    <3>3. flows # <<>> /\ complete(cur) /\ cur.end.sum = parts /\ em.seq = cur.seq
      BY <1>2 DEF SourceInv, FlowInv
    <3>4. Len(flows) \in 1..Len(flows)
      BY <3>3 DEF SourceInv, SourceTypeOK, BroadcasterTypeOK
    <3>5. WasEmitted(put.seq, put.tmp)
      BY <3>2, <3>3, <3>4 DEF WasEmitted, cur
    <3>6. \A x \in DOMAIN disk' : WasEmitted(x, disk'[x])
      BY <3>1, <3>5 DEF DiskEmitted
    <3>7. flows' = flows
      BY <1>2 DEF bVars
    <3> QED BY <3>6, <3>7 DEF DiskEmitted, WasEmitted
  <2>3. CASE ~rename
    <3>1. UNCHANGED disk \/ (\E q : Remove(q))
      BY <1>2, <2>3 DEF StoreStep, clearLocked, write, pruneLocked, Fail
    <3> QED BY <1>1, <2>1, <3>1
  <2> QED BY <2>2, <2>3
<1>3. CASE CallPut \/ ReturnPut
  BY <1>1, <1>3 DEF CallPut, ReturnPut, PutParts, PutReturned
<1>4. CASE PutStep
  BY <1>2, <1>4 DEF PutStep
<1>5. CASE UNCHANGED storeVars
  BY <1>1, <1>5 DEF storeVars
<1> QED BY <1>3, <1>4, <1>5
     DEF SourceNext, SourceStops, Refuse, Begin, Read, ReadPastCap, Publish, End, Finish, sourceVars

\* A chunk published leaves the flow open.
LEMMA StillOpen ==
    ASSUME SourceInv, Read \/ Publish
    PROVE  OpenFlow'
<1>0. /\ SourceTypeOK /\ FlowInv /\ BroadcasterTypeOK /\ pending \in Seq(Job)
      /\ chunkIdx \in Nat /\ em.seq \in Seqs
  BY DEF SourceInv, SourceTypeOK
<1>1. OpenFlow /\ ~ended
  BY <1>0 DEF FlowInv, Read, Publish, publishNext
<1>2. CASE UNCHANGED bVars
  BY <1>1, <1>2 DEF bVars, OpenFlow, cur, complete
<1>3. ASSUME NEW m \in ChunkMsg, chunk(m) PROVE OpenFlow'
  BY <1>0, <1>1, <1>3, ChunkEffect
<1>4. CASE Read
  <2>1. PICK n \in 0..ChunkSize : UNCHANGED bVars \/ submitChunk(em.seq, chunkIdx, Data(n))
    BY <1>4 DEF Read, submit
  <2>2. RawChunk(em.seq, chunkIdx, Data(n)) \in ChunkMsg
    <3>1. n \in Nat
      BY WireAssumption
    <3> QED BY <1>0, <3>1, DataType, ChunkTypes
  <2> QED BY <1>2, <1>3, <2>1, <2>2 DEF submitChunk
<1>5. CASE Publish
  <2>1. Head(pending) \in Job
    BY <1>0, <1>5 DEF Publish, publishNext
  <2> DEFINE job == Head(pending)
  <2>2. PICK m \in {RawChunk(job.seq, job.idx, job.raw), compressChunk(job.seq, job.idx, job.raw)} : chunk(m)
    BY <1>5 DEF Publish, publishNext
  <2>3. m \in ChunkMsg
    BY <2>1, <2>2, ChunkTypes DEF Job
  <2> QED BY <1>3, <2>2, <2>3
<1> QED BY <1>4, <1>5

\* Run returns nil with every completed ledger in the ring.
LEMMA EndedWellStep ==
    ASSUME SourceInv, EndedWell, [SourceNext]_sourceVars
    PROVE  EndedWell'
<1>0. FlowInv /\ HandOver
  BY DEF SourceInv
<1>1. CASE SourceStops
  <2>1. /\ pc = "pull" /\ UNCHANGED <<flows, ended, srcErr, ring>> /\ ~ended
    BY <1>0, <1>1 DEF SourceStops, bVars, storeVars, FlowInv
  <2>2. snapComplete => ring.filled /\ ring.latest = cur.seq
    BY <1>0, <2>1 DEF HandOver, snapComplete
  <2>3. ~ended'
    BY <2>1
  <2> QED BY <2>1, <2>2, <2>3 DEF EndedWell, snapComplete, cur, complete
<1>2. CASE Refuse \/ ReadPastCap
  <2>1. runErr' # "none" /\ ~ended'
    BY <1>0, <1>2 DEF Refuse, ReadPastCap, Return, FlowInv, bVars
  <2> QED BY <2>1 DEF EndedWell
<1>3. CASE Begin
  <2>1. pc' = "read"
    BY <1>3 DEF Begin
  <2>2. FlowInv'
    BY FlowStep DEF SourceInv
  <2> QED BY <2>1, <2>2 DEF EndedWell, FlowInv
<1>4. CASE Read \/ Publish
  <2>1. OpenFlow'
    BY <1>4, StillOpen
  <2>2. FlowInv' /\ pc' # "done"
    <3>1. FlowInv'
      BY FlowStep DEF SourceInv
    <3>2. pc' # "done"
      BY <1>0, <1>4 DEF Read, AfterRead, Return, Publish, publishNext, FlowInv
    <3> QED BY <3>1, <3>2
  <2> QED BY <2>1, <2>2 DEF EndedWell, snapComplete, OpenFlow, FlowInv
<1>5. CASE End
  <2>1. pc' = "put" \/ runErr' # "none"
    BY <1>5 DEF End, Return
  <2>2. FlowInv' /\ pc' # "done"
    <3>1. FlowInv'
      BY FlowStep DEF SourceInv
    <3>2. pc' # "done"
      BY <1>5 DEF End, Return
    <3> QED BY <3>1, <3>2
  <2> QED BY <2>1, <2>2 DEF EndedWell, FlowInv
<1>6. CASE CallPut \/ PutStep \/ ReturnPut
  <2>1. pc \notin {"return", "done"} /\ (pc' \in {"return", "done"} => pc' = "return" /\ runErr' # "none")
    BY <1>6 DEF CallPut, PutStep, ReturnPut, Return, runVars
  <2>2. ~ended'
    <3>1. ~ended /\ ended' = ended
      BY <1>0, <1>6, <2>1 DEF CallPut, PutStep, ReturnPut, bVars, FlowInv
    <3> QED BY <3>1
  <2> QED BY <2>1, <2>2 DEF EndedWell
<1>7. CASE Finish
  <2>1. /\ UNCHANGED <<flows, ring, runErr>> /\ pc = "return" /\ ~ended
        /\ srcErr' = (runErr # "none")
    <3>1. pc = "return" /\ ~ended /\ finish(runErr # "none") /\ UNCHANGED <<flows, ring, runErr>>
      BY <1>0, <1>7 DEF Finish, FlowInv, storeVars, finish
    <3>2. srcErr' = (runErr # "none")
      BY <3>1, Zenon DEF finish
    <3> QED BY <3>1, <3>2
  <2>2. srcErr' <=> runErr' # "none"
    BY <2>1
  <2>3. snapComplete' => (ring'.filled /\ ring'.latest = cur'.seq) \/ runErr' # "none"
    BY <2>1 DEF EndedWell, snapComplete, cur, complete
  <2> QED BY <2>2, <2>3 DEF EndedWell
<1>8. CASE UNCHANGED sourceVars
  <2>1. UNCHANGED <<flows, ended, srcErr, ring, pc, runErr>>
    BY <1>8 DEF sourceVars, bVars, storeVars, runVars
  <2>2. (ended' <=> ended) /\ (srcErr' <=> srcErr)
    BY <2>1, Zenon
  <2> QED BY <2>1, <2>2 DEF EndedWell, snapComplete, cur, complete
<1> QED BY <1>1, <1>2, <1>3, <1>4, <1>5, <1>6, <1>7, <1>8 DEF SourceNext

-----------------------------------------------------------------------------
\* The flows' sequences rise, but for a last one that wrapped.
FlowsRise ==
    \A i, j \in 1..Len(flows) : i < j =>
        flows[i].seq < flows[j].seq \/ (flows[j].seq = 0 /\ j = Len(flows))

\* A BEGIN adds the successor of the last flow, which the density check allows
\* only above it (or 0, once wrapped).
LEMMA RiseStep ==
    ASSUME SourceInv, FlowsDense, FlowsRise, [SourceNext]_sourceVars
    PROVE  FlowsRise'
<1>0. /\ SourceTypeOK /\ FlowInv /\ HandOver /\ BroadcasterTypeOK /\ Len(flows) \in Nat
      /\ \A i \in 1..Len(flows) : flows[i].seq \in Seqs
  <2>1. SourceTypeOK /\ FlowInv /\ HandOver /\ BroadcasterTypeOK /\ Len(flows) \in Nat
    BY DEF SourceInv, SourceTypeOK, BroadcasterTypeOK
  <2>2. \A i \in 1..Len(flows) : flows[i] \in Flow
    BY <2>1 DEF BroadcasterTypeOK
  <2> QED BY <2>1, <2>2 DEF Flow
<1>1. \A i \in 1..Len(flows) : flows'[i].seq = flows[i].seq
  BY FlowGrowth
<1>2. CASE Begin
  <2>1. PICK seq \in Emitted : Dense(seq) /\ begin(seq, AppendBegin(seq, Len(flows) + 1))
    BY <1>2 DEF Begin
  <2>2. seq \in Seqs /\ ~ended /\ ~OpenFlow /\ pc = "pull"
    BY <1>0, <1>2, SourceAssumption DEF Emitted, Begin, FlowInv
  <2>3. AppendBegin(seq, Len(flows) + 1) \in BeginMsg
    BY <1>0, <2>2 DEF AppendBegin, BeginMsg
  <2>4. Len(flows') = Len(flows) + 1 /\ cur'.seq = seq
    BY <1>0, <2>1, <2>2, <2>3, BeginEffect
  <2>5. flows'[Len(flows) + 1].seq = seq
    BY <2>4 DEF cur
  <2>6. Len(flows) >= 1 => flows[Len(flows)].seq # 0 /\ (seq = 0 \/ seq = flows[Len(flows)].seq + 1)
    <3> SUFFICES ASSUME Len(flows) >= 1
                 PROVE  flows[Len(flows)].seq # 0 /\ (seq = 0 \/ seq = flows[Len(flows)].seq + 1)
      OBVIOUS
    <3>1. flows # <<>>
      OBVIOUS
    <3>2. flows[Len(flows)].seq # 0 /\ seq = Succ(flows[Len(flows)].seq)
      BY <1>0, <2>1, <2>2, <3>1 DEF HandOver, Dense, cur
    <3>3. flows[Len(flows)].seq \in Seqs
      BY <1>0
    <3> QED BY <3>2, <3>3, SuccFacts
  <2>7. ASSUME NEW i \in 1..Len(flows'), NEW j \in 1..Len(flows'), i < j
        PROVE  flows'[i].seq < flows'[j].seq \/ (flows'[j].seq = 0 /\ j = Len(flows'))
    <3>1. i \in 1..Len(flows) /\ Len(flows) >= 1 /\ Len(flows) \in 1..Len(flows)
      BY <1>0, <2>4, <2>7
    <3>2. CASE j = Len(flows) + 1
      <4>1. flows[i].seq <= flows[Len(flows)].seq
        <5>1. i = Len(flows) \/ i < Len(flows)
          BY <3>1
        <5>2. flows[i].seq \in Nat /\ flows[Len(flows)].seq \in Nat
          BY <1>0, <3>1 DEF Seqs
        <5>3. flows[Len(flows)].seq # 0
          BY <2>6, <3>1
        <5> QED BY <3>1, <5>1, <5>2, <5>3 DEF FlowsRise
      <4>2. flows[i].seq \in Nat /\ flows[Len(flows)].seq \in Nat
        BY <1>0, <3>1 DEF Seqs
      <4> QED BY <1>1, <2>4, <2>5, <2>6, <3>1, <3>2, <4>1, <4>2
    <3>3. CASE j # Len(flows) + 1
      <4>1. j \in 1..Len(flows)
        BY <1>0, <2>4, <3>3
      <4>2. flows[i].seq < flows[j].seq
        <5>1. CASE j = Len(flows)
          <6>1. flows[j].seq # 0
            BY <2>6, <3>1, <5>1
          <6> QED BY <2>7, <3>1, <4>1, <6>1 DEF FlowsRise
        <5>2. CASE j # Len(flows)
          BY <2>7, <3>1, <4>1, <5>2 DEF FlowsRise
        <5> QED BY <5>1, <5>2
      <4> QED BY <1>1, <3>1, <4>1, <4>2
    <3> QED BY <3>2, <3>3
  <2> QED BY <2>7 DEF FlowsRise
<1>3. CASE ~Begin
  <2>1. Len(flows') = Len(flows)
    BY <1>0, <1>3, FlowFrame
  <2> QED BY <1>1, <2>1 DEF FlowsRise
<1> QED BY <1>2, <1>3

\* Once Run has returned, its state is final.
LEMMA DoneStays ==
    ASSUME SourceInv, ended, [SourceNext]_sourceVars
    PROVE  UNCHANGED sourceVars
<1>1. pc = "done" /\ pending = <<>>
  BY DEF SourceInv, FlowInv
<1>2. ~SourceNext
  BY <1>1 DEF SourceNext, SourceStops, Refuse, Begin, Read, ReadPastCap, Publish, publishNext, End,
              CallPut, PutStep, ReturnPut, Finish
<1> QED BY <1>2

\* What the source side of a delivery rests on.
StreamInv == SourceSide /\ ChainInv /\ DiskEmitted /\ EndedWell /\ FlowsRise

\* Every step of the composition keeps what the stream guarantees of flows and
\* disk: the subscriptions and clients touch neither.
LEMMA StreamStep ==
    ASSUME StreamInv, [Next]_vars
    PROVE  StreamInv'
<1>1. [SourceNext]_sourceVars
  BY NextIsSource
<1>2. SourceInv /\ CutInv /\ FlowsDense
  BY DEF StreamInv, SourceSide
<1>3. SourceSide'
  BY SourceSideStep DEF StreamInv
<1>4. ChainInv' /\ DiskEmitted' /\ EndedWell' /\ FlowsRise'
  BY <1>1, <1>2, ChainStep, DiskEmittedStep, EndedWellStep, RiseStep DEF StreamInv
<1> QED BY <1>3, <1>4 DEF StreamInv

\* It holds before the first pull, over a ring left by an earlier run.
LEMMA StreamInit ==
    ASSUME Init
    PROVE  StreamInv
<1>1. SourceSide /\ SourceInit
  BY CoreInit DEF Init
<1>2. flows = <<>> /\ pending = <<>> /\ pc = "pull" /\ ended = FALSE
  BY <1>1 DEF SourceInit, newBroadcaster
<1>3. ChainInv /\ FlowsRise /\ EndedWell
  BY <1>2 DEF ChainInv, FlowsRise, EndedWell
<1>4. DiskEmitted
  <2>1. PICK S \in Rings : disk = [q \in S |-> << <<"old", q, 1>> >>]
    BY <1>1 DEF SourceInit, RingOver
  <2> QED BY <2>1 DEF DiskEmitted, WasEmitted
<1> QED BY <1>1, <1>3, <1>4 DEF StreamInv

-----------------------------------------------------------------------------
\* A tip is what the client has made of the messages up to a point of the
\* stream: whether a ledger is open and which (or the next one to come, 0 while
\* any will do), its chunks, bytes and stamp, whether it was started over, how
\* many ledgers were so far, and the end of the range.
Tip == [open : BOOLEAN, seq : Nat, n : Nat, raw : Body, stamp : Nat, dis : {0, 1}, re : Nat, to : Seqs]

\* Ledger q was never begun by this run, and is newer than all there is.
NoMore(q) ==
    /\ \A i \in 1..Len(flows) : flows[i].seq # q /\ (complete(flows[i]) => flows[i].seq < q)
    /\ flows = <<>> /\ ring.filled => q > ring.latest

\* A clean close to an unbounded subscription that is between two ledgers.
Honest(a, m) ==
    m.code \in {NormalClosure, GoingAway} /\ a.to = 0 /\ ~a.open =>
        /\ ended /\ runErr = "none"
        /\ a.seq \in 1..MaxSeq => NoMore(a.seq)

\* The tip a BEGIN for q with this stamp leads to.
BegunTip(a, q, stamp) ==
    [open |-> TRUE, seq |-> q, n |-> 0, raw |-> <<>>, stamp |-> stamp,
     dis |-> IF a.open THEN 1 ELSE 0, re |-> IF a.open THEN a.re + 1 ELSE a.re, to |-> a.to]

\* The tip further inside its ledger, and the one past its end.
InsideTip(a, n, raw) == [a EXCEPT !.n = n, !.raw = raw]

DoneTip(a) ==
    [open |-> FALSE, seq |-> a.seq + 1, n |-> 0, raw |-> <<>>, stamp |-> 0,
     dis |-> 0, re |-> a.re, to |-> a.to]

\* The messages a client at tip a accepts, and where they leave it, la being
\* the abandons counted.
TakesBegin(a, m, b, la) ==
    /\ m \in BeginMsg
    /\ IF a.open THEN a.seq = m.seq /\ a.dis = 0 /\ m.stamp = 0 ELSE a.seq \in {0, m.seq}
    /\ m.stamp # 0 => m.stamp \in 1..Len(flows) /\ flows[m.stamp].seq = m.seq
    /\ b = BegunTip(a, m.seq, m.stamp)
    /\ b.re <= la

\* A chunk that continues what the tip holds.
TakesChunk(a, m, b) ==
    /\ m \in ChunkMsg
    /\ a.open /\ m.seq = a.seq /\ m.idx = a.n /\ Decodable(m)
    /\ Expand(m) \in Body
    /\ Len(a.raw) + Len(Expand(m)) <= MaxPayload
    /\ b = InsideTip(a, a.n + 1, a.raw \o Expand(m))

\* The END of all that the tip holds, which was emitted.
TakesEnd(a, m, b) ==
    /\ m \in EndMsg
    /\ a.open /\ m.seq = a.seq /\ m.count = a.n /\ m.total = Len(a.raw) /\ m.sum = a.raw
    /\ m.stamp = a.stamp
    /\ WasEmitted(m.seq, m.sum)
    /\ b = DoneTip(a)

\* A close, which ends the reading; a clean one is true.
TakesClose(a, m, b) == m \in CloseFrame /\ Honest(a, m) /\ b = a

\* One message.
Takes(a, m, b, la) ==
    TakesBegin(a, m, b, la) \/ TakesChunk(a, m, b) \/ TakesEnd(a, m, b) \/ TakesClose(a, m, b)

\* A client at tip a accepts the messages of w one after the other, up to tip b.
Reads(a, w, b, la) ==
    \E t \in [0..Len(w) -> Tip] :
        /\ t[0] = a /\ t[Len(w)] = b
        /\ \A j \in 1..Len(w) : Takes(t[j - 1], w[j], t[j], la)

\* What was emitted, the abandons and an honest end stay so.
LEMMA TakesStays ==
    ASSUME SourceInv, [SourceNext]_sourceVars, NEW a \in Tip, NEW m, NEW b \in Tip,
           NEW la \in Nat, NEW lb \in Nat, la <= lb, Takes(a, m, b, la)
    PROVE  Takes(a, m, b, lb)'
<1>1. /\ Len(flows') \in Nat /\ Len(flows') >= Len(flows) /\ Len(flows) \in Nat
      /\ \A i \in 1..Len(flows) : flows'[i].seq = flows[i].seq
  BY FlowGrowth DEF SourceInv, SourceTypeOK, BroadcasterTypeOK
<1>2. CASE TakesBegin(a, m, b, la)
  <2>1. b.re <= lb
    BY <1>2 DEF TakesBegin, Tip
  <2>2. m.stamp \in 1..Len(flows) => m.stamp \in 1..Len(flows') /\ flows'[m.stamp].seq = flows[m.stamp].seq
    BY <1>1
  <2> QED BY <1>2, <2>1, <2>2 DEF TakesBegin, Takes
<1>3. CASE TakesChunk(a, m, b)
  BY <1>3 DEF TakesChunk, Takes
<1>4. CASE TakesEnd(a, m, b)
  <2>1. WasEmitted(m.seq, m.sum)'
    BY <1>4, EmittedStays DEF TakesEnd
  <2> QED BY <1>4, <2>1 DEF TakesEnd, Takes
<1>5. CASE TakesClose(a, m, b)
  <2>1. CASE ended
    <3>1. UNCHANGED <<flows, ring, ended, runErr>>
      BY <2>1, DoneStays DEF sourceVars, bVars, storeVars, runVars
    <3>2. Honest(a, m) => Honest(a, m)'
      BY <3>1 DEF Honest, NoMore, complete
    <3> QED BY <1>5, <3>2 DEF TakesClose, Takes
  <2>2. CASE ~ended
    BY <1>5, <2>2 DEF TakesClose, Takes, Honest
  <2> QED BY <2>1, <2>2
<1> QED BY <1>2, <1>3, <1>4, <1>5 DEF Takes

\* What a client can read it still can after a step of the source and with
\* more abandons counted.
LEMMA ReadsStays ==
    ASSUME SourceInv, [SourceNext]_sourceVars, NEW a, NEW w \in Seq(Msg), NEW b,
           NEW la \in Nat, NEW lb \in Nat, la <= lb, Reads(a, w, b, la)
    PROVE  Reads(a, w, b, lb)'
<1>1. PICK t \in [0..Len(w) -> Tip] :
        /\ t[0] = a /\ t[Len(w)] = b
        /\ \A j \in 1..Len(w) : Takes(t[j - 1], w[j], t[j], la)
  BY DEF Reads
<1>2. ASSUME NEW j \in 1..Len(w) PROVE Takes(t[j - 1], w[j], t[j], lb)'
  <2>1. t[j - 1] \in Tip /\ t[j] \in Tip
    <3>1. j - 1 \in 0..Len(w) /\ j \in 0..Len(w)
      OBVIOUS
    <3> QED BY <3>1
  <2> QED BY <1>1, <2>1, TakesStays
<1> QED BY <1>1, <1>2 DEF Reads

\* More abandons only allow more.
LEMMA ReadsMore ==
    ASSUME NEW a, NEW w \in Seq(Msg), NEW b, NEW la \in Nat, NEW lb \in Nat, la <= lb, Reads(a, w, b, la)
    PROVE  Reads(a, w, b, lb)
<1>1. PICK t \in [0..Len(w) -> Tip] :
        /\ t[0] = a /\ t[Len(w)] = b
        /\ \A j \in 1..Len(w) : Takes(t[j - 1], w[j], t[j], la)
  BY DEF Reads
<1>2. ASSUME NEW j \in 1..Len(w) PROVE Takes(t[j - 1], w[j], t[j], lb)
  <2>1. PICK e, m, f : e = t[j - 1] /\ m = w[j] /\ f = t[j]
    OBVIOUS
  <2>2. f \in Tip
    <3>1. j \in 0..Len(w)
      OBVIOUS
    <3> QED BY <1>1, <2>1, <3>1
  <2>3. Takes(e, m, f, la)
    BY <1>1, <2>1
  <2>4. f.re <= la => f.re <= lb
    BY <2>2 DEF Tip
  <2>5. Takes(e, m, f, lb)
    BY <2>3, <2>4 DEF Takes, TakesBegin
  <2> QED BY <2>1, <2>5
<1> QED BY <1>1, <1>2 DEF Reads

\* No message leaves the client where it is.
LEMMA ReadsNone ==
    ASSUME NEW a \in Tip, NEW la
    PROVE  Reads(a, <<>>, a, la)
<1> DEFINE t == [j \in 0..Len(<<>>) |-> a]
<1>1. t \in [0..Len(<<>>) -> Tip] /\ t[0] = a /\ t[Len(<<>>)] = a
  OBVIOUS
<1>2. \A j \in 1..Len(<<>>) : FALSE
  OBVIOUS
<1> HIDE DEF t
<1> QED BY <1>1, <1>2 DEF Reads

\* One message is read if it is accepted.
LEMMA ReadsOne ==
    ASSUME NEW a \in Tip, NEW b \in Tip, NEW m, NEW la, Takes(a, m, b, la)
    PROVE  Reads(a, <<m>>, b, la)
<1> DEFINE t == [j \in 0..Len(<<m>>) |-> IF j = 0 THEN a ELSE b]
<1>1. Len(<<m>>) = 1 /\ <<m>>[1] = m
  OBVIOUS
<1>2. t \in [0..Len(<<m>>) -> Tip] /\ t[0] = a /\ t[Len(<<m>>)] = b
  BY <1>1
<1>3. \A j \in 1..Len(<<m>>) : t[j - 1] = a /\ <<m>>[j] = m /\ t[j] = b
  BY <1>1
<1> HIDE DEF t
<1> QED BY <1>2, <1>3 DEF Reads

\* The first of several messages is accepted, and the rest read from there.
LEMMA ReadsHead ==
    ASSUME NEW a, NEW w \in Seq(Msg), w # <<>>, NEW b, NEW la, Reads(a, w, b, la)
    PROVE  \E m \in Tip : Takes(a, Head(w), m, la) /\ Reads(m, Tail(w), b, la)
<1>1. PICK t \in [0..Len(w) -> Tip] :
        /\ t[0] = a /\ t[Len(w)] = b
        /\ \A j \in 1..Len(w) : Takes(t[j - 1], w[j], t[j], la)
  BY DEF Reads
<1> DEFINE n == Len(w)
           u == [j \in 0..n - 1 |-> t[j + 1]]
<1>2. n \in Nat /\ n >= 1 /\ 1 \in 1..n /\ 1 \in 0..n /\ Head(w) = w[1] /\ Len(Tail(w)) = n - 1
      /\ \A j \in 1..n - 1 : Tail(w)[j] = w[j + 1]
  OBVIOUS
<1>3. Takes(a, Head(w), t[1], la)
  <2>1. Takes(t[1 - 1], w[1], t[1], la)
    BY <1>1, <1>2
  <2> QED BY <1>1, <1>2, <2>1
<1>4. u \in [0..Len(Tail(w)) -> Tip] /\ u[0] = t[1] /\ u[Len(Tail(w))] = b
  <2>1. \A j \in 0..n - 1 : t[j + 1] \in Tip
    BY <1>2
  <2>2. (n - 1) + 1 = n /\ n - 1 \in 0..n - 1 /\ 0 \in 0..n - 1
    BY <1>2
  <2>3. u[n - 1] = t[n] /\ u[0] = t[1]
    BY <2>2
  <2> QED BY <1>1, <1>2, <2>1, <2>3
<1>5. ASSUME NEW j \in 1..Len(Tail(w)) PROVE Takes(u[j - 1], Tail(w)[j], u[j], la)
  <2>1. j \in 1..n - 1 /\ j - 1 \in 0..n - 1 /\ j \in 0..n - 1 /\ j + 1 \in 1..n /\ (j - 1) + 1 = j
        /\ (j + 1) - 1 = j
    BY <1>2
  <2>2. u[j - 1] = t[j] /\ u[j] = t[j + 1]
    BY <2>1
  <2>3. Takes(t[(j + 1) - 1], w[j + 1], t[j + 1], la)
    BY <1>1, <2>1
  <2> QED BY <1>2, <2>1, <2>2, <2>3
<1>6. Reads(t[1], Tail(w), b, la)
  <2> HIDE DEF u
  <2> QED BY <1>4, <1>5 DEF Reads
<1> QED BY <1>2, <1>3, <1>6

\* Two runs of messages are read one after the other.
LEMMA ReadsConcat ==
    ASSUME NEW a, NEW u \in Seq(Msg), NEW v \in Seq(Msg), NEW m, NEW b, NEW la,
           Reads(a, u, m, la), Reads(m, v, b, la)
    PROVE  Reads(a, u \o v, b, la)
<1>1. PICK t \in [0..Len(u) -> Tip] :
        /\ t[0] = a /\ t[Len(u)] = m
        /\ \A j \in 1..Len(u) : Takes(t[j - 1], u[j], t[j], la)
  BY DEF Reads
<1>2. PICK s \in [0..Len(v) -> Tip] :
        /\ s[0] = m /\ s[Len(v)] = b
        /\ \A j \in 1..Len(v) : Takes(s[j - 1], v[j], s[j], la)
  BY DEF Reads
<1> DEFINE n == Len(u)
           w == u \o v
           r == [j \in 0..Len(w) |-> IF j <= n THEN t[j] ELSE s[j - n]]
<1>3. /\ n \in Nat /\ Len(v) \in Nat /\ Len(w) = n + Len(v)
      /\ \A j \in 1..n : w[j] = u[j]
      /\ \A j \in 1..Len(w) : j > n => j - n \in 1..Len(v) /\ w[j] = v[j - n]
  OBVIOUS
<1> HIDE DEF w
<1>4. ASSUME NEW j \in 0..Len(w)
      PROVE  r[j] \in Tip /\ (j <= n => r[j] = t[j]) /\ (j >= n => r[j] = s[j - n])
  <2>1. r[j] = IF j <= n THEN t[j] ELSE s[j - n]
    OBVIOUS
  <2>2. (j <= n => j \in 0..n) /\ (j > n => j - n \in 0..Len(v)) /\ (j >= n /\ j <= n => j = n)
    BY <1>3
  <2>3. n - n = 0
    BY <1>3
  <2>4. j = n => r[j] = s[j - n]
    BY <1>1, <1>2, <1>3, <2>1, <2>3
  <2> HIDE DEF r
  <2>5. j >= n => r[j] = s[j - n]
    BY <1>3, <2>1, <2>2, <2>4
  <2>6. (j <= n => t[j] \in Tip) /\ (j > n => s[j - n] \in Tip)
    BY <1>1, <1>2, <2>2
  <2> QED BY <2>1, <2>5, <2>6
<1>5. 0 \in 0..Len(w) /\ Len(w) \in 0..Len(w) /\ 0 <= n /\ Len(w) >= n /\ Len(w) - n = Len(v)
  BY <1>3
<1>6. r \in [0..Len(w) -> Tip] /\ r[0] = a /\ r[Len(w)] = b
  BY <1>1, <1>2, <1>4, <1>5
<1> HIDE DEF r
<1>7. ASSUME NEW j \in 1..Len(w) PROVE Takes(r[j - 1], w[j], r[j], la)
  <2>1. j \in 0..Len(w) /\ j - 1 \in 0..Len(w)
    BY <1>3
  <2>2. CASE j <= n
    <3>1. j \in 1..n /\ j - 1 <= n
      BY <1>3, <2>2
    <3> QED BY <1>1, <1>3, <1>4, <2>1, <2>2, <3>1
  <2>3. CASE j > n
    <3>1. j >= n /\ j - 1 >= n /\ j - n \in 1..Len(v) /\ w[j] = v[j - n] /\ (j - 1) - n = (j - n) - 1
      BY <1>3, <2>3
    <3>2. r[j] = s[j - n] /\ r[j - 1] = s[(j - n) - 1]
      BY <1>4, <2>1, <3>1
    <3> QED BY <1>2, <3>1, <3>2
  <2> QED BY <1>3, <2>2, <2>3
<1> QED BY <1>6, <1>7 DEF Reads, w

\* A client that can read all can read a first part.
LEMMA ReadsPrefix ==
    ASSUME NEW a, NEW u \in Seq(Msg), NEW v \in Seq(Msg), NEW b, NEW la, Reads(a, u \o v, b, la)
    PROVE  \E m \in Tip : Reads(a, u, m, la)
<1> DEFINE n == Len(u)
           w == u \o v
<1>1. n \in Nat /\ Len(w) \in Nat /\ n <= Len(w) /\ \A j \in 1..n : w[j] = u[j]
  OBVIOUS
<1>2. PICK t \in [0..Len(w) -> Tip] :
        /\ t[0] = a
        /\ \A j \in 1..Len(w) : Takes(t[j - 1], w[j], t[j], la)
  BY DEF Reads
<1> HIDE DEF w
<1> DEFINE r == [j \in 0..n |-> t[j]]
<1>3. r \in [0..Len(u) -> Tip] /\ r[0] = a /\ r[Len(u)] = r[n] /\ r[n] \in Tip
  <2>1. \A j \in 0..n : j \in 0..Len(w)
    BY <1>1
  <2> QED BY <1>1, <1>2, <2>1
<1>4. ASSUME NEW j \in 1..Len(u) PROVE Takes(r[j - 1], u[j], r[j], la)
  <2>1. j \in 1..Len(w) /\ j \in 0..n /\ j - 1 \in 0..n
    BY <1>1
  <2> QED BY <1>1, <1>2, <2>1
<1> HIDE DEF r
<1> QED BY <1>3, <1>4 DEF Reads

\* The first n units of a ledger are a body of length n.
LEMMA BodyUnits ==
    ASSUME NEW org \in {"live", "old"}, NEW q \in Seqs, NEW n \in Nat
    PROVE  Units(org, q, 0, n) \in Body /\ Len(Units(org, q, 0, n)) = n
<1>1. 0 \in Nat /\ 0 <= n /\ n - 0 = n
  OBVIOUS
<1> QED BY <1>1, UnitsFacts

\* A chunk moves only the count and the bytes of a tip.
LEMMA InsideFacts ==
    ASSUME NEW a \in Tip, NEW n \in Nat, NEW raw \in Body, NEW b, b = InsideTip(a, n, raw)
    PROVE  /\ b \in Tip
           /\ b.n = n /\ b.raw = raw
           /\ b.open = a.open /\ b.seq = a.seq /\ b.stamp = a.stamp /\ b.dis = a.dis /\ b.re = a.re /\ b.to = a.to
           /\ \A m, s : InsideTip(b, m, s) = InsideTip(a, m, s)
           /\ InsideTip(a, a.n, a.raw) = a
BY DEF InsideTip, Tip

\* BEGIN and END lead from tips to tips.
LEMMA TipFacts ==
    ASSUME NEW a \in Tip, NEW q \in Seqs, NEW stamp \in Nat
    PROVE  /\ ~a.open \/ a.dis = 0 => BegunTip(a, q, stamp) \in Tip
           /\ DoneTip(a) \in Tip
<1>1. <<>> \in Body /\ 0 \in Nat /\ q \in Nat /\ a.seq + 1 \in Nat /\ a.re + 1 \in Nat /\ a.to \in Seqs /\ a.re \in Nat
  BY DEF Body, Seqs, Tip
<1>2. BegunTip(a, q, stamp) \in Tip
  BY <1>1 DEF BegunTip, Tip
<1>3. DoneTip(a) \in Tip
  BY <1>1 DEF DoneTip, Tip
<1> QED BY <1>2, <1>3

\* A chunk of ledger q that continues the bytes at tip a, up to unit hi.
LEMMA ChunkTaken ==
    ASSUME NEW a \in Tip, NEW org \in {"live", "old"}, NEW q \in Seqs, NEW lo \in Nat, NEW hi \in Nat,
           lo <= hi, hi <= MaxPayload, a.open, a.seq = q, a.raw = Units(org, q, 0, lo),
           NEW m \in ChunkMsg, m.seq = q, m.idx = a.n, Decodable(m), Expand(m) = Units(org, q, lo, hi)
    PROVE  TakesChunk(a, m, InsideTip(a, a.n + 1, Units(org, q, 0, hi)))
<1>0. /\ Units(org, q, lo, hi) \in Body
      /\ Len(Units(org, q, lo, hi)) = hi - lo
      /\ Units(org, q, 0, lo) \o Units(org, q, lo, hi) = Units(org, q, 0, hi)
  <2>1. Units(org, q, lo, hi) \in Body
    BY UnitsFacts, Zenon
  <2>2. Len(Units(org, q, lo, hi)) = hi - lo
    BY UnitsFacts, Zenon
  <2>3. Units(org, q, 0, lo) \o Units(org, q, lo, hi) = Units(org, q, 0, hi)
    BY UnitsFacts, Zenon
  <2> QED BY <2>1, <2>2, <2>3
<1>1. Expand(m) \in Body /\ Len(Expand(m)) = hi - lo /\ a.raw \o Expand(m) = Units(org, q, 0, hi)
  BY <1>0, Zenon
<1>2. Len(a.raw) = lo
  BY BodyUnits
<1>3. Len(a.raw) + Len(Expand(m)) <= MaxPayload
  BY <1>1, <1>2
<1> QED BY <1>1, <1>3 DEF TakesChunk

\* The chunks cs of ledger q, with k before them; e says where each ends.
CutAt(q, org, cs, e, k) ==
    /\ \A j \in 0..Len(cs) : e[j] <= MaxPayload
    /\ \A j \in 1..Len(cs) : /\ cs[j].seq = q /\ cs[j].idx = k + (j - 1) /\ Decodable(cs[j])
                             /\ e[j - 1] <= e[j] /\ Expand(cs[j]) = Units(org, q, e[j - 1], e[j])

\* Chunks that continue what the client holds, and each other, are all read
\*, and leave it with the bytes up to where the last one ends.
LEMMA PiecesRead ==
    ASSUME NEW a \in Tip, a.open, NEW q \in Seqs, a.seq = q, NEW org \in {"live", "old"},
           NEW cs \in Seq(ChunkMsg), NEW e \in [0..Len(cs) -> Nat], a.raw = Units(org, q, 0, e[0]),
           CutAt(q, org, cs, e, a.n), NEW la
    PROVE  LET b == InsideTip(a, a.n + Len(cs), Units(org, q, 0, e[Len(cs)])) IN
           b \in Tip /\ Reads(a, cs, b, la)
<1> DEFINE n == Len(cs)
           u(k) == Units(org, q, 0, e[k])
           t == [j \in 0..n |-> InsideTip(a, a.n + j, u(j))]
<1>0. n \in Nat /\ a.n \in Nat /\ 0 \in 0..n /\ n \in 0..n
  BY DEF Tip
<1>1. ASSUME NEW k \in 0..n
      PROVE  /\ e[k] \in Nat /\ u(k) \in Body
             /\ t[k] = InsideTip(a, a.n + k, u(k)) /\ t[k] \in Tip
             /\ t[k].n = a.n + k /\ t[k].raw = u(k) /\ t[k].open /\ t[k].seq = a.seq
             /\ \A m, s : InsideTip(t[k], m, s) = InsideTip(a, m, s)
  <2>1. e[k] \in Nat
    BY <1>0
  <2>2. u(k) \in Body
    BY <2>1, BodyUnits
  <2>3. a.n + k \in Nat
    BY <1>0
  <2>4. t[k] = InsideTip(a, a.n + k, u(k))
    OBVIOUS
  <2>5. PICK raw \in Body : raw = u(k)
    BY <2>2
  <2>6. PICK p \in Nat : p = a.n + k
    BY <2>3
  <2>7. t[k] = InsideTip(a, p, raw)
    BY <2>4, <2>5, <2>6
  <2> HIDE DEF t, u
  <2>8. /\ t[k] \in Tip /\ t[k].n = p /\ t[k].raw = raw /\ t[k].open /\ t[k].seq = a.seq
        /\ \A m, s : InsideTip(t[k], m, s) = InsideTip(a, m, s)
    <3>1. PICK b : b = t[k] /\ b = InsideTip(a, p, raw)
      BY <2>7
    <3>2. /\ b \in Tip /\ b.n = p /\ b.raw = raw /\ b.seq = a.seq
          /\ \A m, s : InsideTip(b, m, s) = InsideTip(a, m, s)
      BY <3>1, InsideFacts
    <3>3. b.open
      BY <3>1 DEF InsideTip, Tip
    <3> QED BY <3>1, <3>2, <3>3
  <2> QED BY <2>1, <2>2, <2>4, <2>5, <2>6, <2>8
<1>2. t[0] = a
  <2>1. a.n + 0 = a.n /\ u(0) = a.raw /\ a.raw \in Body
    BY <1>0 DEF Tip
  <2>2. InsideTip(a, a.n, a.raw) = a
    BY InsideFacts, <1>0, <2>1
  <2>3. t[0] = InsideTip(a, a.n + 0, u(0))
    BY <1>0
  <2> HIDE DEF t, u
  <2> QED BY <2>1, <2>2, <2>3
<1>3. t \in [0..n -> Tip]
  BY <1>1
<1>4. ASSUME NEW j \in 1..n PROVE TakesChunk(t[j - 1], cs[j], t[j])
  <2>1. j \in 0..n /\ j - 1 \in 0..n /\ (a.n + (j - 1)) + 1 = a.n + j
    BY <1>0
  <2> HIDE DEF t
  <2>2. PICK lo \in Nat, hi \in Nat : lo = e[j - 1] /\ hi = e[j]
    BY <1>1, <2>1
  <2>3. /\ cs[j] \in ChunkMsg /\ cs[j].seq = q /\ cs[j].idx = a.n + (j - 1) /\ Decodable(cs[j])
        /\ lo <= hi /\ Expand(cs[j]) = Units(org, q, lo, hi) /\ hi <= MaxPayload
    BY <1>0, <2>1, <2>2, SMTT(20) DEF CutAt
  <2>4. PICK b \in Tip : /\ b = t[j - 1] /\ b.n = a.n + (j - 1) /\ b.raw = Units(org, q, 0, lo) /\ b.open /\ b.seq = q
                         /\ \A m, s : InsideTip(b, m, s) = InsideTip(a, m, s)
    BY <1>1, <2>1, <2>2
  <2>5. TakesChunk(b, cs[j], InsideTip(b, b.n + 1, Units(org, q, 0, hi)))
    BY <2>3, <2>4, ChunkTaken, SMTT(20)
  <2>6. t[j] = InsideTip(a, a.n + j, Units(org, q, 0, hi))
    BY <1>1, <2>1, <2>2
  <2> QED BY <2>1, <2>4, <2>5, <2>6
<1>5. t[n] = InsideTip(a, a.n + n, u(n)) /\ t[n] \in Tip
  BY <1>0, <1>1
<1> HIDE DEF t
<1>6. Reads(a, cs, t[n], la)
  BY <1>2, <1>3, <1>4 DEF Reads, Takes
<1> QED BY <1>5, <1>6

\* A tip inside flow i, with its first k chunks.
InFlow(b, i, k) ==
    /\ b.open /\ b.dis = 0 /\ b.stamp = i
    /\ b.seq = flows[i].seq
    /\ b.n = k
    /\ b.raw = Units("live", b.seq, 0, Ext(flows[i].chunks, k))

\* The rest of a flow's chunks.
LEMMA FlowReads ==
    ASSUME SourceInv, ChainInv, NEW i \in 1..Len(flows), NEW k \in 0..Len(flows[i].chunks),
           NEW a \in Tip, InFlow(a, i, k), NEW la
    PROVE  LET cs == flows[i].chunks IN
           \E b \in Tip : /\ InFlow(b, i, Len(cs)) /\ b.re = a.re /\ b.to = a.to
                          /\ Reads(a, SubSeq(cs, k + 1, Len(cs)), b, la)
<1> DEFINE cs == flows[i].chunks
           q == flows[i].seq
           n == Len(cs)
           ds == SubSeq(cs, k + 1, n)
           e == [j \in 0..n - k |-> Ext(cs, k + j)]
<1>1. flows[i] \in Flow
  BY DEF SourceInv, SourceTypeOK, BroadcasterTypeOK
<1>2. cs \in Seq(ChunkMsg) /\ q \in Seqs /\ n \in Nat /\ k \in Nat /\ k <= n
  BY <1>1 DEF Flow
<1>3. Chained(q, cs)
  BY DEF ChainInv, FlowChained
<1>4. ds \in Seq(ChunkMsg) /\ Len(ds) = n - k /\ \A j \in 1..n - k : ds[j] = cs[k + j]
  <2>1. k + 1 \in Nat \ {0} /\ (n - (k + 1)) + 1 = n - k
    BY <1>2
  <2> HIDE DEF cs, n
  <2>2. n = Len(cs)
    BY DEF n
  <2>3. ds \in Seq(ChunkMsg)
    BY <1>2, <2>2
  <2>4. Len(ds) = n - k
    BY <1>2, <2>2
  <2>5. \A j \in 1..n - k : ds[j] = cs[k + j]
    BY <1>2, <2>2
  <2> QED BY <2>3, <2>4, <2>5
<1>5. ASSUME NEW j \in 0..n PROVE Ext(cs, j) \in Nat /\ Ext(cs, j) <= MaxPayload
  <2>1. CASE j = 0
    BY <2>1, WireAssumption DEF Ext
  <2>2. CASE j # 0
    <3>1. j \in 1..Len(cs)
      BY <1>2, <2>2
    <3> QED BY <1>3, <3>1 DEF Chained, Piecewise
  <2> QED BY <2>1, <2>2
<1> HIDE DEF ds, cs
<1>6. ASSUME NEW j \in 0..n - k PROVE e[j] = Ext(cs, k + j) /\ e[j] \in Nat /\ e[j] <= MaxPayload
  <2>1. k + j \in 0..n
    BY <1>2
  <2> QED BY <1>5, <2>1
<1>7. e \in [0..Len(ds) -> Nat]
  BY <1>4, <1>6
<1>8. e[0] = Ext(cs, k) /\ e[n - k] = Ext(cs, n) /\ k + (n - k) = n
  <2>1. 0 \in 0..n - k /\ n - k \in 0..n - k /\ k + 0 = k /\ k + (n - k) = n
    BY <1>2
  <2> QED BY <1>6, <2>1
<1>9. ASSUME NEW j \in 1..n - k
      PROVE  /\ ds[j].seq = q /\ ds[j].idx = k + (j - 1) /\ Decodable(ds[j])
             /\ e[j - 1] <= e[j] /\ Expand(ds[j]) = Units("live", q, e[j - 1], e[j])
  <2>1. k + j \in 1..n /\ j \in 0..n - k /\ j - 1 \in 0..n - k /\ (k + j) - 1 = k + (j - 1)
    BY <1>2
  <2>2. Piecewise(q, cs[k + j], (k + j) - 1, Ext(cs, (k + j) - 1), Ext(cs, k + j))
    BY <1>3, <2>1 DEF Chained
  <2>3. e[j] = Ext(cs, k + j) /\ e[j - 1] = Ext(cs, k + (j - 1))
    BY <1>6, <2>1
  <2>4. Piecewise(q, ds[j], k + (j - 1), e[j - 1], e[j])
    BY <1>4, <2>1, <2>2, <2>3
  <2> HIDE DEF e
  <2> QED BY <2>4 DEF Piecewise
<1>10. a.open /\ a.seq = q /\ a.n = k /\ a.raw = Units("live", q, 0, e[0]) /\ a.stamp = i /\ a.dis = 0
  BY <1>8 DEF InFlow, cs
<1> DEFINE b == InsideTip(a, a.n + Len(ds), Units("live", q, 0, e[Len(ds)]))
<1>11. b \in Tip /\ Reads(a, ds, b, la)
  <2>1. CutAt(q, "live", ds, e, a.n)
    <3> HIDE DEF e, q, n
    <3> QED BY <1>4, <1>6, <1>9, <1>10 DEF CutAt
  <2>3. a \in Tip /\ a.open /\ q \in Seqs /\ a.seq = q /\ "live" \in {"live", "old"} /\ ds \in Seq(ChunkMsg)
        /\ a.raw = Units("live", q, 0, e[0])
    BY <1>2, <1>4, <1>10
  <2> HIDE DEF e, q, n
  <2> QED BY <1>7, <2>1, <2>3, PiecesRead
<1>12. /\ b.open = a.open /\ b.seq = a.seq /\ b.stamp = a.stamp /\ b.dis = a.dis /\ b.re = a.re /\ b.to = a.to
       /\ b.n = n /\ b.raw = Units("live", q, 0, Ext(cs, n))
  <2>1. Units("live", q, 0, Ext(cs, n)) \in Body
    <3>1. Ext(cs, n) \in Nat /\ 0 <= Ext(cs, n) /\ 0 \in Nat
      BY <1>2, <1>5
    <3> QED BY <1>2, <3>1, UnitsFacts
  <2>2. a.n + Len(ds) = n /\ e[Len(ds)] = Ext(cs, n)
    BY <1>4, <1>8, <1>10
  <2> QED BY <1>2, <2>1, <2>2, InsideFacts
<1> HIDE DEF b
<1>13. InFlow(b, i, n)
  <2>1. b.open /\ b.dis = 0 /\ b.stamp = i /\ b.n = n
    BY <1>10, <1>12
  <2>2. b.seq = q /\ b.raw = Units("live", q, 0, Ext(cs, n))
    BY <1>10, <1>12, Zenon
  <2> QED BY <2>1, <2>2, Zenon DEF InFlow, cs, n, q
<1> QED BY <1>11, <1>12, <1>13 DEF ds, cs, n

-----------------------------------------------------------------------------
\* A client at tip a takes a BEGIN for q that carries no stamp.
Ready(a, q, la) ==
    /\ a.re <= la
    /\ a.open => a.seq = q /\ a.dis = 0 /\ a.re + 1 <= la
    /\ ~a.open => a.seq \in {0, q}

\* A client that is ready for q takes its BEGIN, stamped only if it is in no
\* ledger.
LEMMA BeginTaken ==
    ASSUME NEW a \in Tip, NEW q \in Seqs, NEW la \in Nat, Ready(a, q, la), NEW stamp \in Nat,
           stamp # 0 => ~a.open /\ stamp \in 1..Len(flows) /\ flows[stamp].seq = q
    PROVE  \E b \in Tip :
             /\ Takes(a, AppendBegin(q, stamp), b, la)
             /\ b.open /\ b.seq = q /\ b.n = 0 /\ b.raw = <<>> /\ b.stamp = stamp
             /\ b.to = a.to /\ b.re <= la
             /\ ~a.open => b.dis = 0
<1> DEFINE b == BegunTip(a, q, stamp)
           m == AppendBegin(q, stamp)
<1>1. m \in BeginMsg /\ m.seq = q /\ m.stamp = stamp
  BY DEF AppendBegin, BeginMsg
<1>2. /\ b.open = TRUE /\ b.seq = q /\ b.n = 0 /\ b.raw = <<>> /\ b.stamp = stamp /\ b.to = a.to
      /\ b.re = IF a.open THEN a.re + 1 ELSE a.re
      /\ b.dis = IF a.open THEN 1 ELSE 0
  BY DEF BegunTip
<1>3. b \in Tip
  BY TipFacts DEF Ready
<1>4. b.re <= la
  BY <1>2 DEF Ready
<1>5. TakesBegin(a, m, b, la)
  <2> HIDE DEF b, m
  <2>1. b = BegunTip(a, m.seq, m.stamp)
    BY <1>1 DEF b
  <2>2. IF a.open THEN a.seq = m.seq /\ a.dis = 0 /\ m.stamp = 0 ELSE a.seq \in {0, m.seq}
    BY <1>1 DEF Ready
  <2> QED BY <1>1, <1>4, <2>1, <2>2 DEF TakesBegin
<1> HIDE DEF b
<1> QED BY <1>2, <1>3, <1>4, <1>5 DEF Takes

\* A client that holds every byte of a ledger that was emitted takes its END
\* (sequence, count, length, checksum).
LEMMA EndTaken ==
    ASSUME NEW a \in Tip, a.open, NEW m \in EndMsg, m.seq = a.seq, m.count = a.n, m.total = Len(a.raw),
           m.stamp = a.stamp, m.sum = a.raw, WasEmitted(m.seq, m.sum), NEW la
    PROVE  \E b \in Tip :
             /\ Takes(a, m, b, la)
             /\ ~b.open /\ b.seq = m.seq + 1 /\ b.to = a.to /\ b.re = a.re
<1> DEFINE b == DoneTip(a)
<1>1. b \in Tip
  <2>1. <<>> \in Body /\ 0 \in Nat /\ a.seq + 1 \in Nat /\ a.to \in Seqs /\ a.re \in Nat
    BY DEF Body, Tip
  <2> QED BY <2>1 DEF DoneTip, Tip
<1>2. ~b.open /\ b.seq = m.seq + 1 /\ b.to = a.to /\ b.re = a.re
  BY DEF DoneTip
<1>3. TakesEnd(a, m, b)
  BY DEF TakesEnd
<1> HIDE DEF b
<1> QED BY <1>1, <1>2, <1>3 DEF Takes

\* A ledger delivered from its BEGIN to its END with no stamp.
LEMMA WholeLedger ==
    ASSUME NEW a \in Tip, NEW q \in Seqs, NEW la \in Nat, Ready(a, q, la), NEW org \in {"live", "old"},
           NEW cs \in Seq(ChunkMsg), NEW e \in [0..Len(cs) -> Nat], e[0] = 0, CutAt(q, org, cs, e, 0),
           NEW n, n = e[Len(cs)], NEW raw, raw = Units(org, q, 0, n), WasEmitted(q, raw)
    PROVE  \E b \in Tip :
             /\ Reads(a, <<AppendBegin(q, 0)>> \o cs \o <<AppendEnd(q, Len(cs), n, 0, raw)>>, b, la)
             /\ ~b.open /\ b.seq = q + 1 /\ b.to = a.to /\ b.re <= la
<1>0. Len(cs) \in Nat /\ n \in Nat /\ raw \in Body /\ Len(raw) = n
  <2>1. Len(cs) \in Nat /\ n \in Nat
    OBVIOUS
  <2>2. Units(org, q, 0, n) \in Body /\ Len(Units(org, q, 0, n)) = n
    BY <2>1, BodyUnits, Zenon
  <2> QED BY <2>1, <2>2
<1>1. PICK b1 \in Tip :
        /\ Takes(a, AppendBegin(q, 0), b1, la)
        /\ b1.open /\ b1.seq = q /\ b1.n = 0 /\ b1.raw = <<>> /\ b1.stamp = 0
        /\ b1.to = a.to /\ b1.re <= la
  BY BeginTaken
<1>2. b1.raw = Units(org, q, 0, e[0])
  BY <1>1 DEF Units
<1>3. PICK b2 \in Tip : b2 = InsideTip(b1, b1.n + Len(cs), Units(org, q, 0, e[Len(cs)])) /\ Reads(b1, cs, b2, la)
  BY <1>1, <1>2, PiecesRead
<1>4. /\ b2.open /\ b2.seq = q /\ b2.n = Len(cs) /\ b2.raw = raw /\ b2.stamp = 0 /\ b2.to = a.to /\ b2.re <= la
  <2>1. b2 = InsideTip(b1, Len(cs), raw)
    BY <1>0, <1>1, <1>3
  <2> QED BY <1>0, <1>1, <2>1 DEF InsideTip, Tip
<1>5. PICK b3 \in Tip :
        /\ Takes(b2, AppendEnd(q, Len(cs), n, 0, raw), b3, la)
        /\ ~b3.open /\ b3.seq = q + 1 /\ b3.to = b2.to /\ b3.re = b2.re
  <2>1. PICK m \in EndMsg : /\ m = AppendEnd(q, Len(cs), n, 0, raw)
                            /\ m.seq = q /\ m.count = Len(cs) /\ m.total = n /\ m.stamp = 0 /\ m.sum = raw
    <3>1. AppendEnd(q, Len(cs), n, 0, raw) \in EndMsg
      BY <1>0 DEF AppendEnd, EndMsg
    <3> QED BY <3>1 DEF AppendEnd
  <2>2. /\ m.seq = b2.seq /\ m.count = b2.n /\ m.total = Len(b2.raw) /\ m.stamp = b2.stamp /\ m.sum = b2.raw
        /\ b2.open /\ WasEmitted(m.seq, m.sum)
    BY <1>0, <1>4, <2>1
  <2>3. PICK b \in Tip : /\ Takes(b2, m, b, la)
                         /\ ~b.open /\ b.seq = m.seq + 1 /\ b.to = b2.to /\ b.re = b2.re
    BY <2>2, EndTaken
  <2> QED BY <2>1, <2>3
<1> DEFINE m1 == AppendBegin(q, 0)
           m2 == AppendEnd(q, Len(cs), n, 0, raw)
<1>6. <<m1>> \in Seq(Msg) /\ <<m2>> \in Seq(Msg) /\ cs \in Seq(Msg) /\ <<m1>> \o cs \in Seq(Msg)
  <2>1. m1 \in Msg
    BY DEF AppendBegin, BeginMsg, Msg
  <2>2. m2 \in Msg
    BY <1>0 DEF AppendEnd, EndMsg, Msg
  <2>3. cs \in Seq(Msg)
    BY DEF Msg
  <2> HIDE DEF m1, m2
  <2> QED BY <2>1, <2>2, <2>3
<1>7. Reads(a, <<m1>>, b1, la) /\ Reads(b2, <<m2>>, b3, la)
  BY <1>1, <1>3, <1>5, ReadsOne
<1> HIDE DEF m1, m2
<1>8. Reads(a, <<m1>> \o cs, b2, la)
  BY <1>3, <1>6, <1>7, ReadsConcat
<1>9. Reads(a, (<<m1>> \o cs) \o <<m2>>, b3, la)
  BY <1>6, <1>7, <1>8, ReadsConcat
<1> QED BY <1>4, <1>5, <1>9 DEF m1, m2

-----------------------------------------------------------------------------
\* A slice of a ledger's units is a range of them.
LEMMA UnitsSub ==
    ASSUME NEW org \in {"live", "old"}, NEW q \in Seqs, NEW lo \in Nat, NEW hi \in Nat, NEW n \in Nat,
           lo <= hi, hi <= n
    PROVE  SubSeq(Units(org, q, 0, n), lo + 1, hi) = Units(org, q, lo, hi)
<1> DEFINE u == Units(org, q, 0, n)
           v == Units(org, q, lo, hi)
           w == SubSeq(u, lo + 1, hi)
<1>1. u \in Body /\ Len(u) = n /\ v \in Body /\ Len(v) = hi - lo
  <2>1. u \in Body /\ Len(u) = n
    BY BodyUnits, Zenon
  <2>2. v \in Body /\ Len(v) = hi - lo
    BY UnitsFacts, Zenon
  <2> QED BY <2>1, <2>2
<1>2. \A i \in 1..n : u[i] = <<org, q, 0 + i>>
  BY DEF Units
<1>3. \A i \in 1..hi - lo : v[i] = <<org, q, lo + i>>
  BY DEF Units
<1> HIDE DEF u, v
<1>4. w \in Seq(Unit) /\ Len(w) = hi - lo /\ \A i \in 1..hi - lo : w[i] = u[lo + i]
  <2>1. u \in Seq(Unit) /\ lo + 1 \in Nat \ {0} /\ hi \in 0..Len(u)
    BY <1>1 DEF Body
  <2> QED BY <1>1, <2>1
<1> HIDE DEF w
<1>5. ASSUME NEW i \in 1..hi - lo PROVE w[i] = v[i]
  <2>1. lo + i \in 1..n /\ 0 + (lo + i) = lo + i
    OBVIOUS
  <2> QED BY <1>2, <1>3, <1>4, <2>1
<1>6. w = v
  <2>1. v \in Seq(Unit)
    BY <1>1 DEF Body
  <2> QED BY <1>1, <1>4, <1>5, <2>1, SeqEqual
<1> QED BY <1>6 DEF u, v, w

\* Every body that was emitted is one ledger's units, within the payload cap.
LEMMA EmittedForm ==
    ASSUME SourceInv, ChainInv, NEW q \in Seqs, NEW raw, WasEmitted(q, raw)
    PROVE  \E org \in {"live", "old"}, n \in 0..MaxPayload : raw = Units(org, q, 0, n)
<1>1. CASE raw = << <<"old", q, 1>> >>
  <2>1. Units("old", q, 0, 1) = << <<"old", q, 1>> >>
    BY DEF Units
  <2>2. 1 \in 0..MaxPayload
    BY WireAssumption
  <2> QED BY <1>1, <2>1, <2>2
<1>2. ASSUME NEW i \in 1..Len(flows), complete(flows[i]), flows[i].seq = q, flows[i].end.sum = raw
      PROVE  \E n \in 0..MaxPayload : raw = Units("live", q, 0, n)
  <2> DEFINE cs == flows[i].chunks
             n == Ext(cs, Len(cs))
  <2>1. FlowChained(i) /\ flows[i] \in Flow
    BY DEF ChainInv, SourceInv, SourceTypeOK, BroadcasterTypeOK
  <2>2. Len(cs) \in Nat /\ Chained(q, cs) /\ flows[i].end.sum = Units("live", q, 0, n)
    BY <1>2, <2>1 DEF FlowChained, Flow, AppendEnd
  <2>3. n \in 0..MaxPayload
    <3>1. CASE Len(cs) = 0
      BY <3>1, WireAssumption DEF Ext
    <3>2. CASE Len(cs) # 0
      <4>1. Len(cs) \in 1..Len(cs)
        BY <2>2, <3>2
      <4> QED BY <2>2, <4>1 DEF Chained, Piecewise
    <3> QED BY <3>1, <3>2
  <2> QED BY <1>2, <2>2, <2>3
<1> QED BY <1>1, <1>2 DEF WasEmitted

\* The pieces of a body of n units: the k-th ends at unit k * ChunkSize, the
\* last at unit n.
CutEnd(n, k) == IF k * ChunkSize < n THEN k * ChunkSize ELSE n

\* Quotient and remainder.
LEMMA DivMod ==
    ASSUME NEW a \in Nat, NEW b \in Nat, b > 0
    PROVE  a \div b \in Nat /\ a % b \in 0..b - 1 /\ a = (a \div b) * b + (a % b)
OBVIOUS

\* The pieces writeRingFlow cuts a body into are ranges of its units that follow each
\* other up to its end.
LEMMA PieceUnits ==
    ASSUME NEW org \in {"live", "old"}, NEW q \in Seqs, NEW n \in Nat,
           NEW raw, raw = Units(org, q, 0, n)
    PROVE  /\ Pieces(raw) \in Nat
           /\ \A k \in 0..Pieces(raw) : CutEnd(n, k) \in Nat /\ CutEnd(n, k) <= n
           /\ CutEnd(n, 0) = 0 /\ CutEnd(n, Pieces(raw)) = n
           /\ \A k \in 1..Pieces(raw) :
                CutEnd(n, k - 1) <= CutEnd(n, k) /\ Piece(raw, k) = Units(org, q, CutEnd(n, k - 1), CutEnd(n, k))
<1> DEFINE c == ChunkSize
           p == Pieces(raw)
<1>0. c \in Nat /\ c > 0 /\ c - 1 \in Nat
  BY WireAssumption
<1>1. Len(raw) = n
  BY BodyUnits
<1>2. p \in Nat /\ n <= p * c /\ (p > 0 => (p - 1) * c < n)
  <2> DEFINE x == n + c - 1
  <2>1. x \in Nat /\ p = x \div c
    BY <1>0, <1>1 DEF Pieces
  <2>2. p \in Nat /\ x % c \in 0..c - 1 /\ x = p * c + (x % c)
    <3> HIDE DEF x, c, p
    <3> QED BY <1>0, <2>1, DivMod
  <2>3. (p - 1) * c = p * c - c /\ p * c \in Nat
    BY <1>0, <2>2
  <2> HIDE DEF p
  <2> QED BY <1>0, <2>2, <2>3
<1> HIDE DEF p
<1>3. ASSUME NEW k \in 0..p
      PROVE  k * c \in Nat /\ CutEnd(n, k) \in Nat /\ CutEnd(n, k) <= n /\ CutEnd(n, k) <= k * c
  <2>1. k \in Nat /\ k * c \in Nat
    BY <1>0, <1>2
  <2> QED BY <2>1 DEF CutEnd
<1>4. CutEnd(n, 0) = 0
  <2>1. 0 * c = 0
    BY <1>0
  <2> QED BY <2>1 DEF CutEnd
<1>5. CutEnd(n, p) = n
  BY <1>0, <1>2 DEF CutEnd
<1>6. ASSUME NEW k \in 1..p
      PROVE  CutEnd(n, k - 1) <= CutEnd(n, k) /\ Piece(raw, k) = Units(org, q, CutEnd(n, k - 1), CutEnd(n, k))
  <2>1. k \in Nat /\ k - 1 \in Nat /\ k - 1 <= p - 1 /\ k - 1 <= k /\ p - 1 \in Nat /\ p > 0
        /\ k \in 0..p
    BY <1>2
  <2>2. (k - 1) * c \in Nat /\ (k - 1) * c <= (p - 1) * c /\ (k - 1) * c <= k * c
    BY <1>0, <2>1, MulMono
  <2>3. (k - 1) * c < n
    BY <1>0, <1>2, <2>1, <2>2, MulMono
  <2>4. CutEnd(n, k - 1) = (k - 1) * c
    BY <2>3 DEF CutEnd
  <2>5. PICK lo \in Nat, hi \in Nat : lo = CutEnd(n, k - 1) /\ hi = CutEnd(n, k)
    BY <1>3, <2>1, <2>2, <2>4
  <2>6. lo <= hi /\ hi <= n
    BY <1>3, <2>1, <2>2, <2>3, <2>4, <2>5 DEF CutEnd
  <2>7. Piece(raw, k) = SubSeq(raw, lo + 1, hi)
    <3>1. Piece(raw, k) = SubSeq(raw, (k - 1) * c + 1, CutEnd(n, k))
      BY <1>1, Zenon DEF Piece, CutEnd
    <3> QED BY <2>4, <2>5, <3>1
  <2>8. SubSeq(raw, lo + 1, hi) = Units(org, q, lo, hi)
    <3> HIDE DEF p, c
    <3>1. SubSeq(Units(org, q, 0, n), lo + 1, hi) = Units(org, q, lo, hi)
      BY <2>6, UnitsSub, ZenonT(40)
    <3> QED BY <3>1, Zenon
  <2> QED BY <2>5, <2>6, <2>7, <2>8
<1> QED BY <1>2, <1>3, <1>4, <1>5, <1>6 DEF p

\* A stored ledger, written from the ring.
LEMMA RingDelivers ==
    ASSUME SourceInv, ChainInv, NEW a \in Tip, NEW q \in Seqs, NEW la \in Nat, Ready(a, q, la),
           NEW raw, WasEmitted(q, raw)
    PROVE  \E b \in Tip :
             /\ Reads(a, RingFlow(q, raw), b, la)
             /\ ~b.open /\ b.seq = q + 1 /\ b.to = a.to /\ b.re <= la
<1>1. PICK org \in {"live", "old"}, n \in 0..MaxPayload : raw = Units(org, q, 0, n)
  BY EmittedForm
<1>2. n \in Nat /\ n <= MaxPayload /\ MaxPayload \in Nat
  BY WireAssumption
<1> DEFINE p == Pieces(raw)
           cs == [i \in 1..p |-> encodeChunk(q, i - 1, Piece(raw, i))]
           e == [k \in 0..p |-> CutEnd(n, k)]
<1>3. /\ p \in Nat
      /\ \A k \in 0..p : CutEnd(n, k) \in Nat /\ CutEnd(n, k) <= n
      /\ CutEnd(n, 0) = 0 /\ CutEnd(n, p) = n
      /\ \A k \in 1..p :
           CutEnd(n, k - 1) <= CutEnd(n, k) /\ Piece(raw, k) = Units(org, q, CutEnd(n, k - 1), CutEnd(n, k))
  BY <1>1, <1>2, PieceUnits
<1> HIDE DEF p
<1>4. ASSUME NEW k \in 1..p
      PROVE  LET m == encodeChunk(q, k - 1, Piece(raw, k)) IN
             /\ m \in ChunkMsg /\ m.seq = q /\ m.idx = k - 1 /\ Decodable(m) /\ Expand(m) = Piece(raw, k)
  <2>1. k - 1 \in Nat /\ k - 1 \in 0..p /\ k \in 0..p
    BY <1>3
  <2>2. PICK lo \in Nat, hi \in Nat : lo = CutEnd(n, k - 1) /\ hi = CutEnd(n, k)
    BY <1>3, <2>1
  <2>3. lo <= hi /\ Piece(raw, k) = Units(org, q, lo, hi)
    BY <1>3, <2>2
  <2>4. Units(org, q, lo, hi) \in Body
    BY <2>3, UnitsFacts, Zenon
  <2>5. PICK d \in Body : d = Piece(raw, k)
    BY <2>3, <2>4
  <2> QED BY <2>1, <2>5, ChunkTypes, ChunkForms DEF encodeChunk
<1>5. /\ cs \in Seq(ChunkMsg) /\ Len(cs) = p
      /\ \A k \in 1..p : cs[k] = encodeChunk(q, k - 1, Piece(raw, k))
  <2>1. cs \in [1..p -> ChunkMsg]
    BY <1>4
  <2> QED BY <1>3, <2>1
<1> HIDE DEF cs
<1>6. e \in [0..Len(cs) -> Nat] /\ e[0] = 0 /\ n = e[Len(cs)] /\ \A k \in 0..p : e[k] = CutEnd(n, k)
  <2>1. 0 \in 0..p /\ p \in 0..p
    BY <1>3
  <2> QED BY <1>3, <1>5, <2>1
<1> HIDE DEF e
<1>7. CutAt(q, org, cs, e, 0)
  <2>1. ASSUME NEW j \in 0..Len(cs) PROVE e[j] <= MaxPayload
    BY <1>2, <1>3, <1>5, <1>6
  <2>2. ASSUME NEW j \in 1..Len(cs)
        PROVE  /\ cs[j].seq = q /\ cs[j].idx = 0 + (j - 1) /\ Decodable(cs[j])
               /\ e[j - 1] <= e[j] /\ Expand(cs[j]) = Units(org, q, e[j - 1], e[j])
    <3>1. j \in 1..p /\ j \in 0..p /\ j - 1 \in 0..p /\ 0 + (j - 1) = j - 1
      BY <1>3, <1>5
    <3>2. cs[j] = encodeChunk(q, j - 1, Piece(raw, j)) /\ e[j] = CutEnd(n, j) /\ e[j - 1] = CutEnd(n, j - 1)
      BY <1>5, <1>6, <3>1
    <3>3. cs[j].seq = q /\ cs[j].idx = j - 1 /\ Decodable(cs[j]) /\ Expand(cs[j]) = Piece(raw, j)
      BY <1>4, <3>1, <3>2
    <3>4. CutEnd(n, j - 1) <= CutEnd(n, j) /\ Piece(raw, j) = Units(org, q, CutEnd(n, j - 1), CutEnd(n, j))
      BY <1>3, <3>1
    <3> QED BY <3>1, <3>2, <3>3, <3>4
  <2> QED BY <2>1, <2>2 DEF CutAt
<1>8. \E b \in Tip :
        /\ Reads(a, <<AppendBegin(q, 0)>> \o cs \o <<AppendEnd(q, Len(cs), n, 0, raw)>>, b, la)
        /\ ~b.open /\ b.seq = q + 1 /\ b.to = a.to /\ b.re <= la
  BY <1>1, <1>5, <1>6, <1>7, WholeLedger
<1>9. RingFlow(q, raw) = <<AppendBegin(q, 0)>> \o cs \o <<AppendEnd(q, Len(cs), n, 0, raw)>>
  <2>1. Len(raw) = n
    BY <1>1, <1>2, BodyUnits
  <2> QED BY <1>5, <2>1 DEF RingFlow, Sum64, cs, p
<1> QED BY <1>8, <1>9

\* The chunks of a flow, cut where each ends.
LEMMA FlowCut ==
    ASSUME SourceInv, ChainInv, NEW i \in 1..Len(flows), NEW cs, cs = flows[i].chunks, NEW q, q = flows[i].seq
    PROVE  /\ q \in Seqs /\ cs \in Seq(ChunkMsg)
           /\ LET e == [k \in 0..Len(cs) |-> Ext(cs, k)] IN
              e \in [0..Len(cs) -> Nat] /\ e[0] = 0 /\ CutAt(q, "live", cs, e, 0)
<1>1. q \in Seqs /\ cs \in Seq(ChunkMsg) /\ Len(cs) \in Nat
  <2>1. flows[i] \in Flow
    BY DEF SourceInv, SourceTypeOK, BroadcasterTypeOK
  <2>2. flows[i].seq \in Seqs /\ flows[i].chunks \in Seq(ChunkMsg)
    BY <2>1 DEF Flow
  <2> QED BY <2>2
<1>2. Chained(q, cs)
  BY DEF ChainInv, FlowChained
<1>3. ASSUME NEW k \in 0..Len(cs) PROVE Ext(cs, k) \in Nat /\ Ext(cs, k) <= MaxPayload
  <2>1. CASE k = 0
    BY <2>1, WireAssumption DEF Ext
  <2>2. CASE k # 0
    <3>1. k \in 1..Len(cs)
      BY <1>1, <2>2
    <3> QED BY <1>2, <3>1 DEF Chained, Piecewise
  <2> QED BY <2>1, <2>2
<1> DEFINE e == [k \in 0..Len(cs) |-> Ext(cs, k)]
<1>4. e \in [0..Len(cs) -> Nat] /\ \A k \in 0..Len(cs) : e[k] = Ext(cs, k)
  BY <1>3
<1> HIDE DEF e
<1>5. e[0] = 0
  BY <1>1, <1>4 DEF Ext
<1>6. CutAt(q, "live", cs, e, 0)
  <2>1. ASSUME NEW j \in 1..Len(cs)
        PROVE  /\ cs[j].seq = q /\ cs[j].idx = 0 + (j - 1) /\ Decodable(cs[j])
               /\ e[j - 1] <= e[j] /\ Expand(cs[j]) = Units("live", q, e[j - 1], e[j])
    <3>1. j \in 0..Len(cs) /\ j - 1 \in 0..Len(cs) /\ 0 + (j - 1) = j - 1
      BY <1>1
    <3>2. Piecewise(q, cs[j], j - 1, Ext(cs, j - 1), Ext(cs, j))
      BY <1>2 DEF Chained
    <3>3. Piecewise(q, cs[j], j - 1, e[j - 1], e[j])
      BY <1>4, <3>1, <3>2
    <3> QED BY <3>1, <3>3 DEF Piecewise
  <2> QED BY <1>3, <1>4, <2>1 DEF CutAt
<1> QED BY <1>1, <1>4, <1>5, <1>6 DEF e

\* The current flow, complete, without its stamps.
LEMMA StamplessDelivers ==
    ASSUME SourceInv, ChainInv, flows # <<>>, snapComplete, NEW a \in Tip, NEW la \in Nat,
           Ready(a, cur.seq, la)
    PROVE  \E b \in Tip :
             /\ Reads(a, StamplessFlow(cur), b, la)
             /\ ~b.open /\ b.seq = cur.seq + 1 /\ b.to = a.to /\ b.re <= la
<1>0. Len(flows) \in 1..Len(flows) /\ cur = flows[Len(flows)] /\ complete(cur)
  BY DEF SourceInv, SourceTypeOK, BroadcasterTypeOK, cur, snapComplete
<1>1. PICK q, cs : q = cur.seq /\ cs = cur.chunks
  OBVIOUS
<1>2. PICK e : /\ e = [k \in 0..Len(cs) |-> Ext(cs, k)]
               /\ q \in Seqs /\ cs \in Seq(ChunkMsg)
               /\ e \in [0..Len(cs) -> Nat] /\ e[0] = 0 /\ CutAt(q, "live", cs, e, 0)
  BY <1>0, <1>1, FlowCut
<1> DEFINE n == Ext(cs, Len(cs))
           raw == Units("live", q, 0, n)
<1>3. n = e[Len(cs)]
  <2>1. Len(cs) \in 0..Len(cs)
    BY <1>2
  <2> QED BY <1>2, <2>1
<1>4. cur.end = AppendEnd(q, Len(cs), n, Len(flows), raw)
  BY <1>0, <1>1 DEF ChainInv, FlowChained
<1>5. cur.end.count = Len(cs) /\ cur.end.total = n /\ cur.end.sum = raw
  BY <1>4 DEF AppendEnd
<1>6. WasEmitted(q, raw)
  BY <1>0, <1>1, <1>5 DEF WasEmitted
<1>7. StamplessFlow(cur) = <<AppendBegin(q, 0)>> \o cs \o <<AppendEnd(q, Len(cs), n, 0, raw)>>
  BY <1>1, <1>5 DEF StamplessFlow
<1> HIDE DEF n, raw
<1>8. PICK nn, rr : nn = n /\ rr = raw
  OBVIOUS
<1>9. rr = Units("live", q, 0, nn) /\ nn = e[Len(cs)] /\ WasEmitted(q, rr)
  BY <1>3, <1>6, <1>8 DEF raw
<1>10. Ready(a, q, la)
  BY <1>1
<1>11. \E b \in Tip :
        /\ Reads(a, <<AppendBegin(q, 0)>> \o cs \o <<AppendEnd(q, Len(cs), nn, 0, rr)>>, b, la)
        /\ ~b.open /\ b.seq = q + 1 /\ b.to = a.to /\ b.re <= la
  BY <1>2, <1>9, <1>10, WholeLedger
<1> QED BY <1>1, <1>7, <1>8, <1>11

\* The END of a flow, once all its chunks were taken.
LEMMA FlowEnds ==
    ASSUME SourceInv, ChainInv, NEW i \in 1..Len(flows), complete(flows[i]),
           NEW a \in Tip, InFlow(a, i, Len(flows[i].chunks)), NEW la
    PROVE  \E b \in Tip :
             /\ flows[i].end \in Msg
             /\ Reads(a, <<flows[i].end>>, b, la)
             /\ ~b.open /\ b.seq = flows[i].seq + 1 /\ b.to = a.to /\ b.re = a.re
<1> DEFINE f == flows[i]
           n == Ext(f.chunks, Len(f.chunks))
<1>1. f \in Flow
  BY DEF SourceInv, SourceTypeOK, BroadcasterTypeOK
<1>2. f.end \in EndMsg /\ f.seq \in Seqs
  BY <1>1 DEF Flow, complete
<1>3. f.end = AppendEnd(f.seq, Len(f.chunks), n, i, Units("live", f.seq, 0, n))
  BY DEF ChainInv, FlowChained
<1>4. n \in Nat
  <2>1. PICK cs : cs = f.chunks
    OBVIOUS
  <2>2. PICK e \in [0..Len(cs) -> Nat] : e = [k \in 0..Len(cs) |-> Ext(cs, k)]
    BY <2>1, FlowCut
  <2>3. Len(cs) \in 0..Len(cs)
    BY <1>1, <2>1 DEF Flow
  <2>4. e[Len(cs)] = n
    BY <2>1, <2>2, <2>3
  <2> QED BY <2>2, <2>3, <2>4
<1>5. /\ f.end.seq = f.seq /\ f.end.count = Len(f.chunks) /\ f.end.total = n /\ f.end.stamp = i
      /\ f.end.sum = Units("live", f.seq, 0, n)
  BY <1>3 DEF AppendEnd
<1>6. a.open /\ a.stamp = i /\ a.seq = f.seq /\ a.n = Len(f.chunks) /\ a.raw = f.end.sum
  BY <1>5 DEF InFlow
<1>7. Len(f.end.sum) = n
  <2> HIDE DEF n
  <2> QED BY <1>2, <1>4, <1>5, BodyUnits
<1>8. WasEmitted(f.end.seq, f.end.sum)
  BY <1>5 DEF WasEmitted
<1>9. PICK m \in EndMsg : m = f.end
  BY <1>2
<1> HIDE DEF n
<1>10. /\ m.seq = a.seq /\ m.count = a.n /\ m.total = Len(a.raw) /\ m.stamp = a.stamp /\ m.sum = a.raw
       /\ WasEmitted(m.seq, m.sum)
  BY <1>5, <1>6, <1>7, <1>8, <1>9
<1>11. PICK b \in Tip : Takes(a, m, b, la) /\ ~b.open /\ b.seq = m.seq + 1 /\ b.to = a.to /\ b.re = a.re
  BY <1>6, <1>10, EndTaken
<1>12. Reads(a, <<m>>, b, la)
  BY <1>11, ReadsOne
<1>13. m \in Msg
  BY DEF Msg
<1>14. b.seq = f.seq + 1
  BY <1>5, <1>9, <1>11
<1> QED BY <1>9, <1>11, <1>12, <1>13, <1>14

\* What serve writes of the live flow continues what the subscriber has of it.
LEMMA LiveDelivers ==
    ASSUME SourceInv, ChainInv, flows # <<>>, NEW x \in SubState, NEW a \in Tip, NEW la \in Nat, a.re <= la,
           Fresh(x) => ~a.open /\ Ready(a, cur.seq, la),
           ~Fresh(x) => InFlow(a, Len(flows), x.sent) /\ x.sent <= Len(cur.chunks)
    PROVE  \E b \in Tip :
             /\ Reads(a, Unsent(x), b, la)
             /\ b.to = a.to /\ b.re <= la
             /\ IF snapComplete THEN ~b.open /\ b.seq = cur.seq + 1
                                ELSE InFlow(b, Len(flows), Len(cur.chunks))
<1>0. Len(flows) \in 1..Len(flows) /\ cur = flows[Len(flows)] /\ cur \in Flow
  BY DEF SourceInv, SourceTypeOK, BroadcasterTypeOK, cur
<1>1. cur.chunks \in Seq(ChunkMsg) /\ cur.chunks \in Seq(Msg) /\ Len(cur.chunks) \in Nat /\ cur.seq \in Seqs
      /\ cur.begin \in Msg
  BY <1>0 DEF Flow, Msg
<1> DEFINE i == Len(flows)
           n == Len(cur.chunks)
           k == IF Fresh(x) THEN 0 ELSE x.sent
           u == IF Fresh(x) THEN <<cur.begin>> ELSE <<>>
           v == SubSeq(cur.chunks, k + 1, n)
           w == IF snapComplete THEN <<cur.end>> ELSE <<>>
<1>2. k \in 0..n
  BY <1>1 DEF SubState
<1>3. Unsent(x) = u \o v \o w
  <2>1. k + 1 = IF Fresh(x) THEN 1 ELSE x.sent + 1
    OBVIOUS
  <2> QED BY <2>1, Zenon DEF Unsent
<1>4. u \in Seq(Msg) /\ v \in Seq(Msg)
  <2>1. u \in Seq(Msg)
    BY <1>1
  <2>2. PICK z \in Nat \ {0} : z = k + 1
    BY <1>2
  <2>3. SubSeq(cur.chunks, z, n) \in Seq(Msg)
    BY <1>1
  <2> QED BY <2>1, <2>2, <2>3
<1>5. \E b1 \in Tip : Reads(a, u, b1, la) /\ InFlow(b1, i, k) /\ b1.to = a.to /\ b1.re <= la
  <2>1. CASE ~Fresh(x)
    <3>1. u = <<>> /\ k = x.sent
      BY <2>1
    <3>2. Reads(a, <<>>, a, la)
      BY ReadsNone
    <3> QED BY <2>1, <3>1, <3>2
  <2>2. CASE Fresh(x)
    <3>1. cur.begin = AppendBegin(cur.seq, i) /\ i \in Nat /\ flows[i].seq = cur.seq
      BY <1>0 DEF ChainInv, FlowChained
    <3>2. PICK q \in Seqs : q = cur.seq
      BY <1>1
    <3>3. Ready(a, q, la) /\ ~a.open
      BY <2>2, <3>2
    <3>4. PICK b1 \in Tip :
             /\ Takes(a, AppendBegin(q, i), b1, la)
             /\ b1.open /\ b1.seq = q /\ b1.n = 0 /\ b1.raw = <<>> /\ b1.stamp = i
             /\ b1.to = a.to /\ b1.re <= la /\ b1.dis = 0
      <4> HIDE DEF i
      <4>1. i \in 1..Len(flows) /\ flows[i].seq = q
        BY <1>0, <3>1, <3>2 DEF i
      <4> QED BY <3>1, <3>3, <4>1, BeginTaken
    <3>5. InFlow(b1, i, 0)
      <4>1. Units("live", b1.seq, 0, Ext(flows[i].chunks, 0)) = <<>>
        BY DEF Units, Ext
      <4> QED BY <3>1, <3>2, <3>4, <4>1 DEF InFlow
    <3>6. Reads(a, u, b1, la)
      BY <2>2, <3>1, <3>2, <3>4, ReadsOne
    <3> QED BY <2>2, <3>4, <3>5, <3>6
  <2> QED BY <2>1, <2>2
<1>6. PICK b1 \in Tip : Reads(a, u, b1, la) /\ InFlow(b1, i, k) /\ b1.to = a.to /\ b1.re <= la
  BY <1>5
<1>7. PICK b2 \in Tip : /\ InFlow(b2, i, n) /\ b2.re = b1.re /\ b2.to = b1.to
                        /\ Reads(b1, v, b2, la)
  <2> HIDE DEF k
  <2> QED BY <1>0, <1>2, <1>6, FlowReads
<1> HIDE DEF u, v
<1>8. Reads(a, u \o v, b2, la) /\ u \o v \in Seq(Msg)
  BY <1>4, <1>6, <1>7, ReadsConcat
<1>9. CASE ~snapComplete
  <2>1. Unsent(x) = u \o v
    <3>1. (u \o v) \o <<>> = u \o v
      BY <1>8
    <3> QED BY <1>3, <1>9, <3>1
  <2> QED BY <1>6, <1>7, <1>8, <1>9, <2>1
<1>10. CASE snapComplete
  <2>1. complete(flows[i]) /\ w = <<cur.end>>
    BY <1>0, <1>10 DEF snapComplete
  <2>2. PICK b3 \in Tip :
             /\ cur.end \in Msg
             /\ Reads(b2, <<cur.end>>, b3, la)
             /\ ~b3.open /\ b3.seq = cur.seq + 1 /\ b3.to = b2.to /\ b3.re = b2.re
    <3>1. InFlow(b2, i, Len(flows[i].chunks))
      BY <1>0, <1>7
    <3>2. \E b \in Tip :
             /\ flows[i].end \in Msg
             /\ Reads(b2, <<flows[i].end>>, b, la)
             /\ ~b.open /\ b.seq = flows[i].seq + 1 /\ b.to = b2.to /\ b.re = b2.re
      <4>1. i \in 1..Len(flows) /\ SourceInv /\ ChainInv
        BY <1>0
      <4>2. complete(flows[i])
        BY <2>1
      <4> HIDE DEF i
      <4> QED BY <3>1, <4>1, <4>2, FlowEnds, ZenonT(40)
    <3> QED BY <1>0, <3>2
  <2>3. <<cur.end>> \in Seq(Msg)
    BY <2>2
  <2>4. Reads(a, (u \o v) \o <<cur.end>>, b3, la)
    BY <1>8, <2>2, <2>3, ReadsConcat
  <2> QED BY <1>3, <1>6, <1>7, <1>10, <2>1, <2>2, <2>4
<1> QED BY <1>9, <1>10

-----------------------------------------------------------------------------
\* Where serve is, when b is the tip its client reaches with all it has written
\* and queued: inside the live flow it is in, in the middle of one it gave up
\* and will start over, or between two ledgers.
At(b, x, la) ==
    /\ b.to = x.end /\ b.re <= la
    /\ x.begun => InFlow(b, x.f, x.sent) /\ x.next = flows[x.f].seq /\ x.next # 0
    /\ ~x.begun /\ b.open =>
         /\ b.stamp \in 1..Len(flows) - 1 /\ flows[b.stamp].seq = b.seq
         /\ b.dis = 0 /\ b.re + 1 <= la
         /\ x.next = b.seq /\ x.next # 0
    /\ ~x.begun /\ ~b.open => b.seq \in {0, x.next}

\* What serve knows by the step it has reached.
SubOK(x) ==
    /\ (x.pc = "write") <=> (x.out # <<>>)
    /\ x.pc \in {"bounds", "get", "read", "reason"} => ~x.begun /\ x.next # 0
    /\ x.pc = "anchor" => ~x.begun /\ x.next = 0
    /\ x.pc = "bounds" /\ x.ended => ended /\ Behind(x)

\* serve has not returned.
Serving(x) == x.pc \notin {"off", "closed", "gone"}

\* A step of serve from tip b lands in local state y.
Lands(b, y, la, lb) ==
    /\ SubOK(y) /\ Serving(y)
    /\ \E b2 \in Tip : Reads(b, y.out, b2, la) /\ At(b2, y, lb)

\* Where serve is depends on its cursor and its progress only.
LEMMA AtSame ==
    ASSUME NEW b, NEW la, NEW z, NEW y, At(b, z, la), y.begun <=> z.begun, y.f = z.f, y.sent = z.sent,
           y.next = z.next, y.end = z.end
    PROVE  At(b, y, la)
BY DEF At

\* Between iterations nothing is queued.
LEMMA LandsQuiet ==
    ASSUME NEW b \in Tip, NEW y, NEW la, NEW lb, SubOK(y), Serving(y), y.out = <<>>, At(b, y, lb)
    PROVE  Lands(b, y, la, lb)
BY ReadsNone DEF Lands

\* A cursor between two flows is at a ledger its client is ready for.
LEMMA LandsReady ==
    ASSUME NEW b, NEW x, NEW la, At(b, x, la), ~x.begun
    PROVE  Ready(b, x.next, la)
BY DEF At, Ready

\* An honest close.
LEMMA LandsClose ==
    ASSUME NEW b \in Tip, NEW z \in SubState, NEW la, At(b, z, la), NEW code \in Nat,
           NEW o \in Seqs, NEW l \in Seqs, Honest(b, CloseMsg(code, o, l)),
           NEW y, y = Close(z, code, o, l)
    PROVE  Lands(b, y, la, la)
<1> DEFINE m == CloseMsg(code, o, l)
<1>1. m \in CloseFrame
  BY DEF CloseMsg, CloseFrame
<1>2. /\ y.pc = "write" /\ y.out = <<m>> /\ y.f = z.f /\ y.sent = z.sent
      /\ y.next = z.next /\ y.end = z.end
  BY DEF Close, Write, SubState
<1>3. y.begun <=> z.begun
  BY DEF Close, Write, SubState
<1> HIDE DEF m
<1>4. At(b, y, la)
  BY <1>2, <1>3, AtSame
<1>5. Takes(b, m, b, la)
  BY <1>1 DEF Takes, TakesClose, m
<1>6. Reads(b, <<m>>, b, la)
  BY <1>5, ReadsOne
<1>7. SubOK(y) /\ Serving(y)
  <2>1. <<m>> # <<>>
    OBVIOUS
  <2> QED BY <1>2, <2>1 DEF SubOK, Serving
<1> QED BY <1>2, <1>4, <1>6, <1>7 DEF Lands

\* Sleep, or the close that ends the stream.
LEMMA LandsIdle ==
    ASSUME EndedWell, NEW b \in Tip, NEW z \in SubState, NEW la, At(b, z, la), z.out = <<>>,
           z.ended => ended,
           z.ended /\ ~b.open /\ runErr = "none" /\ b.seq \in 1..MaxSeq => NoMore(b.seq),
           NEW y, y = Idle(z)
    PROVE  Lands(b, y, la, la)
<1>1. CASE z.ended
  <2> DEFINE code == IF srcErr THEN InternalError ELSE endedClose(z)
  <2>1. code \in Nat /\ 0 \in Seqs
    BY WireAssumption DEF InternalError, endedClose, GoingAway, NormalClosure, Seqs
  <2>2. y = Close(z, code, 0, 0)
    BY <1>1 DEF Idle
  <2>3. code \in {NormalClosure, GoingAway} => runErr = "none"
    BY <1>1 DEF EndedWell, InternalError, NormalClosure, GoingAway
  <2> HIDE DEF code
  <2>4. CloseMsg(code, 0, 0).code = code
    BY DEF CloseMsg
  <2>5. Honest(b, CloseMsg(code, 0, 0))
    BY <1>1, <2>3, <2>4 DEF Honest
  <2> QED BY <2>1, <2>2, <2>5, LandsClose
<1>2. CASE ~z.ended
  <2>1. /\ y.pc = "sleep" /\ y.out = <<>> /\ y.f = z.f /\ y.sent = z.sent /\ y.next = z.next /\ y.end = z.end
    BY <1>2 DEF Idle, SubState
  <2>2. y.begun <=> z.begun
    BY <1>2 DEF Idle, SubState
  <2>3. At(b, y, la)
    BY <2>1, <2>2, AtSame
  <2>4. SubOK(y) /\ Serving(y)
    BY <2>1 DEF SubOK, Serving
  <2> QED BY <2>1, <2>3, <2>4, LandsQuiet
<1> QED BY <1>1, <1>2

\* The whole of a ledger, and the cursor moved past it.
LEMMA LandsServed ==
    ASSUME NEW b \in Tip, NEW la, NEW b2 \in Tip, NEW out, out # <<>>, Reads(b, out, b2, la),
           ~b2.open, b2.re <= la,
           NEW y, y.pc = "write", y.out = out, ~y.begun, y.next = b2.seq, y.end = b2.to
    PROVE  Lands(b, y, la, la)
<1>1. At(b2, y, la)
  BY DEF At
<1>2. SubOK(y) /\ Serving(y)
  BY DEF SubOK, Serving
<1> QED BY <1>1, <1>2 DEF Lands

\* The flow a subscriber is in, or gave up, is never the current one when that
\* has another sequence, and is it when it has the same.
LEMMA WhichFlow ==
    ASSUME StreamInv, NEW i \in 1..Len(flows)
    PROVE  /\ flows # <<>> /\ snapSeq = flows[Len(flows)].seq
           /\ snapSeq # 0 => flows[i].seq <= snapSeq
           /\ flows[i].seq = snapSeq /\ snapSeq # 0 => i = Len(flows)
<1>1. Len(flows) \in Nat /\ \A j \in 1..Len(flows) : flows[j].seq \in Nat
  <2>1. BroadcasterTypeOK
    BY DEF StreamInv, SourceSide, SourceInv, SourceTypeOK
  <2>2. \A j \in 1..Len(flows) : flows[j] \in Flow
    BY <2>1 DEF BroadcasterTypeOK
  <2>3. Len(flows) \in Nat
    BY <2>1 DEF BroadcasterTypeOK
  <2> QED BY <2>2, <2>3 DEF Flow, Seqs
<1>2. flows # <<>> /\ snapSeq = flows[Len(flows)].seq /\ Len(flows) \in 1..Len(flows)
  BY <1>1 DEF snapSeq, cur
<1>3. i < Len(flows) => flows[i].seq < snapSeq \/ snapSeq = 0
  BY <1>1, <1>2 DEF StreamInv, FlowsRise
<1>4. i = Len(flows) \/ i < Len(flows)
  BY <1>1
<1>5. flows[i].seq \in Nat /\ snapSeq \in Nat
  BY <1>1, <1>2
<1> QED BY <1>2, <1>3, <1>4, <1>5

\* The watch of an iteration, and the tip it continues from.
LEMMA WatchTip ==
    ASSUME SourceSide, SubTypeOK, WakeInv, NEW s \in Subs, sub[s].pc = "watch", SubOK(sub[s]),
           NEW b, NEW la, At(b, sub[s], la), NEW w, w = Watched(s)
    PROVE  /\ w \in SubState /\ w.pc = "watch" /\ w.out = <<>> /\ (w.ended <=> ended)
           /\ w.begun => w.f \in 1..Len(flows) /\ w.sent <= Len(flows[w.f].chunks)
           /\ At(b, w, la)
<1>1. /\ w \in SubState /\ Place(w) /\ sub[s] \in SubState
      /\ w.begun = sub[s].begun /\ w.f = sub[s].f /\ w.sent = sub[s].sent
      /\ w.next = IF sub[s].next = 0 THEN snapSeq ELSE sub[s].next
      /\ w.pc = sub[s].pc /\ w.end = sub[s].end
  BY WatchFacts
<1>2. (w.ended <=> ended) /\ w.out = sub[s].out
  BY <1>1 DEF Watched, SubState
<1>3. w.out = <<>>
  BY <1>2 DEF SubOK
<1>4. w.begun <=> sub[s].begun
  BY <1>1, Zenon
<1>5. At(b, w, la)
  BY <1>1, <1>4 DEF At
<1> QED BY <1>1, <1>2, <1>3, <1>5 DEF Place

\* writeRingFlow's messages are never none: there is a BEGIN.
LEMMA RingFlowIsSome ==
    ASSUME NEW q \in Seqs, NEW raw \in Body
    PROVE  RingFlow(q, raw) # <<>>
<1>1. RingFlow(q, raw) \in Seq(Msg)
  BY RingMsgs
<1> DEFINE p == Pieces(raw)
           u == <<AppendBegin(q, 0)>>
           v == [i \in 1..p |-> encodeChunk(q, i - 1, Piece(raw, i))]
           w == <<AppendEnd(q, p, Len(raw), 0, Sum64(raw))>>
<1>2. RingFlow(q, raw) = u \o v \o w
  BY DEF RingFlow
<1>3. p \in Nat
  <2>1. Len(raw) \in Nat
    BY DEF Body
  <2> QED BY <2>1, WireAssumption DEF Pieces
<1>4. v \in Seq({v[i] : i \in 1..p})
  <2> HIDE DEF p
  <2> QED BY <1>3
<1>5. u \in Seq({u[1]}) /\ w \in Seq({w[1]}) /\ Len(u) = 1 /\ Len(w) = 1
  OBVIOUS
<1> HIDE DEF u, v, w
<1>6. Len(u \o v \o w) = Len(u) + Len(v) + Len(w) /\ Len(v) \in Nat
  <2> DEFINE T == {u[1]} \cup {v[i] : i \in 1..p} \cup {w[1]}
  <2>1. u \in Seq(T) /\ v \in Seq(T) /\ w \in Seq(T)
    BY <1>4, <1>5
  <2> HIDE DEF T
  <2> QED BY <2>1
<1> QED BY <1>2, <1>5, <1>6

\* serve within the live flow.
LEMMA LiveLands ==
    ASSUME StreamInv, SubTypeOK, WakeInv, NEW s \in Subs, ServeLive(s), SubOK(sub[s]),
           NEW b \in Tip, NEW la \in Nat, At(b, sub[s], la),
           NEW y \in SubState, y = LET x == Watched(s) IN
               IF Unsent(x) = <<>> THEN Idle(x)
               ELSE IF snapComplete THEN Served(LeaveFlow(Write(x, Unsent(x))))
               ELSE [Write(x, Unsent(x)) EXCEPT !.f = Len(flows), !.begun = TRUE, !.sent = Len(cur.chunks)]
    PROVE  Lands(b, y, la, la)
<1>0. /\ SourceSide /\ SourceInv /\ ChainInv /\ EndedWell /\ BroadcasterTypeOK /\ Len(flows) \in Nat
  BY DEF StreamInv, SourceSide, SourceInv, SourceTypeOK, BroadcasterTypeOK
<1>1. PICK w : w = Watched(s)
  OBVIOUS
<1>2. /\ sub[s].pc = "watch" /\ AtFlow(w) /\ (w.begun \/ ~snapComplete)
      /\ y = IF Unsent(w) = <<>> THEN Idle(w)
             ELSE IF snapComplete THEN Served(LeaveFlow(Write(w, Unsent(w))))
             ELSE [Write(w, Unsent(w)) EXCEPT !.f = Len(flows), !.begun = TRUE, !.sent = Len(cur.chunks)]
  BY <1>1 DEF ServeLive
<1>3. /\ w \in SubState /\ w.pc = "watch" /\ w.out = <<>> /\ (w.ended <=> ended)
      /\ w.begun => w.f \in 1..Len(flows) /\ w.sent <= Len(flows[w.f].chunks)
      /\ At(b, w, la)
  BY <1>0, <1>1, <1>2, WatchTip
<1>4. /\ flows # <<>> /\ snapSeq = cur.seq /\ w.next = cur.seq /\ w.next # 0 /\ cur = flows[Len(flows)]
      /\ cur.seq \in Seqs /\ Len(flows) \in 1..Len(flows)
  <2>1. w.next # 0 /\ w.next = snapSeq
    BY <1>2 DEF AtFlow
  <2>2. flows # <<>> /\ snapSeq = cur.seq /\ snapSeq \in Seqs
    BY <1>0, <2>1, SnapType
  <2> QED BY <1>0, <2>1, <2>2 DEF cur
<1>5. w.begun => w.f = Len(flows) /\ ~Fresh(w) /\ InFlow(b, Len(flows), w.sent) /\ w.sent <= Len(cur.chunks)
  <2> SUFFICES ASSUME w.begun
               PROVE  w.f = Len(flows) /\ ~Fresh(w) /\ InFlow(b, Len(flows), w.sent) /\ w.sent <= Len(cur.chunks)
    OBVIOUS
  <2>1. w.f \in 1..Len(flows) /\ flows[w.f].seq = snapSeq /\ InFlow(b, w.f, w.sent) /\ w.sent <= Len(flows[w.f].chunks)
    BY <1>3, <1>4 DEF At
  <2>2. w.f = Len(flows)
    BY <1>4, <2>1, WhichFlow
  <2> QED BY <1>4, <2>1, <2>2 DEF Fresh
<1>6. ~w.begun => ~b.open /\ Fresh(w) /\ Ready(b, cur.seq, la)
  <2> SUFFICES ASSUME ~w.begun PROVE ~b.open /\ Fresh(w) /\ Ready(b, cur.seq, la)
    OBVIOUS
  <2>1. Ready(b, cur.seq, la)
    <3>1. Ready(b, w.next, la)
      BY <1>3, LandsReady
    <3> QED BY <1>4, <3>1
  <2>2. ASSUME b.open PROVE FALSE
    <3>1. b.stamp \in 1..Len(flows) - 1 /\ flows[b.stamp].seq = snapSeq
      BY <1>3, <1>4, <2>2 DEF At
    <3>2. b.stamp \in 1..Len(flows)
      BY <1>0, <3>1
    <3>3. b.stamp = Len(flows)
      BY <1>4, <3>1, <3>2, WhichFlow
    <3> QED BY <1>0, <3>1, <3>3
  <2> QED BY <2>1, <2>2 DEF Fresh
<1>7. PICK b2 \in Tip :
        /\ Reads(b, Unsent(w), b2, la)
        /\ b2.to = b.to /\ b2.re <= la
        /\ IF snapComplete THEN ~b2.open /\ b2.seq = cur.seq + 1
                           ELSE InFlow(b2, Len(flows), Len(cur.chunks))
  <2>1. b.re <= la
    BY <1>3 DEF At
  <2>2. Fresh(w) => ~b.open /\ Ready(b, cur.seq, la)
    BY <1>5, <1>6
  <2>3. ~Fresh(w) => InFlow(b, Len(flows), w.sent) /\ w.sent <= Len(cur.chunks)
    BY <1>5, <1>6
  <2> QED BY <1>0, <1>3, <1>4, <2>1, <2>2, <2>3, LiveDelivers
<1>8. b.to = w.end
  BY <1>3 DEF At
<1>9. CASE Unsent(w) = <<>>
  <2>1. cur \in Flow
    BY <1>0, <1>4, FlowMsgs
  <2>2. cur.chunks \in Seq(Msg) /\ cur.begin \in Msg /\ (snapComplete => cur.end \in Msg)
    BY <2>1 DEF Flow, Msg, snapComplete, complete
  <2>3. ~Fresh(w)
    BY <1>3, <1>9, <2>2, NothingUnsent
  <2>4. b.open
    BY <1>5, <2>3 DEF Fresh, InFlow
  <2>5. y = Idle(w)
    BY <1>2, <1>9
  <2> QED BY <1>0, <1>3, <2>4, <2>5, LandsIdle
<1>10. CASE Unsent(w) # <<>> /\ snapComplete
  <2>1. y = Served(LeaveFlow(Write(w, Unsent(w))))
    BY <1>2, <1>10
  <2>2. y.pc = "write" /\ y.out = Unsent(w) /\ ~y.begun /\ y.next = w.next + 1 /\ y.end = w.end
    BY <1>3, <2>1 DEF Served, LeaveFlow, Write, SubState
  <2>3. y.next = b2.seq /\ y.end = b2.to /\ ~b2.open
    BY <1>4, <1>7, <1>8, <1>10, <2>2
  <2> QED BY <1>7, <1>10, <2>2, <2>3, LandsServed
<1>11. CASE Unsent(w) # <<>> /\ ~snapComplete
  <2>1. y = [Write(w, Unsent(w)) EXCEPT !.f = Len(flows), !.begun = TRUE, !.sent = Len(cur.chunks)]
    BY <1>2, <1>11
  <2>2. /\ y.pc = "write" /\ y.out = Unsent(w) /\ y.begun = TRUE /\ y.f = Len(flows) /\ y.sent = Len(cur.chunks)
        /\ y.next = w.next /\ y.end = w.end
    BY <1>3, <2>1 DEF Write, SubState
  <2>3. At(b2, y, la)
    BY <1>4, <1>7, <1>8, <1>11, <2>2 DEF At
  <2>4. SubOK(y) /\ Serving(y)
    BY <1>11, <2>2 DEF SubOK, Serving
  <2> QED BY <1>7, <2>2, <2>3, <2>4 DEF Lands
<1> QED BY <1>9, <1>10, <1>11

\* A step of serve leaves one local state.
LEMMA SetIs ==
    ASSUME SubTypeOK, NEW s \in Subs, NEW y, NEW z, Set(s, y), Set(s, z)
    PROVE  y = z
<1>1. s \in DOMAIN sub
  BY DEF SubTypeOK
<1> QED BY <1>1 DEF Set

\* serve at the tip, or past the end of a bounded range.
LEMMA AnchorLands ==
    ASSUME SubTypeOK, NEW s \in Subs, anchorTip(s), SubOK(sub[s]), BroadcasterTypeOK,
           NEW b \in Tip, NEW la, At(b, sub[s], la), NEW y, Set(s, y)
    PROVE  Lands(b, y, la, la)
<1> DEFINE n == IF snapComplete /\ snapSeq # 0 THEN snapSeq + 1 ELSE snapSeq
<1>1. PICK x \in SubState : x = sub[s]
  BY DEF SubTypeOK
<1>2. x.pc = "anchor" /\ Set(s, [x EXCEPT !.pc = "watch", !.next = n])
  BY <1>1 DEF anchorTip
<1>3. y = [x EXCEPT !.pc = "watch", !.next = n]
  BY <1>2, SetIs
<1> HIDE DEF n
<1>4. y.pc = "watch" /\ y.out = x.out /\ y.end = x.end
  BY <1>3 DEF SubState
<1>5. y.begun <=> x.begun
  BY <1>3 DEF SubState
<1>6. ~x.begun /\ x.next = 0 /\ x.out = <<>>
  BY <1>1, <1>2 DEF SubOK
<1>7. ~b.open /\ b.seq = 0 /\ b.to = x.end /\ b.re <= la
  BY <1>1, <1>6 DEF At
<1>8. At(b, y, la)
  BY <1>4, <1>5, <1>6, <1>7 DEF At
<1>9. SubOK(y) /\ Serving(y) /\ y.out = <<>>
  BY <1>4, <1>6 DEF SubOK, Serving
<1> QED BY <1>8, <1>9, LandsQuiet

\* serve past the end of a bounded range sends a clean close, and the client
\* has had the range's last ledger.
LEMMA RangeDoneLands ==
    ASSUME SourceSide, SubTypeOK, WakeInv, NEW s \in Subs, ServeRangeDone(s), SubOK(sub[s]),
           NEW b \in Tip, NEW la, At(b, sub[s], la), NEW y, Set(s, y)
    PROVE  Lands(b, y, la, la)
<1>1. PICK w : w = Watched(s)
  OBVIOUS
<1>2. sub[s].pc = "watch" /\ RangeDone(w) /\ y = Close(w, NormalClosure, 0, 0)
  BY <1>1, SetIs DEF ServeRangeDone
<1>3. w \in SubState /\ At(b, w, la)
  BY <1>1, <1>2, WatchTip
<1>4. b.to # 0
  BY <1>2, <1>3 DEF At, RangeDone, Bounded
<1>5. Honest(b, CloseMsg(NormalClosure, 0, 0))
  BY <1>4 DEF Honest
<1>6. NormalClosure \in Nat /\ 0 \in Seqs
  BY WireAssumption DEF NormalClosure, Seqs
<1> QED BY <1>2, <1>3, <1>5, <1>6, LandsClose

\* The next iteration.
LEMMA AgainLands ==
    ASSUME NEW x \in SubState, NEW b \in Tip, NEW la, At(b, x, la), NEW y, y = Again(x)
    PROVE  SubOK(y) /\ Serving(y) /\ At(b, y, la) /\ y.out = <<>>
<1>1. y.pc = "watch" /\ y.out = <<>> /\ y.f = x.f /\ y.sent = x.sent /\ y.next = x.next /\ y.end = x.end
  BY DEF Again, SubState
<1>2. y.begun <=> x.begun
  BY DEF Again, SubState
<1>3. At(b, y, la)
  BY <1>1, <1>2, AtSame
<1> QED BY <1>1, <1>3 DEF SubOK, Serving

\* A woken subscription has what it had when it went to sleep.
LEMMA WakeLands ==
    ASSUME SubTypeOK, NEW s \in Subs, ServeWake(s), NEW b \in Tip, NEW la, At(b, sub[s], la), NEW y, Set(s, y)
    PROVE  Lands(b, y, la, la)
<1>1. y = Again(sub[s]) /\ sub[s] \in SubState
  BY SetIs DEF ServeWake, SubTypeOK
<1> QED BY <1>1, AgainLands, LandsQuiet

\* The completed flow, from its BEGIN to its END.
LEMMA StamplessLands ==
    ASSUME StreamInv, SubTypeOK, WakeInv, NEW s \in Subs, writeStamplessFlow(s), SubOK(sub[s]),
           NEW b \in Tip, NEW la \in Nat, At(b, sub[s], la), NEW y, Set(s, y)
    PROVE  Lands(b, y, la, la)
<1>0. SourceSide /\ SourceInv /\ ChainInv /\ BroadcasterTypeOK
  BY DEF StreamInv, SourceSide, SourceInv, SourceTypeOK
<1>1. PICK w : w = Watched(s)
  OBVIOUS
<1>2. /\ sub[s].pc = "watch" /\ AtFlow(w) /\ ~w.begun /\ snapComplete
      /\ y = Served(Write(w, StamplessFlow(cur)))
  BY <1>1, SetIs DEF writeStamplessFlow
<1>3. w \in SubState /\ At(b, w, la)
  BY <1>0, <1>1, <1>2, WatchTip
<1>4. w.next # 0 /\ w.next = snapSeq /\ flows # <<>> /\ snapSeq = cur.seq
  <2>1. w.next # 0 /\ w.next = snapSeq
    BY <1>2 DEF AtFlow
  <2> QED BY <1>0, <2>1, SnapType
<1>5. PICK q : q = cur.seq
  OBVIOUS
<1>6. Ready(b, cur.seq, la)
  <2>1. Ready(b, w.next, la)
    BY <1>2, <1>3, LandsReady
  <2> QED BY <1>4, <2>1
<1>7. PICK b2 \in Tip : /\ Reads(b, StamplessFlow(cur), b2, la)
                        /\ ~b2.open /\ b2.seq = cur.seq + 1 /\ b2.to = b.to /\ b2.re <= la
  BY <1>0, <1>2, <1>4, <1>6, StamplessDelivers
<1>8. PICK out : out = StamplessFlow(cur)
  OBVIOUS
<1>9. out # <<>>
  <2>1. cur \in Flow
    BY <1>0, <1>4, FlowMsgs
  <2>2. PICK m, cs, e : /\ m = AppendBegin(cur.seq, 0) /\ cs = cur.chunks
                        /\ e = AppendEnd(cur.seq, cur.end.count, cur.end.total, 0, cur.end.sum)
    OBVIOUS
  <2>3. cs \in Seq(ChunkMsg)
    BY <2>1, <2>2 DEF Flow
  <2>4. out = <<m>> \o cs \o <<e>>
    BY <1>8, <2>2 DEF StamplessFlow
  <2>5. Len(<<m>> \o cs \o <<e>>) = 1 + Len(cs) + 1
    <3> DEFINE T == {m, e} \cup ChunkMsg
    <3>1. <<m>> \in Seq(T) /\ cs \in Seq(T) /\ <<e>> \in Seq(T)
      BY <2>3
    <3> HIDE DEF T
    <3> QED BY <3>1
  <2> QED BY <2>3, <2>4, <2>5
<1>10. y.pc = "write" /\ y.out = out /\ ~y.begun /\ y.next = w.next + 1 /\ y.end = w.end
  <2>1. y = Served(Write(w, out))
    BY <1>2, <1>8
  <2>2. y.pc = "write" /\ y.out = out /\ y.next = w.next + 1 /\ y.end = w.end
    BY <1>3, <2>1 DEF Served, Write, SubState
  <2>3. y.begun <=> w.begun
    BY <1>3, <2>1 DEF Served, Write, SubState
  <2> QED BY <1>2, <2>2, <2>3
<1>11. y.next = b2.seq /\ y.end = b2.to
  BY <1>3, <1>4, <1>7, <1>10 DEF At
<1> QED BY <1>7, <1>8, <1>9, <1>10, <1>11, LandsServed

\* The END that was still owed.
LEMMA PinnedEndLands ==
    ASSUME StreamInv, SubTypeOK, WakeInv, NEW s \in Subs, ServePinnedEnd(s), SubOK(sub[s]),
           NEW b \in Tip, NEW la \in Nat, At(b, sub[s], la), NEW y, Set(s, y)
    PROVE  Lands(b, y, la, la)
<1>0. SourceSide /\ SourceInv /\ ChainInv
  BY DEF StreamInv, SourceSide
<1>1. PICK w : w = Watched(s)
  OBVIOUS
<1>2. /\ sub[s].pc = "watch" /\ OwedOnlyEnd(w)
      /\ y = Served(LeaveFlow(Write(w, <<flows[w.f].end>>)))
  BY <1>1, SetIs DEF ServePinnedEnd
<1>3. /\ w \in SubState /\ At(b, w, la)
      /\ w.begun => w.f \in 1..Len(flows) /\ w.sent <= Len(flows[w.f].chunks)
  BY <1>0, <1>1, <1>2, WatchTip
<1>4. w.begun /\ w.sent = Len(flows[w.f].chunks) /\ complete(flows[w.f])
  BY <1>2 DEF OwedOnlyEnd
<1>5. PICK i \in 1..Len(flows) : i = w.f
  BY <1>3, <1>4
<1>6. InFlow(b, i, Len(flows[i].chunks)) /\ w.next = flows[i].seq /\ b.to = w.end /\ b.re <= la
  <2>1. InFlow(b, w.f, w.sent) /\ w.next = flows[w.f].seq /\ b.to = w.end /\ b.re <= la
    BY <1>3, <1>4 DEF At
  <2>2. InFlow(b, i, w.sent)
    BY <1>5, <2>1
  <2>3. w.sent = Len(flows[i].chunks)
    BY <1>4, <1>5
  <2>4. PICK k : k = w.sent
    OBVIOUS
  <2>5. InFlow(b, i, k) /\ k = Len(flows[i].chunks)
    BY <2>2, <2>3, <2>4
  <2>6. InFlow(b, i, Len(flows[i].chunks))
    BY <2>5
  <2> QED BY <1>5, <2>1, <2>6
<1>7. PICK b2 \in Tip : /\ Reads(b, <<flows[i].end>>, b2, la)
                        /\ ~b2.open /\ b2.seq = flows[i].seq + 1 /\ b2.to = b.to /\ b2.re = b.re
  <2>1. complete(flows[i])
    BY <1>4, <1>5 DEF complete
  <2>2. InFlow(b, i, Len(flows[i].chunks)) /\ SourceInv /\ ChainInv
    BY <1>0, <1>6
  <2>3. PICK b3 \in Tip : /\ flows[i].end \in Msg
                          /\ Reads(b, <<flows[i].end>>, b3, la)
                          /\ ~b3.open /\ b3.seq = flows[i].seq + 1 /\ b3.to = b.to /\ b3.re = b.re
    BY <2>1, <2>2, FlowEnds, Zenon
  <2> QED BY <2>3
<1>8. PICK out : out = <<flows[i].end>>
  OBVIOUS
<1>9. y = Served(LeaveFlow(Write(w, out)))
  BY <1>2, <1>5, <1>8
<1>10. y.pc = "write" /\ y.out = out /\ ~y.begun /\ y.next = w.next + 1 /\ y.end = w.end
  BY <1>3, <1>9 DEF Served, LeaveFlow, Write, SubState
<1>11. out # <<>> /\ y.next = b2.seq /\ y.end = b2.to /\ b2.re <= la
  BY <1>6, <1>7, <1>8, <1>10
<1> QED BY <1>7, <1>8, <1>10, <1>11, LandsServed

\* Behind the flow: what was begun is left in the middle, and counted.
LEMMA BehindLands ==
    ASSUME StreamInv, SubTypeOK, WakeInv, NEW s \in Subs, ServeBehind(s), SubOK(sub[s]),
           NEW b \in Tip, NEW la \in Nat, la = liveAbandons, At(b, sub[s], la), NEW y, Set(s, y)
    PROVE  Lands(b, y, la, liveAbandons')
<1>0. SourceSide /\ SourceInv /\ BroadcasterTypeOK /\ Len(flows) \in Nat
  BY DEF StreamInv, SourceSide, SourceInv, SourceTypeOK, BroadcasterTypeOK
<1>1. PICK w : w = Watched(s)
  OBVIOUS
<1>2. /\ sub[s].pc = "watch" /\ Behind(w)
      /\ y = [LeaveFlow(w) EXCEPT !.pc = "bounds"]
      /\ liveAbandons' = IF w.begun THEN la + 1 ELSE la
  BY <1>1, SetIs DEF ServeBehind
<1>3. /\ w \in SubState /\ w.out = <<>> /\ (w.ended <=> ended) /\ At(b, w, la)
      /\ w.begun => w.f \in 1..Len(flows) /\ w.sent <= Len(flows[w.f].chunks)
  BY <1>0, <1>1, <1>2, WatchTip
<1>4. /\ y.pc = "bounds" /\ ~y.begun /\ y.out = <<>> /\ y.next = w.next /\ y.end = w.end
  BY <1>2, <1>3 DEF LeaveFlow, SubState
<1>5. y.ended <=> w.ended
  BY <1>2, <1>3 DEF LeaveFlow, SubState
<1>6. w.next # 0 /\ (w.next < snapSeq \/ snapSeq = 0)
  BY <1>2 DEF Behind
<1>7. SubOK(y) /\ Serving(y)
  <2>1. Behind(y)
    BY <1>4, <1>6 DEF Behind
  <2> QED BY <1>3, <1>4, <1>5, <1>6, <2>1 DEF SubOK, Serving
<1>8. CASE w.begun
  <2>1. PICK i \in 1..Len(flows) : i = w.f
    BY <1>3, <1>8
  <2>2. /\ InFlow(b, i, w.sent) /\ w.next = flows[i].seq /\ b.to = w.end /\ b.re <= la
    BY <1>3, <1>8, <2>1 DEF At
  <2>3. i # Len(flows)
    BY <1>6, <2>1, <2>2, SnapType, <1>0, WhichFlow
  <2>4. b.stamp \in 1..Len(flows) - 1 /\ flows[b.stamp].seq = b.seq /\ b.dis = 0 /\ w.next = b.seq
    BY <1>0, <2>1, <2>2, <2>3 DEF InFlow
  <2>5. liveAbandons' = la + 1 /\ b.re \in Nat
    BY <1>2, <1>8 DEF Tip
  <2>6. b.re <= la + 1 /\ b.re + 1 <= la + 1 /\ b.open
    BY <2>2, <2>5 DEF InFlow
  <2>7. At(b, y, la + 1)
    BY <1>4, <1>6, <2>2, <2>4, <2>6 DEF At
  <2>8. At(b, y, liveAbandons')
    BY <2>5, <2>7
  <2> QED BY <1>4, <1>7, <2>8, LandsQuiet
<1>9. CASE ~w.begun
  <2>1. At(b, y, la)
    BY <1>3, <1>4, <1>9 DEF At
  <2>2. At(b, y, liveAbandons')
    BY <1>2, <1>9, <2>1
  <2> QED BY <1>4, <1>7, <2>2, LandsQuiet
<1> QED BY <1>8, <1>9

\* Unanchored, or ahead of the flow.
LEMMA AheadLands ==
    ASSUME StreamInv, SubTypeOK, WakeInv, NEW s \in Subs, ServeAhead(s), SubOK(sub[s]),
           NEW b \in Tip, NEW la \in Nat, At(b, sub[s], la), NEW y, Set(s, y)
    PROVE  Lands(b, y, la, la)
<1>0. /\ SourceSide /\ SourceInv /\ BroadcasterTypeOK /\ Len(flows) \in Nat /\ EndedWell
      /\ \A i \in 1..Len(flows) : flows[i].seq \in Nat
  <2>1. SourceSide /\ SourceInv /\ BroadcasterTypeOK /\ Len(flows) \in Nat /\ EndedWell
    BY DEF StreamInv, SourceSide, SourceInv, SourceTypeOK, BroadcasterTypeOK
  <2>2. \A i \in 1..Len(flows) : flows[i] \in Flow
    BY <2>1 DEF BroadcasterTypeOK
  <2> QED BY <2>1, <2>2 DEF Flow, Seqs
<1>1. PICK w : w = Watched(s)
  OBVIOUS
<1>2. sub[s].pc = "watch" /\ ~AtFlow(w) /\ ~Behind(w) /\ y = Idle(w)
  BY <1>1, SetIs DEF ServeAhead
<1>3. /\ w \in SubState /\ w.out = <<>> /\ (w.ended <=> ended) /\ At(b, w, la)
  BY <1>0, <1>1, <1>2, WatchTip
<1>4. w.next \in Nat /\ snapSeq \in Nat
  BY <1>0, <1>3, SnapType DEF SubState
<1>5. ASSUME ~b.open, b.seq \in 1..MaxSeq PROVE NoMore(b.seq)
  <2>1. ~w.begun
    BY <1>3, <1>5 DEF At, InFlow
  <2>2. b.seq = w.next /\ w.next # 0
    BY <1>3, <1>5, <2>1 DEF At
  <2>3. snapSeq # 0 /\ w.next > snapSeq
    BY <1>2, <1>4, <2>2 DEF AtFlow, Behind
  <2>4. flows # <<>>
    BY <2>3 DEF snapSeq
  <2>5. ASSUME NEW i \in 1..Len(flows) PROVE flows[i].seq < w.next
    <3>1. flows[i].seq <= snapSeq /\ flows[i].seq \in Nat
      BY <1>0, <2>3, WhichFlow
    <3> QED BY <1>4, <2>3, <3>1
  <2>6. \A i \in 1..Len(flows) : flows[i].seq # w.next /\ flows[i].seq < w.next
    BY <1>0, <1>4, <2>5
  <2> QED BY <2>2, <2>4, <2>6 DEF NoMore
<1> QED BY <1>0, <1>2, <1>3, <1>5, LandsIdle

\* A state with another step to take, and nothing else changed.
LEMMA LandsGoto ==
    ASSUME NEW x \in SubState, NEW b \in Tip, NEW la, At(b, x, la), x.out = <<>>, ~x.begun, x.next # 0,
           NEW p \in {"get", "read", "reason"}, NEW y, y = [x EXCEPT !.pc = p]
    PROVE  Lands(b, y, la, la)
<1>1. y.pc = p /\ y.out = <<>> /\ y.f = x.f /\ y.sent = x.sent /\ y.next = x.next /\ y.end = x.end
  BY DEF SubState
<1>2. y.begun <=> x.begun
  BY DEF SubState
<1>3. At(b, y, la)
  BY <1>1, <1>2, AtSame
<1>4. SubOK(y) /\ Serving(y)
  BY <1>1, <1>2 DEF SubOK, Serving
<1> QED BY <1>1, <1>3, <1>4, LandsQuiet

\* The ledger behind the flow that an ended stream does not hold is no more to
\* come: the ring has all that was completed.
LEMMA NothingBehind ==
    ASSUME StreamInv, ended, runErr = "none", NEW q \in 1..MaxSeq, q < snapSeq \/ snapSeq = 0,
           ~ring.filled \/ q > ring.latest
    PROVE  NoMore(q)
<1>0. /\ BroadcasterTypeOK /\ Len(flows) \in Nat /\ EndedWell /\ BelowFlowOnDisk /\ RangeInv /\ FlowInv
      /\ ring.latest \in Nat /\ ring.oldest \in Nat /\ q \in Nat
      /\ \A i \in 1..Len(flows) : flows[i].seq \in Nat
  <2>1. BroadcasterTypeOK /\ Len(flows) \in Nat /\ EndedWell /\ BelowFlowOnDisk /\ PutInv /\ StoreTypeOK /\ FlowInv
    BY DEF StreamInv, SourceSide, SourceInv, SourceTypeOK, BroadcasterTypeOK
  <2>2. \A i \in 1..Len(flows) : flows[i] \in Flow
    BY <2>1 DEF BroadcasterTypeOK
  <2>3. ring.latest \in Seqs /\ ring.oldest \in Seqs
    BY <2>1 DEF StoreTypeOK
  <2>4. q \in Nat /\ Seqs \subseteq Nat
    BY WireAssumption DEF Seqs
  <2> QED BY <2>1, <2>2, <2>3, <2>4 DEF Flow, PutInv
<1>1. ASSUME NEW i \in 1..Len(flows) PROVE flows[i].seq # q /\ (complete(flows[i]) => flows[i].seq < q)
  <2>1. CASE i < Len(flows)
    <3>1. i \in 1..Len(flows) - 1
      BY <1>0, <2>1
    <3>2. ring.filled /\ (flows[i].seq < ring.oldest \/ flows[i].seq <= ring.latest)
      BY <1>0, <3>1 DEF BelowFlowOnDisk, Retained
    <3>3. ring.oldest <= ring.latest /\ q > ring.latest
      BY <1>0, <3>2 DEF RangeInv
    <3> QED BY <1>0, <3>2, <3>3
  <2>2. CASE i = Len(flows)
    <3>1. snapSeq = flows[i].seq /\ flows # <<>> /\ cur = flows[i]
      BY <1>0, <2>2, WhichFlow DEF cur
    <3>2. flows[i].seq # q
      BY <1>0, <3>1
    <3>3. ASSUME complete(flows[i]) PROVE flows[i].seq < q
      <4>1. snapComplete /\ pc = "done"
        BY <1>0, <3>1, <3>3 DEF snapComplete, FlowInv
      <4>2. ring.filled /\ ring.latest = flows[i].seq
        BY <1>0, <3>1, <4>1 DEF EndedWell
      <4> QED BY <4>2
    <3> QED BY <3>2, <3>3
  <2>3. i < Len(flows) \/ i = Len(flows)
    BY <1>0
  <2> QED BY <2>1, <2>2, <2>3
<1> QED BY <1>1 DEF NoMore

\* Bounds answers with no ring, with a ledger ahead of it, or with one to Get;
\* only a stream that ended well before that ledger is closed cleanly.
LEMMA BoundsLands ==
    ASSUME StreamInv, SubTypeOK, NEW s \in Subs, ServeBounds(s), SubOK(sub[s]),
           NEW b \in Tip, NEW la \in Nat, At(b, sub[s], la), NEW y, Set(s, y)
    PROVE  Lands(b, y, la, la)
<1>1. PICK x \in SubState : x = sub[s]
  BY DEF SubTypeOK
<1>2. x.pc = "bounds" /\ y = IF ~ring.filled \/ x.next > ring.latest THEN Idle(x) ELSE [x EXCEPT !.pc = "get"]
  BY <1>1, SetIs DEF ServeBounds
<1>3. ~x.begun /\ x.next # 0 /\ x.out = <<>> /\ (x.ended => ended /\ Behind(x)) /\ At(b, x, la)
  BY <1>1, <1>2 DEF SubOK
<1>4. CASE ~ring.filled \/ x.next > ring.latest
  <2>1. y = Idle(x) /\ EndedWell
    BY <1>2, <1>4 DEF StreamInv
  <2>2. ASSUME x.ended, ~b.open, runErr = "none", b.seq \in 1..MaxSeq PROVE NoMore(b.seq)
    <3>1. b.seq = x.next /\ ended /\ (x.next < snapSeq \/ snapSeq = 0)
      BY <1>3, <2>2 DEF At, Behind
    <3>2. PICK q \in 1..MaxSeq : q = b.seq /\ q = x.next
      BY <2>2, <3>1
    <3>3. NoMore(q)
      BY <1>4, <2>2, <3>1, <3>2, NothingBehind
    <3> QED BY <3>2, <3>3
  <2> QED BY <1>3, <2>1, <2>2, LandsIdle
<1>5. CASE ~(~ring.filled \/ x.next > ring.latest)
  BY <1>2, <1>3, <1>5, LandsGoto
<1> QED BY <1>4, <1>5

\* Get's index check sends the cursor to the file, or to the reason it is not there.
LEMMA GetLands ==
    ASSUME SubTypeOK, NEW s \in Subs, ServeGet(s), SubOK(sub[s]),
           NEW b \in Tip, NEW la, At(b, sub[s], la), NEW y, Set(s, y)
    PROVE  Lands(b, y, la, la)
<1>1. PICK x \in SubState : x = sub[s]
  BY DEF SubTypeOK
<1>2. x.pc = "get" /\ \E p \in {"read", "reason"} : Set(s, [x EXCEPT !.pc = p])
  BY <1>1 DEF ServeGet
<1>3. PICK p \in {"read", "reason"} : y = [x EXCEPT !.pc = p]
  BY <1>2, SetIs
<1>4. ~x.begun /\ x.next # 0 /\ x.out = <<>> /\ At(b, x, la)
  BY <1>1, <1>2 DEF SubOK
<1> QED BY <1>3, <1>4, LandsGoto

\* A stored ledger, or the discovery that it was pruned.
LEMMA ReadLands ==
    ASSUME StreamInv, SubTypeOK, NEW s \in Subs, ServeRead(s), SubOK(sub[s]),
           NEW b \in Tip, NEW la \in Nat, At(b, sub[s], la), NEW y, Set(s, y)
    PROVE  Lands(b, y, la, la)
<1>0. SourceInv /\ ChainInv /\ StoreTypeOK /\ DiskEmitted
  BY DEF StreamInv, SourceSide, SourceInv, SourceTypeOK
<1>1. PICK x \in SubState : x = sub[s]
  BY DEF SubTypeOK
<1>2. /\ x.pc = "read"
      /\ Set(s, IF Exists(x.next) THEN Served(Write(x, RingFlow(x.next, disk[x.next])))
                                  ELSE [x EXCEPT !.pc = "reason"])
  BY <1>1 DEF ServeRead
<1>3. ~x.begun /\ x.next # 0 /\ x.out = <<>> /\ At(b, x, la)
  BY <1>1, <1>2 DEF SubOK
<1>4. CASE Exists(x.next)
  <2>1. Set(s, Served(Write(x, RingFlow(x.next, disk[x.next]))))
    BY <1>2, <1>4
  <2>2. PICK q \in Seqs, raw \in Body : q = x.next /\ raw = disk[x.next] /\ WasEmitted(q, raw)
    BY <1>0, <1>4 DEF Exists, StoreTypeOK, DiskEmitted
  <2>3. PICK out : out = RingFlow(q, raw)
    OBVIOUS
  <2>4. y = Served(Write(x, out))
    BY <2>1, <2>2, <2>3, SetIs
  <2>5. y.pc = "write" /\ y.out = out /\ y.next = x.next + 1 /\ y.end = x.end
    BY <2>4 DEF Served, Write, SubState
  <2>6. y.begun <=> x.begun
    BY <2>4 DEF Served, Write, SubState
  <2>7. Ready(b, q, la)
    BY <1>3, <2>2, LandsReady
  <2>8. PICK b2 \in Tip : /\ Reads(b, RingFlow(q, raw), b2, la)
                          /\ ~b2.open /\ b2.seq = q + 1 /\ b2.to = b.to /\ b2.re <= la
    BY <1>0, <2>2, <2>7, RingDelivers
  <2>9. out # <<>>
    BY <2>3, RingFlowIsSome
  <2>10. y.next = b2.seq /\ y.end = b2.to /\ ~y.begun
    BY <1>3, <2>2, <2>5, <2>6, <2>8 DEF At
  <2> QED BY <2>3, <2>5, <2>8, <2>9, <2>10, LandsServed
<1>5. CASE ~Exists(x.next)
  <2>1. y = [x EXCEPT !.pc = "reason"]
    BY <1>2, <1>5, SetIs
  <2> QED BY <1>3, <2>1, LandsGoto
<1> QED BY <1>4, <1>5

\* The second Bounds tells a ledger that fell out of retention (4001) from a read
\* that failed.
LEMMA ReasonLands ==
    ASSUME StreamInv, SubTypeOK, NEW s \in Subs, ServeReason(s),
           NEW b \in Tip, NEW la, At(b, sub[s], la), NEW y, Set(s, y)
    PROVE  Lands(b, y, la, la)
<1>1. sub[s] \in SubState /\ y = Close(sub[s], TooFarBehind, ring.oldest, ring.latest)
  BY SetIs DEF ServeReason, SubTypeOK
<1>2. ring.oldest \in Seqs /\ ring.latest \in Seqs
  BY DEF StreamInv, SourceSide, SourceInv, SourceTypeOK, StoreTypeOK
<1>3. PICK o \in Seqs, l \in Seqs : o = ring.oldest /\ l = ring.latest
  BY <1>2
<1>4. TooFarBehind \in Nat /\ Honest(b, CloseMsg(TooFarBehind, o, l))
  BY DEF Honest, CloseMsg, TooFarBehind, NormalClosure, GoingAway
<1> QED BY <1>1, <1>3, <1>4, LandsClose

\* Whatever serve does between two writes, what it has queued is what its
\* client can read, and its cursor is where the client will be.
LEMMA LocalDelivers ==
    ASSUME StreamInv, SubTypeOK, WakeInv, NEW s \in Subs, ServeLocal(s), SubOK(sub[s]),
           NEW b \in Tip, liveAbandons \in Nat, At(b, sub[s], liveAbandons), NEW y \in SubState, Set(s, y)
    PROVE  /\ liveAbandons' \in Nat /\ liveAbandons <= liveAbandons'
           /\ Lands(b, y, liveAbandons, liveAbandons')
<1>0. SourceSide /\ BroadcasterTypeOK
  BY DEF StreamInv, SourceSide, SourceInv, SourceTypeOK
<1>1. PICK la \in Nat : la = liveAbandons
  OBVIOUS
<1>2. At(b, sub[s], la)
  BY <1>1
<1>3. CASE ServeBehind(s)
  <2>1. Lands(b, y, la, liveAbandons')
    BY <1>1, <1>2, <1>3, BehindLands
  <2>2. liveAbandons' \in Nat /\ la <= liveAbandons'
    BY <1>1, <1>3 DEF ServeBehind
  <2> QED BY <1>1, <2>1, <2>2
<1>4. CASE ~ServeBehind(s)
  <2>1. liveAbandons' = la
    BY <1>1, <1>4 DEF ServeLocal, anchorTip, ServeRangeDone, writeStamplessFlow, ServeLive, ServePinnedEnd,
       ServeAhead, ServeBounds, ServeGet, ServeRead, ServeReason, ServeWake
  <2>2. ServeLive(s) => Lands(b, y, la, la)
    <3> SUFFICES ASSUME ServeLive(s) PROVE Lands(b, y, la, la)
      OBVIOUS
    <3>1. Set(s, LET x == Watched(s) IN
               IF Unsent(x) = <<>> THEN Idle(x)
               ELSE IF snapComplete THEN Served(LeaveFlow(Write(x, Unsent(x))))
               ELSE [Write(x, Unsent(x)) EXCEPT !.f = Len(flows), !.begun = TRUE, !.sent = Len(cur.chunks)])
      BY DEF ServeLive
    <3>2. y = LET x == Watched(s) IN
               IF Unsent(x) = <<>> THEN Idle(x)
               ELSE IF snapComplete THEN Served(LeaveFlow(Write(x, Unsent(x))))
               ELSE [Write(x, Unsent(x)) EXCEPT !.f = Len(flows), !.begun = TRUE, !.sent = Len(cur.chunks)]
      BY <3>1, SetIs
    <3> QED BY <1>2, <3>2, LiveLands
  <2>3. Lands(b, y, la, la)
    BY <1>0, <1>2, <1>4, <2>2, AnchorLands, RangeDoneLands, StamplessLands, PinnedEndLands, AheadLands, BoundsLands,
       GetLands, ReadLands, ReasonLands, WakeLands DEF ServeLocal
  <2> QED BY <1>1, <2>1, <2>3
<1> QED BY <1>3, <1>4

-----------------------------------------------------------------------------
\* The client: what it holds, and the tip it stands at.

GotRec == [seq : Seqs, emitStart : Nat, emitEnd : Nat, chunks : Nat, discarded : Nat, body : Body]
Outcome == {"none", "gap", "protocol", "toofar", "readerr", "stopped", "complete", "ok", "truncated"}
CliState == [from : Seqs, to : Seqs, active : BOOLEAN, seq : Seqs, emitStart : Nat, buf : Body, chunks : Nat,
             discarded : Nat, expected : Seqs, exhausted : BOOLEAN, got : Seq(GotRec), outcome : Outcome,
             oldest : Seqs, latest : Seqs]

\* The ledgers it had to start over.
Restarted(got) == {k \in 1..Len(got) : got[k].discarded > 0}
Restarts(c) == Cardinality(Restarted(c.got)) + c.discarded

\* The tip the client stands at.
CliTip(c) ==
    [open |-> c.active,
     seq |-> IF c.active THEN c.seq ELSE IF c.exhausted THEN MaxSeq + 1 ELSE c.expected,
     n |-> IF c.active THEN c.chunks ELSE 0,
     raw |-> c.buf,
     stamp |-> IF c.active THEN c.emitStart ELSE 0,
     dis |-> c.discarded, re |-> Restarts(c), to |-> c.to]

\* A stamp is 0 or the number of a flow of that ledger.
Stamped(i, q) == i # 0 => i \in 1..Len(flows) /\ flows[i].seq = q

\* The k-th ledger it yielded.
GotOK(c, k) == LET g == c.got[k] IN
    /\ WasEmitted(g.seq, g.body)
    /\ k = 1 => c.from \in {0, g.seq}
    /\ k > 1 => g.seq = c.got[k - 1].seq + 1
    /\ g.emitStart = g.emitEnd /\ Stamped(g.emitStart, g.seq)
    /\ g.discarded > 0 => g.emitStart = 0
    /\ g.discarded <= 1

\* The last ledger it yielded.
LastSeq(c) == c.got[Len(c.got)].seq

\* The seqTracker against what was yielded.
Tracks(c) ==
    /\ c.got = <<>> => c.expected = c.from /\ ~c.exhausted
    /\ c.got # <<>> => c.expected = Succ(LastSeq(c)) /\ (c.exhausted <=> LastSeq(c) = MaxSeq)
    /\ c.got # <<>> /\ c.outcome = "none" /\ c.to # 0 => LastSeq(c) < c.to
    /\ c.active => ~c.exhausted /\ (c.seq = c.expected \/ (c.expected = 0 /\ c.got = <<>>))

\* The assembly.
Assembles(c) ==
    /\ c.active => Stamped(c.emitStart, c.seq) /\ (c.discarded > 0 => c.emitStart = 0)
    /\ ~c.active /\ c.outcome = "none" => c.buf = <<>> /\ c.discarded = 0
    /\ c.discarded <= 1

\* What a clean end means.
CleanEnd(c) ==
    IF c.to = 0
    THEN /\ ended /\ runErr = "none"
         /\ c.expected # 0 => NoMore(c.expected)
    ELSE c.from = 0 \/ c.expected > c.to

CliOK(c) ==
    /\ \A k \in 1..Len(c.got) : GotOK(c, k)
    /\ Tracks(c) /\ Assembles(c)
    /\ c.outcome \notin {"gap", "protocol"}
    /\ c.outcome = "ok" => CleanEnd(c)

\* A subscription, from end to end: its client c, what is on the connection,
\* and its serve loop x.  What is in flight and queued is what the client can
\* read, and leaves it at the tip that serve has in mind.
Deliver(c, x, w, k, la) ==
    /\ CliOK(c) /\ Restarts(c) <= la
    /\ k = "none" => w = <<>>
    /\ SubOK(x)
    /\ \E b \in Tip : /\ c.outcome = "none" => Reads(CliTip(c), w \o x.out, b, la)
                      /\ Serving(x) => At(b, x, la)

\* The types of the connection and of the client.
WireTypeOK ==
    /\ cli \in [Subs -> CliState]
    /\ net \in [Subs -> Seq(Msg)]
    /\ conn \in [Subs -> {"none", "open", "down"}]
    /\ liveAbandons \in Nat

\* Every subscription delivers.
DeliverInv == WireTypeOK /\ \A s \in Subs : Deliver(cli[s], sub[s], net[s], conn[s], liveAbandons)

-----------------------------------------------------------------------------
\* What a step of the source leaves of a delivery.

\* A flow only grows, so a client inside it still is.
LEMMA InFlowStays ==
    ASSUME SourceInv, [SourceNext]_sourceVars, NEW b, NEW i \in 1..Len(flows), NEW k \in Nat,
           k <= Len(flows[i].chunks), InFlow(b, i, k)
    PROVE  InFlow(b, i, k)'
<1>0. flows[i] \in Flow
  BY DEF SourceInv, SourceTypeOK, BroadcasterTypeOK
<1>1. /\ flows'[i].seq = flows[i].seq /\ flows[i].chunks \in Seq(ChunkMsg)
      /\ \A j \in 1..Len(flows[i].chunks) : flows'[i].chunks[j] = flows[i].chunks[j]
  BY <1>0, FlowGrowth DEF Flow
<1>2. k # 0 => k \in 1..Len(flows[i].chunks)
  BY <1>1
<1>3. Ext(flows'[i].chunks, k) = Ext(flows[i].chunks, k)
  BY <1>1, <1>2 DEF Ext
<1> QED BY <1>1, <1>3 DEF InFlow

\* Where serve is stays where it is, whatever the source does.
LEMMA AtStays ==
    ASSUME SourceInv, [SourceNext]_sourceVars, NEW b \in Tip, NEW x \in SubState, Place(x) \/ UNCHANGED flows,
           NEW la \in Nat, NEW lb \in Nat, la <= lb, At(b, x, la)
    PROVE  At(b, x, lb)'
<1>1. /\ Len(flows') \in Nat /\ Len(flows') >= Len(flows) /\ Len(flows) \in Nat
      /\ \A i \in 1..Len(flows) : flows'[i].seq = flows[i].seq
  BY FlowGrowth DEF SourceInv, SourceTypeOK, BroadcasterTypeOK
<1>2. b.re \in Nat /\ b.re <= lb /\ (b.re + 1 <= la => b.re + 1 <= lb) /\ b.to = x.end
  BY DEF Tip, At
<1>3. x.begun => (InFlow(b, x.f, x.sent) /\ x.next = flows[x.f].seq)'
  <2> SUFFICES ASSUME x.begun PROVE (InFlow(b, x.f, x.sent) /\ x.next = flows[x.f].seq)'
    OBVIOUS
  <2>1. InFlow(b, x.f, x.sent) /\ x.next = flows[x.f].seq
    BY DEF At
  <2>2. CASE UNCHANGED flows
    BY <2>1, <2>2 DEF InFlow
  <2>3. CASE Place(x)
    <3>1. x.f \in 1..Len(flows) /\ x.sent <= Len(flows[x.f].chunks) /\ x.sent \in Nat
      BY <2>3 DEF Place, SubState
    <3>2. PICK i \in 1..Len(flows), k \in Nat : i = x.f /\ k = x.sent
      BY <3>1
    <3>3. InFlow(b, i, k)'
      BY <2>1, <3>1, <3>2, InFlowStays
    <3>4. x.next = flows'[i].seq
      BY <1>1, <2>1, <3>2
    <3> QED BY <3>2, <3>3, <3>4
  <2> QED BY <2>2, <2>3
<1>4. ~x.begun /\ b.open =>
         /\ b.stamp \in 1..Len(flows') - 1 /\ flows'[b.stamp].seq = b.seq
         /\ b.dis = 0 /\ b.re + 1 <= lb
         /\ x.next = b.seq /\ x.next # 0
  <2> SUFFICES ASSUME ~x.begun, b.open
      PROVE /\ b.stamp \in 1..Len(flows') - 1 /\ flows'[b.stamp].seq = b.seq
            /\ b.dis = 0 /\ b.re + 1 <= lb
            /\ x.next = b.seq /\ x.next # 0
    OBVIOUS
  <2>1. /\ b.stamp \in 1..Len(flows) - 1 /\ flows[b.stamp].seq = b.seq
        /\ b.dis = 0 /\ b.re + 1 <= la
        /\ x.next = b.seq /\ x.next # 0
    BY DEF At
  <2>2. b.stamp \in 1..Len(flows) /\ b.stamp \in 1..Len(flows') - 1
    BY <1>1, <2>1
  <2> QED BY <1>1, <1>2, <2>1, <2>2
<1>5. (x.begun => x.next # 0) /\ (~x.begun /\ ~b.open => b.seq \in {0, x.next})
  BY DEF At
<1> QED BY <1>2, <1>3, <1>4, <1>5 DEF At

\* What serve knows of the source stays so.
LEMMA SubOKStays ==
    ASSUME SourceInv, [SourceNext]_sourceVars, NEW x, SubOK(x)
    PROVE  SubOK(x)'
<1>1. ended => ended' /\ UNCHANGED flows
  BY DoneStays DEF sourceVars, bVars
<1>2. x.pc = "bounds" /\ x.ended => ended' /\ Behind(x)'
  BY <1>1 DEF SubOK, Behind, snapSeq, cur
<1> QED BY <1>2 DEF SubOK

\* What the client was given and how it ended stay true.
LEMMA CliOKStays ==
    ASSUME SourceInv, [SourceNext]_sourceVars, NEW c, CliOK(c)
    PROVE  CliOK(c)'
<1>1. /\ Len(flows') \in Nat /\ Len(flows') >= Len(flows) /\ Len(flows) \in Nat
      /\ \A i \in 1..Len(flows) : flows'[i].seq = flows[i].seq
  BY FlowGrowth DEF SourceInv, SourceTypeOK, BroadcasterTypeOK
<1>2. \A i, q : Stamped(i, q) => Stamped(i, q)'
  BY <1>1 DEF Stamped
<1>3. ASSUME NEW k \in 1..Len(c.got) PROVE GotOK(c, k)'
  <2>1. GotOK(c, k)
    BY DEF CliOK
  <2>2. PICK g : g = c.got[k]
    OBVIOUS
  <2>3. WasEmitted(g.seq, g.body)'
    <3>1. WasEmitted(g.seq, g.body)
      BY <2>1, <2>2 DEF GotOK
    <3> QED BY <3>1, EmittedStays
  <2>4. Stamped(g.emitStart, g.seq)'
    <3>1. Stamped(g.emitStart, g.seq)
      BY <2>1, <2>2 DEF GotOK
    <3> QED BY <3>1, <1>2
  <2> QED BY <2>1, <2>2, <2>3, <2>4 DEF GotOK
<1>4. Tracks(c)' /\ Assembles(c)'
  BY <1>2 DEF CliOK, Tracks, Assembles, LastSeq
<1>5. c.outcome = "ok" => CleanEnd(c)'
  <2> SUFFICES ASSUME c.outcome = "ok" PROVE CleanEnd(c)'
    OBVIOUS
  <2>1. CleanEnd(c)
    BY DEF CliOK
  <2>2. c.to = 0 => UNCHANGED <<flows, ring, ended, runErr>>
    BY <2>1, DoneStays DEF CleanEnd, sourceVars, bVars, storeVars, runVars
  <2> QED BY <2>1, <2>2 DEF CleanEnd, NoMore, complete
<1> QED BY <1>3, <1>4, <1>5 DEF CliOK

\* A delivery survives a step of the source, which changes neither its messages
\* nor its client.
LEMMA DeliverStays ==
    ASSUME SourceInv, [SourceNext]_sourceVars, NEW c \in CliState, NEW x \in SubState, NEW w \in Seq(Msg), NEW k,
           Place(x) \/ UNCHANGED flows, Restarts(c) \in Nat,
           NEW la \in Nat, NEW lb \in Nat, la <= lb, Deliver(c, x, w, k, la)
    PROVE  Deliver(c, x, w, k, lb)'
<1>1. CliOK(c)' /\ Restarts(c) <= lb /\ (k = "none" => w = <<>>)
  BY CliOKStays DEF Deliver
<1>2. \E b \in Tip : /\ c.outcome = "none" => Reads(CliTip(c), w \o x.out, b, lb)'
                     /\ Serving(x) => At(b, x, lb)'
  <2>1. PICK b \in Tip : (c.outcome = "none" => Reads(CliTip(c), w \o x.out, b, la)) /\ (Serving(x) => At(b, x, la))
    BY DEF Deliver
  <2>2. PICK a, v : a = CliTip(c) /\ v = w \o x.out
    OBVIOUS
  <2>3. v \in Seq(Msg)
    BY <2>2 DEF SubState
  <2>4. c.outcome = "none" => Reads(a, v, b, lb)'
    BY <2>1, <2>2, <2>3, ReadsStays
  <2>5. Serving(x) => At(b, x, lb)'
    BY <2>1, AtStays
  <2> QED BY <2>2, <2>4, <2>5
<1>3. SubOK(x)'
  BY SubOKStays DEF Deliver
<1> QED BY <1>1, <1>2, <1>3 DEF Deliver

-----------------------------------------------------------------------------
\* What the client makes of a message it accepts.

\* Yielding a ledger adds the one restart it had, if any.
LEMMA RestartsFacts ==
    ASSUME NEW got \in Seq(GotRec)
    PROVE  /\ Cardinality(Restarted(got)) \in Nat
           /\ \A g \in GotRec : g.discarded <= 1 =>
                Cardinality(Restarted(Append(got, g))) = Cardinality(Restarted(got)) + g.discarded
<1> DEFINE n == Len(got)
           R == Restarted(got)
<1>1. n \in Nat /\ \A k \in 1..n : got[k] \in GotRec
  OBVIOUS
<1>2. IsFiniteSet(R) /\ R \subseteq 1..n
  <2>1. IsFiniteSet(1..n) /\ R \subseteq 1..n
    BY <1>1, FS_Interval DEF Restarted
  <2> QED BY <2>1, FS_Subset
<1>3. Cardinality(R) \in Nat
  BY <1>2, FS_CardinalityType
<1>4. ASSUME NEW g \in GotRec, g.discarded <= 1
      PROVE  Cardinality(Restarted(Append(got, g))) = Cardinality(R) + g.discarded
  <2>1. /\ Len(Append(got, g)) = n + 1
        /\ \A k \in 1..n : Append(got, g)[k] = got[k]
        /\ Append(got, g)[n + 1] = g
    BY <1>1
  <2>2. g.discarded \in Nat
    BY DEF GotRec
  <2>3. CASE g.discarded = 0
    <3>1. Restarted(Append(got, g)) = R
      BY <1>1, <2>1, <2>3 DEF Restarted
    <3> QED BY <1>3, <2>3, <3>1
  <2>4. CASE g.discarded = 1
    <3>1. Restarted(Append(got, g)) = R \cup {n + 1}
      BY <1>1, <2>1, <2>4 DEF Restarted
    <3>2. n + 1 \notin R
      BY <1>1, <1>2
    <3> HIDE DEF R, n
    <3>3. Cardinality(R \cup {n + 1}) = Cardinality(R) + 1
      BY <1>2, <3>2, FS_AddElement
    <3> QED BY <2>4, <3>1, <3>3
  <2> QED BY <1>4, <2>2, <2>3, <2>4
<1> QED BY <1>3, <1>4

\* What the tip of a sound client is, field by field.
LEMMA CliTipType ==
    ASSUME NEW c \in CliState, CliOK(c), NEW a, a = CliTip(c)
    PROVE  /\ a \in Tip /\ Restarts(c) \in Nat
           /\ a.open <=> c.active
           /\ a.seq = IF c.active THEN c.seq ELSE IF c.exhausted THEN MaxSeq + 1 ELSE c.expected
           /\ a.n = (IF c.active THEN c.chunks ELSE 0) /\ a.raw = c.buf
           /\ a.stamp = (IF c.active THEN c.emitStart ELSE 0)
           /\ a.dis = c.discarded /\ a.re = Restarts(c) /\ a.to = c.to
<1>1. /\ c.active \in BOOLEAN /\ c.seq \in Nat /\ c.expected \in Nat /\ MaxSeq + 1 \in Nat /\ c.chunks \in Nat
      /\ c.buf \in Body /\ c.emitStart \in Nat /\ c.to \in Seqs /\ c.got \in Seq(GotRec) /\ c.discarded \in Nat
  BY WireAssumption DEF CliState, Seqs
<1>2. c.discarded \in {0, 1}
  BY <1>1 DEF CliOK, Assembles
<1>3. Restarts(c) \in Nat
  BY <1>1, RestartsFacts DEF Restarts
<1>4. a \in Tip
  <2>1. (IF c.active THEN c.seq ELSE IF c.exhausted THEN MaxSeq + 1 ELSE c.expected) \in Nat
    BY <1>1
  <2>2. (IF c.active THEN c.chunks ELSE 0) \in Nat /\ (IF c.active THEN c.emitStart ELSE 0) \in Nat
    BY <1>1
  <2> QED BY <1>1, <1>2, <1>3, <2>1, <2>2, Zenon DEF CliTip, Tip
<1>5. a.open <=> c.active
  BY Zenon DEF CliTip
<1> QED BY <1>3, <1>4, <1>5 DEF CliTip

\* Two tips are the same when their fields are.
LEMMA TipEqual ==
    ASSUME NEW a \in Tip, NEW b \in Tip, a.open <=> b.open, a.seq = b.seq, a.n = b.n, a.raw = b.raw,
           a.stamp = b.stamp, a.dis = b.dis, a.re = b.re, a.to = b.to
    PROVE  a = b
BY DEF Tip

\* The client's state once a BEGIN is taken.
Begun(c, m) ==
    [c EXCEPT !.discarded = IF c.active THEN @ + 1 ELSE @, !.active = TRUE, !.seq = m.seq,
              !.emitStart = m.stamp, !.buf = <<>>, !.chunks = 0]

\* The client, at a BEGIN that its tip takes, reports no gap and no protocol error
\* and stands at the tip it leads to (seqTracker.accept).
LEMMA BeginHeard ==
    ASSUME NEW c \in CliState, CliOK(c), c.outcome = "none", NEW la, NEW m, NEW b \in Tip, TakesBegin(CliTip(c), m, b, la),
           NEW d, d = Begun(c, m)
    PROVE  /\ IF c.active THEN m.seq = c.seq ELSE accept(c, m.seq)
           /\ d \in CliState /\ CliOK(d) /\ d.outcome = "none" /\ CliTip(d) = b /\ Restarts(d) <= la
<1>1. PICK a : a = CliTip(c)
  OBVIOUS
<1>2. /\ a \in Tip /\ Restarts(c) \in Nat
      /\ a.open <=> c.active
      /\ a.seq = IF c.active THEN c.seq ELSE IF c.exhausted THEN MaxSeq + 1 ELSE c.expected
      /\ a.dis = c.discarded /\ a.re = Restarts(c) /\ a.to = c.to
  BY <1>1, CliTipType
<1>3. /\ m \in BeginMsg
      /\ IF a.open THEN a.seq = m.seq /\ a.dis = 0 /\ m.stamp = 0 ELSE a.seq \in {0, m.seq}
      /\ m.stamp # 0 => m.stamp \in 1..Len(flows) /\ flows[m.stamp].seq = m.seq
      /\ b = BegunTip(a, m.seq, m.stamp)
      /\ b.re <= la
  BY <1>1 DEF TakesBegin
<1>4. m.seq \in Seqs /\ m.stamp \in Nat /\ m.seq \in Nat /\ m.seq <= MaxSeq /\ MaxSeq \in Nat
  BY <1>3, WireAssumption DEF BeginMsg, Seqs
<1>5. c.discarded \in Nat /\ c.discarded <= 1 /\ (~c.active => c.discarded = 0) /\ (c.active => ~c.exhausted)
  BY DEF CliOK, Assembles, Tracks, CliState
<1>6. IF c.active THEN m.seq = c.seq ELSE accept(c, m.seq)
  <2>1. CASE c.active
    BY <1>2, <1>3, <2>1
  <2>2. CASE ~c.active
    <3>1. ~c.exhausted
      BY <1>2, <1>3, <1>4, <2>2
    <3> QED BY <1>2, <1>3, <2>2, <3>1 DEF accept
  <2> QED BY <2>1, <2>2
<1>7. PICK r : r = IF c.active THEN 1 ELSE 0
  OBVIOUS
<1>8. /\ d.discarded = r /\ d.active = TRUE /\ d.seq = m.seq /\ d.emitStart = m.stamp /\ d.buf = <<>> /\ d.chunks = 0
      /\ d.got = c.got /\ d.outcome = c.outcome /\ d.expected = c.expected /\ d.from = c.from /\ d.to = c.to
  <2>1. d.discarded = r
    BY <1>2, <1>3, <1>5, <1>7 DEF CliState, Begun
  <2> QED BY <2>1 DEF CliState, Begun
<1>9. d.exhausted <=> c.exhausted
  BY DEF CliState, Begun
<1>10. d \in CliState
  <2>1. <<>> \in Body /\ 0 \in Nat /\ r \in Nat /\ TRUE \in BOOLEAN
    BY <1>7 DEF Body
  <2>2. d = [c EXCEPT !.discarded = r, !.active = TRUE, !.seq = m.seq, !.emitStart = m.stamp, !.buf = <<>>, !.chunks = 0]
    <3>1. (IF c.active THEN c.discarded + 1 ELSE c.discarded) = r
      BY <1>2, <1>3, <1>5, <1>7
    <3> QED BY <3>1 DEF Begun
  <2> QED BY <1>4, <2>1, <2>2 DEF CliState
<1>11. Tracks(d)
  <2>1. m.seq = c.expected \/ (c.expected = 0 /\ c.got = <<>>)
    <3>1. CASE c.active
      BY <1>6, <3>1 DEF CliOK, Tracks
    <3>2. CASE ~c.active
      <4>1. c.expected = 0 /\ c.got # <<>> => FALSE
        <5> SUFFICES ASSUME c.expected = 0, c.got # <<>> PROVE FALSE
          OBVIOUS
        <5>1. LastSeq(c) \in Seqs
          <6>1. c.got \in Seq(GotRec) /\ Len(c.got) \in 1..Len(c.got)
            BY DEF CliState
          <6>2. c.got[Len(c.got)] \in GotRec
            BY <6>1
          <6> QED BY <6>2 DEF LastSeq, GotRec
        <5>2. Succ(LastSeq(c)) = 0 /\ LastSeq(c) # MaxSeq
          BY <1>6, <3>2 DEF CliOK, Tracks, accept
        <5>3. PICK q \in Seqs : q = LastSeq(c) /\ Succ(q) = 0 /\ q # MaxSeq
          BY <5>1, <5>2
        <5>4. q < MaxSeq /\ q \in Nat
          BY <1>4, <5>3 DEF Seqs
        <5>5. Succ(q) = q + 1
          BY <5>4, SuccFacts, Zenon
        <5> QED BY <5>3, <5>4, <5>5
      <4>2. c.expected = 0 \/ m.seq = c.expected
        BY <1>6, <3>2 DEF accept
      <4> QED BY <4>1, <4>2, Zenon
    <3> QED BY <3>1, <3>2
  <2>2. ~c.exhausted
    BY <1>5, <1>6 DEF accept
  <2> QED BY <1>8, <1>9, <2>1, <2>2 DEF CliOK, Tracks, LastSeq
<1>12. Assembles(d)
  <2>1. Stamped(m.stamp, m.seq) /\ (c.active => m.stamp = 0)
    BY <1>2, <1>3 DEF Stamped
  <2> QED BY <1>7, <1>8, <2>1 DEF Assembles
<1>13. CliOK(d)
  BY <1>8, <1>11, <1>12 DEF CliOK, GotOK
<1>14. Restarts(d) = b.re
  <2>1. Restarts(c) = Cardinality(Restarted(c.got)) + c.discarded /\ Cardinality(Restarted(c.got)) \in Nat
    BY RestartsFacts DEF Restarts, CliState
  <2>2. Restarts(d) = Cardinality(Restarted(c.got)) + r
    BY <1>8 DEF Restarts
  <2>3. b.re = IF a.open THEN a.re + 1 ELSE a.re
    BY <1>3 DEF BegunTip
  <2> QED BY <1>2, <1>3, <1>5, <1>7, <2>1, <2>2, <2>3
<1>15. CliTip(d) = b
  <2>1. PICK e : e = CliTip(d)
    OBVIOUS
  <2>2. /\ e \in Tip
        /\ e.open <=> d.active
        /\ e.seq = IF d.active THEN d.seq ELSE IF d.exhausted THEN MaxSeq + 1 ELSE d.expected
        /\ e.n = (IF d.active THEN d.chunks ELSE 0) /\ e.raw = d.buf
        /\ e.stamp = (IF d.active THEN d.emitStart ELSE 0)
        /\ e.dis = d.discarded /\ e.re = Restarts(d) /\ e.to = d.to
    <3>1. PICK f \in CliState : f = d /\ CliOK(f)
      BY <1>10, <1>13
    <3>2. PICK g : g = CliTip(f) /\ g = e
      BY <2>1, <3>1
    <3> HIDE <3>1
    <3>3. CliOK(f)
      BY <3>1
    <3>4. /\ g \in Tip
          /\ g.open <=> f.active
          /\ g.seq = IF f.active THEN f.seq ELSE IF f.exhausted THEN MaxSeq + 1 ELSE f.expected
          /\ g.n = (IF f.active THEN f.chunks ELSE 0) /\ g.raw = f.buf
          /\ g.stamp = (IF f.active THEN f.emitStart ELSE 0)
          /\ g.dis = f.discarded /\ g.re = Restarts(f) /\ g.to = f.to
      BY <3>2, <3>3, CliTipType
    <3>5. f = d /\ g = e
      BY <3>1, <3>2
    <3> QED BY <3>4, <3>5, Zenon
  <2>3. b.open = TRUE /\ b.seq = m.seq /\ b.n = 0 /\ b.raw = <<>> /\ b.stamp = m.stamp /\ b.to = a.to
    BY <1>3 DEF BegunTip
  <2>4. b.dis = r
    BY <1>2, <1>3, <1>7 DEF BegunTip
  <2>5. e.open <=> b.open
    BY <1>8, <2>2, <2>3
  <2> QED BY <1>2, <1>8, <1>14, <2>1, <2>2, <2>3, <2>4, <2>5, TipEqual
<1> QED BY <1>3, <1>6, <1>8, <1>10, <1>13, <1>14, <1>15

\* The tip of a client inside a ledger.
LEMMA OpenTip ==
    ASSUME NEW c \in CliState, CliOK(c), c.active, NEW b \in Tip, b.open, b.seq = c.seq, b.n = c.chunks,
           b.raw = c.buf, b.stamp = c.emitStart, b.dis = c.discarded, b.re = Restarts(c), b.to = c.to
    PROVE  CliTip(c) = b
<1>1. PICK a : a = CliTip(c)
  OBVIOUS
<1>2. /\ a \in Tip /\ a.open /\ a.seq = c.seq /\ a.n = c.chunks /\ a.raw = c.buf /\ a.stamp = c.emitStart
      /\ a.dis = c.discarded /\ a.re = Restarts(c) /\ a.to = c.to
  BY <1>1, CliTipType
<1> QED BY <1>1, <1>2, TipEqual

\* The tip of a client between two ledgers.
LEMMA ShutTip ==
    ASSUME NEW c \in CliState, CliOK(c), ~c.active, NEW b \in Tip, ~b.open,
           b.seq = IF c.exhausted THEN MaxSeq + 1 ELSE c.expected, b.n = 0,
           b.raw = c.buf, b.stamp = 0, b.dis = c.discarded, b.re = Restarts(c), b.to = c.to
    PROVE  CliTip(c) = b
<1>1. PICK a : a = CliTip(c)
  OBVIOUS
<1>2. /\ a \in Tip /\ ~a.open /\ a.n = 0 /\ a.raw = c.buf /\ a.stamp = 0
      /\ a.seq = IF c.exhausted THEN MaxSeq + 1 ELSE c.expected
      /\ a.dis = c.discarded /\ a.re = Restarts(c) /\ a.to = c.to
  BY <1>1, CliTipType
<1> QED BY <1>1, <1>2, TipEqual

\* What does not change while a ledger is assembled.
Kept(c, d) ==
    /\ d.from = c.from /\ d.to = c.to /\ d.seq = c.seq /\ d.emitStart = c.emitStart /\ d.discarded = c.discarded
    /\ d.expected = c.expected /\ (d.exhausted <=> c.exhausted) /\ d.got = c.got

\* The client, at a CHUNK that its tip takes, finds index, codec and cap right and
\* appends it.
LEMMA ChunkHeard ==
    ASSUME NEW c \in CliState, CliOK(c), c.outcome = "none", NEW m, NEW b \in Tip, TakesChunk(CliTip(c), m, b),
           NEW d \in CliState, Kept(c, d), d.active <=> c.active, d.outcome = c.outcome,
           d.buf = c.buf \o Expand(m), d.chunks = c.chunks + 1
    PROVE  /\ c.active /\ m.seq = c.seq /\ m.idx = c.chunks /\ Decodable(m)
           /\ Len(c.buf) + Len(Expand(m)) <= MaxPayload
           /\ CliOK(d) /\ CliTip(d) = b /\ Restarts(d) = Restarts(c)
<1>1. PICK a : a = CliTip(c)
  OBVIOUS
<1>2. /\ m \in ChunkMsg
      /\ a.open /\ m.seq = a.seq /\ m.idx = a.n /\ Decodable(m)
      /\ Len(a.raw) + Len(Expand(m)) <= MaxPayload
      /\ b = InsideTip(a, a.n + 1, a.raw \o Expand(m))
  BY <1>1 DEF TakesChunk
<1>3. /\ a \in Tip /\ c.active /\ a.seq = c.seq /\ a.n = c.chunks /\ a.raw = c.buf /\ a.stamp = c.emitStart
      /\ a.dis = c.discarded /\ a.re = Restarts(c) /\ a.to = c.to
  BY <1>1, <1>2, CliTipType
<1>4. d.active
  BY <1>3
<1>5. CliOK(d)
  <2>1. Tracks(d)
    BY <1>3, <1>4 DEF CliOK, Tracks, LastSeq, Kept
  <2>2. Assembles(d)
    BY <1>3, <1>4 DEF CliOK, Assembles, Kept
  <2> QED BY <2>1, <2>2 DEF CliOK, GotOK, Kept
<1>6. Restarts(d) = Restarts(c)
  BY DEF Restarts, Kept
<1>7. b.open
  BY <1>2 DEF InsideTip, Tip
<1>8. /\ b.n = a.n + 1 /\ b.raw = a.raw \o Expand(m) /\ b.seq = a.seq /\ b.stamp = a.stamp /\ b.dis = a.dis
      /\ b.re = a.re /\ b.to = a.to
  BY <1>2, <1>3 DEF InsideTip, Tip
<1>9. CliTip(d) = b
  <2>1. /\ b.seq = d.seq /\ b.n = d.chunks /\ b.raw = d.buf /\ b.stamp = d.emitStart
        /\ b.dis = d.discarded /\ b.re = Restarts(d) /\ b.to = d.to
    BY <1>3, <1>6, <1>8 DEF Kept
  <2> QED BY <1>4, <1>5, <1>7, <2>1, OpenTip
<1> QED BY <1>2, <1>3, <1>5, <1>6, <1>9

\* The iteration ends, and what was yielded stays.
LEMMA EndHeld ==
    ASSUME NEW c \in CliState, CliOK(c), NEW d \in CliState, d.got = c.got, d.expected = c.expected,
           d.exhausted <=> c.exhausted, d.from = c.from, d.to = c.to, d.discarded = c.discarded, ~d.active,
           d.outcome \notin {"none", "gap", "protocol"}, d.outcome = "ok" => CleanEnd(c)
    PROVE  CliOK(d) /\ Restarts(d) = Restarts(c)
<1>1. Tracks(d) /\ Assembles(d)
  BY DEF CliOK, Tracks, Assembles, LastSeq
<1>2. d.outcome = "ok" => CleanEnd(d)
  BY DEF CleanEnd
<1>3. \A k \in 1..Len(d.got) : GotOK(d, k)
  BY DEF CliOK, GotOK
<1> QED BY <1>1, <1>2, <1>3 DEF CliOK, Restarts

\* An orderly end is a clean one only when the server meant it so.
LEMMA CloseHeard ==
    ASSUME NEW c \in CliState, CliOK(c), c.outcome = "none", NEW m, NEW b, TakesClose(CliTip(c), m, b),
           NEW o, o = classifyClose(c, m)
    PROVE  /\ o \in Outcome \ {"none", "gap", "protocol"}
           /\ o = "ok" => CleanEnd(c)
<1>1. PICK a : a = CliTip(c)
  OBVIOUS
<1>2. Honest(a, m)
  BY <1>1 DEF TakesClose
<1>3. /\ a.open <=> c.active
      /\ a.seq = IF c.active THEN c.seq ELSE IF c.exhausted THEN MaxSeq + 1 ELSE c.expected
      /\ a.to = c.to
  BY <1>1, CliTipType
<1>4. o \in Outcome \ {"none", "gap", "protocol"}
  BY DEF classifyClose, Outcome
<1>5. ASSUME o = "ok" PROVE CleanEnd(c)
  <2>1. m.code \in {NormalClosure, GoingAway} /\ ~c.active /\ ~truncated(c)
    BY <1>5 DEF classifyClose
  <2>2. c.expected \in 0..MaxSeq /\ MaxSeq \in Nat /\ c.to \in 0..MaxSeq
    BY WireAssumption DEF CliState, Seqs
  <2>3. c.got # <<>> => LastSeq(c) \in Seqs
    <3> SUFFICES ASSUME c.got # <<>> PROVE LastSeq(c) \in Seqs
      OBVIOUS
    <3>1. c.got \in Seq(GotRec) /\ Len(c.got) \in 1..Len(c.got)
      BY DEF CliState
    <3>2. c.got[Len(c.got)] \in GotRec
      BY <3>1
    <3> QED BY <3>2 DEF LastSeq, GotRec
  <2>4. ASSUME c.exhausted PROVE c.expected = 0 /\ c.got # <<>> /\ LastSeq(c) = MaxSeq
    <3>1. c.got # <<>> /\ LastSeq(c) = MaxSeq /\ c.expected = Succ(LastSeq(c))
      BY <2>4 DEF CliOK, Tracks
    <3>2. Succ(MaxSeq) = 0
      BY <2>2 DEF Succ
    <3> QED BY <3>1, <3>2
  <2>5. CASE c.to = 0
    <3>1. ended /\ runErr = "none" /\ (a.seq \in 1..MaxSeq => NoMore(a.seq))
      BY <1>2, <1>3, <2>1, <2>5 DEF Honest
    <3>2. c.expected # 0 => a.seq = c.expected /\ c.expected \in 1..MaxSeq
      BY <1>3, <2>1, <2>2, <2>4
    <3>3. c.expected # 0 => NoMore(c.expected)
      BY <3>1, <3>2
    <3> QED BY <2>5, <3>1, <3>3 DEF CleanEnd
  <2>6. CASE c.to # 0
    <3>1. c.expected = 0 \/ c.expected > c.to
      BY <2>1, <2>2, <2>6 DEF truncated
    <3>2. ASSUME c.expected = 0 PROVE c.from = 0
      <4>1. CASE c.got = <<>>
        BY <3>2, <4>1 DEF CliOK, Tracks
      <4>2. CASE c.got # <<>>
        <5>1. PICK q \in Seqs : q = LastSeq(c)
          BY <2>3, <4>2
        <5>2. Succ(q) = 0 /\ q < c.to
          BY <2>6, <3>2, <4>2, <5>1 DEF CliOK, Tracks
        <5>3. q \in Nat /\ q < MaxSeq
          BY <2>2, <5>2 DEF Seqs
        <5>4. Succ(q) = q + 1
          BY <5>3, SuccFacts, Zenon
        <5> QED BY <5>2, <5>3, <5>4
      <4> QED BY <4>1, <4>2
    <3> QED BY <2>6, <3>1, <3>2 DEF CleanEnd
  <2> QED BY <2>5, <2>6
<1> QED BY <1>4, <1>5

\* The client, at an END that its tip takes, finds count, length and checksum
\* right, yields a ledger that was emitted and stands behind it.
LEMMA EndHeard ==
    ASSUME NEW c \in CliState, CliOK(c), c.outcome = "none", NEW m, NEW b \in Tip, TakesEnd(CliTip(c), m, b),
           NEW d \in CliState, d.from = c.from, d.to = c.to, d.got = Append(c.got, LedgerInfo(c, m)),
           d.expected = Succ(m.seq), d.exhausted <=> m.seq = MaxSeq, ~d.active, d.discarded = 0, d.buf = <<>>,
           \/ d.outcome \in {"stopped", "complete"}
           \/ d.outcome = "none" /\ (c.to # 0 => m.seq < c.to)
    PROVE  /\ c.active /\ m.seq = c.seq /\ m.count = c.chunks /\ m.total = Len(c.buf) /\ m.sum = c.buf
           /\ CliOK(d) /\ Restarts(d) = Restarts(c)
           /\ d.outcome = "none" => CliTip(d) = b
<1>1. PICK a : a = CliTip(c)
  OBVIOUS
<1>2. /\ m \in EndMsg
      /\ a.open /\ m.seq = a.seq /\ m.count = a.n /\ m.total = Len(a.raw) /\ m.sum = a.raw
      /\ m.stamp = a.stamp
      /\ WasEmitted(m.seq, m.sum)
      /\ b = DoneTip(a)
  BY <1>1 DEF TakesEnd
<1>3. /\ a \in Tip /\ c.active /\ a.seq = c.seq /\ a.n = c.chunks /\ a.raw = c.buf /\ a.stamp = c.emitStart
      /\ a.dis = c.discarded /\ a.re = Restarts(c) /\ a.to = c.to
  BY <1>1, <1>2, CliTipType
<1>4. PICK g : g = LedgerInfo(c, m)
  OBVIOUS
<1>5. /\ g.seq = m.seq /\ g.emitStart = c.emitStart /\ g.emitEnd = m.stamp /\ g.discarded = c.discarded
      /\ g.body = c.buf
  BY <1>4 DEF LedgerInfo
<1>6. g \in GotRec
  BY <1>2, <1>4 DEF LedgerInfo, GotRec, CliState, EndMsg
<1>7. PICK n \in Nat : n = Len(c.got)
  BY DEF CliState
<1>8. /\ c.got \in Seq(GotRec) /\ Len(d.got) = n + 1 /\ d.got[n + 1] = g
      /\ \A k \in 1..n : d.got[k] = c.got[k]
  BY <1>4, <1>6, <1>7 DEF CliState
<1>9. /\ ~c.exhausted /\ (c.seq = c.expected \/ (c.expected = 0 /\ c.got = <<>>))
      /\ Stamped(c.emitStart, c.seq) /\ (c.discarded > 0 => c.emitStart = 0) /\ c.discarded <= 1 /\ c.discarded \in Nat
  BY <1>3 DEF CliOK, Tracks, Assembles, CliState
<1>10. ASSUME NEW k \in 1..Len(d.got) PROVE GotOK(d, k)
  <2>1. CASE k \in 1..n
    <3>1. GotOK(c, k) /\ d.got[k] = c.got[k] /\ (k > 1 => k - 1 \in 1..n)
      BY <1>7, <1>8, <2>1 DEF CliOK
    <3>2. k > 1 => d.got[k - 1] = c.got[k - 1]
      BY <1>8, <3>1
    <3> QED BY <3>1, <3>2 DEF GotOK
  <2>2. CASE k = n + 1
    <3>1. d.got[k] = g
      BY <1>8, <2>2
    <3>2. WasEmitted(g.seq, g.body)
      BY <1>2, <1>3, <1>5
    <3>3. Stamped(g.emitStart, g.seq) /\ g.emitStart = g.emitEnd
      BY <1>2, <1>3, <1>5, <1>9
    <3>4. k = 1 => d.from \in {0, g.seq}
      <4> SUFFICES ASSUME k = 1 PROVE d.from \in {0, g.seq}
        OBVIOUS
      <4>1. c.got = <<>>
        BY <1>7, <1>8, <2>2
      <4>2. c.expected = c.from
        BY <4>1 DEF CliOK, Tracks
      <4> QED BY <1>2, <1>3, <1>5, <1>9, <4>2
    <3>5. k > 1 => g.seq = d.got[k - 1].seq + 1
      <4> SUFFICES ASSUME k > 1 PROVE g.seq = d.got[k - 1].seq + 1
        OBVIOUS
      <4>1. n \in 1..n /\ k - 1 = n /\ c.got # <<>>
        BY <1>7, <2>2
      <4>2. d.got[n] = c.got[n] /\ c.got[n] \in GotRec
        BY <1>7, <1>8, <4>1
      <4>3. PICK q \in Seqs : q = c.got[n].seq /\ q = LastSeq(c)
        BY <1>7, <4>2 DEF GotRec, LastSeq
      <4>4. c.expected = Succ(q) /\ q # MaxSeq
        BY <1>9, <4>1, <4>3 DEF CliOK, Tracks
      <4>5. q \in Nat /\ q < MaxSeq
        BY <4>4, WireAssumption DEF Seqs
      <4>6. Succ(q) = q + 1
        BY <4>5, SuccFacts, Zenon
      <4> QED BY <1>2, <1>3, <1>5, <1>9, <4>1, <4>2, <4>3, <4>4, <4>6
    <3> QED BY <1>5, <1>9, <3>1, <3>2, <3>3, <3>4, <3>5 DEF GotOK
  <2> QED BY <1>7, <1>8, <2>1, <2>2
<1>11. Tracks(d)
  <2>1. d.got # <<>>
    BY <1>7, <1>8
  <2>2. LastSeq(d) = m.seq
    BY <1>5, <1>8 DEF LastSeq
  <2> QED BY <2>1, <2>2 DEF Tracks
<1>12. Assembles(d)
  BY DEF Assembles
<1>13. CliOK(d)
  BY <1>10, <1>11, <1>12 DEF CliOK
<1>14. Restarts(d) = Restarts(c)
  <2>1. Cardinality(Restarted(d.got)) = Cardinality(Restarted(c.got)) + g.discarded
    BY <1>4, <1>5, <1>6, <1>8, <1>9, RestartsFacts
  <2>2. Cardinality(Restarted(c.got)) \in Nat
    BY <1>8, RestartsFacts
  <2> QED BY <1>5, <1>9, <2>1, <2>2 DEF Restarts
<1>15. CliTip(d) = b
  <2>1. ~b.open /\ b.n = 0 /\ b.raw = <<>> /\ b.stamp = 0 /\ b.dis = 0 /\ b.seq = a.seq + 1 /\ b.re = a.re /\ b.to = a.to
    BY <1>2 DEF DoneTip
  <2>2. b.seq = IF d.exhausted THEN MaxSeq + 1 ELSE d.expected
    <3>1. PICK q \in Seqs : q = m.seq
      BY <1>2 DEF EndMsg
    <3>2. CASE q = MaxSeq
      BY <1>2, <2>1, <3>1, <3>2
    <3>3. CASE q # MaxSeq
      <4>1. q < MaxSeq
        BY <3>3, WireAssumption DEF Seqs
      <4>2. Succ(q) = q + 1
        BY <4>1, SuccFacts, Zenon
      <4> QED BY <1>2, <2>1, <3>1, <3>3, <4>2
    <3> QED BY <3>2, <3>3
  <2> QED BY <1>3, <1>13, <1>14, <2>1, <2>2, ShutTip
<1> QED BY <1>2, <1>3, <1>13, <1>14, <1>15

-----------------------------------------------------------------------------
\* Every step of the composition keeps every delivery.

\* A step of one subscription leaves the others' alone.
LEMMA DeliverOne ==
    ASSUME SourceInv, SubTypeOK, DeliverInv, UNCHANGED sourceVars, WireTypeOK', liveAbandons <= liveAbandons',
           NEW s \in Subs, NEW c \in CliState, NEW x \in SubState, NEW w \in Seq(Msg), NEW k,
           \A t \in Subs : /\ cli'[t] = IF t = s THEN c ELSE cli[t]
                           /\ sub'[t] = IF t = s THEN x ELSE sub[t]
                           /\ net'[t] = IF t = s THEN w ELSE net[t]
                           /\ conn'[t] = IF t = s THEN k ELSE conn[t],
           NEW lb \in Nat, lb = liveAbandons', Deliver(c, x, w, k, lb)
    PROVE  DeliverInv'
<1>0. UNCHANGED flows /\ [SourceNext]_sourceVars /\ WireTypeOK
  BY DEF sourceVars, bVars, DeliverInv
<1>1. ASSUME NEW t \in Subs PROVE Deliver(cli[t], sub[t], net[t], conn[t], liveAbandons)'
  <2>0. PICK c1, x1, w1, k1 : c1 = cli'[t] /\ x1 = sub'[t] /\ w1 = net'[t] /\ k1 = conn'[t]
    OBVIOUS
  <2>1. PICK l1 \in Nat : /\ c1 \in CliState /\ x1 \in SubState /\ w1 \in Seq(Msg) /\ l1 <= lb
                          /\ Deliver(c1, x1, w1, k1, l1)
    <3>1. CASE t = s
      <4>1. c = c1 /\ x = x1 /\ w = w1 /\ k = k1 /\ lb <= lb
        BY <2>0, <3>1
      <4>2. Deliver(c1, x1, w1, k1, lb)
        BY <4>1
      <4> QED BY <4>1, <4>2
    <3>2. CASE t # s
      <4>1. cli[t] = c1 /\ sub[t] = x1 /\ net[t] = w1 /\ conn[t] = k1
        BY <2>0, <3>2
      <4>2. PICK l2 \in Nat : l2 = liveAbandons /\ l2 <= lb
        BY <1>0 DEF WireTypeOK
      <4>3. /\ cli[t] \in CliState /\ sub[t] \in SubState /\ net[t] \in Seq(Msg)
            /\ Deliver(cli[t], sub[t], net[t], conn[t], l2)
        BY <1>0, <4>2 DEF WireTypeOK, SubTypeOK, DeliverInv
      <4>4. Deliver(c1, x1, w1, k1, l2)
        BY <4>1, <4>3
      <4> QED BY <4>1, <4>2, <4>3, <4>4
    <3> QED BY <3>1, <3>2
  <2>2. Restarts(c1) \in Nat
    <3>1. c1.got \in Seq(GotRec) /\ c1.discarded \in Nat
      BY <2>1 DEF CliState
    <3> QED BY <3>1, RestartsFacts DEF Restarts
  <2>3. Deliver(c1, x1, w1, k1, lb)'
    BY <1>0, <2>1, <2>2, DeliverStays
  <2> QED BY <2>0, <2>3
<1> QED BY <1>1 DEF DeliverInv

\* Run's steps keep every delivery.
LEMMA DeliverSource ==
    ASSUME SourceInv, SubTypeOK, WakeInv, DeliverInv, [SourceNext]_sourceVars,
           UNCHANGED <<connVars, serveVars, cli>>
    PROVE  DeliverInv'
<1>0. UNCHANGED <<cli, sub, net, conn, liveAbandons>>
  BY DEF connVars, serveVars
<1>1. WireTypeOK'
  BY <1>0 DEF DeliverInv, WireTypeOK
<1>2. ASSUME NEW t \in Subs PROVE Deliver(cli[t], sub[t], net[t], conn[t], liveAbandons)'
  <2>0. PICK c, x, w, k, la : c = cli[t] /\ x = sub[t] /\ w = net[t] /\ k = conn[t] /\ la = liveAbandons
    OBVIOUS
  <2>1. /\ c \in CliState /\ x \in SubState /\ w \in Seq(Msg) /\ la \in Nat /\ la <= la
        /\ Deliver(c, x, w, k, la) /\ Place(x)
    BY <2>0 DEF DeliverInv, WireTypeOK, SubTypeOK, WakeInv, Wake
  <2>2. Restarts(c) \in Nat
    <3>1. c.got \in Seq(GotRec) /\ c.discarded \in Nat
      BY <2>1 DEF CliState
    <3> QED BY <3>1, RestartsFacts DEF Restarts
  <2>3. Deliver(c, x, w, k, la)'
    BY <2>1, <2>2, DeliverStays
  <2>4. c = cli'[t] /\ x = sub'[t] /\ w = net'[t] /\ k = conn'[t] /\ la = liveAbandons'
    BY <1>0, <2>0
  <2> QED BY <2>3, <2>4
<1> QED BY <1>1, <1>2 DEF DeliverInv

\* The client has dialed and its serve loop starts.
LEMMA ConnectDelivers ==
    ASSUME NEW q \in Seqs, NEW r \in Seqs, NEW la \in Nat,
           NEW c, c = [NotDialed EXCEPT !.from = q, !.to = r, !.expected = q],
           NEW x, x = [Off EXCEPT !.pc = IF q = 0 THEN "anchor" ELSE "watch", !.start = q, !.end = r, !.next = q]
    PROVE  c \in CliState /\ Deliver(c, x, <<>>, "open", la)
<1>1. /\ c.from = q /\ c.to = r /\ c.active = FALSE /\ c.emitStart = 0 /\ c.buf = <<>> /\ c.chunks = 0
      /\ c.discarded = 0 /\ c.expected = q /\ c.exhausted = FALSE /\ c.got = <<>> /\ c.outcome = "none"
  BY DEF NotDialed
<1>2. /\ x.pc = (IF q = 0 THEN "anchor" ELSE "watch") /\ x.end = r /\ x.next = q /\ x.begun = FALSE /\ x.out = <<>>
  BY DEF Off
<1>3. c \in CliState
  <2>1. /\ q \in Seqs /\ r \in Seqs /\ 0 \in Seqs /\ 0 \in Nat /\ <<>> \in Body /\ <<>> \in Seq(GotRec)
        /\ FALSE \in BOOLEAN /\ "none" \in Outcome
    BY WireAssumption DEF Seqs, Body, Outcome
  <2>2. c = [from |-> q, to |-> r, active |-> FALSE, seq |-> 0, emitStart |-> 0,
             buf |-> <<>>, chunks |-> 0, discarded |-> 0, expected |-> q,
             exhausted |-> FALSE, got |-> <<>>, outcome |-> "none",
             oldest |-> 0, latest |-> 0]
    BY DEF NotDialed
  <2>3. [from |-> q, to |-> r, active |-> FALSE, seq |-> 0, emitStart |-> 0,
         buf |-> <<>>, chunks |-> 0, discarded |-> 0, expected |-> q,
         exhausted |-> FALSE, got |-> <<>>, outcome |-> "none",
         oldest |-> 0, latest |-> 0] \in CliState
    <3>1. PICK zero, body, got, o : /\ zero \in Seqs /\ zero \in Nat /\ zero = 0 /\ body \in Body /\ body = <<>>
                                   /\ got \in Seq(GotRec) /\ got = <<>> /\ o \in Outcome /\ o = "none"
      BY <2>1
    <3>2. [from |-> q, to |-> r, active |-> FALSE, seq |-> zero, emitStart |-> zero,
           buf |-> body, chunks |-> zero, discarded |-> zero, expected |-> q,
           exhausted |-> FALSE, got |-> got, outcome |-> o,
           oldest |-> zero, latest |-> zero] \in CliState
      BY <2>1, <3>1 DEF CliState
    <3> QED BY <3>1, <3>2
  <2> QED BY <2>2, <2>3
<1> HIDE DEF NotDialed
<1>4. CliOK(c)
  BY <1>1 DEF CliOK, Tracks, Assembles
<1>5. Restarts(c) = 0
  <2>1. Restarted(c.got) = {}
    BY <1>1 DEF Restarted
  <2>2. Cardinality(Restarted(c.got)) = 0
    BY <2>1, FS_EmptySet
  <2> QED BY <1>1, <2>2 DEF Restarts
<1>6. PICK a : a = CliTip(c)
  OBVIOUS
<1>7. a \in Tip /\ ~a.open /\ a.seq = q /\ a.re = 0 /\ a.to = r
  <2>1. /\ a \in Tip
        /\ a.open <=> c.active
        /\ a.seq = IF c.active THEN c.seq ELSE IF c.exhausted THEN MaxSeq + 1 ELSE c.expected
        /\ a.re = Restarts(c) /\ a.to = c.to
    BY <1>3, <1>4, <1>6, CliTipType
  <2> QED BY <1>1, <1>5, <2>1
<1>8. SubOK(x)
  BY <1>2 DEF SubOK
<1>9. At(a, x, la)
  BY <1>2, <1>7 DEF At
<1>10. Reads(a, <<>> \o x.out, a, la)
  <2>1. <<>> \o x.out = <<>>
    BY <1>2
  <2> QED BY <1>7, <2>1, ReadsNone
<1> QED BY <1>3, <1>4, <1>5, <1>6, <1>7, <1>8, <1>9, <1>10 DEF Deliver

\* So does a new connection: nothing is in flight and serve stands at from.
LEMMA ConnectStep ==
    ASSUME StreamInv, SubTypeOK, DeliverInv, NEW s \in Subs, Connect(s)
    PROVE  DeliverInv'
<1>0. SourceInv /\ WireTypeOK /\ UNCHANGED sourceVars
  BY DEF StreamInv, SourceSide, DeliverInv, Connect
<1>1. PICK p \in Requests : RawLedgers(s, p[1], p[2]) /\ handleStream(s, p[1], p[2])
  BY DEF Connect
<1>2. PICK q \in Seqs, r \in Seqs : q = p[1] /\ r = p[2]
  BY <1>1, RequestsAssumption
<1>3. PICK c, x : /\ c = [NotDialed EXCEPT !.from = q, !.to = r, !.expected = q]
                  /\ x = [Off EXCEPT !.pc = IF q = 0 THEN "anchor" ELSE "watch", !.start = q, !.end = r, !.next = q]
  OBVIOUS
<1>4. /\ conn[s] = "none" /\ conn' = [conn EXCEPT ![s] = "open"] /\ cli' = [cli EXCEPT ![s] = c]
      /\ sub' = [sub EXCEPT ![s] = x] /\ UNCHANGED <<net, liveAbandons>>
  BY <1>1, <1>2, <1>3 DEF RawLedgers, SetCli, handleStream, Set
<1>5. PICK la \in Nat : la = liveAbandons
  BY <1>0 DEF WireTypeOK
<1>6. c \in CliState /\ Deliver(c, x, <<>>, "open", la)
  BY <1>3, ConnectDelivers
<1>7. net[s] = <<>> /\ <<>> \in Seq(Msg)
  BY <1>4 DEF DeliverInv, Deliver
<1>8. x \in SubState
  <2>1. PICK pc0 : pc0 = (IF q = 0 THEN "anchor" ELSE "watch") /\ pc0 \in SubPc \ {"sleep", "bounds"}
    BY DEF SubPc
  <2>2. x = [Off EXCEPT !.pc = pc0, !.start = q, !.end = r, !.next = q]
    BY <1>3, <2>1
  <2>3. BroadcasterTypeOK
    BY <1>0 DEF SourceInv, SourceTypeOK
  <2>4. [Off EXCEPT !.pc = pc0, !.start = q, !.end = r, !.next = q] \in SubState
    BY <2>1, <2>3, OffFacts
  <2> QED BY <2>2, <2>4
<1> HIDE DEF NotDialed, Off
<1>9. \A t \in Subs : /\ cli'[t] = IF t = s THEN c ELSE cli[t]
                      /\ sub'[t] = IF t = s THEN x ELSE sub[t]
                      /\ net'[t] = IF t = s THEN <<>> ELSE net[t]
                      /\ conn'[t] = IF t = s THEN "open" ELSE conn[t]
  BY <1>0, <1>4, <1>7 DEF WireTypeOK, SubTypeOK
<1>10. WireTypeOK' /\ liveAbandons <= liveAbandons' /\ la = liveAbandons'
  <2>1. liveAbandons <= liveAbandons' /\ la = liveAbandons'
    BY <1>4, <1>5
  <2>2. cli' \in [Subs -> CliState] /\ conn' \in [Subs -> {"none", "open", "down"}]
    BY <1>0, <1>4, <1>6 DEF WireTypeOK
  <2> QED BY <1>0, <1>4, <2>1, <2>2 DEF WireTypeOK
<1> QED BY <1>0, <1>6, <1>7, <1>8, <1>9, <1>10, DeliverOne

\* So does a step of serve that writes nothing.
LEMMA LocalStep ==
    ASSUME StreamInv, SubTypeOK, WakeInv, DeliverInv, NEW s \in Subs, ServeStep(s)
    PROVE  DeliverInv'
<1>0. /\ SourceInv /\ SourceSide /\ WireTypeOK /\ UNCHANGED sourceVars /\ UNCHANGED <<net, conn, cli>>
      /\ ServeLocal(s) /\ liveAbandons \in Nat
  BY DEF StreamInv, SourceSide, DeliverInv, ServeStep, connVars, WireTypeOK
<1>1. PICK y \in SubState : Set(s, y)
  BY <1>0, LocalWake
<1>2. PICK c, x, w, k : c = cli[s] /\ x = sub[s] /\ w = net[s] /\ k = conn[s]
  OBVIOUS
<1>3. /\ c \in CliState /\ w \in Seq(Msg) /\ x \in SubState /\ Deliver(c, x, w, k, liveAbandons)
  BY <1>0, <1>2 DEF WireTypeOK, SubTypeOK, DeliverInv
<1>4. liveAbandons' \in Nat /\ liveAbandons <= liveAbandons'
  <2>1. CASE ServeBehind(s)
    BY <1>0, <2>1 DEF ServeBehind
  <2>2. CASE ~ServeBehind(s)
    BY <1>0, <2>2 DEF ServeLocal, anchorTip, ServeRangeDone, writeStamplessFlow, ServeLive, ServePinnedEnd,
       ServeAhead, ServeBounds, ServeGet, ServeRead, ServeReason, ServeWake
  <2> QED BY <2>1, <2>2
<1>5. PICK la \in Nat, lb \in Nat : la = liveAbandons /\ lb = liveAbandons' /\ la <= lb
  BY <1>0, <1>4
<1>6. Deliver(c, x, w, k, la)
  BY <1>3, <1>5
<1>7. Deliver(c, y, w, k, lb)
  <2>1. CliOK(c) /\ Restarts(c) <= la /\ (k = "none" => w = <<>>)
    BY <1>6 DEF Deliver
  <2>2. Restarts(c) <= lb
    <3>1. c.got \in Seq(GotRec) /\ c.discarded \in Nat
      BY <1>3 DEF CliState
    <3>2. Restarts(c) \in Nat
      BY <3>1, RestartsFacts DEF Restarts
    <3> QED BY <1>5, <2>1, <3>2
  <2>3. /\ SubOK(y)
        /\ \E b \in Tip : /\ c.outcome = "none" => Reads(CliTip(c), w \o y.out, b, lb)
                          /\ Serving(y) => At(b, y, lb)
    <3>1. SubOK(x)
      BY <1>6 DEF Deliver
    <3>2. PICK b \in Tip : (c.outcome = "none" => Reads(CliTip(c), w \o x.out, b, la)) /\ (Serving(x) => At(b, x, la))
      BY <1>6 DEF Deliver
    <3>3. Serving(x) /\ x.pc # "write"
      BY <1>0, <1>2 DEF Serving, ServeLocal, anchorTip, ServeRangeDone, writeStamplessFlow, ServeLive, ServePinnedEnd,
         ServeBehind, ServeAhead, ServeBounds, ServeGet, ServeRead, ServeReason, ServeWake
    <3>4. SubOK(sub[s]) /\ At(b, sub[s], liveAbandons)
      <4>1. At(b, x, la)
        BY <3>2, <3>3
      <4> QED BY <1>2, <1>5, <3>1, <4>1
    <3>5. Lands(b, y, liveAbandons, liveAbandons')
      BY <1>0, <1>1, <3>4, LocalDelivers
    <3>6. Lands(b, y, la, lb)
      BY <1>5, <3>5
    <3>7. PICK b2 \in Tip : Reads(b, y.out, b2, la) /\ At(b2, y, lb)
      BY <3>6 DEF Lands
    <3>8. x.out = <<>>
      BY <3>1, <3>3 DEF SubOK
    <3>9. PICK a, v : a = CliTip(c) /\ v = y.out
      OBVIOUS
    <3>10. (c.outcome = "none" => Reads(a, w, b, la)) /\ v \in Seq(Msg)
      <4>1. PICK u : u = w \o x.out
        OBVIOUS
      <4>2. u = w
        BY <1>3, <3>8, <4>1
      <4>3. c.outcome = "none" => Reads(a, u, b, la)
        BY <3>2, <3>9, <4>1
      <4>4. v \in Seq(Msg)
        BY <1>1, <3>9 DEF SubState
      <4> QED BY <4>2, <4>3, <4>4
    <3>11. c.outcome = "none" => Reads(a, w \o v, b2, la)
      BY <1>3, <3>7, <3>9, <3>10, ReadsConcat
    <3>12. c.outcome = "none" => Reads(a, w \o v, b2, lb)
      <4>0. w \o v \in Seq(Msg)
        BY <1>3, <3>10
      <4>1. PICK u : u = w \o v /\ u \in Seq(Msg)
        BY <4>0
      <4>2. c.outcome = "none" => Reads(a, u, b2, la)
        BY <3>11, <4>1
      <4>3. c.outcome = "none" => Reads(a, u, b2, lb)
        BY <1>5, <4>1, <4>2, ReadsMore
      <4> QED BY <4>1, <4>3
    <3>13. (c.outcome = "none" => Reads(CliTip(c), w \o y.out, b2, lb)) /\ At(b2, y, lb)
      BY <3>7, <3>9, <3>12
    <3>14. SubOK(y)
      BY <3>6 DEF Lands
    <3> QED BY <3>13, <3>14
  <2> QED BY <2>1, <2>2, <2>3, Zenon DEF Deliver
<1>8. \A t \in Subs : /\ cli'[t] = IF t = s THEN c ELSE cli[t]
                      /\ sub'[t] = IF t = s THEN y ELSE sub[t]
                      /\ net'[t] = IF t = s THEN w ELSE net[t]
                      /\ conn'[t] = IF t = s THEN k ELSE conn[t]
  BY <1>0, <1>1, <1>2 DEF Set, SubTypeOK
<1>9. WireTypeOK'
  BY <1>0, <1>4 DEF WireTypeOK
<1> QED BY <1>0, <1>3, <1>4, <1>5, <1>7, <1>8, <1>9, DeliverOne

\* What is written moves from serve's queue to the connection.
LEMMA AppendHead ==
    ASSUME NEW w \in Seq(Msg), NEW out \in Seq(Msg), out # <<>>
    PROVE  /\ Head(out) \in Msg /\ Tail(out) \in Seq(Msg) /\ Append(w, Head(out)) \in Seq(Msg)
           /\ Append(w, Head(out)) \o Tail(out) = w \o out
<1>1. Head(out) \in Msg /\ Tail(out) \in Seq(Msg) /\ Append(w, Head(out)) \in Seq(Msg)
  OBVIOUS
<1>2. PICK m, t, u : m = Head(out) /\ t = Tail(out) /\ u = Append(w, m)
  OBVIOUS
<1>3. /\ Len(out) \in Nat \ {0} /\ Len(t) = Len(out) - 1 /\ out[1] = m
      /\ \A j \in 1..Len(t) : t[j] = out[j + 1]
  BY <1>2
<1>4. /\ t \in Seq(Msg) /\ u \in Seq(Msg) /\ Len(u) = Len(w) + 1 /\ u[Len(w) + 1] = m
      /\ \A j \in 1..Len(w) : u[j] = w[j]
  BY <1>1, <1>2
<1>5. PICK p \in Seq(Msg), r \in Seq(Msg) : p = u \o t /\ r = w \o out
  <2>1. u \o t \in Seq(Msg) /\ w \o out \in Seq(Msg)
    BY <1>4
  <2> QED BY <2>1
<1>6. Len(p) = Len(w) + Len(out) /\ Len(r) = Len(w) + Len(out) /\ Len(w) \in Nat
  <2>1. Len(p) = Len(u) + Len(t) /\ Len(r) = Len(w) + Len(out) /\ Len(w) \in Nat
    BY <1>4, <1>5, ConcatProperties
  <2> QED BY <1>3, <1>4, <2>1
<1>7. ASSUME NEW j \in 1..Len(w) + Len(out) PROVE p[j] = r[j]
  <2>1. CASE j \in 1..Len(w)
    BY <1>3, <1>4, <1>5, <2>1
  <2>2. CASE j = Len(w) + 1
    <3>1. p[j] = u[j]
      BY <1>3, <1>4, <1>5, <2>2
    <3>2. r[j] = out[1]
      BY <1>3, <1>5, <2>2
    <3> QED BY <1>3, <1>4, <2>2, <3>1, <3>2
  <2>3. CASE j \in Len(w) + 2..Len(w) + Len(out)
    <3>1. PICK n \in 1..Len(t) : n = j - Len(w) - 1
      <4>1. j - Len(w) - 1 \in 1..Len(t)
        BY <1>3, <2>3
      <4> QED BY <4>1
    <3>2. p[j] = t[n]
      BY <1>3, <1>4, <1>5, <2>3, <3>1
    <3>3. r[j] = out[n + 1]
      BY <1>3, <1>5, <2>3, <3>1
    <3> QED BY <1>3, <3>1, <3>2, <3>3
  <2> QED BY <2>1, <2>2, <2>3
<1>8. p = r
  BY <1>6, <1>7
<1> QED BY <1>1, <1>2, <1>5, <1>8

\* serve's local state once it has written a message.
Written(x) ==
    IF Head(x.out).type = "close" THEN [Off EXCEPT !.pc = "closed"]
    ELSE IF Len(x.out) > 1 THEN [x EXCEPT !.out = Tail(@)]
    ELSE Again(x)

\* A written message moves from serve's queue to the connection, so what is to be
\* read stays the same.
LEMMA WriteDelivers ==
    ASSUME BroadcasterTypeOK, NEW c \in CliState, NEW x \in SubState, NEW w \in Seq(Msg), NEW k, k # "none", NEW la \in Nat,
           Deliver(c, x, w, k, la), x.pc = "write",
           NEW y, y = Written(x)
    PROVE  y \in SubState /\ Append(w, Head(x.out)) \in Seq(Msg) /\ Deliver(c, y, Append(w, Head(x.out)), k, la)
<1>0. PICK v : v = Append(w, Head(x.out))
  OBVIOUS
<1> SUFFICES y \in SubState /\ v \in Seq(Msg) /\ Deliver(c, y, v, k, la)
  BY <1>0, Zenon
<1>1. PICK out, rest : out = x.out /\ out # <<>> /\ rest = Tail(out) /\ out \in Seq(Msg)
  BY DEF SubState, Deliver, SubOK
<1>2. rest \in Seq(Msg) /\ v \in Seq(Msg) /\ v \o rest = w \o out
  BY <1>0, <1>1, AppendHead
<1>3. \E b \in Tip : (c.outcome = "none" => Reads(CliTip(c), v \o rest, b, la)) /\ At(b, x, la)
  <2>1. PICK b \in Tip : (c.outcome = "none" => Reads(CliTip(c), w \o out, b, la)) /\ (Serving(x) => At(b, x, la))
    BY <1>1 DEF Deliver
  <2> QED BY <1>2, <2>1 DEF Serving
<1>4. CliOK(c) /\ Restarts(c) <= la
  BY DEF Deliver
<1>5. CASE Head(x.out).type = "close"
  <2>1. PICK o \in SubState : o = [Off EXCEPT !.pc = "closed"]
    <3>1. "closed" \in SubPc \ {"sleep", "bounds"} /\ 0 \in Seqs
      BY WireAssumption DEF SubPc, Seqs
    <3>2. [Off EXCEPT !.pc = "closed"] \in SubState
      BY <3>1, OffFacts
    <3> QED BY <3>2
  <2>2. y = o
    BY <1>5, <2>1 DEF Written
  <2>3. o.pc = "closed" /\ o.out = <<>>
    BY <2>1 DEF Off
  <2>4. \E b \in Tip : c.outcome = "none" => Reads(CliTip(c), v \o o.out, b, la)
    <3>1. PICK b \in Tip : c.outcome = "none" => Reads(CliTip(c), v \o rest, b, la)
      BY <1>3
    <3>2. PICK b2 \in Tip : c.outcome = "none" => Reads(CliTip(c), v, b2, la)
      BY <1>2, <3>1, ReadsPrefix
    <3>3. PICK u : u = v \o o.out
      OBVIOUS
    <3>4. u = v
      BY <1>2, <2>3, <3>3
    <3> QED BY <3>2, <3>3, <3>4
  <2>5. SubOK(o) /\ ~Serving(o)
    BY <2>3 DEF SubOK, Serving
  <2>6. Deliver(c, o, v, k, la)
    BY <1>4, <2>4, <2>5, Zenon DEF Deliver
  <2> QED BY <1>2, <2>1, <2>2, <2>6
<1>6. CASE Head(x.out).type # "close" /\ Len(x.out) > 1
  <2>1. y = [x EXCEPT !.out = rest] /\ rest # <<>>
    <3>1. Len(rest) # 0
      <4>1. PICK n \in Nat : n = Len(out)
        BY <1>1
      <4>2. n > 1 /\ Len(rest) = n - 1
        BY <1>1, <1>6, <4>1
      <4> QED BY <4>2
    <3>2. rest # <<>>
      BY <3>1
    <3> QED BY <1>1, <1>6, <3>2 DEF Written
  <2>2. /\ y \in SubState /\ y.pc = x.pc /\ y.out = rest /\ y.f = x.f /\ y.sent = x.sent
        /\ y.next = x.next /\ y.end = x.end
    BY <1>2, <2>1 DEF SubState
  <2>3. y.begun <=> x.begun
    BY <2>1 DEF SubState
  <2>4. SubOK(y)
    BY <2>1, <2>2 DEF SubOK
  <2>5. \A b \in Tip : At(b, x, la) => At(b, y, la)
    BY <2>2, <2>3, AtSame
  <2>6. Deliver(c, y, v, k, la)
    <3>1. PICK b \in Tip : (c.outcome = "none" => Reads(CliTip(c), v \o rest, b, la)) /\ At(b, x, la)
      BY <1>3
    <3>2. (c.outcome = "none" => Reads(CliTip(c), v \o y.out, b, la)) /\ At(b, y, la)
      BY <2>2, <2>5, <3>1
    <3> QED BY <1>4, <2>4, <3>2, Zenon DEF Deliver
  <2> QED BY <1>2, <2>2, <2>6
<1>7. CASE Head(x.out).type # "close" /\ ~(Len(x.out) > 1)
  <2>1. y = Again(x)
    BY <1>7 DEF Written
  <2>2. rest = <<>>
    <3>1. PICK n \in Nat : n = Len(out) /\ ~(n > 1) /\ Len(rest) = n - 1 /\ n # 0
      <4>1. Len(out) \in Nat /\ ~(Len(out) > 1) /\ Len(rest) = Len(out) - 1 /\ Len(out) # 0
        BY <1>1, <1>7
      <4> QED BY <4>1
    <3>2. Len(rest) = 0
      BY <3>1
    <3> QED BY <1>2, <3>2
  <2>3. y \in SubState /\ y.pc = "watch" /\ y.out = rest
    <3>1. y \in SubState
      BY <2>1, SubOps
    <3>2. y.pc = "watch" /\ y.out = <<>>
      <4>1. PICK z : z = Again(x)
        OBVIOUS
      <4>2. z.pc = "watch" /\ z.out = <<>>
        BY <4>1 DEF Again, SubState
      <4> QED BY <2>1, <4>1, <4>2
    <3> QED BY <2>2, <3>1, <3>2
  <2>4. SubOK(y)
    BY <2>2, <2>3 DEF SubOK
  <2>5. \A b \in Tip : At(b, x, la) => At(b, y, la)
    BY <2>1, AgainLands
  <2>6. Deliver(c, y, v, k, la)
    <3>1. PICK b \in Tip : (c.outcome = "none" => Reads(CliTip(c), v \o rest, b, la)) /\ At(b, x, la)
      BY <1>3
    <3>2. (c.outcome = "none" => Reads(CliTip(c), v \o y.out, b, la)) /\ At(b, y, la)
      BY <2>3, <2>5, <3>1
    <3> QED BY <1>4, <2>4, <3>2, Zenon DEF Deliver
  <2> QED BY <1>2, <2>3, <2>6
<1> QED BY <1>5, <1>6, <1>7

\* So does a write, or one that times out.
LEMMA WriteStepDelivers ==
    ASSUME StreamInv, SubTypeOK, WakeInv, DeliverInv, NEW s \in Subs, WriteStep(s)
    PROVE  DeliverInv'
<1>0. /\ SourceInv /\ BroadcasterTypeOK /\ WireTypeOK /\ UNCHANGED sourceVars /\ UNCHANGED <<conn, cli, liveAbandons>>
      /\ conn[s] = "open" /\ sub[s].pc = "write" /\ liveAbandons \in Nat
  BY DEF StreamInv, SourceSide, SourceInv, SourceTypeOK, DeliverInv, WriteStep, ServeWrite, Send, CanWrite, WireTypeOK
<1>1. PICK c, x, w, k : c = cli[s] /\ x = sub[s] /\ w = net[s] /\ k = conn[s]
  OBVIOUS
<1>2. /\ c \in CliState /\ w \in Seq(Msg) /\ x \in SubState /\ Deliver(c, x, w, k, liveAbandons)
      /\ k = "open" /\ x.pc = "write"
  BY <1>0, <1>1 DEF WireTypeOK, SubTypeOK, DeliverInv
<1>3. PICK la \in Nat : la = liveAbandons
  BY <1>0
<1>4. Deliver(c, x, w, k, la)
  BY <1>2, <1>3
<1>6. PICK y, v : y = Written(x) /\ v = Append(w, Head(x.out))
  OBVIOUS
<1>7. y \in SubState /\ v \in Seq(Msg) /\ Deliver(c, y, v, k, la)
  <2>1. k # "none"
    BY <1>2
  <2> QED BY <1>0, <1>2, <1>4, <1>6, <2>1, WriteDelivers, Zenon
<1>8. net' = [net EXCEPT ![s] = v] /\ sub' = [sub EXCEPT ![s] = y]
  BY <1>1, <1>6 DEF WriteStep, ServeWrite, Send, Set, Written
<1>9. \A t \in Subs : /\ cli'[t] = IF t = s THEN c ELSE cli[t]
                      /\ sub'[t] = IF t = s THEN y ELSE sub[t]
                      /\ net'[t] = IF t = s THEN v ELSE net[t]
                      /\ conn'[t] = IF t = s THEN k ELSE conn[t]
  BY <1>0, <1>1, <1>8 DEF SubTypeOK, WireTypeOK
<1>10. WireTypeOK'
  BY <1>0, <1>7, <1>8 DEF WireTypeOK
<1>11. la = liveAbandons' /\ liveAbandons <= liveAbandons'
  BY <1>0, <1>3
<1> QED BY <1>0, <1>2, <1>7, <1>9, <1>10, <1>11, DeliverOne

\* A connection torn down cuts what serve had queued.
LEMMA GoneStepDelivers ==
    ASSUME StreamInv, SubTypeOK, WakeInv, DeliverInv, NEW s \in Subs, GoneStep(s)
    PROVE  DeliverInv'
<1>0. /\ SourceInv /\ BroadcasterTypeOK /\ WireTypeOK /\ UNCHANGED sourceVars /\ UNCHANGED <<net, cli, liveAbandons>>
      /\ conn' = [conn EXCEPT ![s] = "down"] /\ liveAbandons \in Nat
      /\ sub' = [sub EXCEPT ![s] = [Off EXCEPT !.pc = "gone"]]
  BY DEF StreamInv, SourceSide, SourceInv, SourceTypeOK, DeliverInv, GoneStep, ServeGone, TakeDown, Set, WireTypeOK
<1>1. PICK c, x, w, k : c = cli[s] /\ x = sub[s] /\ w = net[s] /\ k = conn[s]
  OBVIOUS
<1>2. /\ c \in CliState /\ w \in Seq(Msg) /\ x \in SubState /\ Deliver(c, x, w, k, liveAbandons)
  BY <1>0, <1>1 DEF WireTypeOK, SubTypeOK, DeliverInv
<1>3. PICK la \in Nat : la = liveAbandons
  BY <1>0
<1>4. Deliver(c, x, w, k, la)
  BY <1>2, <1>3
<1>5. PICK y \in SubState : y = [Off EXCEPT !.pc = "gone"]
  <2>1. "gone" \in SubPc \ {"sleep", "bounds"} /\ 0 \in Seqs
    BY WireAssumption DEF SubPc, Seqs
  <2>2. [Off EXCEPT !.pc = "gone"] \in SubState
    BY <1>0, <2>1, OffFacts
  <2> QED BY <2>2
<1>6. y.pc = "gone" /\ y.out = <<>>
  BY <1>5 DEF Off
<1>7. Deliver(c, y, w, "down", la)
  <2>1. PICK b \in Tip, out \in Seq(Msg) : out = x.out /\ (c.outcome = "none" => Reads(CliTip(c), w \o out, b, la))
    BY <1>2, <1>4 DEF Deliver, SubState
  <2>2. PICK b2 \in Tip : c.outcome = "none" => Reads(CliTip(c), w, b2, la)
    BY <1>2, <2>1, ReadsPrefix
  <2>3. PICK u : u = w \o y.out
    OBVIOUS
  <2>4. u = w
    BY <1>2, <1>6, <2>3
  <2>5. c.outcome = "none" => Reads(CliTip(c), w \o y.out, b2, la)
    BY <2>2, <2>3, <2>4
  <2>6. SubOK(y) /\ ~Serving(y)
    BY <1>6 DEF SubOK, Serving
  <2>7. CliOK(c) /\ Restarts(c) <= la /\ "down" # "none"
    BY <1>4 DEF Deliver
  <2> QED BY <2>5, <2>6, <2>7, Zenon DEF Deliver
<1>8. \A t \in Subs : /\ cli'[t] = IF t = s THEN c ELSE cli[t]
                      /\ sub'[t] = IF t = s THEN y ELSE sub[t]
                      /\ net'[t] = IF t = s THEN w ELSE net[t]
                      /\ conn'[t] = IF t = s THEN "down" ELSE conn[t]
  BY <1>0, <1>1, <1>5 DEF SubTypeOK, WireTypeOK
<1>9. WireTypeOK'
  BY <1>0 DEF WireTypeOK
<1>10. la = liveAbandons' /\ liveAbandons <= liveAbandons'
  BY <1>0, <1>3
<1> QED BY <1>0, <1>2, <1>7, <1>8, <1>9, <1>10, DeliverOne

\* The network's part: what was sent can still be read.
LEMMA DropDelivers ==
    ASSUME StreamInv, SubTypeOK, DeliverInv, NEW s \in Subs, NetworkDrops(s)
    PROVE  DeliverInv'
<1>0. /\ SourceInv /\ WireTypeOK /\ UNCHANGED sourceVars /\ UNCHANGED <<sub, net, cli, liveAbandons>>
      /\ conn' = [conn EXCEPT ![s] = "down"] /\ liveAbandons \in Nat /\ conn[s] = "open"
  BY DEF StreamInv, SourceSide, DeliverInv, NetworkDrops, Drop, TakeDown, serveVars, WireTypeOK
<1>1. PICK c, x, w, k : c = cli[s] /\ x = sub[s] /\ w = net[s] /\ k = conn[s]
  OBVIOUS
<1>2. /\ c \in CliState /\ w \in Seq(Msg) /\ x \in SubState /\ Deliver(c, x, w, k, liveAbandons)
  BY <1>0, <1>1 DEF WireTypeOK, SubTypeOK, DeliverInv
<1>3. PICK la \in Nat : la = liveAbandons
  BY <1>0
<1>4. Deliver(c, x, w, "down", la)
  <2>1. "down" # "none"
    OBVIOUS
  <2> QED BY <1>2, <1>3, <2>1, Zenon DEF Deliver
<1>8. \A t \in Subs : /\ cli'[t] = IF t = s THEN c ELSE cli[t]
                      /\ sub'[t] = IF t = s THEN x ELSE sub[t]
                      /\ net'[t] = IF t = s THEN w ELSE net[t]
                      /\ conn'[t] = IF t = s THEN "down" ELSE conn[t]
  BY <1>0, <1>1 DEF SubTypeOK, WireTypeOK
<1>9. WireTypeOK'
  BY <1>0 DEF WireTypeOK
<1>10. la = liveAbandons' /\ liveAbandons <= liveAbandons'
  BY <1>0, <1>3
<1> QED BY <1>0, <1>2, <1>4, <1>8, <1>9, <1>10, DeliverOne

\* A step of the client leaves serve alone.
LEMMA ClientMoves ==
    ASSUME StreamInv, SubTypeOK, DeliverInv, UNCHANGED <<sourceVars, serveVars>>, NEW s \in Subs,
           NEW d \in CliState, NEW v \in Seq(Msg), NEW k \in {"none", "open", "down"},
           cli' = [cli EXCEPT ![s] = d], net' = [net EXCEPT ![s] = v], conn' = [conn EXCEPT ![s] = k],
           Deliver(d, sub[s], v, k, liveAbandons)
    PROVE  DeliverInv'
<1>0. /\ SourceInv /\ WireTypeOK /\ UNCHANGED sourceVars /\ UNCHANGED <<sub, liveAbandons>> /\ liveAbandons \in Nat
  BY DEF StreamInv, SourceSide, DeliverInv, serveVars, WireTypeOK
<1>1. PICK x \in SubState, la \in Nat : x = sub[s] /\ la = liveAbandons
  BY <1>0 DEF SubTypeOK
<1>2. Deliver(d, x, v, k, la)
  BY <1>1
<1>3. \A t \in Subs : /\ cli'[t] = IF t = s THEN d ELSE cli[t]
                      /\ sub'[t] = IF t = s THEN x ELSE sub[t]
                      /\ net'[t] = IF t = s THEN v ELSE net[t]
                      /\ conn'[t] = IF t = s THEN k ELSE conn[t]
  BY <1>0, <1>1 DEF SubTypeOK, WireTypeOK
<1>4. WireTypeOK'
  BY <1>0 DEF WireTypeOK
<1>5. la = liveAbandons' /\ liveAbandons <= liveAbandons'
  BY <1>0, <1>1
<1> QED BY <1>0, <1>2, <1>3, <1>4, <1>5, DeliverOne

\* An iteration that ended: nothing is in flight to it any more.
LEMMA ClientOver ==
    ASSUME StreamInv, SubTypeOK, DeliverInv, UNCHANGED <<sourceVars, serveVars>>, NEW s \in Subs,
           NEW d \in CliState, CliOK(d), Restarts(d) = Restarts(cli[s]), d.outcome # "none",
           SetCli(s, d), CloseNow(s)
    PROVE  DeliverInv'
<1>1. PICK v, k : v = <<>> /\ k = "down"
  OBVIOUS
<1>2. /\ cli' = [cli EXCEPT ![s] = d] /\ net' = [net EXCEPT ![s] = v] /\ conn' = [conn EXCEPT ![s] = k]
      /\ v \in Seq(Msg) /\ k \in {"none", "open", "down"} /\ k # "none"
  BY <1>1 DEF SetCli, CloseNow, TakeDown
<1>3. PICK c, x, w, j, la : c = cli[s] /\ x = sub[s] /\ w = net[s] /\ j = conn[s] /\ la = liveAbandons
  OBVIOUS
<1>4. Deliver(c, x, w, j, la) /\ Restarts(d) = Restarts(c)
  BY <1>3 DEF DeliverInv
<1>5. SubOK(x) /\ Restarts(d) <= la /\ \E b \in Tip : Serving(x) => At(b, x, la)
  BY <1>4 DEF Deliver
<1>6. Deliver(d, x, v, k, la)
  BY <1>2, <1>5, Zenon DEF Deliver
<1>7. Deliver(d, sub[s], v, k, liveAbandons)
  BY <1>3, <1>6
<1> QED BY <1>2, <1>7, ClientMoves

\* The iteration ends with nothing more yielded, and not with an error the
\* stream never gives.
LEMMA ClientEnds ==
    ASSUME StreamInv, SubTypeOK, DeliverInv, UNCHANGED <<sourceVars, serveVars>>, NEW s \in Subs,
           NEW o \in Outcome \ {"none", "gap", "protocol"}, o = "ok" => CleanEnd(cli[s]),
           NEW old \in Seqs, NEW lat \in Seqs, NEW d,
           d = [Ends(cli[s], o) EXCEPT !.oldest = old, !.latest = lat] \/ d = Ends(cli[s], o),
           SetCli(s, d), CloseNow(s)
    PROVE  DeliverInv'
<1>1. PICK c \in CliState : c = cli[s]
  BY DEF DeliverInv, WireTypeOK
<1>2. CliOK(c) /\ (o = "ok" => CleanEnd(c))
  BY <1>1 DEF DeliverInv, Deliver
<1>3. PICK e, body, no : e = Ends(c, o) /\ body = <<>> /\ no = FALSE /\ body \in Body /\ no \in BOOLEAN
  <2>1. <<>> \in Body /\ FALSE \in BOOLEAN
    BY DEF Body
  <2> QED BY <2>1
<1>4. e = [c EXCEPT !.outcome = o, !.active = no, !.buf = body]
  BY <1>3 DEF Ends
<1>5. /\ e \in CliState /\ e.got = c.got /\ e.expected = c.expected /\ e.from = c.from /\ e.to = c.to
      /\ e.discarded = c.discarded /\ e.outcome = o
  BY <1>3, <1>4 DEF CliState
<1>6. (e.exhausted <=> c.exhausted) /\ ~e.active
  BY <1>3, <1>4 DEF CliState
<1>7. PICK f : f = d
  OBVIOUS
<1>8. f = [e EXCEPT !.oldest = old, !.latest = lat] \/ f = e
  BY <1>1, <1>3, <1>7
<1>9. /\ f \in CliState /\ f.got = e.got /\ f.expected = e.expected /\ f.from = e.from /\ f.to = e.to
      /\ f.discarded = e.discarded /\ f.outcome = e.outcome
  BY <1>5, <1>8 DEF CliState
<1>10. (f.exhausted <=> e.exhausted) /\ (f.active <=> e.active)
  BY <1>5, <1>8 DEF CliState
<1>11. CliOK(f) /\ Restarts(f) = Restarts(c)
  <2>1. /\ f.got = c.got /\ f.expected = c.expected /\ f.from = c.from /\ f.to = c.to /\ f.discarded = c.discarded
        /\ f.exhausted <=> c.exhausted
        /\ ~f.active /\ f.outcome = o
    BY <1>5, <1>6, <1>9, <1>10
  <2>2. f.outcome \notin {"none", "gap", "protocol"} /\ (f.outcome = "ok" => CleanEnd(c))
    BY <1>2, <2>1
  <2> QED BY <1>2, <1>9, <2>1, <2>2, EndHeld
<1>12. f.outcome # "none" /\ SetCli(s, f) /\ Restarts(f) = Restarts(cli[s])
  BY <1>1, <1>5, <1>7, <1>9, <1>11
<1> QED BY <1>9, <1>11, <1>12, ClientOver

\* What the client reads next, and the tip it leads to.
LEMMA NextMessage ==
    ASSUME SubTypeOK, DeliverInv, NEW s \in Subs, Reading(s), net[s] # <<>>
    PROVE  /\ cli[s] \in CliState /\ CliOK(cli[s]) /\ cli[s].outcome = "none"
           /\ Restarts(cli[s]) <= liveAbandons /\ conn[s] # "none" /\ SubOK(sub[s])
           /\ Head(net[s]) \in Msg /\ Tail(net[s]) \in Seq(Msg)
           /\ \E a \in Tip, b \in Tip :
                /\ Takes(CliTip(cli[s]), Head(net[s]), a, liveAbandons)
                /\ Reads(a, Tail(net[s]) \o sub[s].out, b, liveAbandons)
                /\ Serving(sub[s]) => At(b, sub[s], liveAbandons)
<1>1. PICK c \in CliState, x \in SubState, w \in Seq(Msg) : c = cli[s] /\ x = sub[s] /\ w = net[s]
  BY DEF DeliverInv, WireTypeOK, SubTypeOK
<1>2. PICK k, la : c = cli[s] /\ x = sub[s] /\ w = net[s] /\ k = conn[s] /\ la = liveAbandons
  BY <1>1
<1>3. Deliver(c, x, w, k, la) /\ c.outcome = "none" /\ k # "none" /\ w # <<>>
  BY <1>2 DEF DeliverInv, Reading
<1>4. PICK out \in Seq(Msg) : out = x.out
  BY DEF SubState
<1>5. PICK m, rest : out = x.out /\ m = Head(w) /\ rest = Tail(w)
  BY <1>4
<1>6. PICK b \in Tip : Reads(CliTip(c), w \o out, b, la) /\ (Serving(x) => At(b, x, la))
  BY <1>3, <1>5 DEF Deliver
<1>7. m \in Msg /\ rest \in Seq(Msg)
  BY <1>3, <1>5
<1>8. PICK v \in Seq(Msg) : v = w \o out
  <2>1. w \o out \in Seq(Msg)
    BY <1>5
  <2> QED BY <2>1
<1>9. v # <<>> /\ Head(v) = m /\ Tail(v) = rest \o out
  <2>1. PICK h : h = <<m>> /\ h \in Seq(Msg) /\ w = h \o rest
    <3>1. w = <<m>> \o rest
      BY <1>3, <1>5, <1>7
    <3>2. <<m>> \in Seq(Msg)
      BY <1>7
    <3> QED BY <3>1, <3>2
  <2>2. Len(w) \in Nat \ {0} /\ Len(v) = Len(w) + Len(out) /\ Len(rest) = Len(w) - 1 /\ Len(out) \in Nat
    BY <1>3, <1>5, <1>8, ConcatProperties
  <2>3. v # <<>> /\ Len(v) # 0
    BY <2>2
  <2>4. v[1] = w[1] /\ w[1] = m
    BY <1>5, <1>8, <2>2, ConcatProperties
  <2>5. Head(v) = m
    BY <2>4
  <2>6. PICK p \in Seq(Msg), r \in Seq(Msg) : p = Tail(v) /\ r = rest \o out
    <3>1. Tail(v) \in Seq(Msg) /\ rest \o out \in Seq(Msg)
      BY <1>7, <2>3
    <3> QED BY <3>1
  <2>7. Len(p) = Len(v) - 1 /\ Len(r) = Len(rest) + Len(out)
    BY <1>7, <2>3, <2>6, ConcatProperties, HeadTailProperties
  <2>8. ASSUME NEW j \in 1..Len(p) PROVE p[j] = r[j]
    <3>1. p[j] = v[j + 1]
      BY <2>3, <2>6, HeadTailProperties
    <3>2. j + 1 \in 1..Len(w) + Len(out)
      BY <2>2, <2>7
    <3>3. v[j + 1] = IF j + 1 <= Len(w) THEN w[j + 1] ELSE out[j + 1 - Len(w)]
      BY <1>8, <3>2, ConcatProperties
    <3>4. r[j] = IF j <= Len(rest) THEN rest[j] ELSE out[j - Len(rest)]
      <4>1. j \in 1..Len(rest) + Len(out)
        BY <2>2, <2>7
      <4> QED BY <1>7, <2>6, <4>1, ConcatProperties
    <3>5. CASE j <= Len(rest)
      <4>1. rest[j] = w[j + 1]
        BY <1>3, <1>5, <2>2, <2>7, <3>5
      <4> QED BY <2>2, <2>7, <3>1, <3>3, <3>4, <3>5, <4>1
    <3>6. CASE ~(j <= Len(rest))
      <4>1. j + 1 - Len(w) = j - Len(rest) /\ ~(j + 1 <= Len(w))
        BY <2>2, <2>7, <3>6
      <4> QED BY <3>1, <3>3, <3>4, <3>6, <4>1
    <3> QED BY <3>5, <3>6
  <2>9. p = r
    BY <2>2, <2>7, <2>8, SMTT(20)
  <2> QED BY <2>3, <2>5, <2>6, <2>9
<1>10. PICK a \in Tip : Takes(CliTip(c), m, a, la) /\ Reads(a, rest \o out, b, la)
  <2>1. Reads(CliTip(c), v, b, la)
    BY <1>6, <1>8
  <2>2. PICK t : t = CliTip(c)
    OBVIOUS
  <2>3. \E a \in Tip : Takes(t, Head(v), a, la) /\ Reads(a, Tail(v), b, la)
    BY <1>9, <2>1, <2>2, ReadsHead
  <2> QED BY <1>9, <2>2, <2>3
<1>11. CliOK(c) /\ Restarts(c) <= la /\ SubOK(x)
  BY <1>3 DEF Deliver
<1>12. \E a1 \in Tip, b1 \in Tip :
         /\ Takes(CliTip(c), Head(w), a1, la)
         /\ Reads(a1, Tail(w) \o x.out, b1, la)
         /\ Serving(x) => At(b1, x, la)
  BY <1>5, <1>6, <1>10
<1> QED BY <1>2, <1>3, <1>5, <1>7, <1>11, <1>12

\* A message is taken as its type says.
LEMMA TakesKind ==
    ASSUME NEW a, NEW m, NEW b, NEW la, Takes(a, m, b, la)
    PROVE  /\ m.type = "begin" => TakesBegin(a, m, b, la)
           /\ m.type = "chunk" => TakesChunk(a, m, b)
           /\ m.type = "end" => TakesEnd(a, m, b)
           /\ m.type = "close" => TakesClose(a, m, b)
<1>1. TakesBegin(a, m, b, la) => m.type = "begin"
  BY DEF TakesBegin, BeginMsg
<1>2. TakesChunk(a, m, b) => m.type = "chunk"
  BY DEF TakesChunk, ChunkMsg
<1>3. TakesEnd(a, m, b) => m.type = "end"
  BY DEF TakesEnd, EndMsg
<1>4. TakesClose(a, m, b) => m.type = "close"
  BY DEF TakesClose, CloseFrame
<1> QED BY <1>1, <1>2, <1>3, <1>4 DEF Takes

\* The client goes on to the next message.
LEMMA ClientReads ==
    ASSUME StreamInv, SubTypeOK, DeliverInv, UNCHANGED <<sourceVars, serveVars>>, NEW s \in Subs,
           conn[s] # "none", NEW d \in CliState, CliOK(d), Restarts(d) <= liveAbandons,
           NEW v \in Seq(Msg), v = Tail(net[s]), SetCli(s, d), Consume(s), SubOK(sub[s]),
           NEW a \in Tip, NEW b \in Tip, CliTip(d) = a,
           Reads(a, v \o sub[s].out, b, liveAbandons),
           Serving(sub[s]) => At(b, sub[s], liveAbandons)
    PROVE  DeliverInv'
<1>1. PICK k : k = conn[s] /\ k \in {"none", "open", "down"} /\ k # "none"
  BY DEF DeliverInv, WireTypeOK
<1>2. cli' = [cli EXCEPT ![s] = d] /\ net' = [net EXCEPT ![s] = v] /\ conn' = [conn EXCEPT ![s] = k]
  BY <1>1 DEF SetCli, Consume, DeliverInv, WireTypeOK
<1>3. PICK x, la : x = sub[s] /\ la = liveAbandons
  OBVIOUS
<1>4. Deliver(d, x, v, k, la)
  <2>1. /\ CliOK(d) /\ Restarts(d) <= la /\ SubOK(x)
        /\ Reads(CliTip(d), v \o x.out, b, la)
        /\ Serving(x) => At(b, x, la)
    BY <1>3
  <2> QED BY <1>1, <2>1, Zenon DEF Deliver
<1>5. Deliver(d, sub[s], v, k, liveAbandons)
  BY <1>3, <1>4
<1> QED BY <1>1, <1>2, <1>5, ClientMoves

\* So does a BEGIN the client reads.
LEMMA RecvBeginDelivers ==
    ASSUME StreamInv, SubTypeOK, DeliverInv, UNCHANGED <<sourceVars, serveVars>>, NEW s \in Subs, RecvBegin(s)
    PROVE  DeliverInv'
<1>1. Reading(s) /\ net[s] # <<>> /\ Head(net[s]).type = "begin"
  BY DEF RecvBegin, Arrives
<1>2. PICK c \in CliState, m \in Msg, v \in Seq(Msg), la \in Nat :
        c = cli[s] /\ m = Head(net[s]) /\ v = Tail(net[s]) /\ la = liveAbandons
  <2>1. cli[s] \in CliState /\ Head(net[s]) \in Msg /\ Tail(net[s]) \in Seq(Msg) /\ liveAbandons \in Nat
    BY <1>1, NextMessage DEF DeliverInv, WireTypeOK
  <2> QED BY <2>1
<1>3. PICK a \in Tip, b \in Tip :
        /\ Takes(CliTip(cli[s]), Head(net[s]), a, liveAbandons)
        /\ Reads(a, Tail(net[s]) \o sub[s].out, b, liveAbandons)
        /\ Serving(sub[s]) => At(b, sub[s], liveAbandons)
  BY <1>1, NextMessage
<1>4. CliOK(c) /\ c.outcome = "none" /\ conn[s] # "none" /\ SubOK(sub[s])
  BY <1>1, <1>2, NextMessage
<1>5. TakesBegin(CliTip(c), m, a, la)
  <2>1. Takes(CliTip(c), m, a, la) /\ m.type = "begin"
    BY <1>1, <1>2, <1>3
  <2> QED BY <2>1, TakesKind
<1>6. PICK d : d = Begun(c, m)
  OBVIOUS
<1>7. /\ IF c.active THEN m.seq = c.seq ELSE accept(c, m.seq)
      /\ d \in CliState /\ CliOK(d) /\ d.outcome = "none" /\ CliTip(d) = a /\ Restarts(d) <= la
  BY <1>4, <1>5, <1>6, BeginHeard
<1>8. SetCli(s, d) /\ Consume(s)
  <2>1. SetCli(s, Begun(c, m)) /\ Consume(s)
    BY <1>2, <1>7 DEF RecvBegin, Begun
  <2> QED BY <1>6, <2>1
<1>9. Restarts(d) <= liveAbandons /\ v = Tail(net[s]) /\ Reads(a, v \o sub[s].out, b, liveAbandons)
  BY <1>2, <1>3, <1>7
<1> QED BY <1>3, <1>4, <1>7, <1>8, <1>9, ClientReads

\* So does a CHUNK.
LEMMA RecvChunkDelivers ==
    ASSUME StreamInv, SubTypeOK, DeliverInv, UNCHANGED <<sourceVars, serveVars>>, NEW s \in Subs, RecvChunk(s)
    PROVE  DeliverInv'
<1>1. Reading(s) /\ net[s] # <<>> /\ Head(net[s]).type = "chunk"
  BY DEF RecvChunk, Arrives
<1>2. PICK c \in CliState, m \in Msg, v \in Seq(Msg), la \in Nat :
        c = cli[s] /\ m = Head(net[s]) /\ v = Tail(net[s]) /\ la = liveAbandons
  <2>1. cli[s] \in CliState /\ Head(net[s]) \in Msg /\ Tail(net[s]) \in Seq(Msg) /\ liveAbandons \in Nat
    BY <1>1, NextMessage DEF DeliverInv, WireTypeOK
  <2> QED BY <2>1
<1>3. PICK a \in Tip, b \in Tip :
        /\ Takes(CliTip(cli[s]), Head(net[s]), a, liveAbandons)
        /\ Reads(a, Tail(net[s]) \o sub[s].out, b, liveAbandons)
        /\ Serving(sub[s]) => At(b, sub[s], liveAbandons)
  BY <1>1, NextMessage
<1>4. CliOK(c) /\ c.outcome = "none" /\ conn[s] # "none" /\ SubOK(sub[s]) /\ Restarts(c) <= la
  BY <1>1, <1>2, NextMessage
<1>5. TakesChunk(CliTip(c), m, a)
  <2>1. Takes(CliTip(c), m, a, la) /\ m.type = "chunk"
    BY <1>1, <1>2, <1>3
  <2> QED BY <2>1, TakesKind
<1>6. PICK d, buf : d = [c EXCEPT !.buf = buf, !.chunks = @ + 1] /\ buf = c.buf \o Expand(m)
  OBVIOUS
<1>7. buf \in Body
  <2>1. Expand(m) \in Body /\ c.buf \in Body
    BY <1>5 DEF TakesChunk, CliState
  <2> QED BY <1>6, <2>1 DEF Body
<1>8. d \in CliState
  <2>1. c.chunks + 1 \in Nat
    BY DEF CliState
  <2>2. PICK n \in Nat : d = [c EXCEPT !.buf = buf, !.chunks = n]
    BY <1>6, <2>1
  <2> HIDE <1>6
  <2> QED BY <1>7, <2>2 DEF CliState
<1>9. Kept(c, d) /\ d.outcome = c.outcome /\ d.buf = c.buf \o Expand(m) /\ d.chunks = c.chunks + 1
  BY <1>6 DEF Kept, CliState
<1>10. d.active <=> c.active
  BY <1>6 DEF CliState
<1>11. /\ c.active /\ m.seq = c.seq /\ m.idx = c.chunks /\ Decodable(m)
       /\ Len(c.buf) + Len(Expand(m)) <= MaxPayload
       /\ CliOK(d) /\ CliTip(d) = a /\ Restarts(d) = Restarts(c)
  BY <1>4, <1>5, <1>8, <1>9, <1>10, ChunkHeard
<1>12. SetCli(s, d) /\ Consume(s)
  <2>1. SetCli(s, [c EXCEPT !.buf = @ \o Expand(m), !.chunks = @ + 1]) /\ Consume(s)
    BY <1>2, <1>11 DEF RecvChunk
  <2> QED BY <1>6, <2>1
<1>13. Restarts(d) <= liveAbandons /\ v = Tail(net[s]) /\ Reads(a, v \o sub[s].out, b, liveAbandons)
  BY <1>2, <1>3, <1>4, <1>11
<1> QED BY <1>3, <1>4, <1>8, <1>11, <1>12, <1>13, ClientReads

\* The client's state once an END is taken.
Yielded(c, m) ==
    [advance(c, m.seq) EXCEPT !.got = Append(@, LedgerInfo(c, m)), !.active = FALSE, !.discarded = 0, !.buf = <<>>]

\* The same, when the iteration ends with outcome o, or goes on (none).
YieldedAs(c, m, o) == IF o = "none" THEN Yielded(c, m) ELSE Ends(Yielded(c, m), o)

\* What a client is after yielding the ledger of this END.
LEMMA YieldedFields ==
    ASSUME NEW c \in CliState, c.outcome = "none", NEW m \in EndMsg,
           NEW o \in Outcome, NEW d, d = YieldedAs(c, m, o)
    PROVE  /\ d \in CliState /\ d.from = c.from /\ d.to = c.to /\ d.got = Append(c.got, LedgerInfo(c, m))
           /\ d.expected = Succ(m.seq) /\ (d.exhausted <=> m.seq = MaxSeq)
           /\ ~d.active /\ d.discarded = 0 /\ d.buf = <<>> /\ d.outcome = o
<1>1. PICK q \in Seqs, g \in Seq(GotRec), body \in Body, x \in BOOLEAN, no \in BOOLEAN, zero \in Nat :
        /\ q = Succ(m.seq) /\ g = Append(c.got, LedgerInfo(c, m)) /\ body = <<>> /\ no = FALSE
        /\ x = (m.seq = MaxSeq) /\ zero = 0
  <2>1. Succ(m.seq) \in Seqs
    BY SuccFacts DEF EndMsg
  <2>2. LedgerInfo(c, m) \in GotRec
    BY DEF LedgerInfo, GotRec, CliState, EndMsg
  <2>3. Append(c.got, LedgerInfo(c, m)) \in Seq(GotRec)
    BY <2>2 DEF CliState
  <2>4. <<>> \in Body /\ FALSE \in BOOLEAN /\ (m.seq = MaxSeq) \in BOOLEAN /\ 0 \in Nat
    BY DEF Body
  <2> QED BY <2>1, <2>3, <2>4
<1>2. PICK e : e = [c EXCEPT !.exhausted = x, !.expected = q]
  OBVIOUS
<1>3. e = advance(c, m.seq)
  BY <1>1, <1>2 DEF advance
<1>4. /\ e \in CliState /\ e.expected = q /\ e.got = c.got /\ e.from = c.from /\ e.to = c.to /\ e.outcome = "none"
  BY <1>2 DEF CliState
<1>5. e.exhausted <=> x
  BY <1>2 DEF CliState
<1>6. PICK f : f = [e EXCEPT !.got = g, !.active = no, !.discarded = zero, !.buf = body]
  OBVIOUS
<1>7. f = Yielded(c, m)
  BY <1>1, <1>3, <1>4, <1>6 DEF Yielded
<1>8. /\ f \in CliState /\ f.expected = q /\ f.got = g /\ f.from = c.from /\ f.to = c.to /\ f.outcome = "none"
      /\ f.discarded = 0 /\ f.buf = <<>>
  BY <1>1, <1>4, <1>6 DEF CliState
<1>9. (f.exhausted <=> x) /\ ~f.active
  BY <1>1, <1>4, <1>5, <1>6 DEF CliState
<1>10. PICK h : h = d
  OBVIOUS
<1>11. h = [f EXCEPT !.outcome = o, !.active = no, !.buf = body] \/ (o = "none" /\ h = f)
  BY <1>1, <1>7, <1>10 DEF Ends, YieldedAs
<1>12. /\ h \in CliState /\ h.expected = q /\ h.got = g /\ h.from = c.from /\ h.to = c.to /\ h.outcome = o
       /\ h.discarded = 0 /\ h.buf = <<>>
  BY <1>1, <1>8, <1>11 DEF CliState
<1>13. (h.exhausted <=> x) /\ ~h.active
  BY <1>1, <1>8, <1>9, <1>11 DEF CliState
<1> QED BY <1>1, <1>10, <1>12, <1>13

\* So does an END, whether the consumer goes on, stops or has its range.
LEMMA RecvEndDelivers ==
    ASSUME StreamInv, SubTypeOK, DeliverInv, UNCHANGED <<sourceVars, serveVars>>, NEW s \in Subs, RecvEnd(s)
    PROVE  DeliverInv'
<1>1. Reading(s) /\ net[s] # <<>> /\ Head(net[s]).type = "end"
  BY DEF RecvEnd, Arrives
<1>2. PICK c \in CliState, m \in Msg, v \in Seq(Msg), la \in Nat :
        c = cli[s] /\ m = Head(net[s]) /\ v = Tail(net[s]) /\ la = liveAbandons
  <2>1. cli[s] \in CliState /\ Head(net[s]) \in Msg /\ Tail(net[s]) \in Seq(Msg) /\ liveAbandons \in Nat
    BY <1>1, NextMessage DEF DeliverInv, WireTypeOK
  <2> QED BY <2>1
<1>3. PICK a \in Tip, b \in Tip :
        /\ Takes(CliTip(cli[s]), Head(net[s]), a, liveAbandons)
        /\ Reads(a, Tail(net[s]) \o sub[s].out, b, liveAbandons)
        /\ Serving(sub[s]) => At(b, sub[s], liveAbandons)
  BY <1>1, NextMessage
<1>4. CliOK(c) /\ c.outcome = "none" /\ conn[s] # "none" /\ SubOK(sub[s]) /\ Restarts(c) <= la
  BY <1>1, <1>2, NextMessage
<1>5. TakesEnd(CliTip(c), m, a) /\ m \in EndMsg
  <2>1. Takes(CliTip(c), m, a, la) /\ m.type = "end"
    BY <1>1, <1>2, <1>3
  <2>2. TakesEnd(CliTip(c), m, a)
    BY <2>1, TakesKind
  <2> QED BY <2>2 DEF TakesEnd
<1>6. "stopped" \in Outcome /\ "complete" \in Outcome /\ "none" \in Outcome
  BY DEF Outcome
<1>7. ASSUME NEW o \in Outcome, NEW d, d = YieldedAs(c, m, o),
             \/ o \in {"stopped", "complete"}
             \/ o = "none" /\ (c.to # 0 => m.seq < c.to)
      PROVE  /\ c.active /\ m.seq = c.seq /\ m.count = c.chunks /\ m.total = Len(c.buf) /\ m.sum = c.buf
             /\ d \in CliState /\ CliOK(d) /\ Restarts(d) = Restarts(c) /\ d.outcome = o
             /\ o = "none" => CliTip(d) = a
  <2>1. /\ d \in CliState /\ d.from = c.from /\ d.to = c.to /\ d.got = Append(c.got, LedgerInfo(c, m))
        /\ d.expected = Succ(m.seq) /\ (d.exhausted <=> m.seq = MaxSeq)
        /\ ~d.active /\ d.discarded = 0 /\ d.buf = <<>> /\ d.outcome = o
    BY <1>4, <1>5, <1>7, YieldedFields
  <2>2. \/ d.outcome \in {"stopped", "complete"}
        \/ d.outcome = "none" /\ (c.to # 0 => m.seq < c.to)
    BY <1>7, <2>1
  <2>3. /\ c.active /\ m.seq = c.seq /\ m.count = c.chunks /\ m.total = Len(c.buf) /\ m.sum = c.buf
        /\ CliOK(d) /\ Restarts(d) = Restarts(c)
        /\ d.outcome = "none" => CliTip(d) = a
    BY <1>4, <1>5, <2>1, <2>2, EndHeard
  <2> QED BY <2>1, <2>3
<1>8. c.active /\ m.seq = c.seq /\ m.count = c.chunks /\ m.total = Len(c.buf) /\ m.sum = c.buf
  <2>1. PICK d : d = YieldedAs(c, m, "stopped")
    OBVIOUS
  <2> QED BY <1>6, <1>7, <2>1
<1>9. \/ \E o \in {"stopped", "complete"} : SetCli(s, Ends(Yielded(c, m), o)) /\ CloseNow(s)
      \/ ~(c.to # 0 /\ m.seq >= c.to) /\ SetCli(s, Yielded(c, m)) /\ Consume(s)
  BY <1>2, <1>8 DEF RecvEnd, Yielded, Sum64
<1>10. CASE \E o \in {"stopped", "complete"} : SetCli(s, Ends(Yielded(c, m), o)) /\ CloseNow(s)
  <2>1. PICK o \in {"stopped", "complete"} : SetCli(s, Ends(Yielded(c, m), o)) /\ CloseNow(s)
    BY <1>10
  <2>2. PICK d : d = Ends(Yielded(c, m), o) /\ d = YieldedAs(c, m, o)
    BY DEF YieldedAs
  <2>3. d \in CliState /\ CliOK(d) /\ Restarts(d) = Restarts(c) /\ d.outcome = o
    BY <1>6, <1>7, <2>1, <2>2
  <2>4. d.outcome # "none" /\ Restarts(d) = Restarts(cli[s]) /\ SetCli(s, d)
    BY <1>2, <2>1, <2>2, <2>3
  <2> QED BY <2>1, <2>3, <2>4, ClientOver
<1>11. CASE ~(c.to # 0 /\ m.seq >= c.to) /\ SetCli(s, Yielded(c, m)) /\ Consume(s)
  <2>1. PICK d : d = Yielded(c, m) /\ d = YieldedAs(c, m, "none")
    BY DEF YieldedAs
  <2>2. c.to # 0 => m.seq < c.to
    BY <1>5, <1>11, WireAssumption, SMTT(20) DEF EndMsg, CliState, Seqs
  <2>3. d \in CliState /\ CliOK(d) /\ Restarts(d) = Restarts(c) /\ CliTip(d) = a
    BY <1>6, <1>7, <2>1, <2>2
  <2>4. /\ Restarts(d) <= liveAbandons /\ v = Tail(net[s]) /\ Reads(a, v \o sub[s].out, b, liveAbandons)
        /\ SetCli(s, d) /\ Consume(s)
    BY <1>2, <1>3, <1>4, <1>11, <2>1, <2>3
  <2> QED BY <1>3, <1>4, <2>3, <2>4, ClientReads
<1> QED BY <1>9, <1>10, <1>11

\* So does a close frame: a clean one is believed only where it is honest.
LEMMA RecvCloseDelivers ==
    ASSUME StreamInv, SubTypeOK, DeliverInv, UNCHANGED <<sourceVars, serveVars>>, NEW s \in Subs, RecvClose(s)
    PROVE  DeliverInv'
<1>1. Reading(s) /\ net[s] # <<>> /\ Head(net[s]).type = "close"
  BY DEF RecvClose, Arrives
<1>2. PICK c \in CliState, m \in Msg : c = cli[s] /\ m = Head(net[s])
  BY <1>1, NextMessage
<1>3. PICK a \in Tip : Takes(CliTip(c), m, a, liveAbandons)
  BY <1>1, <1>2, NextMessage
<1>4. CliOK(c) /\ c.outcome = "none"
  BY <1>1, <1>2, NextMessage
<1>5. TakesClose(CliTip(c), m, a) /\ m.oldest \in Seqs /\ m.latest \in Seqs
  <2>1. TakesClose(CliTip(c), m, a)
    BY <1>1, <1>2, <1>3, TakesKind
  <2> QED BY <2>1 DEF TakesClose, CloseFrame
<1>6. PICK o : o = classifyClose(c, m)
  OBVIOUS
<1>7. o \in Outcome \ {"none", "gap", "protocol"} /\ (o = "ok" => CleanEnd(c))
  BY <1>4, <1>5, <1>6, CloseHeard
<1>8. PICK d, old, lat : d = [Ends(cli[s], o) EXCEPT !.oldest = old, !.latest = lat] /\ old = m.oldest /\ lat = m.latest
  OBVIOUS
<1>9. SetCli(s, d) /\ CloseNow(s)
  BY <1>2, <1>6, <1>8 DEF RecvClose
<1> QED BY <1>2, <1>5, <1>7, <1>8, <1>9, ClientEnds

\* So do a read error and a cancelled consumer.
LEMMA ClientLeaves ==
    ASSUME StreamInv, SubTypeOK, DeliverInv, UNCHANGED <<sourceVars, serveVars>>, NEW s \in Subs,
           ReadError(s) \/ Cancel(s)
    PROVE  DeliverInv'
<1>1. PICK o \in {"readerr", "stopped"} : Finished(s, o)
  BY DEF ReadError, Cancel
<1>2. PICK d : d = Ends(cli[s], o)
  OBVIOUS
<1>3. SetCli(s, d) /\ CloseNow(s)
  BY <1>1, <1>2 DEF Finished
<1>4. o \in Outcome \ {"none", "gap", "protocol"} /\ (o = "ok" => CleanEnd(cli[s])) /\ 0 \in Seqs
  BY <1>1, WireAssumption DEF Outcome, Seqs
<1> QED BY <1>2, <1>3, <1>4, ClientEnds

-----------------------------------------------------------------------------
\* Every step of the composition, and its initial states.

\* Every step of the composition keeps every delivery.
LEMMA DeliverStep ==
    ASSUME StreamInv, SubTypeOK, WakeInv, DeliverInv, [Next]_vars
    PROVE  DeliverInv'
<1>1. ASSUME NEW s \in Subs, Connect(s) PROVE DeliverInv'
  BY <1>1, ConnectStep
<1>2. ASSUME NEW s \in Subs, ServeStep(s) PROVE DeliverInv'
  BY <1>2, LocalStep
<1>3. ASSUME NEW s \in Subs, WriteStep(s) PROVE DeliverInv'
  BY <1>3, WriteStepDelivers
<1>4. ASSUME NEW s \in Subs, GoneStep(s) PROVE DeliverInv'
  BY <1>4, GoneStepDelivers
<1>5. ASSUME NEW s \in Subs, ClientStep(s) PROVE DeliverInv'
  <2>1. UNCHANGED <<sourceVars, serveVars>>
    BY <1>5 DEF ClientStep
  <2>2. \/ RecvBegin(s) \/ RecvChunk(s) \/ RecvEnd(s) \/ RecvClose(s)
        \/ ReadError(s) \/ Cancel(s)
    BY <1>5 DEF ClientStep, Receive
  <2> QED BY <2>1, <2>2, RecvBeginDelivers, RecvChunkDelivers, RecvEndDelivers, RecvCloseDelivers, ClientLeaves
<1>6. ASSUME NEW s \in Subs, ClientCancels(s) PROVE DeliverInv'
  <2>1. UNCHANGED <<sourceVars, serveVars>> /\ Cancel(s)
    BY <1>6 DEF ClientCancels
  <2> QED BY <2>1, ClientLeaves
<1>7. ASSUME NEW s \in Subs, NetworkDrops(s) PROVE DeliverInv'
  BY <1>7, DropDelivers
<1>8. Source \/ AllDone \/ UNCHANGED vars => DeliverInv'
  <2> SUFFICES ASSUME Source \/ AllDone \/ UNCHANGED vars PROVE DeliverInv'
    OBVIOUS
  <2>1. UNCHANGED <<connVars, serveVars, cli>> /\ [SourceNext]_sourceVars
    BY NextIsSource DEF Source, AllDone, vars
  <2>2. SourceInv
    BY DEF StreamInv, SourceSide
  <2> QED BY <2>1, <2>2, DeliverSource
<1> QED BY <1>1, <1>2, <1>3, <1>4, <1>5, <1>6, <1>7, <1>8 DEF Next

\* Nobody is connected at first.
LEMMA DeliverInit ==
    ASSUME Init
    PROVE  DeliverInv
<1>1. /\ sub = [s \in Subs |-> Off] /\ liveAbandons = 0 /\ cli = [s \in Subs |-> NotDialed]
      /\ net = [s \in Subs |-> <<>>] /\ conn = [s \in Subs |-> "none"]
  BY DEF Init, ServeInit, CliInit, ConnInit
<1>2. PICK zero \in Seqs : zero = 0 /\ zero \in Nat
  BY WireAssumption DEF Seqs
<1>3. PICK c : c = NotDialed /\ c = [NotDialed EXCEPT !.from = zero, !.to = zero, !.expected = zero]
  <2>1. [NotDialed EXCEPT !.from = 0] = NotDialed
    BY DEF NotDialed
  <2>2. [NotDialed EXCEPT !.to = 0] = NotDialed
    BY DEF NotDialed
  <2>3. [NotDialed EXCEPT !.expected = 0] = NotDialed
    BY DEF NotDialed
  <2>4. [NotDialed EXCEPT !.from = 0, !.to = 0, !.expected = 0] = NotDialed
    BY <2>1, <2>2, <2>3, Zenon
  <2> QED BY <1>2, <2>4
<1>4. PICK x : x = [Off EXCEPT !.pc = IF zero = 0 THEN "anchor" ELSE "watch", !.start = zero, !.end = zero, !.next = zero]
  BY SMTT(20)
<1>5. c \in CliState /\ Deliver(c, x, <<>>, "open", zero)
  BY <1>2, <1>3, <1>4, ConnectDelivers
<1>6. PICK y, w : y = Off /\ w = <<>>
  OBVIOUS
<1>7. y.pc = "off" /\ y.out = <<>> /\ x.out = y.out
  BY <1>4, <1>6 DEF Off
<1>8. Deliver(c, y, w, "none", zero)
  <2>1. CliOK(c) /\ Restarts(c) <= zero
    BY <1>5 DEF Deliver
  <2>2. PICK b \in Tip : c.outcome = "none" => Reads(CliTip(c), <<>> \o x.out, b, zero)
    BY <1>5 DEF Deliver
  <2>3. c.outcome = "none" => Reads(CliTip(c), w \o y.out, b, zero)
    BY <1>6, <1>7, <2>2
  <2>4. SubOK(y) /\ ~Serving(y)
    BY <1>7 DEF SubOK, Serving
  <2> QED BY <1>6, <2>1, <2>3, <2>4, Zenon DEF Deliver
<1>9. WireTypeOK
  <2>1. <<>> \in Seq(Msg)
    OBVIOUS
  <2> QED BY <1>1, <1>3, <1>5, <2>1 DEF WireTypeOK
<1>10. ASSUME NEW s \in Subs PROVE Deliver(cli[s], sub[s], net[s], conn[s], liveAbandons)
  <2>1. cli[s] = c /\ sub[s] = y /\ net[s] = w /\ conn[s] = "none" /\ liveAbandons = zero
    BY <1>1, <1>2, <1>3, <1>6
  <2> QED BY <1>8, <2>1
<1> QED BY <1>9, <1>10 DEF DeliverInv

-----------------------------------------------------------------------------
\* Every subscription, from the source's flows to what its consumer was given,
\* and whatever the interleaving: what serve has queued and written, and the
\* network not lost, is what the client can read.
THEOREM DeliveryInvariant == Spec => [](StreamInv /\ SubTypeOK /\ WakeInv /\ DeliverInv)
<1>1. Init => StreamInv /\ SubTypeOK /\ WakeInv /\ DeliverInv
  BY CoreInit, StreamInit, DeliverInit
<1>2. StreamInv /\ SubTypeOK /\ WakeInv /\ DeliverInv /\ [Next]_vars => (StreamInv /\ SubTypeOK /\ WakeInv /\ DeliverInv)'
  <2>1. StreamInv => SourceSide
    BY DEF StreamInv
  <2> QED BY <2>1, StreamStep, WakeStep, DeliverStep
<1> QED BY <1>1, <1>2, PTL DEF Spec

\* What a delivery says of its client.
LEMMA ClientIsOK ==
    ASSUME DeliverInv, NEW s \in Subs
    PROVE  cli[s] \in CliState /\ CliOK(cli[s]) /\ Restarts(cli[s]) <= liveAbandons
BY DEF DeliverInv, Deliver, WireTypeOK

\* The client's gap and protocol errors never fire (remoteledger/stream.go): no
\* order in which serve leaves a flow, for the disk or for its pinned END, sends a
\* message the client does not expect.
THEOREM NeverAProtocolError == Spec => []NoProtocolError
<1>1. DeliverInv => NoProtocolError
  BY ClientIsOK DEF NoProtocolError, CliOK
<1> QED BY <1>1, DeliveryInvariant, PTL

\* Every ledger a consumer is given is, byte for byte, one the source completed or
\* one already in the ring, and they are consecutive from the one it asked for,
\* although serve changes between memory and disk at any place.
THEOREM WhatWasEmittedIsDelivered == Spec => []DeliversWhatWasEmitted
<1>1. DeliverInv => DeliversWhatWasEmitted
  <2> SUFFICES ASSUME DeliverInv, NEW s \in Subs, NEW k \in 1..Len(Got(s))
               PROVE  /\ \/ \E i \in 1..Len(flows) :
                              complete(flows[i]) /\ flows[i].seq = Got(s)[k].seq /\ flows[i].end.sum = Got(s)[k].body
                         \/ Got(s)[k].body = << <<"old", Got(s)[k].seq, 1>> >>
                      /\ Got(s)[k].seq = IF k = 1 /\ cli[s].from = 0 THEN Got(s)[1].seq
                                         ELSE IF k = 1 THEN cli[s].from
                                         ELSE Got(s)[k - 1].seq + 1
    BY DEF DeliversWhatWasEmitted
  <2>1. PICK c \in CliState : c = cli[s] /\ c.got = Got(s)
    BY ClientIsOK DEF Got
  <2>2. k \in 1..Len(c.got) /\ CliOK(c)
    BY <2>1, ClientIsOK
  <2>3. GotOK(c, k)
    BY <2>2 DEF CliOK
  <2>4. PICK g : g = c.got[k] /\ g = Got(s)[k]
    BY <2>1
  <2>5. WasEmitted(g.seq, g.body)
    BY <2>3, <2>4 DEF GotOK
  <2>6. (k = 1 => c.from \in {0, g.seq}) /\ (k > 1 => g.seq = c.got[k - 1].seq + 1)
    BY <2>3, <2>4 DEF GotOK
  <2>7. k = 1 \/ k > 1
    <3>1. Len(c.got) \in Nat
      BY DEF CliState
    <3> QED BY <2>2, <3>1
  <2>8. g.seq = IF k = 1 /\ cli[s].from = 0 THEN Got(s)[1].seq
                ELSE IF k = 1 THEN cli[s].from ELSE Got(s)[k - 1].seq + 1
    BY <2>1, <2>4, <2>6, <2>7
  <2> QED BY <2>4, <2>5, <2>8 DEF WasEmitted
<1> QED BY <1>1, DeliveryInvariant, PTL

\* A ledger's stamps come from one emission of that very ledger, and one that was
\* started over from disk has none (serve's stampless replay).
THEOREM StampsStayHonest == Spec => []StampsAreHonest
<1>1. DeliverInv => StampsAreHonest
  <2> SUFFICES ASSUME DeliverInv, NEW s \in Subs, NEW k \in 1..Len(Got(s)), NEW g, g = Got(s)[k]
               PROVE  /\ g.emitStart = g.emitEnd
                      /\ g.emitStart # 0 => flows[g.emitStart].seq = g.seq
                      /\ g.discarded > 0 => g.emitStart = 0
                      /\ g.discarded <= 1
    BY DEF StampsAreHonest
  <2>1. PICK c \in CliState : c = cli[s] /\ c.got = Got(s)
    BY ClientIsOK DEF Got
  <2>2. k \in 1..Len(c.got) /\ CliOK(c)
    BY <2>1, ClientIsOK
  <2>3. GotOK(c, k) /\ g = c.got[k]
    BY <2>1, <2>2 DEF CliOK
  <2> QED BY <2>3 DEF GotOK, Stamped
<1> QED BY <1>1, DeliveryInvariant, PTL

\* A client never counts more restarted ledgers than serve has counted abandons
\* (liveAbandons, server.go).
THEOREM DiscardsStayAbandons == Spec => []DiscardsAreAbandons
<1>1. DeliverInv => DiscardsAreAbandons
  BY ClientIsOK DEF DiscardsAreAbandons, Restarts, Restarted, Got
<1> QED BY <1>1, DeliveryInvariant, PTL

\* An iteration that ends without an error has had its whole range, or the source
\* ended without failing and there is no ledger left to send (serve's normal close).
THEOREM CleanEndsAreHonest == Spec => []CleanEndIsHonest
<1>1. DeliverInv => CleanEndIsHonest
  <2> SUFFICES ASSUME DeliverInv, NEW s \in Subs, NEW c, c = cli[s], c.outcome = "ok"
               PROVE  IF c.to = 0
                      THEN /\ ended /\ runErr = "none"
                           /\ c.expected # 0 =>
                                /\ \A i \in 1..Len(flows) :
                                     /\ flows[i].seq # c.expected
                                     /\ complete(flows[i]) => flows[i].seq < c.expected
                                /\ flows = <<>> /\ ring.filled => c.expected > ring.latest
                      ELSE c.from = 0 \/ c.expected > c.to
    BY DEF CleanEndIsHonest
  <2>1. CleanEnd(c)
    BY ClientIsOK DEF CliOK
  <2> QED BY <2>1 DEF CleanEnd, NoMore
<1> QED BY <1>1, DeliveryInvariant, PTL

-----------------------------------------------------------------------------
\* The composition implements LedgerStream.  Beyond a delivery, the mapping
\* rests on facts about what shows of a state: every flow but the last is
\* complete,
EarlierComplete == \A i \in 1..Len(flows) - 1 : complete(flows[i])

\* a subscription that was not dialled has a client in its initial state, and a
\* bounded range is not empty.
DialInv == \A s \in Subs :
    /\ conn[s] = "none" => cli[s] = NotDialed
    /\ cli[s].to # 0 => cli[s].from <= cli[s].to

\* An entry of the log is a completed flow.
Entry == [seq : Seqs, body : Body]
EntryOf(f) == [seq |-> f.seq, body |-> f.end.sum]

\* BEGIN is published only once the flow before it is complete.
LEMMA EarlierCompleteStep ==
    ASSUME SourceInv, EarlierComplete, [SourceNext]_sourceVars
    PROVE  EarlierComplete'
<1>0. SourceTypeOK /\ FlowInv /\ Len(flows) \in Nat
  BY DEF SourceInv, SourceTypeOK, BroadcasterTypeOK
<1>1. /\ Len(flows') \in Nat
      /\ \A i \in 1..Len(flows) : complete(flows[i]) => flows'[i] = flows[i]
  BY FlowGrowth
<1>2. CASE Begin
  <2>1. PICK seq \in Emitted : begin(seq, AppendBegin(seq, Len(flows) + 1))
    BY <1>2 DEF Begin
  <2>2. seq \in Seqs /\ ~ended /\ ~OpenFlow /\ BroadcasterTypeOK
    BY <1>0, <1>2, SourceAssumption DEF Emitted, Begin, FlowInv, SourceTypeOK
  <2>3. AppendBegin(seq, Len(flows) + 1) \in BeginMsg
    BY <1>0, <2>2 DEF AppendBegin, BeginMsg
  <2>4. Len(flows') = Len(flows) + 1
    BY <2>1, <2>2, <2>3, BeginEffect
  <2>5. ASSUME NEW i \in 1..Len(flows') - 1 PROVE complete(flows[i])
    <3>1. i \in 1..Len(flows)
      BY <1>0, <2>4
    <3>2. CASE i = Len(flows)
      <4>1. flows # <<>>
        BY <3>1, <3>2
      <4> QED BY <2>2, <3>2, <4>1 DEF OpenFlow, cur
    <3>3. CASE i # Len(flows)
      <4>1. i \in 1..Len(flows) - 1
        BY <1>0, <3>1, <3>3
      <4> QED BY <4>1 DEF EarlierComplete
    <3> QED BY <3>2, <3>3
  <2>6. \A i \in 1..Len(flows') - 1 : flows'[i] = flows[i]
    BY <1>0, <1>1, <2>4, <2>5
  <2> QED BY <2>5, <2>6 DEF EarlierComplete, complete
<1>3. CASE ~Begin
  <2>1. Len(flows') = Len(flows)
    BY <1>0, <1>3, FlowFrame
  <2>2. \A i \in 1..Len(flows) - 1 : i \in 1..Len(flows) /\ complete(flows[i])
    BY <1>0 DEF EarlierComplete
  <2> QED BY <1>1, <2>1, <2>2 DEF EarlierComplete, complete
<1> QED BY <1>2, <1>3

\* The log's entries are the completed flows.
LogIs ==
    /\ CompletedFlows \in Nat /\ CompletedFlows <= Len(flows) /\ Len(flows) \in Nat
    /\ \A i \in 1..CompletedFlows : complete(flows[i]) /\ EntryOf(flows[i]) \in Entry
    /\ \A i \in 1..Len(flows) : complete(flows[i]) => i \in 1..CompletedFlows
    /\ CompletedLog \in Seq(Entry) /\ Len(CompletedLog) = CompletedFlows
    /\ \A i \in 1..CompletedFlows : CompletedLog[i] = EntryOf(flows[i])

\* It is so whenever every earlier flow is complete.
LEMMA LogFacts == BroadcasterTypeOK /\ EarlierComplete => LogIs
<1> SUFFICES ASSUME BroadcasterTypeOK, EarlierComplete PROVE LogIs
  OBVIOUS
<1>1. Len(flows) \in Nat /\ \A i \in 1..Len(flows) : flows[i] \in Flow
  BY DEF BroadcasterTypeOK
<1>2. CompletedFlows \in Nat /\ CompletedFlows <= Len(flows)
  <2>1. OpenFlow => Len(flows) > 0
    BY <1>1 DEF OpenFlow, BroadcasterTypeOK
  <2> QED BY <1>1, <2>1 DEF CompletedFlows
<1>3. ASSUME NEW i \in 1..CompletedFlows PROVE complete(flows[i]) /\ EntryOf(flows[i]) \in Entry
  <2>1. i \in 1..Len(flows)
    BY <1>1, <1>2
  <2>2. complete(flows[i])
    <3>1. CASE i \in 1..Len(flows) - 1
      BY <3>1 DEF EarlierComplete
    <3>2. CASE i \notin 1..Len(flows) - 1
      <4>1. i = Len(flows) /\ ~OpenFlow
        BY <1>1, <2>1, <3>2 DEF CompletedFlows
      <4>2. flows # <<>>
        BY <2>1, <4>1
      <4> QED BY <4>1, <4>2 DEF OpenFlow, cur
    <3> QED BY <3>1, <3>2
  <2>3. flows[i].end \in EndMsg /\ flows[i].seq \in Seqs
    BY <1>1, <2>1, <2>2 DEF Flow, complete
  <2>4. flows[i].end.sum \in Body
    BY <2>3 DEF EndMsg
  <2> QED BY <2>2, <2>3, <2>4 DEF EntryOf, Entry
<1>4. ASSUME NEW i \in 1..Len(flows), complete(flows[i]) PROVE i \in 1..CompletedFlows
  <2>1. OpenFlow => i # Len(flows)
    BY <1>4 DEF OpenFlow, cur
  <2> QED BY <1>1, <2>1 DEF CompletedFlows
<1>5. CompletedLog = [i \in 1..CompletedFlows |-> EntryOf(flows[i])]
  BY DEF CompletedLog, EntryOf
<1>6. CompletedLog \in Seq(Entry) /\ Len(CompletedLog) = CompletedFlows
  <2>1. CompletedLog \in [1..CompletedFlows -> Entry]
    BY <1>3, <1>5
  <2> QED BY <1>2, <2>1, LenProperties, SeqDef
<1> QED BY <1>1, <1>2, <1>3, <1>4, <1>5, <1>6 DEF LogIs

\* What Run's steps are to the log and the source's status: an END completes a
\* ledger, finish stops the source, and nothing else shows.
LEMMA SourceShows ==
    ASSUME SourceInv, EarlierComplete, [SourceNext]_sourceVars
    PROVE  \/ CompletedFlows' = CompletedFlows /\ SourceStatus' = SourceStatus
           \/ CompletedFlows' = CompletedFlows + 1 /\ SourceStatus' = SourceStatus /\ SourceStatus = "running"
           \/ UNCHANGED flows /\ SourceStatus = "running" /\ SourceStatus' \in {"ended", "failed"}
<1>0. SourceTypeOK /\ FlowInv /\ BroadcasterTypeOK /\ Len(flows) \in Nat
  BY DEF SourceInv, SourceTypeOK, BroadcasterTypeOK
<1>1. CASE UNCHANGED bVars
  BY <1>1 DEF bVars, CompletedFlows, SourceStatus, OpenFlow, cur, complete
<1>2. CASE Begin
  <2>1. PICK seq \in Emitted : begin(seq, AppendBegin(seq, Len(flows) + 1))
    BY <1>2 DEF Begin
  <2>2. seq \in Seqs /\ ~ended /\ ~OpenFlow
    BY <1>0, <1>2, SourceAssumption DEF Emitted, Begin, FlowInv
  <2>3. AppendBegin(seq, Len(flows) + 1) \in BeginMsg
    BY <1>0, <2>2 DEF AppendBegin, BeginMsg
  <2>4. Len(flows') = Len(flows) + 1 /\ OpenFlow' /\ ended' = ended
    BY <1>0, <2>1, <2>2, <2>3, BeginEffect
  <2>5. CompletedFlows' = CompletedFlows
    BY <1>0, <2>2, <2>4 DEF CompletedFlows
  <2>6. SourceStatus' = SourceStatus
    BY <2>2, <2>4 DEF SourceStatus
  <2> QED BY <2>5, <2>6
<1>3. CASE Read \/ Publish
  <2>1. OpenFlow /\ ~ended
    BY <1>0, <1>3 DEF FlowInv, Read, Publish, publishNext
  <2>2. OpenFlow'
    BY <1>3, StillOpen
  <2>3. ~Begin
    BY <1>0, <2>1 DEF Begin, FlowInv
  <2>4. Len(flows') = Len(flows)
    BY <1>0, <2>3, FlowFrame
  <2>5. ~ended'
    <3>1. FlowInv'
      BY FlowStep DEF SourceInv
    <3>2. pc' # "done"
      BY <1>0, <1>3, <2>1 DEF Read, AfterRead, Return, Publish, publishNext, FlowInv
    <3> QED BY <3>1, <3>2 DEF FlowInv
  <2>6. CompletedFlows' = CompletedFlows
    BY <2>1, <2>2, <2>4 DEF CompletedFlows
  <2> QED BY <2>1, <2>5, <2>6 DEF SourceStatus
<1>4. CASE End
  <2>1. CASE SizeMismatch
    BY <1>1, <1>4, <2>1 DEF End
  <2>2. CASE ~SizeMismatch
    <3> DEFINE m == AppendEnd(em.seq, chunkIdx, Len(parts), Len(flows), Sum64(parts))
    <3>1. m \in EndMsg
      BY <1>0 DEF AppendEnd, EndMsg, Sum64, SourceTypeOK, BroadcasterTypeOK, Body
    <3>2. end(m) /\ ~ended /\ OpenFlow
      BY <1>0, <1>4, <2>2 DEF End, FlowInv
    <3> HIDE DEF m
    <3>3. Len(flows') = Len(flows) /\ complete(cur') /\ ended' = ended
      BY <1>0, <3>1, <3>2, EndEffect
    <3>4. ~OpenFlow'
      BY <3>3 DEF OpenFlow, complete
    <3>5. CompletedFlows' = CompletedFlows + 1
      BY <1>0, <3>2, <3>3, <3>4 DEF CompletedFlows
    <3>6. SourceStatus' = SourceStatus /\ SourceStatus = "running"
      BY <3>2, <3>3 DEF SourceStatus
    <3> QED BY <3>5, <3>6
  <2> QED BY <2>1, <2>2
<1>5. CASE Finish
  <2>1. ~ended /\ ended' /\ UNCHANGED flows
    BY <1>0, <1>5 DEF Finish, finish, FlowInv
  <2>2. SourceStatus = "running" /\ SourceStatus' \in {"ended", "failed"}
    BY <2>1 DEF SourceStatus
  <2> QED BY <2>1, <2>2
<1>6. CASE SourceStops \/ Refuse \/ ReadPastCap \/ CallPut \/ PutStep \/ ReturnPut
  BY <1>1, <1>6 DEF SourceStops, Refuse, ReadPastCap, CallPut, PutStep, ReturnPut
<1>7. CASE UNCHANGED sourceVars
  BY <1>1, <1>7 DEF sourceVars
<1> QED BY <1>1, <1>2, <1>3, <1>4, <1>5, <1>6, <1>7 DEF SourceNext

\* A step of Run, to a consumer: the log gains the next ledger, the source
\* stops, or nothing.
LEMMA SourceImplements ==
    ASSUME StreamInv, EarlierComplete, StreamInv', EarlierComplete', [SourceNext]_sourceVars,
           UNCHANGED <<AskedFor, GivenTo, EndOf>>
    PROVE  [Abstract!Next]_(Abstract!vars)
<1>0. SourceInv /\ FlowsDense /\ SourceInv' /\ FlowsDense' /\ BroadcasterTypeOK /\ BroadcasterTypeOK'
  BY DEF StreamInv, SourceSide, SourceInv, SourceTypeOK
<1> DEFINE n == CompletedFlows
<1>1. /\ n \in Nat /\ n <= Len(flows) /\ Len(flows) \in Nat
      /\ \A i \in 1..n : complete(flows[i])
      /\ CompletedLog \in Seq(Entry) /\ Len(CompletedLog) = n
      /\ \A i \in 1..n : CompletedLog[i] = EntryOf(flows[i])
  BY <1>0, LogFacts DEF LogIs
<1>2. /\ n' \in Nat /\ n' <= Len(flows') /\ Len(flows') \in Nat
      /\ \A i \in 1..n' : EntryOf(flows'[i]) \in Entry
      /\ CompletedLog' \in Seq(Entry) /\ Len(CompletedLog') = n'
      /\ \A i \in 1..n' : CompletedLog'[i] = EntryOf(flows'[i])
  <2>1. LogIs'
    BY <1>0, LogFacts, PTL
  <2> QED BY <2>1 DEF LogIs, EntryOf
<1>3. \A i \in 1..n : flows'[i] = flows[i]
  <2>1. \A i \in 1..Len(flows) : complete(flows[i]) => flows'[i] = flows[i]
    BY <1>0, FlowGrowth
  <2> QED BY <1>1, <2>1
<1>4. \A i \in 1..n : i \in 1..n' => CompletedLog'[i] = CompletedLog[i]
  BY <1>1, <1>2, <1>3
<1> HIDE DEF n
<1>5. CASE n' = n /\ SourceStatus' = SourceStatus
  <2>1. CompletedLog' = CompletedLog
    <3>1. PICK a \in Seq(Entry) : a = CompletedLog
      BY <1>1
    <3>2. PICK b \in Seq(Entry) : b = CompletedLog'
      BY <1>2
    <3>3. Len(a) = Len(b) /\ \A i \in 1..Len(a) : a[i] = b[i]
      BY <1>1, <1>2, <1>4, <1>5, <3>1, <3>2
    <3>4. a = b
      BY <3>3, SeqEqual
    <3> QED BY <3>1, <3>2, <3>4
  <2> QED BY <1>5, <2>1 DEF Abstract!vars
<1>6. CASE n' = n + 1 /\ SourceStatus' = SourceStatus /\ SourceStatus = "running"
  <2>1. PICK a \in Seq(Entry) : a = CompletedLog
    BY <1>1
  <2>2. PICK b \in Seq(Entry) : b = CompletedLog'
    BY <1>2
  <2>3. Len(b) = Len(a) + 1 /\ Len(a) = n /\ \A i \in 1..Len(a) : a[i] = b[i]
    BY <1>1, <1>2, <1>4, <1>6, <2>1, <2>2
  <2>4. SubSeq(b, 1, Len(a)) = a
    BY <2>3
  <2>5. b[Len(b)] = EntryOf(flows'[n + 1]) /\ b[Len(b)] \in Entry
    BY <1>1, <1>2, <1>6, <2>2, <2>3
  <2>6. a # <<>> /\ b[Len(b)].seq # 0 => b[Len(b)].seq = a[Len(a)].seq + 1
    <3> SUFFICES ASSUME a # <<>>, b[Len(b)].seq # 0 PROVE b[Len(b)].seq = a[Len(a)].seq + 1
      OBVIOUS
    <3>1. n \in 1..n /\ n \in 1..Len(flows') - 1 /\ n \in 1..n'
      BY <1>1, <1>2, <1>6, <2>3
    <3>2. flows'[n].seq # 0 /\ flows'[n + 1].seq = Succ(flows'[n].seq)
      BY <1>0, <3>1 DEF FlowsDense
    <3>3. a[Len(a)].seq = flows'[n].seq /\ b[Len(b)].seq = flows'[n + 1].seq
      BY <1>1, <1>3, <2>1, <2>3, <2>5, <3>1 DEF EntryOf
    <3>4. flows'[n].seq \in Seqs
      BY <1>2, <3>1 DEF EntryOf, Entry
    <3> QED BY <3>2, <3>3, <3>4, SuccFacts
  <2>7. Abstract!CompleteLedger
    BY <1>6, <2>1, <2>2, <2>3, <2>4, <2>5, <2>6 DEF Abstract!CompleteLedger, Abstract!Entry, Entry
  <2> QED BY <2>7 DEF Abstract!Next
<1>7. CASE UNCHANGED flows /\ SourceStatus = "running" /\ SourceStatus' \in {"ended", "failed"}
  <2>1. UNCHANGED CompletedLog
    BY <1>7 DEF CompletedLog, CompletedFlows, OpenFlow, cur, complete
  <2>2. Abstract!Stop
    BY <1>7, <2>1 DEF Abstract!Stop
  <2> QED BY <2>2 DEF Abstract!Next
<1> QED BY <1>0, <1>5, <1>6, <1>7, SourceShows DEF n

-----------------------------------------------------------------------------
\* No BEGIN names the ledger 0, so no client assembles or yields one: serve's
\* cursor has left 0 before it writes anything.
Named(w) == \A j \in 1..Len(w) : w[j].type = "begin" => w[j].seq # 0

NamedInv == \A s \in Subs :
    /\ Named(net[s]) /\ Named(sub[s].out)
    /\ cli[s].active => cli[s].seq # 0
    /\ \A k \in 1..Len(cli[s].got) : cli[s].got[k].seq # 0

\* Two named queues make a named one.
LEMMA NamedConcat ==
    ASSUME NEW w \in Seq(Msg), NEW u \in Seq(Msg), Named(w), Named(u)
    PROVE  w \o u \in Seq(Msg) /\ Named(w \o u)
<1>1. PICK p \in Seq(Msg) : p = w \o u
  <2>1. w \o u \in Seq(Msg)
    OBVIOUS
  <2> QED BY <2>1
<1>2. Len(w) \in Nat /\ Len(u) \in Nat /\ Len(p) = Len(w) + Len(u)
  BY <1>1, ConcatProperties
<1>3. ASSUME NEW j \in 1..Len(p), p[j].type = "begin" PROVE p[j].seq # 0
  <2>1. CASE j <= Len(w)
    <3>1. j \in 1..Len(w) /\ p[j] = w[j]
      BY <1>1, <1>2, <2>1, ConcatProperties
    <3> QED BY <1>3, <3>1 DEF Named
  <2>2. CASE ~(j <= Len(w))
    <3>1. j - Len(w) \in 1..Len(u) /\ p[j] = u[j - Len(w)]
      BY <1>1, <1>2, <2>2, ConcatProperties
    <3> QED BY <1>3, <3>1 DEF Named
  <2> QED BY <2>1, <2>2
<1> QED BY <1>1, <1>3 DEF Named

\* Queues are made of named parts.
LEMMA NamedParts ==
    /\ Named(<<>>)
    /\ \A m \in Msg : (m.type = "begin" => m.seq # 0) => Named(<<m>>)
    /\ \A w \in Seq(Msg), m \in Msg : Named(w) /\ (m.type = "begin" => m.seq # 0) => Named(Append(w, m))
    /\ \A w \in Seq(Msg) : w # <<>> /\ Named(w) =>
         Named(Tail(w)) /\ (Head(w).type = "begin" => Head(w).seq # 0)
<1>1. Named(<<>>)
  BY DEF Named
<1>2. ASSUME NEW m \in Msg, m.type = "begin" => m.seq # 0 PROVE Named(<<m>>)
  <2>1. Len(<<m>>) = 1 /\ <<m>>[1] = m
    OBVIOUS
  <2>2. \A j \in 1..Len(<<m>>) : <<m>>[j] = m
    BY <2>1
  <2> QED BY <1>2, <2>2 DEF Named
<1>3. ASSUME NEW w \in Seq(Msg), NEW m \in Msg, Named(w), m.type = "begin" => m.seq # 0 PROVE Named(Append(w, m))
  <2>1. <<m>> \in Seq(Msg) /\ Append(w, m) = w \o <<m>> /\ Named(<<m>>)
    BY <1>2, <1>3
  <2> QED BY <1>3, <2>1, NamedConcat
<1>4. ASSUME NEW w \in Seq(Msg), w # <<>>, Named(w)
      PROVE  Named(Tail(w)) /\ (Head(w).type = "begin" => Head(w).seq # 0)
  <2>1. PICK p \in Seq(Msg), m \in {Head(w)} : p = Tail(w) /\ m = Head(w)
    <3>1. Tail(w) \in Seq(Msg)
      BY <1>4
    <3> QED BY <3>1
  <2>2. /\ m = w[1] /\ 1 \in 1..Len(w)
        /\ \A j \in 1..Len(p) : p[j] = w[j + 1] /\ j + 1 \in 1..Len(w)
    BY <1>4, <2>1
  <2> QED BY <1>4, <2>1, <2>2 DEF Named
<1> QED BY <1>1, <1>2, <1>3, <1>4

\* Only BEGINs are names.
LEMMA NotBegins ==
    ASSUME NEW w \in Seq(ChunkMsg \cup EndMsg \cup CloseFrame)
    PROVE  w \in Seq(Msg) /\ Named(w)
<1>1. \A j \in 1..Len(w) : w[j].type # "begin"
  <2>1. \A m \in ChunkMsg \cup EndMsg \cup CloseFrame : m.type # "begin"
    BY DEF ChunkMsg, EndMsg, CloseFrame
  <2> QED BY <2>1
<1>2. w \in Seq(Msg)
  BY DEF Msg
<1> QED BY <1>1, <1>2 DEF Named

\* A ledger other than 0 is written under its name.
LEMMA FlowNamed ==
    ASSUME SourceInv, ChainInv, flows # <<>>, cur.seq # 0, NEW x \in SubState
    PROVE  /\ Named(Unsent(x))
           /\ snapComplete => Named(StamplessFlow(cur))
<1>0. BroadcasterTypeOK /\ Len(flows) \in Nat
  BY DEF SourceInv, SourceTypeOK, BroadcasterTypeOK
<1>1. PICK q \in Seqs, cs \in Seq(ChunkMsg), bg \in BeginMsg, e \in {cur.end} :
        /\ q = cur.seq /\ cs = cur.chunks /\ bg = cur.begin /\ e = cur.end /\ q # 0
        /\ snapComplete => e \in EndMsg
  <2>1. cur \in Flow
    BY <1>0, FlowMsgs
  <2> QED BY <2>1 DEF Flow, snapComplete, complete
<1>2. bg.seq = q
  <2>1. cur = flows[Len(flows)] /\ Len(flows) \in 1..Len(flows)
    BY <1>0 DEF cur
  <2>2. cur.begin = AppendBegin(cur.seq, Len(flows))
    BY <2>1 DEF ChainInv, FlowChained
  <2> QED BY <1>1, <2>2 DEF AppendBegin
<1>3. ASSUME NEW a \in Nat \ {0} PROVE SubSeq(cs, a, Len(cs)) \in Seq(Msg) /\ Named(SubSeq(cs, a, Len(cs)))
  <2>1. SubSeq(cs, a, Len(cs)) \in Seq(ChunkMsg)
    OBVIOUS
  <2>2. SubSeq(cs, a, Len(cs)) \in Seq(ChunkMsg \cup EndMsg \cup CloseFrame)
    BY <2>1
  <2> QED BY <2>2, NotBegins
<1>4. cs \in Seq(Msg) /\ Named(cs)
  <2>1. cs \in Seq(ChunkMsg \cup EndMsg \cup CloseFrame)
    OBVIOUS
  <2> QED BY <2>1, NotBegins
<1>5. ASSUME NEW m \in EndMsg PROVE <<m>> \in Seq(Msg) /\ Named(<<m>>)
  <2>1. <<m>> \in Seq(ChunkMsg \cup EndMsg \cup CloseFrame)
    OBVIOUS
  <2> QED BY <2>1, NotBegins
<1>6. ASSUME NEW m \in BeginMsg, m.seq # 0 PROVE <<m>> \in Seq(Msg) /\ Named(<<m>>)
  <2>1. m \in Msg
    BY DEF Msg
  <2> QED BY <1>6, <2>1, NamedParts
<1>7. <<>> \in Seq(Msg) /\ Named(<<>>)
  BY NamedParts
<1>8. Named(Unsent(x))
  <2>1. PICK u, v, w : /\ u = (IF Fresh(x) THEN <<cur.begin>> ELSE <<>>)
                       /\ v = SubSeq(cur.chunks, IF Fresh(x) THEN 1 ELSE x.sent + 1, Len(cur.chunks))
                       /\ w = (IF snapComplete THEN <<cur.end>> ELSE <<>>)
    OBVIOUS
  <2>2. u \in Seq(Msg) /\ Named(u)
    BY <1>1, <1>2, <1>6, <1>7, <2>1
  <2>3. v \in Seq(Msg) /\ Named(v)
    <3>1. (IF Fresh(x) THEN 1 ELSE x.sent + 1) \in Nat \ {0}
      BY DEF SubState
    <3> QED BY <1>1, <1>3, <2>1, <3>1
  <2>4. w \in Seq(Msg) /\ Named(w)
    BY <1>1, <1>5, <1>7, <2>1
  <2>5. u \o v \in Seq(Msg) /\ Named(u \o v)
    BY <2>2, <2>3, NamedConcat
  <2>6. Named(u \o v \o w)
    BY <2>4, <2>5, NamedConcat
  <2> QED BY <2>1, <2>6 DEF Unsent
<1>9. ASSUME snapComplete PROVE Named(StamplessFlow(cur))
  <2>1. PICK m, n : m = AppendBegin(q, 0) /\ n = AppendEnd(q, e.count, e.total, 0, e.sum)
    OBVIOUS
  <2>2. m \in BeginMsg /\ m.seq # 0 /\ n \in EndMsg
    BY <1>1, <1>9, <2>1 DEF AppendBegin, AppendEnd, BeginMsg, EndMsg
  <2>3. <<m>> \o cs \in Seq(Msg) /\ Named(<<m>> \o cs)
    <3>1. <<m>> \in Seq(Msg) /\ Named(<<m>>)
      BY <1>6, <2>2
    <3> QED BY <1>4, <3>1, NamedConcat
  <2>4. Named(<<m>> \o cs \o <<n>>)
    <3>1. <<n>> \in Seq(Msg) /\ Named(<<n>>)
      BY <1>5, <2>2
    <3> QED BY <2>3, <3>1, NamedConcat
  <2> QED BY <1>1, <2>1, <2>4 DEF StamplessFlow
<1> QED BY <1>8, <1>9

\* So is a stored one.
LEMMA RingNamed ==
    ASSUME NEW q \in Seqs, q # 0, NEW raw \in Body
    PROVE  Named(RingFlow(q, raw))
<1>1. RingFlow(q, raw) \in Seq(Msg)
  BY RingMsgs
<1>2. PICK m, cs, n : /\ m = AppendBegin(q, 0)
                      /\ cs = [i \in 1..Pieces(raw) |-> encodeChunk(q, i - 1, Piece(raw, i))]
                      /\ n = AppendEnd(q, Pieces(raw), Len(raw), 0, Sum64(raw))
  OBVIOUS
<1>3. RingFlow(q, raw) = <<m>> \o cs \o <<n>>
  BY <1>2 DEF RingFlow
<1>4. m.type = "begin" /\ m.seq = q /\ n.type = "end"
  BY <1>2 DEF AppendBegin, AppendEnd
<1>5. Pieces(raw) \in Nat /\ cs \in Seq({cs[i] : i \in 1..Pieces(raw)}) /\ Len(cs) = Pieces(raw)
  <2>1. Len(raw) \in Nat /\ ChunkSize \in Nat /\ ChunkSize > 0
    BY WireAssumption DEF Body
  <2>2. Pieces(raw) \in Nat
    BY <2>1 DEF Pieces
  <2>3. cs \in [1..Pieces(raw) -> {cs[i] : i \in 1..Pieces(raw)}]
    BY <1>2
  <2> QED BY <2>2, <2>3
<1>6. \A i \in 1..Len(cs) : cs[i].type = "chunk"
  <2>1. \A i \in 1..Len(cs) : cs[i] = encodeChunk(q, i - 1, Piece(raw, i))
    BY <1>2, <1>5
  <2>2. ASSUME NEW i \in 1..Len(cs) PROVE cs[i].type = "chunk"
    <3>1. PICK raw1 : raw1 = Piece(raw, i) /\ cs[i] = encodeChunk(q, i - 1, raw1)
      BY <2>1
    <3> QED BY <3>1 DEF encodeChunk, compressChunk, RawChunk, AppendChunk
  <2> QED BY <2>2
<1> DEFINE T == {m, n} \cup {cs[i] : i \in 1..Pieces(raw)}
<1>7. PICK h \in Seq(T), c \in Seq(T), e \in Seq(T) : h = <<m>> /\ c = cs /\ e = <<n>> /\ Len(h) = 1 /\ Len(e) = 1 /\ h[1] = m /\ e[1] = n
  <2>1. <<m>> \in Seq(T) /\ cs \in Seq(T) /\ <<n>> \in Seq(T) /\ Len(<<m>>) = 1 /\ Len(<<n>>) = 1 /\ <<m>>[1] = m /\ <<n>>[1] = n
    BY <1>5
  <2> QED BY <2>1
<1> HIDE DEF T
<1>8. ASSUME NEW w \in Seq(T), w = h \o c \o e, NEW j \in 1..Len(w), w[j].type = "begin" PROVE w[j].seq # 0
  <2>1. Len(c) \in Nat /\ Len(w) = 1 + Len(c) + 1
    BY <1>7, <1>8
  <2>2. CASE j = 1
    <3>1. w[j] = m
      BY <1>7, <1>8, <2>1, <2>2
    <3> QED BY <1>4, <3>1
  <2>3. CASE j \in 2..Len(c) + 1
    <3>1. w[j] = c[j - 1] /\ j - 1 \in 1..Len(c)
      BY <1>7, <1>8, <2>1, <2>3
    <3> QED BY <1>6, <1>7, <1>8, <3>1
  <2>4. CASE j = Len(c) + 2
    <3>1. w[j] = n
      BY <1>7, <1>8, <2>1, <2>4
    <3> QED BY <1>4, <1>8, <3>1
  <2> QED BY <2>1, <2>2, <2>3, <2>4
<1>9. h \o c \o e \in Seq(T)
  BY <1>7
<1>10. Named(h \o c \o e)
  BY <1>8, <1>9 DEF Named
<1> QED BY <1>3, <1>7, <1>10

\* Sleeping or closing queues no BEGIN.
LEMMA QuietNamed ==
    ASSUME NEW z \in SubState, Named(z.out)
    PROVE  /\ Named(Idle(z).out)
           /\ \A code, o, l : Named(Close(z, code, o, l).out)
<1>1. ASSUME NEW code, NEW o, NEW l PROVE Named(Close(z, code, o, l).out)
  <2>1. PICK m : m = CloseMsg(code, o, l)
    OBVIOUS
  <2>2. m.type = "close"
    BY <2>1 DEF CloseMsg
  <2>3. Close(z, code, o, l).out = <<m>>
    BY <2>1 DEF Close, Write, SubState
  <2>4. Len(<<m>>) = 1 /\ <<m>>[1] = m
    OBVIOUS
  <2>5. Named(<<m>>)
    BY <2>2, <2>4 DEF Named
  <2> QED BY <2>3, <2>5
<1>2. [z EXCEPT !.pc = "sleep"].out = z.out
  BY DEF SubState
<1> QED BY <1>1, <1>2 DEF Idle

\* What serve queues is named.
LEMMA LocalNamed ==
    ASSUME StreamInv, SubTypeOK, WakeInv, NEW s \in Subs, ServeLocal(s), SubOK(sub[s]), Named(sub[s].out),
           NEW y, Set(s, y)
    PROVE  Named(y.out)
<1>0. SourceSide /\ SourceInv /\ ChainInv /\ BroadcasterTypeOK /\ StoreTypeOK /\ sub[s] \in SubState
  BY DEF StreamInv, SourceSide, SourceInv, SourceTypeOK, SubTypeOK
<1>1. PICK x \in SubState, w \in {Watched(s)} : x = sub[s] /\ w = Watched(s)
  BY <1>0
<1>2. w \in SubState /\ Place(w) /\ w.out = x.out
  <2>1. w.out = x.out
    BY <1>1 DEF Watched, SubState
  <2> QED BY <1>0, <1>1, <2>1, WatchFacts
<1>3. Named(w.out) /\ Named(x.out)
  BY <1>1, <1>2
<1>4. CASE anchorTip(s) \/ ServeGet(s)
  <2>1. \E p, n : y = [x EXCEPT !.pc = p, !.next = n] \/ y = [x EXCEPT !.pc = p]
    BY <1>1, <1>4, SetIs DEF anchorTip, ServeGet
  <2>2. y.out = x.out
    BY <2>1 DEF SubState
  <2> QED BY <1>3, <2>2
<1>5. CASE ServeRangeDone(s) \/ ServeReason(s)
  <2>1. \/ y = Close(w, NormalClosure, 0, 0)
        \/ y = Close(x, TooFarBehind, ring.oldest, ring.latest)
    BY <1>1, <1>5, SetIs DEF ServeRangeDone, ServeReason
  <2> QED BY <1>2, <1>3, <2>1, QuietNamed
<1>6. CASE writeStamplessFlow(s)
  <2>1. y = Served(Write(w, StamplessFlow(cur))) /\ AtFlow(w) /\ snapComplete
    BY <1>1, <1>6, SetIs DEF writeStamplessFlow
  <2>2. flows # <<>> /\ cur.seq # 0
    BY <1>0, <2>1, SnapType DEF AtFlow
  <2>3. PICK out : out = StamplessFlow(cur) /\ Named(out)
    BY <1>0, <1>2, <2>1, <2>2, FlowNamed
  <2>4. y.out = out
    BY <1>2, <2>1, <2>3 DEF Served, Write, SubState
  <2> QED BY <2>3, <2>4
<1>7. CASE ServeLive(s)
  <2>1. /\ AtFlow(w)
        /\ y = IF Unsent(w) = <<>> THEN Idle(w)
               ELSE IF snapComplete THEN Served(LeaveFlow(Write(w, Unsent(w))))
               ELSE [Write(w, Unsent(w)) EXCEPT !.f = Len(flows), !.begun = TRUE, !.sent = Len(cur.chunks)]
    BY <1>1, <1>7, SetIs DEF ServeLive
  <2>2. flows # <<>> /\ cur.seq # 0
    BY <1>0, <2>1, SnapType DEF AtFlow
  <2>3. PICK out : out = Unsent(w) /\ Named(out)
    BY <1>0, <1>2, <2>2, FlowNamed
  <2>4. CASE Unsent(w) = <<>>
    BY <1>2, <1>3, <2>1, <2>4, QuietNamed
  <2>5. CASE Unsent(w) # <<>>
    <3>1. \/ y = Served(LeaveFlow(Write(w, out)))
          \/ y = [Write(w, out) EXCEPT !.f = Len(flows), !.begun = TRUE, !.sent = Len(cur.chunks)]
      BY <2>1, <2>3, <2>5
    <3>2. y.out = out
      BY <1>2, <3>1 DEF Served, LeaveFlow, Write, SubState
    <3> QED BY <2>3, <3>2
  <2> QED BY <2>4, <2>5
<1>8. CASE ServePinnedEnd(s)
  <2>1. y = Served(LeaveFlow(Write(w, <<flows[w.f].end>>))) /\ complete(flows[w.f]) /\ w.begun
    BY <1>1, <1>8, SetIs DEF ServePinnedEnd, OwedOnlyEnd
  <2>2. PICK m, out : m = flows[w.f].end /\ out = <<m>>
    OBVIOUS
  <2>3. m \in EndMsg
    <3>1. w.f \in 1..Len(flows)
      BY <1>2, <2>1 DEF Place
    <3>2. flows[w.f] \in Flow
      BY <1>0, <3>1 DEF BroadcasterTypeOK
    <3> QED BY <2>1, <2>2, <3>2 DEF Flow, complete
  <2>4. Named(out)
    <3>1. <<m>> \in Seq(ChunkMsg \cup EndMsg \cup CloseFrame)
      BY <2>3
    <3> QED BY <2>2, <3>1, NotBegins
  <2>5. y.out = out
    BY <1>2, <2>1, <2>2 DEF Served, LeaveFlow, Write, SubState
  <2> QED BY <2>4, <2>5
<1>9. CASE ServeBehind(s)
  <2>1. y = [LeaveFlow(w) EXCEPT !.pc = "bounds"]
    BY <1>1, <1>9, SetIs DEF ServeBehind
  <2>2. y.out = w.out
    BY <1>2, <2>1 DEF LeaveFlow, SubState
  <2> QED BY <1>3, <2>2
<1>10. CASE ServeAhead(s)
  <2>1. y = Idle(w)
    BY <1>1, <1>10, SetIs DEF ServeAhead
  <2> QED BY <1>2, <1>3, <2>1, QuietNamed
<1>11. CASE ServeBounds(s)
  <2>1. y = Idle(x) \/ y = [x EXCEPT !.pc = "get"]
    BY <1>1, <1>11, SetIs DEF ServeBounds
  <2>2. [x EXCEPT !.pc = "get"].out = x.out
    BY DEF SubState
  <2> QED BY <1>3, <2>1, <2>2, QuietNamed
<1>12. CASE ServeRead(s)
  <2>1. /\ x.pc = "read"
        /\ y = IF Exists(x.next) THEN Served(Write(x, RingFlow(x.next, disk[x.next]))) ELSE [x EXCEPT !.pc = "reason"]
    BY <1>1, <1>12, SetIs DEF ServeRead
  <2>2. CASE Exists(x.next)
    <3>1. PICK q \in Seqs, raw \in Body : q = x.next /\ raw = disk[x.next]
      BY <1>0, <2>2 DEF Exists, StoreTypeOK
    <3>2. q # 0
      BY <1>1, <2>1, <3>1 DEF SubOK
    <3>3. PICK out : out = RingFlow(q, raw) /\ Named(out)
      BY <3>2, RingNamed
    <3>4. y = Served(Write(x, out))
      BY <2>1, <2>2, <3>1, <3>3
    <3>5. y.out = out
      BY <3>4 DEF Served, Write, SubState
    <3> QED BY <3>3, <3>5
  <2>3. CASE ~Exists(x.next)
    <3>1. y.out = x.out
      BY <2>1, <2>3 DEF SubState
    <3> QED BY <1>3, <3>1
  <2> QED BY <2>2, <2>3
<1>13. CASE ServeWake(s)
  <2>1. y = Again(x)
    BY <1>1, <1>13, SetIs DEF ServeWake
  <2>2. y.out = <<>>
    BY <2>1 DEF Again, SubState
  <2> QED BY <2>2, NamedParts
<1> QED BY <1>4, <1>5, <1>6, <1>7, <1>8, <1>9, <1>10, <1>11, <1>12, <1>13 DEF ServeLocal

-----------------------------------------------------------------------------
\* What a step of the client does to what shows of it.

\* What an end without a delivery leaves of the client.
LEMMA EndsFields ==
    ASSUME NEW c \in CliState, NEW o, NEW d, d = Ends(c, o)
    PROVE  d.got = c.got /\ d.outcome = o /\ ~d.active /\ d.from = c.from /\ d.to = c.to
BY DEF Ends, CliState

\* One step of the client: it yields the ledger it has assembled and goes on,
\* stops or has its range, or it yields nothing and goes on or ends.
Shows(c, d) ==
    /\ c.outcome = "none"
    /\ d.from = c.from /\ d.to = c.to
    /\ d.active => d.seq # 0
    /\ \/ d.got = c.got /\ d.outcome # "complete" /\ (d.outcome = "ok" => ~truncated(c))
       \/ \E g \in GotRec :
            /\ d.got = Append(c.got, g) /\ g.seq # 0
            /\ \/ d.outcome = "stopped"
               \/ d.outcome = IF c.to # 0 /\ g.seq >= c.to THEN "complete" ELSE "none"

\* And the connection then.
ClientTurn(s) ==
    \E d, v, k :
        /\ Shows(cli[s], d) /\ conn[s] # "none" /\ k # "none" /\ Named(v)
        /\ cli' = [cli EXCEPT ![s] = d] /\ net' = [net EXCEPT ![s] = v] /\ conn' = [conn EXCEPT ![s] = k]

\* Whatever the client reads, its step is such a turn.
LEMMA ClientShows ==
    ASSUME WireTypeOK, NamedInv, NEW s \in Subs, Receive(s) \/ ReadError(s) \/ Cancel(s)
    PROVE  ClientTurn(s)
<1>1. PICK c \in CliState : c = cli[s] /\ c.outcome = "none" /\ conn[s] # "none"
  <2>1. Reading(s)
    BY DEF Receive, RecvBegin, RecvChunk, RecvEnd, RecvClose, ReadError, Cancel, Arrives
  <2> QED BY <2>1 DEF Reading, WireTypeOK
<1>2. c.active => c.seq # 0
  BY <1>1 DEF NamedInv
<1>3. ASSUME NEW d, SetCli(s, d), CloseNow(s), Shows(c, d)
      PROVE  ClientTurn(s)
  <2>1. Named(<<>>) /\ "down" # "none"
    BY NamedParts
  <2>2. cli' = [cli EXCEPT ![s] = d] /\ net' = [net EXCEPT ![s] = <<>>] /\ conn' = [conn EXCEPT ![s] = "down"]
    BY <1>3 DEF SetCli, CloseNow, TakeDown
  <2> QED BY <1>1, <1>3, <2>1, <2>2, Zenon DEF ClientTurn
<1>4. ASSUME NEW d, SetCli(s, d), Consume(s), net[s] # <<>>, Shows(c, d)
      PROVE  ClientTurn(s)
  <2>1. Named(Tail(net[s]))
    BY <1>4, NamedParts DEF NamedInv, WireTypeOK
  <2>2. cli' = [cli EXCEPT ![s] = d] /\ net' = [net EXCEPT ![s] = Tail(net[s])]
    BY <1>4 DEF SetCli, Consume
  <2>3. conn' = [conn EXCEPT ![s] = conn[s]]
    BY <1>4 DEF Consume, WireTypeOK
  <2> QED BY <1>1, <1>4, <2>1, <2>2, <2>3, Zenon DEF ClientTurn
<1>5. ASSUME NEW o, Finished(s, o), o # "complete", o = "ok" => ~truncated(c)
      PROVE  ClientTurn(s)
  <2>1. PICK d : d = Ends(c, o)
    OBVIOUS
  <2>2. Shows(c, d)
    BY <1>1, <1>5, <2>1, EndsFields DEF Shows
  <2> QED BY <1>1, <1>3, <1>5, <2>1, <2>2 DEF Finished
<1>6. CASE RecvBegin(s)
  <2>1. PICK m : m = Head(net[s]) /\ m.type = "begin" /\ net[s] # <<>>
    BY <1>6 DEF RecvBegin, Arrives
  <2>2. m.seq # 0
    BY <2>1, NamedParts DEF NamedInv, WireTypeOK
  <2>3. CASE \E o \in {"protocol", "gap"} : Finished(s, o)
    BY <1>5, <2>3
  <2>4. CASE ~\E o \in {"protocol", "gap"} : Finished(s, o)
    <3>1. PICK d : /\ d = [c EXCEPT !.discarded = IF c.active THEN @ + 1 ELSE @,
                                    !.active = TRUE, !.seq = m.seq, !.emitStart = m.stamp,
                                    !.buf = <<>>, !.chunks = 0]
                   /\ SetCli(s, d) /\ Consume(s)
      BY <1>1, <1>6, <2>1, <2>4 DEF RecvBegin
    <3>2. d.got = c.got /\ d.outcome = c.outcome /\ d.from = c.from /\ d.to = c.to /\ d.seq = m.seq
      BY <3>1 DEF CliState
    <3>3. Shows(c, d)
      BY <1>1, <2>2, <3>2 DEF Shows
    <3> QED BY <1>4, <2>1, <3>1, <3>3
  <2> QED BY <2>3, <2>4
<1>7. CASE RecvChunk(s)
  <2>1. CASE Finished(s, "protocol")
    BY <1>5, <2>1
  <2>2. CASE ~Finished(s, "protocol")
    <3>1. PICK m, d : /\ d = [c EXCEPT !.buf = @ \o Expand(m), !.chunks = @ + 1]
                      /\ SetCli(s, d) /\ Consume(s) /\ net[s] # <<>>
      BY <1>1, <1>7, <2>2 DEF RecvChunk, Arrives
    <3>2. d.got = c.got /\ d.outcome = c.outcome /\ d.from = c.from /\ d.to = c.to /\ d.seq = c.seq
      BY <3>1 DEF CliState
    <3>3. d.active <=> c.active
      BY <3>1 DEF CliState
    <3>4. Shows(c, d)
      BY <1>1, <1>2, <3>2, <3>3 DEF Shows
    <3> QED BY <1>4, <3>1, <3>4
  <2> QED BY <2>1, <2>2
<1>8. CASE RecvEnd(s)
  <2>1. PICK m : m = Head(net[s]) /\ m.type = "end" /\ net[s] # <<>> /\ m \in EndMsg
    <3>1. net[s] # <<>> /\ Head(net[s]).type = "end" /\ Head(net[s]) \in Msg
      BY <1>8 DEF RecvEnd, Arrives, WireTypeOK
    <3> QED BY <3>1 DEF Msg, BeginMsg, ChunkMsg, CloseFrame
  <2>2. CASE Finished(s, "protocol")
    BY <1>5, <2>2
  <2>3. CASE ~Finished(s, "protocol")
    <3>1. c.active /\ m.seq = c.seq
      BY <1>1, <1>8, <2>1, <2>3 DEF RecvEnd
    <3>2. \/ SetCli(s, YieldedAs(c, m, "stopped")) /\ CloseNow(s)
          \/ c.to # 0 /\ m.seq >= c.to /\ SetCli(s, YieldedAs(c, m, "complete")) /\ CloseNow(s)
          \/ ~(c.to # 0 /\ m.seq >= c.to) /\ SetCli(s, YieldedAs(c, m, "none")) /\ Consume(s)
      BY <1>1, <1>8, <2>1, <2>3 DEF RecvEnd, YieldedAs, Yielded
    <3>3. ASSUME NEW o \in {"stopped", IF c.to # 0 /\ m.seq >= c.to THEN "complete" ELSE "none"},
                 NEW d, d = YieldedAs(c, m, o)
          PROVE  Shows(c, d)
      <4>1. o \in Outcome
        BY DEF Outcome
      <4>2. /\ d \in CliState /\ d.from = c.from /\ d.to = c.to /\ d.got = Append(c.got, LedgerInfo(c, m))
            /\ ~d.active /\ d.outcome = o
        BY <1>1, <2>1, <3>3, <4>1, YieldedFields
      <4>3. PICK g \in GotRec : g = LedgerInfo(c, m)
        BY <2>1 DEF LedgerInfo, GotRec, CliState, EndMsg
      <4>4. g.seq = m.seq /\ g.seq # 0
        BY <1>2, <3>1, <4>3 DEF LedgerInfo
      <4> QED BY <1>1, <4>2, <4>3, <4>4 DEF Shows
    <3> QED BY <1>3, <1>4, <2>1, <3>2, <3>3
  <2> QED BY <2>2, <2>3
<1>9. CASE RecvClose(s)
  <2>1. PICK m, o : m = Head(net[s]) /\ o = classifyClose(c, m)
    OBVIOUS
  <2>2. PICK d, e : /\ e = Ends(c, o) /\ d = [e EXCEPT !.oldest = m.oldest, !.latest = m.latest]
                    /\ SetCli(s, d) /\ CloseNow(s)
    BY <1>1, <1>9, <2>1 DEF RecvClose
  <2>3. d.got = c.got /\ d.outcome = o /\ ~d.active /\ d.from = c.from /\ d.to = c.to
    BY <2>2 DEF Ends, CliState
  <2>4. o # "complete" /\ (o = "ok" => ~truncated(c))
    BY <2>1 DEF classifyClose
  <2>5. Shows(c, d)
    BY <1>1, <2>3, <2>4 DEF Shows
  <2> QED BY <1>3, <2>2, <2>5
<1>10. CASE ReadError(s) \/ Cancel(s)
  <2>1. PICK o \in {"readerr", "stopped"} : Finished(s, o)
    BY <1>10 DEF ReadError, Cancel
  <2> QED BY <1>5, <2>1
<1> QED BY <1>6, <1>7, <1>8, <1>9, <1>10 DEF Receive

-----------------------------------------------------------------------------
\* One subscription's step, and what it must leave.
Steps(s, d, x, v, k) == \A t \in Subs :
    /\ cli'[t] = IF t = s THEN d ELSE cli[t]
    /\ sub'[t] = IF t = s THEN x ELSE sub[t]
    /\ net'[t] = IF t = s THEN v ELSE net[t]
    /\ conn'[t] = IF t = s THEN k ELSE conn[t]

Leaves(d, x, v, k) ==
    /\ Named(v) /\ Named(x.out)
    /\ d.active => d.seq # 0
    /\ \A i \in 1..Len(d.got) : d.got[i].seq # 0
    /\ k = "none" => d = NotDialed
    /\ d.to # 0 => d.from <= d.to

\* What one subscription leaves so, the step leaves so.
LEMMA ShownOne ==
    ASSUME NamedInv, DialInv, NEW s \in Subs, NEW d, NEW x, NEW v, NEW k,
           Steps(s, d, x, v, k), Leaves(d, x, v, k)
    PROVE  NamedInv' /\ DialInv'
<1>1. ASSUME NEW t \in Subs
      PROVE  /\ Named(net'[t]) /\ Named(sub'[t].out)
             /\ cli'[t].active => cli'[t].seq # 0
             /\ \A i \in 1..Len(cli'[t].got) : cli'[t].got[i].seq # 0
             /\ conn'[t] = "none" => cli'[t] = NotDialed
             /\ cli'[t].to # 0 => cli'[t].from <= cli'[t].to
  <2>1. CASE t = s
    <3>1. cli'[t] = d /\ sub'[t] = x /\ net'[t] = v /\ conn'[t] = k
      BY <2>1 DEF Steps
    <3> QED BY <3>1, Zenon DEF Leaves
  <2>2. CASE t # s
    <3>1. cli'[t] = cli[t] /\ sub'[t] = sub[t] /\ net'[t] = net[t] /\ conn'[t] = conn[t]
      BY <2>2 DEF Steps
    <3> QED BY <3>1, Zenon DEF NamedInv, DialInv
  <2> QED BY <2>1, <2>2
<1> QED BY <1>1, Zenon DEF NamedInv, DialInv, Named

\* Every step keeps ledger 0 unnamed and an undialled client as it was.
LEMMA ShownStep ==
    ASSUME StreamInv, SubTypeOK, WakeInv, DeliverInv, NamedInv, DialInv, [Next]_vars
    PROVE  NamedInv' /\ DialInv'
<1>0. WireTypeOK
  BY DEF DeliverInv
<1>1. ASSUME NEW s \in Subs, Connect(s) PROVE NamedInv' /\ DialInv'
  <2>1. PICK p \in Requests : RawLedgers(s, p[1], p[2]) /\ handleStream(s, p[1], p[2])
    BY <1>1 DEF Connect
  <2>2. PICK q \in Seqs, r \in Seqs : q = p[1] /\ r = p[2]
    BY <2>1, RequestsAssumption
  <2>3. PICK d, x : /\ d = [NotDialed EXCEPT !.from = q, !.to = r, !.expected = q]
                    /\ x = [Off EXCEPT !.pc = IF q = 0 THEN "anchor" ELSE "watch", !.start = q, !.end = r, !.next = q]
    OBVIOUS
  <2>4. /\ conn' = [conn EXCEPT ![s] = "open"] /\ cli' = [cli EXCEPT ![s] = d]
        /\ sub' = [sub EXCEPT ![s] = x] /\ UNCHANGED net /\ (r # 0 => q <= r)
    BY <2>1, <2>2, <2>3 DEF RawLedgers, SetCli, handleStream, Set, endpoint
  <2>5. d.from = q /\ d.to = r /\ d.got = <<>> /\ ~d.active /\ x.out = <<>>
    BY <2>3 DEF NotDialed, Off
  <2>6. PICK v : v = net[s] /\ Named(v) /\ Named(x.out)
    BY <2>5, NamedParts DEF NamedInv
  <2>7. Steps(s, d, x, v, "open")
    BY <1>0, <2>4, <2>6 DEF Steps, WireTypeOK, SubTypeOK
  <2>8. Leaves(d, x, v, "open")
    BY <2>4, <2>5, <2>6 DEF Leaves
  <2> QED BY <2>7, <2>8, ShownOne
<1>2. ASSUME NEW s \in Subs, NEW x, NEW v, NEW k,
             sub' = [sub EXCEPT ![s] = x], net' = [net EXCEPT ![s] = v], conn' = [conn EXCEPT ![s] = k],
             UNCHANGED cli, Named(v), Named(x.out), k = "none" => conn[s] = "none"
      PROVE  NamedInv' /\ DialInv'
  <2>0. PICK d : d = cli[s]
    OBVIOUS
  <2>1. Steps(s, d, x, v, k)
    BY <1>0, <1>2, <2>0 DEF Steps, WireTypeOK, SubTypeOK
  <2>2. Leaves(d, x, v, k)
    BY <1>2, <2>0, Zenon DEF NamedInv, DialInv, Leaves
  <2> QED BY <2>1, <2>2, ShownOne
<1>3. ASSUME NEW s \in Subs
      PROVE  /\ Named(net[s]) /\ Named(sub[s].out) /\ sub[s].out \in Seq(Msg) /\ net[s] \in Seq(Msg)
             /\ net = [net EXCEPT ![s] = net[s]] /\ conn = [conn EXCEPT ![s] = conn[s]]
             /\ sub = [sub EXCEPT ![s] = sub[s]] /\ SubOK(sub[s])
  <2>1. sub[s] \in SubState /\ SubOK(sub[s])
    BY DEF SubTypeOK, DeliverInv, Deliver
  <2> QED BY <1>0, <2>1 DEF NamedInv, SubTypeOK, WireTypeOK, SubState
<1>4. ASSUME NEW s \in Subs, ServeStep(s) PROVE NamedInv' /\ DialInv'
  <2>1. ServeLocal(s) /\ UNCHANGED <<net, conn, cli>> /\ SourceSide
    BY <1>4 DEF ServeStep, connVars, StreamInv
  <2>2. PICK y \in SubState : Set(s, y)
    BY <2>1, LocalWake
  <2>3. Named(y.out)
    BY <1>3, <2>1, <2>2, LocalNamed
  <2>4. sub' = [sub EXCEPT ![s] = y] /\ net' = [net EXCEPT ![s] = net[s]] /\ conn' = [conn EXCEPT ![s] = conn[s]]
    BY <1>3, <2>1, <2>2 DEF Set
  <2>5. PICK v, k : v = net[s] /\ k = conn[s]
    OBVIOUS
  <2> QED BY <1>2, <1>3, <2>1, <2>3, <2>4, <2>5
<1>5. ASSUME NEW s \in Subs, WriteStep(s) PROVE NamedInv' /\ DialInv'
  <2>1. PICK x \in SubState : x = sub[s]
    BY DEF SubTypeOK
  <2>2. /\ net' = [net EXCEPT ![s] = Append(net[s], Head(x.out))] /\ UNCHANGED <<conn, cli>>
        /\ sub' = [sub EXCEPT ![s] = Written(x)] /\ x.pc = "write"
    BY <1>5, <2>1 DEF WriteStep, ServeWrite, Send, Set, Written
  <2>3. x.out # <<>> /\ x.out \in Seq(Msg)
    BY <1>3, <2>1, <2>2 DEF SubOK
  <2>4. PICK m, rest : m = Head(x.out) /\ rest = Tail(x.out)
    OBVIOUS
  <2>5. m \in Msg /\ Named(rest) /\ (m.type = "begin" => m.seq # 0)
    BY <1>3, <2>1, <2>3, <2>4, NamedParts
  <2>6. Named(Append(net[s], m))
    BY <1>3, <2>5, NamedParts
  <2>7. PICK y : y = Written(x)
    OBVIOUS
  <2>8. Named(y.out)
    <3>1. y.out = <<>> \/ y.out = rest
      <4>1. [Off EXCEPT !.pc = "closed"].out = <<>> /\ [x EXCEPT !.out = Tail(@)].out = rest
        BY <2>4 DEF Off, SubState
      <4>2. Again(x).out = <<>>
        BY DEF Again, SubState
      <4> QED BY <2>7, <4>1, <4>2 DEF Written
    <3> QED BY <2>5, <3>1, NamedParts
  <2>9. PICK v, k : v = Append(net[s], m) /\ k = conn[s]
    OBVIOUS
  <2>10. conn' = [conn EXCEPT ![s] = k] /\ net' = [net EXCEPT ![s] = v] /\ sub' = [sub EXCEPT ![s] = y]
    BY <1>3, <2>2, <2>4, <2>7, <2>9
  <2> QED BY <1>2, <2>2, <2>6, <2>8, <2>9, <2>10
<1>6. ASSUME NEW s \in Subs, GoneStep(s) PROVE NamedInv' /\ DialInv'
  <2>1. PICK x : x = [Off EXCEPT !.pc = "gone"]
    OBVIOUS
  <2>2. /\ UNCHANGED <<net, cli>> /\ conn' = [conn EXCEPT ![s] = "down"] /\ sub' = [sub EXCEPT ![s] = x]
    BY <1>6, <2>1 DEF GoneStep, ServeGone, TakeDown, Set
  <2>3. PICK v, k : v = net[s] /\ k = "down"
    OBVIOUS
  <2>4. net' = [net EXCEPT ![s] = v] /\ conn' = [conn EXCEPT ![s] = k] /\ Named(x.out) /\ Named(v) /\ k # "none"
    <3>1. x.out = <<>>
      BY <2>1 DEF Off
    <3> QED BY <1>3, <2>2, <2>3, <3>1, NamedParts
  <2> QED BY <1>2, <2>2, <2>4
<1>7. ASSUME NEW s \in Subs, ClientStep(s) \/ ClientCancels(s) PROVE NamedInv' /\ DialInv'
  <2>1. UNCHANGED sub /\ (Receive(s) \/ ReadError(s) \/ Cancel(s))
    BY <1>7 DEF ClientStep, ClientCancels, serveVars
  <2>2. PICK d, v, k :
          /\ Shows(cli[s], d) /\ conn[s] # "none" /\ k # "none" /\ Named(v)
          /\ cli' = [cli EXCEPT ![s] = d] /\ net' = [net EXCEPT ![s] = v] /\ conn' = [conn EXCEPT ![s] = k]
    BY <1>0, <2>1, ClientShows DEF ClientTurn
  <2>3. PICK c \in CliState : c = cli[s]
    BY <1>0 DEF WireTypeOK
  <2>4. /\ \A i \in 1..Len(c.got) : c.got[i].seq # 0
        /\ c.to # 0 => c.from <= c.to
    BY <2>3 DEF NamedInv, DialInv
  <2>5. \A i \in 1..Len(d.got) : d.got[i].seq # 0
    <3>1. CASE d.got = c.got
      BY <2>4, <3>1
    <3>2. ASSUME NEW g \in GotRec, d.got = Append(c.got, g), g.seq # 0
          PROVE  \A i \in 1..Len(d.got) : d.got[i].seq # 0
      <4>1. c.got \in Seq(GotRec)
        BY DEF CliState
      <4>2. PICK w \in Seq(GotRec) : w = Append(c.got, g)
        <5>1. Append(c.got, g) \in Seq(GotRec)
          BY <4>1
        <5> QED BY <5>1
      <4>3. \A i \in 1..Len(w) : w[i] = g \/ (i \in 1..Len(c.got) /\ w[i] = c.got[i])
        BY <4>1, <4>2
      <4> QED BY <2>4, <3>2, <4>2, <4>3
    <3> QED BY <2>2, <2>3, <3>1, <3>2 DEF Shows
  <2>6. d.to # 0 => d.from <= d.to
    BY <2>2, <2>3, <2>4 DEF Shows
  <2>7. PICK x : x = sub[s]
    OBVIOUS
  <2>8. Steps(s, d, x, v, k)
    BY <1>0, <2>1, <2>2, <2>7 DEF Steps, WireTypeOK, SubTypeOK
  <2>9. (d.active => d.seq # 0) /\ Named(x.out)
    BY <1>3, <2>2, <2>7 DEF Shows
  <2>10. Leaves(d, x, v, k)
    BY <2>2, <2>5, <2>6, <2>9, Zenon DEF Leaves
  <2> QED BY <2>8, <2>10, ShownOne
<1>8. ASSUME NEW s \in Subs, NetworkDrops(s) PROVE NamedInv' /\ DialInv'
  <2>1. UNCHANGED <<net, sub, cli>> /\ conn' = [conn EXCEPT ![s] = "down"]
    BY <1>8 DEF NetworkDrops, Drop, TakeDown, serveVars
  <2>2. PICK x, v, k : x = sub[s] /\ v = net[s] /\ k = "down"
    OBVIOUS
  <2>3. /\ net' = [net EXCEPT ![s] = v] /\ sub' = [sub EXCEPT ![s] = x] /\ conn' = [conn EXCEPT ![s] = k]
        /\ Named(v) /\ Named(x.out) /\ k # "none"
    BY <1>3, <2>1, <2>2
  <2> QED BY <1>2, <2>1, <2>3
<1>9. CASE Source \/ AllDone \/ UNCHANGED vars
  <2>1. UNCHANGED <<net, conn, sub, cli>>
    BY <1>9 DEF Source, AllDone, vars, connVars, serveVars
  <2> QED BY <2>1 DEF NamedInv, DialInv, Named
<1> QED BY <1>1, <1>4, <1>5, <1>6, <1>7, <1>8, <1>9 DEF Next

-----------------------------------------------------------------------------
\* What shows of one client.
Asked(c, k) == IF k = "none" THEN <<>> ELSE <<c.from, c.to>>
Given(g) == [i \in 1..Len(g) |-> [seq |-> g[i].seq, body |-> g[i].body]]
Ending(o) == CASE o = "none" -> "no"
               [] o \in {"ok", "complete"} -> "clean"
               [] OTHER -> "error"

\* And of a step of it, which leaves the client at d and its connection at k.
Turns(s, d, k) == cli' = [cli EXCEPT ![s] = d] /\ conn' = [conn EXCEPT ![s] = k]
ShownAs(s, d, k) ==
    /\ AskedFor' = [AskedFor EXCEPT ![s] = Asked(d, k)]
    /\ GivenTo' = [GivenTo EXCEPT ![s] = Given(d.got)]
    /\ EndOf' = [EndOf EXCEPT ![s] = Ending(d.outcome)]

\* The mapped variables after such a step.
LEMMA ShowsOne ==
    ASSUME WireTypeOK, NEW s \in Subs, NEW d, NEW k, Turns(s, d, k)
    PROVE  /\ ShownAs(s, d, k)
           /\ AskedFor[s] = Asked(cli[s], conn[s]) /\ GivenTo[s] = Given(cli[s].got)
           /\ EndOf[s] = Ending(cli[s].outcome)
<1>1. \A t \in Subs : cli'[t] = (IF t = s THEN d ELSE cli[t]) /\ conn'[t] = (IF t = s THEN k ELSE conn[t])
  BY DEF WireTypeOK, Turns
<1>2. /\ AskedFor = [t \in Subs |-> Asked(cli[t], conn[t])]
      /\ GivenTo = [t \in Subs |-> Given(cli[t].got)]
      /\ EndOf = [t \in Subs |-> Ending(cli[t].outcome)]
  BY DEF AskedFor, GivenTo, EndOf, Asked, Given, Ending, Got
<1>3. /\ AskedFor' = [t \in Subs |-> Asked(cli'[t], conn'[t])]
      /\ GivenTo' = [t \in Subs |-> Given(cli'[t].got)]
      /\ EndOf' = [t \in Subs |-> Ending(cli'[t].outcome)]
  BY DEF AskedFor, GivenTo, EndOf, Asked, Given, Ending, Got
<1>4. AskedFor' = [AskedFor EXCEPT ![s] = Asked(d, k)]
  BY <1>1, <1>2, <1>3
<1>5. GivenTo' = [GivenTo EXCEPT ![s] = Given(d.got)]
  BY <1>1, <1>2, <1>3
<1>6. EndOf' = [EndOf EXCEPT ![s] = Ending(d.outcome)]
  BY <1>1, <1>2, <1>3
<1> QED BY <1>2, <1>4, <1>5, <1>6 DEF ShownAs

\* What a delivery says of a client after its step.
LEMMA ClientAfter ==
    ASSUME DeliverInv', UNCHANGED sourceVars, NEW s \in Subs, NEW d, d = cli'[s]
    PROVE  /\ d \in CliState /\ Tracks(d)
           /\ \A k \in 1..Len(d.got) :
                /\ WasEmitted(d.got[k].seq, d.got[k].body)
                /\ k = 1 => d.from \in {0, d.got[k].seq}
                /\ k > 1 => d.got[k].seq = d.got[k - 1].seq + 1
           /\ d.outcome = "ok" => CleanEnd(d)
<1>1. UNCHANGED <<flows, ring, ended, runErr>>
  BY DEF sourceVars, bVars, storeVars, runVars
<1>2. d \in CliState
  BY DEF DeliverInv, WireTypeOK
<1>3. CliOK(cli[s])'
  BY DEF DeliverInv, Deliver
<1>4. Tracks(d)
  BY <1>3 DEF CliOK, Tracks, LastSeq
<1>5. ASSUME NEW k \in 1..Len(d.got)
      PROVE  /\ WasEmitted(d.got[k].seq, d.got[k].body)
             /\ k = 1 => d.from \in {0, d.got[k].seq}
             /\ k > 1 => d.got[k].seq = d.got[k - 1].seq + 1
  <2>1. GotOK(cli[s], k)'
    BY <1>3 DEF CliOK
  <2>2. WasEmitted(d.got[k].seq, d.got[k].body)'
    BY <2>1 DEF GotOK, WasEmitted
  <2>3. WasEmitted(d.got[k].seq, d.got[k].body)
    BY <1>1, <2>2 DEF WasEmitted, complete
  <2> QED BY <2>1, <2>3 DEF GotOK
<1>6. ASSUME d.outcome = "ok" PROVE CleanEnd(d)
  <2>1. CleanEnd(cli[s])'
    BY <1>3, <1>6 DEF CliOK
  <2> QED BY <1>1, <2>1 DEF CleanEnd, NoMore, complete
<1> QED BY <1>2, <1>4, <1>5, <1>6

\* What is given, ledger by ledger.
LEMMA GivenFacts ==
    ASSUME NEW got \in Seq(GotRec)
    PROVE  /\ Given(got) \in Seq(Entry) /\ Len(Given(got)) = Len(got)
           /\ \A i \in 1..Len(got) : /\ Given(got)[i] = [seq |-> got[i].seq, body |-> got[i].body]
                                     /\ Given(got)[i].seq = got[i].seq
<1>1. Given(got) \in [1..Len(got) -> Entry] /\ Len(got) \in Nat
  <2>1. ASSUME NEW i \in 1..Len(got) PROVE [seq |-> got[i].seq, body |-> got[i].body] \in Entry
    <3>1. got[i] \in GotRec
      OBVIOUS
    <3> QED BY <3>1 DEF GotRec, Entry
  <2> QED BY <2>1 DEF Given
<1>2. Given(got) \in Seq(Entry) /\ Len(Given(got)) = Len(got)
  BY <1>1, LenProperties, SeqDef
<1>3. ASSUME NEW i \in 1..Len(got)
      PROVE  /\ Given(got)[i] = [seq |-> got[i].seq, body |-> got[i].body]
             /\ Given(got)[i].seq = got[i].seq
  <2>1. Given(got)[i] = [seq |-> got[i].seq, body |-> got[i].body]
    BY DEF Given
  <2> QED BY <2>1
<1> QED BY <1>2, <1>3

\* One more ledger given.
LEMMA GivenOneMore ==
    ASSUME NEW got \in Seq(GotRec), NEW g \in GotRec
    PROVE  /\ Given(Append(got, g)) = Append(Given(got), [seq |-> g.seq, body |-> g.body])
           /\ Append(got, g) \in Seq(GotRec) /\ Append(got, g) # got
           /\ Len(Append(got, g)) = Len(got) + 1 /\ Append(got, g)[Len(got) + 1] = g
           /\ \A i \in 1..Len(got) : Append(got, g)[i] = got[i]
<1>1. PICK w \in Seq(GotRec) : w = Append(got, g)
  <2>1. Append(got, g) \in Seq(GotRec)
    OBVIOUS
  <2> QED BY <2>1
<1>2. Len(got) \in Nat /\ Len(w) = Len(got) + 1 /\ w[Len(got) + 1] = g /\ \A i \in 1..Len(got) : w[i] = got[i]
  BY <1>1
<1>3. PICK e \in Entry : e = [seq |-> g.seq, body |-> g.body]
  <2>1. [seq |-> g.seq, body |-> g.body] \in Entry
    BY DEF GotRec, Entry
  <2> QED BY <2>1
<1>4. PICK a \in Seq(Entry), b \in Seq(Entry) : a = Given(got) /\ b = Given(w)
  <2>1. Given(got) \in Seq(Entry) /\ Given(w) \in Seq(Entry)
    BY GivenFacts
  <2> QED BY <2>1
<1>5. Len(a) = Len(got) /\ \A i \in 1..Len(got) : a[i] = [seq |-> got[i].seq, body |-> got[i].body]
  BY <1>4, GivenFacts
<1>6. Len(b) = Len(w) /\ \A i \in 1..Len(w) : b[i] = [seq |-> w[i].seq, body |-> w[i].body]
  BY <1>4, GivenFacts
<1>7. PICK p \in Seq(Entry) : p = Append(a, e)
  <2>1. Append(a, e) \in Seq(Entry)
    OBVIOUS
  <2> QED BY <2>1
<1>8. Len(p) = Len(a) + 1 /\ p[Len(a) + 1] = e /\ \A i \in 1..Len(a) : p[i] = a[i]
  BY <1>7
<1>9. ASSUME NEW i \in 1..Len(b) PROVE b[i] = p[i]
  <2>1. i \in 1..Len(w) /\ b[i] = [seq |-> w[i].seq, body |-> w[i].body]
    BY <1>6, <1>9
  <2>2. CASE i = Len(got) + 1
    BY <1>2, <1>3, <1>5, <1>8, <2>1, <2>2
  <2>3. CASE i # Len(got) + 1
    <3>1. i \in 1..Len(got) /\ w[i] = got[i]
      BY <1>2, <2>1, <2>3
    <3>2. p[i] = a[i] /\ a[i] = [seq |-> got[i].seq, body |-> got[i].body]
      BY <1>5, <1>8, <3>1
    <3> QED BY <2>1, <3>1, <3>2
  <2> QED BY <2>2, <2>3
<1>10. b = p
  BY <1>2, <1>5, <1>6, <1>8, <1>9, SeqEqual
<1>11. w # got
  BY <1>2
<1> QED BY <1>1, <1>2, <1>3, <1>4, <1>7, <1>10, <1>11

-----------------------------------------------------------------------------
\* A ledger given is one the abstract stream has available.
LEMMA Emits ==
    ASSUME LogIs, NEW q, NEW body, WasEmitted(q, body), NEW e \in Entry, e.seq = q, e.body = body
    PROVE  Abstract!Available(e)
<1>1. CASE body = << <<"old", q, 1>> >>
  BY <1>1 DEF Abstract!Available
<1>2. ASSUME NEW i \in 1..Len(flows), complete(flows[i]), flows[i].seq = q, flows[i].end.sum = body
      PROVE  Abstract!Available(e)
  <2>1. i \in 1..CompletedFlows /\ CompletedLog[i] = EntryOf(flows[i]) /\ Len(CompletedLog) = CompletedFlows
    BY <1>2 DEF LogIs
  <2>2. e = [seq |-> e.seq, body |-> e.body]
    BY DEF Entry
  <2>3. CompletedLog[i] = e
    BY <1>2, <2>1, <2>2 DEF EntryOf
  <2> QED BY <2>1, <2>3 DEF Abstract!Available
<1> QED BY <1>1, <1>2 DEF WasEmitted

\* An iteration that ends with no error had nothing left to be given.
LEMMA EndsExhausted ==
    ASSUME LogIs, EndedWell, NEW c \in CliState, NEW d \in CliState, Tracks(c), Tracks(d), CleanEnd(d),
           c.outcome = "none", d.got = c.got, d.from = c.from, d.to = c.to, ~truncated(c),
           c.to # 0 => c.from <= c.to
    PROVE  IF c.to = 0
           THEN /\ SourceStatus = "ended"
                /\ c.got # <<>> => \A i \in 1..Len(CompletedLog) : CompletedLog[i].seq <= LastSeq(c)
                /\ c.got = <<>> /\ c.from # 0 => \A i \in 1..Len(CompletedLog) : CompletedLog[i].seq < c.from
           ELSE c.from = 0 /\ c.got = <<>>
<1>1. ASSUME c.got # <<>> PROVE LastSeq(c) \in Seqs
  <2>1. c.got \in Seq(GotRec) /\ Len(c.got) \in 1..Len(c.got)
    BY <1>1 DEF CliState
  <2>2. c.got[Len(c.got)] \in GotRec
    BY <2>1
  <2> QED BY <2>2 DEF LastSeq, GotRec
<1>2. LastSeq(d) = LastSeq(c)
  BY DEF LastSeq
<1>3. MaxSeq \in Nat /\ \A q \in Seqs : Succ(q) = IF q = MaxSeq THEN 0 ELSE q + 1
  BY WireAssumption DEF Seqs, Succ
<1>4. CASE c.to = 0
  <2>1. ended /\ runErr = "none" /\ (d.expected # 0 => NoMore(d.expected))
    BY <1>4 DEF CleanEnd
  <2>2. SourceStatus = "ended"
    BY <2>1 DEF EndedWell, SourceStatus
  <2>3. ASSUME NEW i \in 1..Len(CompletedLog)
        PROVE  /\ CompletedLog[i].seq \in Seqs
               /\ d.expected # 0 => CompletedLog[i].seq < d.expected
    <3>1. /\ i \in 1..CompletedFlows /\ CompletedLog[i] = EntryOf(flows[i]) /\ complete(flows[i])
          /\ i \in 1..Len(flows) /\ EntryOf(flows[i]) \in Entry
      BY <2>3 DEF LogIs
    <3>2. CompletedLog[i].seq = flows[i].seq /\ flows[i].seq \in Seqs
      BY <3>1 DEF EntryOf, Entry
    <3> QED BY <2>1, <3>1, <3>2 DEF NoMore
  <2>4. ASSUME c.got # <<>>, NEW i \in 1..Len(CompletedLog) PROVE CompletedLog[i].seq <= LastSeq(c)
    <3>1. d.expected = Succ(LastSeq(c)) /\ LastSeq(c) \in Seqs
      BY <1>1, <1>2, <2>4 DEF Tracks
    <3>2. CASE LastSeq(c) = MaxSeq
      BY <1>3, <2>3, <3>2 DEF Seqs
    <3>3. CASE LastSeq(c) # MaxSeq
      <4>1. d.expected = LastSeq(c) + 1 /\ d.expected # 0
        BY <1>3, <3>1, <3>3 DEF Seqs
      <4> QED BY <2>3, <3>1, <4>1 DEF Seqs
    <3> QED BY <3>2, <3>3
  <2>5. ASSUME c.got = <<>>, c.from # 0, NEW i \in 1..Len(CompletedLog) PROVE CompletedLog[i].seq < c.from
    <3>1. d.expected = c.from
      BY <2>5 DEF Tracks
    <3> QED BY <2>3, <2>5, <3>1
  <2> QED BY <1>4, <2>2, <2>4, <2>5
<1>5. CASE c.to # 0
  <2>0. c.to \in Seqs /\ c.from \in Seqs /\ c.expected \in Seqs
    BY DEF CliState
  <2>1. c.expected = 0 \/ c.expected > c.to
    BY <1>5, <2>0 DEF truncated, Seqs
  <2>2. c.got = <<>>
    <3> SUFFICES ASSUME c.got # <<>> PROVE FALSE
      OBVIOUS
    <3>1. c.expected = Succ(LastSeq(c)) /\ LastSeq(c) < c.to /\ LastSeq(c) \in Seqs
      BY <1>1, <1>5 DEF Tracks
    <3> QED BY <1>3, <2>0, <2>1, <3>1 DEF Seqs
  <2>3. c.from = 0
    <3>1. c.expected = c.from
      BY <2>2 DEF Tracks
    <3> QED BY <1>5, <2>0, <2>1, <3>1 DEF Seqs
  <2> QED BY <1>5, <2>2, <2>3
<1> QED BY <1>4, <1>5

\* A turn of the client is a step of the abstract stream: the next ledger
\* given, a clean end, an end with an error, or nothing.
LEMMA ClientImplements ==
    ASSUME StreamInv, EarlierComplete, DeliverInv, NamedInv', DialInv, DeliverInv', UNCHANGED sourceVars,
           NEW s \in Subs, ClientTurn(s)
    PROVE  [Abstract!Next]_(Abstract!vars)
<1>0. WireTypeOK /\ LogIs /\ EndedWell
  BY LogFacts DEF DeliverInv, StreamInv, SourceSide, SourceInv, SourceTypeOK
<1>1. PICK c \in CliState : c = cli[s]
  BY <1>0 DEF WireTypeOK
<1>2. PICK d, v, k :
        /\ Shows(c, d) /\ conn[s] # "none" /\ k # "none"
        /\ cli' = [cli EXCEPT ![s] = d] /\ net' = [net EXCEPT ![s] = v] /\ conn' = [conn EXCEPT ![s] = k]
  BY <1>1 DEF ClientTurn
<1>3. d = cli'[s]
  BY <1>0, <1>2 DEF WireTypeOK
<1>4. /\ d \in CliState /\ Tracks(d)
      /\ \A j \in 1..Len(d.got) :
           /\ WasEmitted(d.got[j].seq, d.got[j].body)
           /\ j = 1 => d.from \in {0, d.got[j].seq}
           /\ j > 1 => d.got[j].seq = d.got[j - 1].seq + 1
      /\ d.outcome = "ok" => CleanEnd(d)
  BY <1>3, ClientAfter
<1>5. /\ AskedFor' = [AskedFor EXCEPT ![s] = Asked(d, k)]
      /\ GivenTo' = [GivenTo EXCEPT ![s] = Given(d.got)]
      /\ EndOf' = [EndOf EXCEPT ![s] = Ending(d.outcome)]
      /\ AskedFor[s] = Asked(c, conn[s]) /\ GivenTo[s] = Given(c.got) /\ EndOf[s] = Ending(c.outcome)
  <2>1. Turns(s, d, k)
    BY <1>2 DEF Turns
  <2>2. /\ ShownAs(s, d, k)
        /\ AskedFor[s] = Asked(cli[s], conn[s]) /\ GivenTo[s] = Given(cli[s].got)
        /\ EndOf[s] = Ending(cli[s].outcome)
    BY <1>0, <2>1, ShowsOne
  <2> QED BY <1>1, <2>2 DEF ShownAs
<1>6. c.outcome = "none" /\ d.from = c.from /\ d.to = c.to
  BY <1>2 DEF Shows
<1>7. Tracks(c) /\ (c.to # 0 => c.from <= c.to)
  BY <1>1 DEF DeliverInv, Deliver, CliOK, DialInv
<1>8. PICK a : a = <<c.from, c.to>> /\ a # <<>> /\ a[1] = c.from /\ a[2] = c.to
  <2>1. <<c.from, c.to>> # <<>> /\ <<c.from, c.to>>[1] = c.from /\ <<c.from, c.to>>[2] = c.to
    OBVIOUS
  <2> QED BY <2>1
<1>9. AskedFor[s] = a /\ EndOf[s] = "no" /\ Abstract!Active(s)
  BY <1>2, <1>5, <1>6, <1>8 DEF Asked, Ending, Abstract!Active
<1>10. AskedFor' = AskedFor
  <2>1. Asked(d, k) = a
    BY <1>2, <1>6, <1>8 DEF Asked
  <2>2. AskedFor = [AskedFor EXCEPT ![s] = a]
    BY <1>9 DEF AskedFor
  <2> QED BY <1>5, <2>1, <2>2
<1>11. UNCHANGED <<CompletedLog, SourceStatus>>
  BY DEF sourceVars, bVars, CompletedLog, SourceStatus, CompletedFlows, OpenFlow, cur, complete
<1>12. CASE d.got = c.got
  <2>1. GivenTo' = GivenTo
    <3>1. GivenTo = [GivenTo EXCEPT ![s] = Given(c.got)]
      BY <1>5 DEF GivenTo
    <3> QED BY <1>5, <1>12, <3>1
  <2>2. CASE d.outcome = "none"
    <3>1. EndOf = [EndOf EXCEPT ![s] = "no"]
      BY <1>9 DEF EndOf
    <3>2. EndOf' = EndOf
      BY <1>5, <2>2, <3>1 DEF Ending
    <3> QED BY <1>10, <1>11, <2>1, <3>2 DEF Abstract!vars
  <2>3. CASE d.outcome = "ok"
    <3>1. ~truncated(c)
      <4> QED BY <1>2, <2>3 DEF Shows
    <3>2. /\ EndOf' = [EndOf EXCEPT ![s] = "clean"]
          /\ IF c.to = 0
             THEN /\ SourceStatus = "ended"
                  /\ c.got # <<>> => \A i \in 1..Len(CompletedLog) : CompletedLog[i].seq <= LastSeq(c)
                  /\ c.got = <<>> /\ c.from # 0 => \A i \in 1..Len(CompletedLog) : CompletedLog[i].seq < c.from
             ELSE c.from = 0 /\ c.got = <<>>
      BY <1>0, <1>4, <1>5, <1>6, <1>7, <1>12, <2>3, <3>1, EndsExhausted DEF Ending
    <3>3. /\ GivenTo[s] = <<>> <=> c.got = <<>>
          /\ c.got # <<>> => Abstract!Last(s) = LastSeq(c)
      <4>1. PICK h \in Seq(GotRec) : h = c.got
        BY DEF CliState
      <4>2. Given(h) \in Seq(Entry) /\ Len(Given(h)) = Len(h) /\ \A i \in 1..Len(h) : Given(h)[i].seq = h[i].seq
        BY <4>1, GivenFacts
      <4>3. Given(h) = <<>> <=> h = <<>>
        BY <4>1, <4>2
      <4>4. ASSUME h # <<>> PROVE Given(h)[Len(Given(h))].seq = h[Len(h)].seq
        BY <4>1, <4>2, <4>4
      <4> QED BY <1>5, <4>1, <4>3, <4>4 DEF Abstract!Last, LastSeq
    <3>4. Abstract!Exhausted(s)
      BY <1>8, <1>9, <3>2, <3>3 DEF Abstract!Exhausted
    <3>5. Abstract!EndClean(s)
      BY <1>9, <1>10, <1>11, <2>1, <3>2, <3>4 DEF Abstract!EndClean
    <3> QED BY <3>5 DEF Abstract!Next
  <2>4. CASE d.outcome \notin {"none", "ok"}
    <3>1. d.outcome # "complete"
      <4>1. \A g \in GotRec : Append(c.got, g) # c.got
        BY GivenOneMore DEF CliState
      <4> QED BY <1>2, <1>12, <4>1 DEF Shows
    <3>2. EndOf' = [EndOf EXCEPT ![s] = "error"]
      BY <1>5, <2>4, <3>1 DEF Ending
    <3>3. Abstract!EndWithError(s)
      BY <1>9, <1>10, <1>11, <2>1, <3>2 DEF Abstract!EndWithError
    <3> QED BY <3>3 DEF Abstract!Next
  <2> QED BY <2>2, <2>3, <2>4
<1>13. ASSUME NEW g \in GotRec, d.got = Append(c.got, g), g.seq # 0,
              \/ d.outcome = "stopped"
              \/ d.outcome = IF c.to # 0 /\ g.seq >= c.to THEN "complete" ELSE "none"
       PROVE  Abstract!Next
  <2>1. PICK h \in Seq(GotRec) : h = c.got
    BY DEF CliState
  <2>2. PICK w \in Seq(GotRec), n \in {Len(h) + 1} : w = d.got /\ n = Len(h) + 1
    BY <1>4 DEF CliState
  <2>3. /\ Given(w) = Append(Given(h), [seq |-> g.seq, body |-> g.body])
        /\ w = Append(h, g) /\ Len(w) = n /\ w[n] = g /\ n \in 1..n
        /\ \A i \in 1..Len(h) : w[i] = h[i]
    BY <1>13, <2>1, <2>2, GivenOneMore
  <2>4. PICK e \in Entry : e = [seq |-> g.seq, body |-> g.body] /\ e.seq = g.seq /\ e.body = g.body
    <3>1. [seq |-> g.seq, body |-> g.body] \in Entry
      BY DEF GotRec, Entry
    <3> QED BY <3>1
  <2>5. PICK p \in Seq(Entry), q \in Seq(Entry) :
          /\ p = Given(h) /\ q = Append(p, e) /\ Len(p) = Len(h) /\ Len(q) = n /\ q[n] = e
          /\ \A i \in 1..Len(h) : p[i].seq = h[i].seq
    <3>1. Given(h) \in Seq(Entry) /\ Len(Given(h)) = Len(h) /\ \A i \in 1..Len(h) : Given(h)[i].seq = h[i].seq
      BY GivenFacts
    <3>2. /\ Append(Given(h), e) \in Seq(Entry) /\ Len(Append(Given(h), e)) = Len(Given(h)) + 1
          /\ Append(Given(h), e)[Len(Given(h)) + 1] = e
      BY <3>1
    <3> QED BY <2>2, <3>1, <3>2
  <2>6. GivenTo[s] = p /\ GivenTo' = [GivenTo EXCEPT ![s] = q] /\ GivenTo'[s] = q
    <3>1. Given(d.got) = q
      BY <2>2, <2>3, <2>4, <2>5
    <3> QED BY <1>5, <2>1, <2>5, <3>1 DEF GivenTo
  <2>7. Abstract!Available(e)
    <3>1. WasEmitted(g.seq, g.body)
      BY <1>4, <2>2, <2>3
    <3> QED BY <1>0, <2>4, <3>1, Emits
  <2>8. Abstract!Follows(s, e.seq)
    <3>1. CASE h = <<>>
      <4>1. n = 1 /\ p = <<>>
        BY <2>2, <2>5, <3>1
      <4>2. d.from \in {0, g.seq}
        BY <1>4, <2>2, <2>3, <4>1
      <4> QED BY <1>6, <1>8, <1>9, <2>4, <2>6, <4>1, <4>2 DEF Abstract!Follows
    <3>2. CASE h # <<>>
      <4>1. n > 1 /\ n - 1 = Len(h) /\ Len(h) \in 1..Len(h) /\ p # <<>>
        BY <2>2, <2>5, <3>2
      <4>2. g.seq = h[Len(h)].seq + 1
        BY <1>4, <2>2, <2>3, <4>1
      <4>3. p[Len(p)].seq = h[Len(h)].seq
        BY <2>5, <4>1
      <4> QED BY <2>4, <2>6, <4>1, <4>2, <4>3 DEF Abstract!Follows, Abstract!Last
    <3> QED BY <3>1, <3>2
  <2>9. PICK o : o = Ending(d.outcome) /\ o \in {"error"} \cup (IF c.to # 0 /\ g.seq >= c.to THEN {"clean"} ELSE {"no"})
    BY <1>13 DEF Ending
  <2>10. Abstract!Give(s)
    <3>1. Len(GivenTo'[s]) = Len(GivenTo[s]) + 1 /\ GivenTo'[s][Len(GivenTo'[s])] = e
      BY <2>2, <2>5, <2>6
    <3>2. GivenTo' = [GivenTo EXCEPT ![s] = Append(@, e)]
      BY <2>5, <2>6
    <3>3. EndOf' \in {[EndOf EXCEPT ![s] = r] : r \in {"error"} \cup (IF AskedFor[s][2] # 0 /\ e.seq >= AskedFor[s][2] THEN {"clean"} ELSE {"no"})}
      BY <1>5, <1>8, <1>9, <2>4, <2>9
    <3>4. e.seq # 0
      BY <1>13, <2>4
    <3> QED BY <1>9, <1>10, <1>11, <2>7, <2>8, <3>1, <3>2, <3>3, <3>4 DEF Abstract!Give
  <2> QED BY <2>10 DEF Abstract!Next
<1> QED BY <1>2, <1>12, <1>13 DEF Shows

-----------------------------------------------------------------------------
\* A subscription has no handler before it is dialled.
DialledInv == \A s \in Subs : conn[s] = "none" => sub[s].pc = "off"

\* Nothing serves before the dial, and no connection becomes undialled.
LEMMA DialledStep ==
    ASSUME SubTypeOK, WireTypeOK, DialledInv, [Next]_vars
    PROVE  /\ DialledInv'
           /\ \A s \in Subs : GoneStep(s) \/ NetworkDrops(s) => conn[s] # "none"
<1>1. ASSUME NEW s \in Subs, ServeStep(s) \/ WriteStep(s) \/ GoneStep(s) PROVE sub[s].pc # "off" /\ conn[s] # "none"
  <2>1. ServeLocal(s) \/ sub[s].pc \in {"write", "sleep", "read"}
    BY <1>1 DEF ServeStep, WriteStep, GoneStep, ServeWrite, ServeGone
  <2>2. sub[s].pc # "off"
    BY <2>1 DEF ServeLocal, anchorTip, ServeRangeDone, writeStamplessFlow, ServeLive, ServePinnedEnd, ServeBehind,
                ServeAhead, ServeBounds, ServeGet, ServeRead, ServeReason, ServeWake
  <2> QED BY <2>2 DEF DialledInv
<1>2. \A s \in Subs : NetworkDrops(s) => conn[s] # "none"
  BY DEF NetworkDrops, Drop
<1>3. ASSUME NEW s \in Subs, NEW k, k # "none", conn' = [conn EXCEPT ![s] = k],
             \A t \in Subs \ {s} : sub'[t] = sub[t]
      PROVE  DialledInv'
  <2>1. \A t \in Subs : conn'[t] = IF t = s THEN k ELSE conn[t]
    BY <1>3 DEF WireTypeOK
  <2> QED BY <1>3, <2>1 DEF DialledInv
<1>4. ASSUME NEW s \in Subs, NEW x, Set(s, x) PROVE \A t \in Subs \ {s} : sub'[t] = sub[t]
  BY <1>4 DEF Set, SubTypeOK
<1>5. ASSUME NEW s \in Subs, Connect(s) PROVE DialledInv'
  <2>1. conn' = [conn EXCEPT ![s] = "open"] /\ \E x : Set(s, x)
    BY <1>5 DEF Connect, RawLedgers, handleStream
  <2> QED BY <1>3, <1>4, <2>1
<1>6. ASSUME NEW s \in Subs, ServeStep(s) \/ WriteStep(s) PROVE DialledInv'
  <2>1. UNCHANGED conn
    BY <1>6 DEF ServeStep, WriteStep, ServeWrite, Send, connVars
  <2>2. \E x : Set(s, x)
    BY <1>6 DEF ServeStep, WriteStep, ServeWrite, ServeLocal, anchorTip, ServeRangeDone, writeStamplessFlow, ServeLive,
                ServePinnedEnd, ServeBehind, ServeAhead, ServeBounds, ServeGet, ServeRead, ServeReason, ServeWake
  <2>3. PICK k : k = conn[s]
    OBVIOUS
  <2>4. conn' = [conn EXCEPT ![s] = k] /\ k # "none"
    BY <1>1, <1>6, <2>1, <2>3 DEF WireTypeOK
  <2> QED BY <1>3, <1>4, <2>2, <2>4
<1>7. ASSUME NEW s \in Subs, GoneStep(s) PROVE DialledInv'
  <2>1. conn' = [conn EXCEPT ![s] = "down"] /\ \E x : Set(s, x)
    BY <1>7 DEF GoneStep, ServeGone, TakeDown
  <2> QED BY <1>3, <1>4, <2>1
<1>8. ASSUME NEW s \in Subs, ClientStep(s) \/ ClientCancels(s) \/ NetworkDrops(s) PROVE DialledInv'
  <2>1. UNCHANGED sub
    BY <1>8 DEF ClientStep, ClientCancels, NetworkDrops, serveVars
  <2>2. UNCHANGED conn \/ conn' = [conn EXCEPT ![s] = "down"]
    BY <1>8 DEF ClientStep, ClientCancels, NetworkDrops, Receive, RecvBegin, RecvChunk, RecvEnd, RecvClose,
                ReadError, Cancel, Finished, CloseNow, Consume, TakeDown, Drop
  <2>3. CASE UNCHANGED conn
    BY <2>1, <2>3 DEF DialledInv
  <2>4. CASE conn' = [conn EXCEPT ![s] = "down"]
    BY <1>3, <2>1, <2>4
  <2> QED BY <2>2, <2>3, <2>4
<1>9. ASSUME Source \/ AllDone \/ UNCHANGED vars PROVE DialledInv'
  <2>1. UNCHANGED <<conn, sub>>
    BY <1>9 DEF Source, AllDone, vars, connVars, serveVars
  <2> QED BY <2>1 DEF DialledInv
<1>10. DialledInv'
  BY <1>5, <1>6, <1>7, <1>8, <1>9 DEF Next
<1> QED BY <1>1, <1>2, <1>10

\* A step that touches no client and dials no connection does not show.
LEMMA UnseenStep ==
    ASSUME UNCHANGED cli, \A s \in Subs : conn'[s] = "none" <=> conn[s] = "none"
    PROVE  UNCHANGED <<AskedFor, GivenTo, EndOf>>
BY DEF AskedFor, GivenTo, EndOf, Got

\* Dialling is asking.
LEMMA ConnectImplements ==
    ASSUME WireTypeOK, DialInv, NEW s \in Subs, Connect(s)
    PROVE  Abstract!Next
<1>1. PICK p \in Requests : RawLedgers(s, p[1], p[2])
  BY DEF Connect
<1>2. PICK q \in Seqs, r \in Seqs : q = p[1] /\ r = p[2]
  BY RequestsAssumption
<1>3. PICK d : d = [NotDialed EXCEPT !.from = q, !.to = r, !.expected = q]
  OBVIOUS
<1>4. Turns(s, d, "open") /\ conn[s] = "none" /\ cli[s] = NotDialed
  BY <1>1, <1>2, <1>3 DEF RawLedgers, SetCli, Turns, DialInv
<1>5. d.from = q /\ d.to = r /\ d.got = NotDialed.got /\ d.outcome = NotDialed.outcome
  BY <1>3 DEF NotDialed
<1>6. /\ ShownAs(s, d, "open")
      /\ AskedFor[s] = Asked(cli[s], conn[s]) /\ GivenTo[s] = Given(cli[s].got)
      /\ EndOf[s] = Ending(cli[s].outcome)
  BY <1>4, ShowsOne
<1>7. /\ AskedFor[s] = <<>> /\ AskedFor' = [AskedFor EXCEPT ![s] = <<q, r>>]
      /\ GivenTo' = [GivenTo EXCEPT ![s] = GivenTo[s]] /\ EndOf' = [EndOf EXCEPT ![s] = EndOf[s]]
  BY <1>4, <1>5, <1>6 DEF ShownAs, Asked
<1>8. UNCHANGED <<GivenTo, EndOf>>
  BY <1>7 DEF GivenTo, EndOf
<1>9. UNCHANGED <<CompletedLog, SourceStatus>>
  BY DEF Connect, sourceVars, bVars, CompletedLog, SourceStatus, CompletedFlows, OpenFlow, cur, complete
<1>10. Abstract!Ask(s)
  BY <1>7, <1>8, <1>9 DEF Abstract!Ask
<1> QED BY <1>10 DEF Abstract!Next

-----------------------------------------------------------------------------
\* What the mapping needs, besides a delivery.
ShowInv == EarlierComplete /\ NamedInv /\ DialInv /\ DialledInv

\* It holds at first.
LEMMA ShowInit == Init => ShowInv
<1> SUFFICES ASSUME Init PROVE ShowInv
  OBVIOUS
<1>1. EarlierComplete
  <2>1. Len(flows) = 0
    BY DEF Init, SourceInit, newBroadcaster
  <2> QED BY <2>1 DEF EarlierComplete
<1>2. ASSUME NEW s \in Subs
      PROVE  conn[s] = "none" /\ net[s] = <<>> /\ sub[s] = Off /\ cli[s] = NotDialed
  BY DEF Init, ConnInit, ServeInit, CliInit
<1>3. /\ Off.out = <<>> /\ Off.pc = "off"
      /\ NotDialed.got = <<>> /\ NotDialed.active = FALSE /\ NotDialed.to = 0
  BY DEF Off, NotDialed
<1>4. Named(<<>>) /\ Len(<<>>) = 0
  BY NamedParts
<1>5. NamedInv
  <2>1. ASSUME NEW s \in Subs
        PROVE  /\ Named(net[s]) /\ Named(sub[s].out) /\ ~cli[s].active
               /\ \A k \in 1..Len(cli[s].got) : cli[s].got[k].seq # 0
    BY <1>2, <1>3, <1>4
  <2> QED BY <2>1 DEF NamedInv
<1>6. DialInv /\ DialledInv
  BY <1>2, <1>3 DEF DialInv, DialledInv
<1> QED BY <1>1, <1>5, <1>6 DEF ShowInv

\* Nothing has been completed, asked for or given at first.
LEMMA InitImplements == Init => Abstract!Init
<1> SUFFICES ASSUME Init PROVE Abstract!Init
  OBVIOUS
<1>1. flows = <<>> /\ ended = FALSE
  BY DEF Init, SourceInit, newBroadcaster
<1>2. CompletedLog = <<>> /\ SourceStatus = "running"
  <2>1. CompletedFlows = 0
    BY <1>1 DEF CompletedFlows, OpenFlow
  <2> QED BY <1>1, <2>1 DEF CompletedLog, SourceStatus
<1>3. \A s \in Subs : conn[s] = "none" /\ cli[s] = NotDialed
  BY DEF Init, ConnInit, CliInit
<1>4. NotDialed.got = <<>> /\ NotDialed.outcome = "none"
  BY DEF NotDialed
<1>5. AskedFor = [s \in Subs |-> <<>>]
  BY <1>3 DEF AskedFor
<1>6. GivenTo = [s \in Subs |-> <<>>]
  <2>1. Given(<<>>) = <<>>
    BY DEF Given
  <2>2. GivenTo = [s \in Subs |-> Given(cli[s].got)]
    BY DEF GivenTo, Given, Got
  <2> QED BY <1>3, <1>4, <2>1, <2>2
<1>7. EndOf = [s \in Subs |-> "no"]
  BY <1>3, <1>4 DEF EndOf
<1> QED BY <1>2, <1>5, <1>6, <1>7 DEF Abstract!Init

\* Every step of the composition is a step of the abstract stream, or leaves it
\* as it was.
LEMMA StepImplements ==
    ASSUME StreamInv, SubTypeOK, DeliverInv, ShowInv, StreamInv', DeliverInv', ShowInv', [Next]_vars
    PROVE  [Abstract!Next]_(Abstract!vars)
<1>0. WireTypeOK /\ EarlierComplete /\ EarlierComplete' /\ DialInv /\ NamedInv /\ NamedInv' /\ DialledInv
  BY DEF DeliverInv, ShowInv
<1>1. ASSUME NEW s \in Subs, Connect(s) PROVE [Abstract!Next]_(Abstract!vars)
  BY <1>0, <1>1, ConnectImplements
<1>2. ASSUME NEW s \in Subs, ClientStep(s) \/ ClientCancels(s) PROVE [Abstract!Next]_(Abstract!vars)
  <2>1. UNCHANGED sourceVars /\ (Receive(s) \/ ReadError(s) \/ Cancel(s))
    BY <1>2 DEF ClientStep, ClientCancels
  <2>2. ClientTurn(s)
    BY <1>0, <2>1, ClientShows
  <2> QED BY <1>0, <2>1, <2>2, ClientImplements
<1>3. ASSUME UNCHANGED sourceVars, UNCHANGED <<AskedFor, GivenTo, EndOf>> PROVE [Abstract!Next]_(Abstract!vars)
  <2>1. UNCHANGED <<CompletedLog, SourceStatus>>
    BY <1>3 DEF sourceVars, bVars, CompletedLog, SourceStatus, CompletedFlows, OpenFlow, cur, complete
  <2> QED BY <1>3, <2>1 DEF Abstract!vars
<1>4. ASSUME NEW s \in Subs, ServeStep(s) \/ WriteStep(s) PROVE [Abstract!Next]_(Abstract!vars)
  <2>1. UNCHANGED <<sourceVars, conn, cli>>
    BY <1>4 DEF ServeStep, WriteStep, ServeWrite, Send, connVars
  <2> QED BY <1>3, <2>1, UnseenStep
<1>5. ASSUME NEW s \in Subs, GoneStep(s) \/ NetworkDrops(s) PROVE [Abstract!Next]_(Abstract!vars)
  <2>1. UNCHANGED <<sourceVars, cli>> /\ conn' = [conn EXCEPT ![s] = "down"]
    BY <1>5 DEF GoneStep, NetworkDrops, ServeGone, Drop, TakeDown
  <2>2. conn[s] # "none"
    BY <1>0, <1>5, DialledStep
  <2>3. \A t \in Subs : conn'[t] = "none" <=> conn[t] = "none"
    BY <1>0, <2>1, <2>2 DEF WireTypeOK
  <2> QED BY <1>3, <2>1, <2>3, UnseenStep
<1>6. CASE Source
  <2>1. UNCHANGED <<cli, conn>> /\ [SourceNext]_sourceVars
    BY <1>6 DEF Source, connVars
  <2> QED BY <1>0, <2>1, UnseenStep, SourceImplements
<1>7. CASE AllDone \/ UNCHANGED vars
  <2>1. UNCHANGED <<sourceVars, conn, cli>>
    BY <1>7 DEF AllDone, vars, connVars
  <2> QED BY <1>3, <2>1, UnseenStep
<1> QED BY <1>1, <1>2, <1>4, <1>5, <1>6, <1>7 DEF Next

\* The server, its ring and its clients together implement the stream a consumer
\* of remoteledger is promised: whatever the interleaving of the source loop, the
\* serve loops, the network and the clients, each step gives the log its next
\* ledger, stops the source, or asks for, gives or ends one consumer's iteration
\* as LedgerStream allows, or shows nothing.
THEOREM StreamImplementsLedgerStream == Spec => ImplementsLedgerStream
<1>1. Init => Abstract!Init
  BY InitImplements
<1>2. Init => ShowInv
  BY ShowInit
<1>3. StreamInv /\ SubTypeOK /\ WakeInv /\ DeliverInv /\ ShowInv /\ [Next]_vars => ShowInv'
  <2> SUFFICES ASSUME StreamInv, SubTypeOK, WakeInv, DeliverInv, ShowInv, [Next]_vars PROVE ShowInv'
    OBVIOUS
  <2>1. EarlierComplete /\ NamedInv /\ DialInv /\ DialledInv /\ WireTypeOK /\ SourceInv
    BY DEF ShowInv, DeliverInv, StreamInv, SourceSide
  <2>2. EarlierComplete'
    BY <2>1, NextIsSource, EarlierCompleteStep
  <2>3. NamedInv' /\ DialInv'
    BY <2>1, ShownStep
  <2>4. DialledInv'
    BY <2>1, DialledStep
  <2> QED BY <2>2, <2>3, <2>4 DEF ShowInv
<1>4. /\ StreamInv /\ SubTypeOK /\ WakeInv /\ DeliverInv /\ ShowInv
      /\ (StreamInv /\ SubTypeOK /\ WakeInv /\ DeliverInv)' /\ ShowInv'
      /\ [Next]_vars
      => [Abstract!Next]_(Abstract!vars)
  BY StepImplements
<1> QED BY <1>1, <1>2, <1>3, <1>4, DeliveryInvariant, PTL DEF Spec, ImplementsLedgerStream, Abstract!Spec
=============================================================================
