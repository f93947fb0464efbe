-------------------------- MODULE PipeSourceProofs --------------------------
(***************************************************************************)
(* Proofs about the pipe source, for any tree of processes, frame sizes,   *)
(* pipe capacity and number of frames.                                     *)
(*                                                                         *)
(* The iterator knows how much of a frame it has read; the command knows   *)
(* how much it has written.  StreamInv ties the two through what the pipe  *)
(* and the reader's buffer hold.  BlameInv says that, until the context is *)
(* cancelled or the iterator gives up, whatever stopped the command is the *)
(* command's own doing.                                                    *)
(***************************************************************************)
EXTENDS PipeSource, SequenceTheorems, TLAPS

Kinds == {"ok", "badmarker", "badseq"}
Units == [frame : Nat, pos : Nat, size : Nat, kind : Kinds]
Pcs == {"start", "marker", "prefix", "body", "eof", "defer", "reap", "sweep", "returned"}

PipeTypeOK ==
    /\ proc \in [Procs -> {"none", "run", "ok", "err"}]
    /\ escaped \subseteq Kids /\ writer \in Procs
    /\ wr \in Units /\ pipe \in Seq(Units) /\ br \in Seq(Units)
    /\ pc \in Pcs /\ got \in {0, 1}
    /\ body \in Seq(Units) /\ ledgers \in Seq(Seq(Units))

\* What was written and not yet read.
Stream == br \o pipe

\* The unit written after u.
Follows(u, v) ==
    IF u.pos = u.size + 2 THEN v.frame = u.frame + 1 /\ v.pos = 1
    ELSE v.frame = u.frame /\ v.pos = u.pos + 1 /\ v.size = u.size

Reader == pc \in {"start", "marker", "prefix", "body"}

\* The iterator stands right after the unit u.
ReadUpTo(u) ==
    /\ pc = "start" \/ (pc = "marker" /\ got = 0) => u.frame = Len(ledgers) /\ u.pos = u.size + 2
    /\ pc = "marker" /\ got # 0 => u.frame = Len(ledgers) + 1 /\ u.pos = 1
    /\ pc = "prefix" => u.frame = Len(ledgers) + 1 /\ u.pos = 2
    /\ pc = "body" => u.frame = Len(ledgers) + 1 /\ u.pos = Len(body) + 2 /\ u.size = body[1].size

\* A unit of a frame, which has a payload, or the state before the first one.
Payload(u) == u.size > 0 \/ (u.frame = 0 /\ u.pos = u.size + 2)

\* What was written and not read has no gap, and ends with the last unit
\* written.
StreamInv ==
    /\ Payload(wr)
    /\ \A i \in 1..Len(Stream) : Stream[i].size > 0 /\ (Stream[i].kind # "ok" => fault)
    /\ \A i \in 1..Len(Stream) - 1 : Follows(Stream[i], Stream[i + 1])
    /\ Len(Stream) > 0 => Stream[Len(Stream)] = wr

\* It starts right after what the iterator has read; if it is empty, that is
\* everything.
ReaderInv ==
    /\ pc \in {"start", "prefix", "body"} => got = 0
    /\ Reader => IF Len(Stream) = 0 THEN ReadUpTo(wr)
                 ELSE \E u \in Units : ReadUpTo(u) /\ Payload(u) /\ Follows(u, Stream[1])

\* The body so far is the front of one frame, and every ledger a whole one.
BodyInv ==
    /\ pc = "body" => /\ Len(body) >= 1 /\ Len(body) <= body[1].size
                      /\ \A k \in 1..Len(body) : body[k].frame = Len(ledgers) + 1 /\ body[k].pos = k + 2
    /\ NoShortLedger

\* Before a cancellation or an early stop, a command that is gone, or that
\* stopped in a frame, went by itself.
Blameless == ~ctx /\ (Reader \/ pc = "eof")

BlameInv ==
    /\ deadline \/ watch = "timer" => ctx
    /\ Reader \/ pc = "eof" => rOpen
    /\ Blameless => /\ termed = {}
                    /\ writer \notin fds => fault \/ AtBoundary
                    /\ proc["sh"] = "err" => fault
    /\ CancelIsNotFailure

\* The range ended: nobody can write, and all that was written was read.
AllRead == fds = {} /\ AtBoundary /\ Len(ledgers) = wr.frame

EndInv ==
    /\ Started => \A p \in Procs : proc[p] # "none"
    /\ Reader \/ pc = "eof" => runErr = "none"
    /\ pc = "eof" => AllRead
    /\ pc \in {"defer", "reap", "sweep"} /\ runErr = "none" /\ ~ctx => AllRead /\ proc["sh"] = "ok"
    /\ pc # "returned" => runErr # "clean"
    /\ runErr = "clean" => AllRead /\ proc["sh"] = "ok"

SweptInv ==
    /\ pc = "start" => \A p \in Procs : proc[p] = "none"
    /\ GroupIsSwept

PipeInv == PipeTypeOK /\ StreamInv /\ ReaderInv /\ BodyInv /\ BlameInv /\ EndInv /\ SweptInv

AllNext == Next \/ (pc = "returned" /\ UNCHANGED vars)

-----------------------------------------------------------------------------
\* What the constants are.
LEMMA PipeFacts ==
    /\ "sh" \in Procs
    /\ \A s \in Sizes : s \in Nat /\ s > 0
BY PipeAssumption DEF Procs

\* The processes, and how they end.
LEMMA DieFacts ==
    ASSUME PipeTypeOK, NEW ps, NEW status \in {"ok", "err"}, Die(ps, status)
    PROVE  /\ proc' \in [Procs -> {"none", "run", "ok", "err"}]
           /\ fds' = fds \ ps
           /\ \A p \in Procs : proc[p] # "run" => proc'[p] = proc[p]
           /\ \A p \in Procs : p \in ps => proc'[p] # "run"
           /\ \A p \in Procs : p \notin ps => proc'[p] = proc[p]
           /\ \A p \in Procs : proc'[p] = "none" <=> proc[p] = "none"
BY DEF Die, Alive, PipeTypeOK

\* The shape of the command is fixed, and a fault is not forgotten.
LEMMA ShapeFixed ==
    ASSUME AllNext
    PROVE  UNCHANGED <<escaped, stubborn, writer>> /\ (fault => fault')
<1> USE DEF vars, cmdVars, readVars
<1>1. CASE Write
  <2>1. fault => fault'
    BY <1>1, Zenon DEF Write
  <2> QED BY <1>1, <2>1 DEF Write
<1>2. ASSUME NEW p \in Procs, Leave(p)
      PROVE  UNCHANGED <<escaped, stubborn, writer>> /\ (fault => fault')
  <2>1. fault => fault'
    BY <1>2, Zenon DEF Leave
  <2> QED BY <1>2, <2>1 DEF Leave
<1>3. CASE Start
  <2>1. fault => fault'
    BY <1>3, Zenon DEF Start
  <2> QED BY <1>3, <2>1 DEF Start
<1>4. CASE Fill \/ ReadMarker \/ MarkerFails \/ ReadPrefix \/ PrefixFails \/ ReadBody \/ BodyEnds
           \/ BodyFails \/ Eof \/ CloseRead \/ Reap \/ Sweep \/ ConsumerStops
  BY <1>4 DEF Fill, ReadMarker, MarkerFails, ReadPrefix, PrefixFails, ReadBody, BodyEnds,
       BodyFails, Eof, CloseRead, Reap, Sweep, ConsumerStops
<1>5. CASE CancelCtx \/ Unblock \/ WatchCancel \/ WatchKill \/ \E p \in Procs : Terminate(p)
  <2>1. ASSUME NEW p \in Procs, Terminate(p) PROVE UNCHANGED <<escaped, stubborn, writer, fault>>
    BY <2>1 DEF Terminate
  <2>2. CASE CancelCtx \/ Unblock \/ WatchCancel \/ WatchKill
    BY <2>2 DEF CancelCtx, Unblock, WatchCancel, WatchKill
  <2> QED BY <1>5, <2>1, <2>2
<1>6. CASE UNCHANGED vars
  BY <1>6
<1> QED BY <1>1, <1>2, <1>3, <1>4, <1>5, <1>6 DEF AllNext, Next, Iterator, Command

-----------------------------------------------------------------------------
\* What is written and not yet read: reading takes its first unit, writing
\* adds one at the end, and filling the buffer changes nothing.
LEMMA StreamFacts ==
    ASSUME PipeTypeOK
    PROVE  Stream \in Seq(Units) /\ Len(Stream) = Len(br) + Len(pipe)
BY DEF PipeTypeOK, Stream

\* Taking a unit from the reader's buffer.
LEMMA StreamTail ==
    ASSUME PipeTypeOK, br # <<>>, br' = Tail(br), pipe' = pipe
    PROVE  /\ Len(Stream) > 0 /\ Head(br) = Stream[1] /\ Head(br) \in Units
           /\ br' \in Seq(Units)
           /\ Stream' \in Seq(Units) /\ Len(Stream') = Len(Stream) - 1
           /\ \A i \in 1..Len(Stream') : Stream'[i] = Stream[i + 1]
<1>1. br \in Seq(Units) /\ pipe \in Seq(Units)
  BY DEF PipeTypeOK
<1>2. /\ Head(br) \in Units /\ Head(br) = br[1] /\ Tail(br) \in Seq(Units)
      /\ Len(Tail(br)) = Len(br) - 1 /\ Len(br) > 0 /\ Len(br) \in Nat /\ Len(pipe) \in Nat
      /\ \A i \in 1..Len(br) - 1 : Tail(br)[i] = br[i + 1]
  BY <1>1
<1>3. /\ Stream \in Seq(Units) /\ Len(Stream) = Len(br) + Len(pipe)
      /\ \A i \in 1..Len(br) + Len(pipe) : Stream[i] = IF i <= Len(br) THEN br[i] ELSE pipe[i - Len(br)]
  BY <1>1 DEF Stream
<1>4. Stream' = Tail(br) \o pipe
  BY DEF Stream
<1> DEFINE t == Tail(br)
<1>5. t \in Seq(Units) /\ Len(t) = Len(br) - 1
  BY <1>2
<1> HIDE DEF t
<1>6. /\ t \o pipe \in Seq(Units) /\ Len(t \o pipe) = Len(t) + Len(pipe)
      /\ \A i \in 1..Len(t) + Len(pipe) : (t \o pipe)[i] = IF i <= Len(t) THEN t[i] ELSE pipe[i - Len(t)]
  BY <1>1, <1>5
<1>7. Stream' = t \o pipe
  BY <1>4 DEF t
<1>8. ASSUME NEW i \in 1..Len(Stream') PROVE Stream'[i] = Stream[i + 1]
  <2>1. i \in 1..Len(t) + Len(pipe) /\ i + 1 \in 1..Len(br) + Len(pipe)
    BY <1>2, <1>5, <1>6, <1>7
  <2>2. CASE i <= Len(t)
    <3>1. Stream'[i] = t[i] /\ Stream[i + 1] = br[i + 1]
      BY <1>2, <1>3, <1>5, <1>6, <1>7, <2>1, <2>2
    <3> QED BY <1>2, <1>5, <2>1, <2>2, <3>1 DEF t
  <2>3. CASE i > Len(t)
    <3>1. Stream'[i] = pipe[i - Len(t)] /\ Stream[i + 1] = pipe[i + 1 - Len(br)]
      BY <1>2, <1>3, <1>5, <1>6, <1>7, <2>1, <2>3
    <3>2. i - Len(t) = i + 1 - Len(br)
      BY <1>2, <1>5, <2>1
    <3> QED BY <3>1, <3>2
  <2> QED BY <1>2, <1>5, <2>1, <2>2, <2>3
<1>9. Len(Stream) > 0 /\ Stream[1] = br[1]
  BY <1>2, <1>3
<1>10. Len(Stream') = Len(Stream) - 1 /\ Stream' \in Seq(Units)
  BY <1>2, <1>3, <1>5, <1>6, <1>7
<1> QED BY <1>2, <1>8, <1>9, <1>10

\* Writing a unit.
LEMMA StreamAppend ==
    ASSUME PipeTypeOK, NEW u \in Units, br' = br, pipe' = Append(pipe, u)
    PROVE  /\ pipe' \in Seq(Units)
           /\ Stream' \in Seq(Units) /\ Len(Stream') = Len(Stream) + 1
           /\ \A i \in 1..Len(Stream) : Stream'[i] = Stream[i]
           /\ Stream'[Len(Stream) + 1] = u
<1>1. br \in Seq(Units) /\ pipe \in Seq(Units)
  BY DEF PipeTypeOK
<1> DEFINE q == Append(pipe, u)
<1>2. /\ q \in Seq(Units) /\ Len(q) = Len(pipe) + 1 /\ q[Len(pipe) + 1] = u
      /\ \A i \in 1..Len(pipe) : q[i] = pipe[i]
      /\ Len(br) \in Nat /\ Len(pipe) \in Nat
  BY <1>1
<1>3. pipe' = q
  OBVIOUS
<1> HIDE DEF q
<1>4. /\ Stream \in Seq(Units) /\ Len(Stream) = Len(br) + Len(pipe)
      /\ \A i \in 1..Len(br) + Len(pipe) : Stream[i] = IF i <= Len(br) THEN br[i] ELSE pipe[i - Len(br)]
  BY <1>1 DEF Stream
<1>5. /\ br \o q \in Seq(Units) /\ Len(br \o q) = Len(br) + Len(q)
      /\ \A i \in 1..Len(br) + Len(q) : (br \o q)[i] = IF i <= Len(br) THEN br[i] ELSE q[i - Len(br)]
  <2>1. q \in Seq(Units)
    BY <1>2
  <2> QED BY <1>1, <2>1, ConcatProperties, Zenon
<1>6. Stream' = br \o q
  BY <1>3 DEF Stream
<1>7. ASSUME NEW i \in 1..Len(Stream) PROVE Stream'[i] = Stream[i]
  <2>1. i \in 1..Len(br) + Len(pipe) /\ i \in 1..Len(br) + Len(q)
    BY <1>2, <1>4
  <2>2. CASE i <= Len(br)
    BY <1>4, <1>5, <1>6, <2>1, <2>2
  <2>3. CASE i > Len(br)
    <3>1. i - Len(br) \in 1..Len(pipe)
      BY <1>2, <2>1, <2>3
    <3>2. ~(i <= Len(br))
      BY <1>2, <2>1, <2>3
    <3>3. Stream[i] = pipe[i - Len(br)]
      BY <1>4, <2>1, <3>2
    <3>4. Stream'[i] = q[i - Len(br)]
      BY <1>5, <1>6, <2>1, <3>2
    <3> QED BY <1>2, <3>1, <3>3, <3>4
  <2> QED BY <1>2, <2>1, <2>2, <2>3
<1>8. Stream'[Len(Stream) + 1] = u
  <2>1. Len(Stream) + 1 \in 1..Len(br) + Len(q) /\ ~(Len(Stream) + 1 <= Len(br))
    BY <1>2, <1>4
  <2>2. Stream'[Len(Stream) + 1] = q[Len(Stream) + 1 - Len(br)]
    BY <1>5, <1>6, <2>1
  <2>3. Len(Stream) + 1 - Len(br) = Len(pipe) + 1
    BY <1>2, <1>4
  <2> QED BY <1>2, <2>2, <2>3
<1>9. Len(Stream') = Len(Stream) + 1 /\ Stream' \in Seq(Units) /\ pipe' \in Seq(Units)
  BY <1>2, <1>3, <1>4, <1>5, <1>6
<1> QED BY <1>7, <1>8, <1>9

\* Filling the reader's buffer from the pipe.
LEMMA StreamFill ==
    ASSUME PipeTypeOK, Fill
    PROVE  br' \in Seq(Units) /\ pipe' \in Seq(Units) /\ Stream' = Stream
<1>1. br = <<>> /\ pipe \in Seq(Units) /\ Len(pipe) \in Nat
  BY DEF Fill, NeedsPipe, PipeTypeOK
<1>2. PICK n \in 1..Len(pipe) : /\ br' = SubSeq(pipe, 1, n)
                                /\ pipe' = SubSeq(pipe, n + 1, Len(pipe))
  BY DEF Fill
<1>3. /\ 1 \in 1..Len(pipe) + 1 /\ n \in 0..Len(pipe) /\ n \in 1 - 1..Len(pipe)
      /\ Len(pipe) \in n..Len(pipe)
  BY <1>1
<1>4. br' \o pipe' = pipe
  <2>1. SubSeq(pipe, 1, n) \o SubSeq(pipe, n + 1, Len(pipe)) = SubSeq(pipe, 1, Len(pipe))
    BY <1>1, <1>3, ConcatAdjacentSubSeq, Zenon
  <2> QED BY <1>1, <1>2, <2>1, SubSeqFull
<1>5. br' \in Seq(Units) /\ pipe' \in Seq(Units)
  BY <1>1, <1>2
<1>6. Stream = pipe
  BY <1>1, ConcatEmptySeq DEF Stream
<1> QED BY <1>4, <1>5, <1>6 DEF Stream

-----------------------------------------------------------------------------
\* Every step keeps the types.
LEMMA PipeTypeStep ==
    ASSUME PipeTypeOK, AllNext
    PROVE  PipeTypeOK'
<1> USE DEF PipeTypeOK, Pcs
<1>0. UNCHANGED <<escaped, writer>>
  BY ShapeFixed
<1>1. CASE Start
  BY <1>0, <1>1 DEF Start, readVars
<1>2. CASE Fill
  <2>1. br' \in Seq(Units) /\ pipe' \in Seq(Units)
    BY <1>2, StreamFill
  <2> QED BY <1>0, <1>2, <2>1 DEF Fill, cmdVars, readVars
<1>3. CASE ReadMarker
  <2>1. br' \in Seq(Units)
    BY <1>3, StreamTail DEF ReadMarker
  <2> QED BY <1>0, <1>3, <2>1 DEF ReadMarker, Yield, cmdVars
<1>4. CASE ReadPrefix
  <2>1. br' \in Seq(Units) /\ Head(br) \in Units
    BY <1>4, StreamTail DEF ReadPrefix
  <2>2. body' \in Seq(Units)
    <3>1. <<Head(br)>> \in Seq(Units)
      BY <2>1
    <3> QED BY <1>4, <3>1 DEF ReadPrefix, Yield
  <2> QED BY <1>0, <1>4, <2>1, <2>2 DEF ReadPrefix, Yield, cmdVars
<1>5. CASE ReadBody
  <2>1. br' \in Seq(Units) /\ Head(br) \in Units
    BY <1>5, StreamTail DEF ReadBody
  <2>2. body' \in Seq(Units)
    BY <1>5, <2>1 DEF ReadBody
  <2> QED BY <1>0, <1>5, <2>1, <2>2 DEF ReadBody, cmdVars
<1>6. CASE BodyEnds
  BY <1>0, <1>6 DEF BodyEnds, cmdVars
<1>7. CASE MarkerFails \/ PrefixFails \/ BodyFails \/ ConsumerStops \/ Eof \/ Reap
  BY <1>0, <1>7 DEF MarkerFails, PrefixFails, BodyFails, ConsumerStops, Eof, Reap, Yield, Quit, cmdVars, readVars
<1>8. CASE CloseRead
  BY <1>0, <1>8 DEF CloseRead, readVars
<1>9. CASE Sweep
  BY <1>0, <1>9, DieFacts DEF Sweep, readVars
<1>10. CASE Write
  <2>1. wr' \in Units
    <3>1. CASE AtBoundary
      BY <1>10, <3>1, PipeFacts DEF Write, Units, Kinds
    <3>2. CASE ~AtBoundary
      <4>1. wr' = [wr EXCEPT !.pos = @ + 1]
        BY <1>10, <3>2 DEF Write
      <4>2. wr.pos + 1 \in Nat
        BY DEF Units
      <4> QED BY <4>1, <4>2 DEF Units
    <3> QED BY <3>1, <3>2
  <2>2. pipe' \in Seq(Units)
    BY <1>10, <2>1 DEF Write
  <2> QED BY <1>0, <1>10, <2>1, <2>2 DEF Write, readVars
<1>11. ASSUME NEW p \in Procs, Leave(p) PROVE PipeTypeOK'
  <2>1. proc' \in [Procs -> {"none", "run", "ok", "err"}]
    BY <1>11, DieFacts DEF Leave
  <2> QED BY <1>0, <1>11, <2>1 DEF Leave, readVars
<1>12. ASSUME NEW p \in Procs, Terminate(p) PROVE PipeTypeOK'
  BY <1>0, <1>12, DieFacts DEF Terminate, readVars
<1>13. CASE CancelCtx \/ Unblock \/ WatchCancel
  BY <1>0, <1>13 DEF CancelCtx, Unblock, WatchCancel, cmdVars, readVars
<1>14. CASE WatchKill
  BY <1>0, <1>14, DieFacts DEF WatchKill, readVars
<1>15. CASE UNCHANGED vars
  BY <1>0, <1>15 DEF vars, cmdVars, readVars
<1> QED BY <1>1, <1>2, <1>3, <1>4, <1>5, <1>6, <1>7, <1>8, <1>9, <1>10, <1>11, <1>12, <1>13, <1>14, <1>15
        DEF AllNext, Next, Iterator, Command

\* A step that neither reads, fills nor writes leaves the stream alone.
StreamStays == UNCHANGED <<wr, br, pipe>>

\* Only four actions touch the stream; only these and four more, the rest of
\* what the iterator has read.
LEMMA StreamFrame ==
    ASSUME AllNext
    PROVE  \/ Fill \/ ReadMarker \/ ReadPrefix \/ ReadBody \/ Write
           \/ StreamStays
<1>1. CASE Iterator \/ ConsumerStops
  BY <1>1 DEF Iterator, Start, MarkerFails, PrefixFails, BodyEnds, BodyFails, Eof, CloseRead, Reap, Sweep,
       ConsumerStops, StreamStays, cmdVars
<1>2. ASSUME NEW p \in Procs, Leave(p) \/ Terminate(p) PROVE StreamStays
  BY <1>2 DEF Leave, Terminate, StreamStays
<1>3. CASE CancelCtx \/ Unblock \/ WatchCancel \/ WatchKill \/ UNCHANGED vars
  BY <1>3 DEF CancelCtx, Unblock, WatchCancel, WatchKill, vars, StreamStays, cmdVars
<1> QED BY <1>1, <1>2, <1>3 DEF AllNext, Next, Command

\* The writer goes on with its frame, or starts the next.
LEMMA WriteFollows ==
    ASSUME PipeTypeOK, StreamInv, Write
    PROVE  wr'.size > 0 /\ (wr'.kind # "ok" => fault') /\ Follows(wr, wr')
<1>1. wr \in Units
  BY DEF PipeTypeOK
<1>2. wr'.kind # "ok" => fault'
  BY Zenon DEF Write
<1>3. CASE AtBoundary
  BY <1>1, <1>2, <1>3, PipeFacts DEF Write, Follows, AtBoundary
<1>4. CASE ~AtBoundary
  <2>1. wr' = [wr EXCEPT !.pos = @ + 1]
    BY <1>4 DEF Write
  <2>2. wr'.pos = wr.pos + 1 /\ wr'.frame = wr.frame /\ wr'.size = wr.size
    BY <1>1, <2>1 DEF Units
  <2>3. wr.size > 0
    BY <1>1, <1>4 DEF StreamInv, Payload, AtBoundary, Units
  <2> QED BY <1>2, <1>4, <2>2, <2>3 DEF Follows, AtBoundary
<1> QED BY <1>3, <1>4

\* The stream stays free of gaps, and ends with the last unit written.
LEMMA StreamStep ==
    ASSUME PipeTypeOK, StreamInv, AllNext
    PROVE  StreamInv'
<1>0. /\ Stream \in Seq(Units) /\ Len(Stream) \in Nat /\ (fault => fault')
      /\ \A i \in 1..Len(Stream) : Stream[i] \in Units
  BY ShapeFixed, StreamFacts
<1>1. CASE ReadMarker \/ ReadPrefix \/ ReadBody
  <2>1. br # <<>> /\ br' = Tail(br) /\ pipe' = pipe /\ wr' = wr
    BY <1>1 DEF ReadMarker, ReadPrefix, ReadBody, cmdVars
  <2>2. /\ Len(Stream') = Len(Stream) - 1 /\ Stream' \in Seq(Units) /\ Len(Stream') \in Nat
        /\ \A i \in 1..Len(Stream') : Stream'[i] = Stream[i + 1]
    BY <2>1, StreamTail
  <2>3. \A i \in 1..Len(Stream') : Stream'[i].size > 0 /\ (Stream'[i].kind # "ok" => fault')
    BY <1>0, <2>2 DEF StreamInv
  <2>4. \A i \in 1..Len(Stream') - 1 : Follows(Stream'[i], Stream'[i + 1])
    <3> SUFFICES ASSUME NEW i \in 1..Len(Stream') - 1 PROVE Follows(Stream'[i], Stream'[i + 1])
      OBVIOUS
    <3>1. /\ Stream'[i] = Stream[i + 1] /\ Stream'[i + 1] = Stream[(i + 1) + 1]
          /\ i + 1 \in 1..Len(Stream) - 1
      BY <1>0, <2>2
    <3> QED BY <3>1 DEF StreamInv
  <2>5. Len(Stream') > 0 => Stream'[Len(Stream')] = wr
    BY <1>0, <2>2 DEF StreamInv
  <2> QED BY <2>1, <2>3, <2>4, <2>5 DEF StreamInv, Payload, Follows
<1>2. CASE Fill
  <2>1. Stream' = Stream /\ UNCHANGED <<wr, fault>>
    BY <1>2, StreamFill DEF Fill, cmdVars
  <2> QED BY <2>1 DEF StreamInv, Payload, Follows
<1>3. CASE Write
  <2>1. wr' \in Units /\ br' = br /\ pipe' = Append(pipe, wr')
    BY <1>3, PipeTypeStep DEF PipeTypeOK, Write
  <2>2. /\ Len(Stream') = Len(Stream) + 1
        /\ \A i \in 1..Len(Stream) : Stream'[i] = Stream[i]
        /\ Stream'[Len(Stream) + 1] = wr'
    BY <2>1, StreamAppend
  <2>3. wr'.size > 0 /\ (wr'.kind # "ok" => fault') /\ Follows(wr, wr')
    BY <1>3, WriteFollows
  <2>4. \A i \in 1..Len(Stream') : Stream'[i].size > 0 /\ (Stream'[i].kind # "ok" => fault')
    BY <1>0, <2>2, <2>3 DEF StreamInv
  <2>5. \A i \in 1..Len(Stream') - 1 : Follows(Stream'[i], Stream'[i + 1])
    <3> SUFFICES ASSUME NEW i \in 1..Len(Stream) PROVE Follows(Stream'[i], Stream'[i + 1])
      BY <1>0, <2>2
    <3>1. CASE i = Len(Stream)
      BY <1>0, <2>2, <2>3, <3>1 DEF StreamInv
    <3>2. CASE i < Len(Stream)
      <4>1. i \in 1..Len(Stream) - 1 /\ Stream'[i] = Stream[i] /\ Stream'[i + 1] = Stream[i + 1]
        BY <1>0, <2>2, <3>2
      <4> QED BY <4>1 DEF StreamInv
    <3> QED BY <1>0, <3>1, <3>2
  <2> QED BY <1>0, <2>2, <2>3, <2>4, <2>5 DEF StreamInv, Payload, Follows
<1>4. CASE StreamStays
  <2>1. UNCHANGED <<wr, Stream>>
    BY <1>4 DEF StreamStays, Stream
  <2> QED BY <1>0, <2>1 DEF StreamInv, Payload, Follows
<1> QED BY <1>1, <1>2, <1>3, <1>4, StreamFrame

\* What the iterator has read grows only by reading the stream; apart from
\* that it starts, or takes leave of a whole body.
LEMMA ReaderFrame ==
    ASSUME AllNext
    PROVE  \/ Fill \/ ReadMarker \/ ReadPrefix \/ ReadBody \/ Write \/ Start \/ BodyEnds
           \/ StreamStays /\ UNCHANGED <<got, body, ledgers>> /\ (pc' = pc \/ ~Reader')
<1> USE DEF StreamStays, Reader
<1>1. CASE Iterator \/ ConsumerStops
  BY <1>1 DEF Iterator, MarkerFails, PrefixFails, BodyFails, Eof, CloseRead, Reap, Sweep,
       ConsumerStops, Yield, Quit, cmdVars, readVars
<1>2. ASSUME NEW p \in Procs, Leave(p) \/ Terminate(p)
      PROVE StreamStays /\ UNCHANGED <<got, body, ledgers, pc>>
  BY <1>2 DEF Leave, Terminate, readVars
<1>3. CASE CancelCtx \/ Unblock \/ WatchCancel \/ WatchKill \/ UNCHANGED vars
  BY <1>3 DEF CancelCtx, Unblock, WatchCancel, WatchKill, vars, cmdVars, readVars
<1> QED BY <1>1, <1>2, <1>3 DEF AllNext, Next, Command

\* The unit the iterator reads next comes right after what it has read, and
\* what is left comes right after that unit.
LEMMA NextRead ==
    ASSUME PipeTypeOK, StreamInv, ReaderInv, Reader, br # <<>>, br' = Tail(br), pipe' = pipe, wr' = wr
    PROVE  /\ Head(br) \in Units /\ Head(br).size > 0 /\ (Head(br).kind # "ok" => fault)
           /\ \E v \in Units : ReadUpTo(v) /\ Payload(v) /\ Follows(v, Head(br))
           /\ Len(Stream') \in Nat
           /\ IF Len(Stream') = 0 THEN wr' = Head(br) ELSE Follows(Head(br), Stream'[1])
<1>1. /\ Len(Stream) > 0 /\ Head(br) = Stream[1] /\ Head(br) \in Units
      /\ Len(Stream') = Len(Stream) - 1 /\ Len(Stream) \in Nat
      /\ \A i \in 1..Len(Stream') : Stream'[i] = Stream[i + 1]
  BY StreamTail, StreamFacts
<1>2. Head(br).size > 0 /\ (Head(br).kind # "ok" => fault)
  BY <1>1 DEF StreamInv
<1>3. \E v \in Units : ReadUpTo(v) /\ Payload(v) /\ Follows(v, Head(br))
  BY <1>1 DEF ReaderInv
<1>4. CASE Len(Stream') = 0
  <2>1. Len(Stream) = 1
    BY <1>1, <1>4
  <2>2. wr = Stream[1]
    BY <2>1 DEF StreamInv
  <2> QED BY <1>1, <1>2, <1>3, <1>4, <2>2
<1>5. CASE Len(Stream') # 0
  <2>1. Stream'[1] = Stream[1 + 1] /\ 1 \in 1..Len(Stream) - 1
    BY <1>1, <1>5
  <2>2. Follows(Stream[1], Stream[1 + 1])
    BY <2>1 DEF StreamInv
  <2> QED BY <1>1, <1>2, <1>3, <1>5, <2>1, <2>2
<1> QED BY <1>4, <1>5

\* The iterator's place in the frames is the place of what it has not read.
LEMMA ReaderStep ==
    ASSUME PipeTypeOK, StreamInv, ReaderInv, BodyInv, AllNext
    PROVE  ReaderInv'
<1>0. PipeTypeOK' /\ wr \in Units /\ Len(Stream) \in Nat /\ Len(ledgers) \in Nat /\ Len(body) \in Nat
  BY PipeTypeStep, StreamFacts DEF PipeTypeOK
<1>1. CASE ReadMarker \/ ReadPrefix \/ ReadBody
  <2>1. br # <<>> /\ br' = Tail(br) /\ pipe' = pipe /\ wr' = wr /\ ledgers' = ledgers /\ Reader
    BY <1>1 DEF ReadMarker, ReadPrefix, ReadBody, cmdVars, Reader
  <2>2. PICK u \in Units :
           /\ u = Head(br) /\ u.size > 0
           /\ Len(Stream') \in Nat
           /\ IF Len(Stream') = 0 THEN wr' = u ELSE Follows(u, Stream'[1])
    BY <2>1, NextRead
  <2>3. PICK v \in Units : ReadUpTo(v) /\ Payload(v) /\ Follows(v, u)
    BY <2>1, <2>2, NextRead
  <2>5. /\ v.frame \in Nat /\ v.pos \in Nat /\ v.size \in Nat
        /\ u.frame \in Nat /\ u.pos \in Nat /\ u.size \in Nat
    BY <2>2 DEF Units
  <2>6. (pc' \in {"start", "prefix", "body"} => got' = 0) /\ (Reader' => ReadUpTo(u)')
    <3>1. CASE ReadMarker
      <4>1. /\ pc = "marker" /\ pc' \in {"marker", "prefix", "defer"}
            /\ pc' = "marker" => got = 0 /\ got' = 1
            /\ pc' = "prefix" => got # 0 /\ got' = 0
        BY <3>1 DEF ReadMarker, Yield
      <4>2. got = 0 => u.frame = Len(ledgers) + 1 /\ u.pos = 1
        BY <1>0, <2>3, <2>5, <4>1 DEF ReadUpTo, Follows
      <4>3. got # 0 => u.frame = Len(ledgers) + 1 /\ u.pos = 2
        BY <1>0, <2>3, <2>5, <4>1 DEF ReadUpTo, Follows, Payload
      <4> QED BY <2>1, <4>1, <4>2, <4>3 DEF ReadUpTo, Reader
    <3>2. CASE ReadPrefix
      <4>1. /\ pc = "prefix" /\ pc' \in {"body", "defer"} /\ got' = got /\ got = 0
            /\ pc' = "body" => body' = <<u>>
        BY <2>2, <3>2 DEF ReadPrefix, Yield, ReaderInv
      <4>2. u.frame = Len(ledgers) + 1 /\ u.pos = 3
        BY <1>0, <2>3, <2>5, <4>1 DEF ReadUpTo, Follows, Payload
      <4>3. pc' = "body" => Len(body') = 1 /\ body'[1] = u
        BY <4>1
      <4>4. pc' \in {"body", "defer"} /\ got' = 0
        BY <4>1
      <4>5. pc' = "body" => u.frame = Len(ledgers') + 1 /\ u.pos = Len(body') + 2 /\ u.size = body'[1].size
        <5> SUFFICES ASSUME pc' = "body"
                     PROVE  u.frame = Len(ledgers') + 1 /\ u.pos = Len(body') + 2 /\ u.size = body'[1].size
          OBVIOUS
        <5>1. ledgers' = ledgers
          BY <2>1
        <5>2. Len(body') = 1 /\ body'[1] = u
          BY <4>3
        <5> QED BY <4>2, <5>1, <5>2
      <4> QED BY <4>4, <4>5 DEF ReadUpTo, Reader
    <3>3. CASE ReadBody
      <4>1. /\ pc = "body" /\ pc' = "body" /\ got' = got /\ got = 0
            /\ body' = Append(body, u) /\ Len(body) < body[1].size
        BY <2>2, <3>3 DEF ReadBody, ReaderInv
      <4>2. u.frame = Len(ledgers) + 1 /\ u.pos = Len(body) + 3 /\ u.size = body[1].size
        BY <1>0, <2>3, <2>5, <4>1 DEF ReadUpTo, Follows, Payload
      <4>3. Len(body) >= 1
        BY <4>1 DEF BodyInv
      <4>4. Len(body') = Len(body) + 1 /\ body'[1] = body[1]
        BY <2>2, <4>1, <4>3 DEF PipeTypeOK
      <4> QED BY <1>0, <2>1, <4>1, <4>2, <4>4 DEF ReadUpTo, Reader
    <3> QED BY <1>1, <3>1, <3>2, <3>3
  <2>7. Payload(u)
    BY <2>2 DEF Payload
  <2> QED BY <2>1, <2>2, <2>6, <2>7 DEF ReaderInv, Payload, Follows, ReadUpTo
<1>2. CASE Fill
  <2>1. Stream' = Stream /\ UNCHANGED <<pc, got, body, ledgers, wr>>
    BY <1>2, StreamFill DEF Fill, readVars, cmdVars
  <2> QED BY <2>1 DEF ReaderInv, Reader, ReadUpTo, Payload, Follows
<1>3. CASE Write
  <2>1. wr' \in Units /\ br' = br /\ pipe' = Append(pipe, wr') /\ UNCHANGED <<pc, got, body, ledgers>>
    BY <1>0, <1>3 DEF PipeTypeOK, Write, readVars
  <2>2. /\ Len(Stream') = Len(Stream) + 1
        /\ \A i \in 1..Len(Stream) : Stream'[i] = Stream[i]
        /\ Stream'[Len(Stream) + 1] = wr'
    BY <2>1, StreamAppend
  <2>3. Follows(wr, wr') /\ Payload(wr)
    BY <1>3, WriteFollows DEF StreamInv
  <2>4. Reader => \E u \in Units : ReadUpTo(u) /\ Payload(u) /\ Follows(u, Stream'[1])
    <3> SUFFICES ASSUME Reader PROVE \E u \in Units : ReadUpTo(u) /\ Payload(u) /\ Follows(u, Stream'[1])
      OBVIOUS
    <3>1. CASE Len(Stream) = 0
      <4>1. Stream'[1] = wr' /\ ReadUpTo(wr)
        BY <2>2, <3>1 DEF ReaderInv
      <4> QED BY <1>0, <2>3, <4>1
    <3>2. CASE Len(Stream) # 0
      <4>1. Stream'[1] = Stream[1]
        BY <1>0, <2>2, <3>2
      <4> QED BY <3>2, <4>1 DEF ReaderInv
    <3> QED BY <3>1, <3>2
  <2> QED BY <1>0, <2>1, <2>2, <2>4 DEF ReaderInv, Reader, ReadUpTo, Payload, Follows
<1>4. CASE Start
  <2>1. pc = "start" /\ pc' \in {"marker", "returned"} /\ UNCHANGED <<wr, br, pipe, got, body, ledgers>>
    BY <1>4 DEF Start, readVars
  <2>2. Stream' = Stream
    BY <2>1 DEF Stream
  <2> QED BY <2>1, <2>2 DEF ReaderInv, Reader, ReadUpTo, Payload, Follows
<1>5. CASE BodyEnds
  <2>1. /\ pc = "body" /\ pc' = "marker" /\ UNCHANGED <<wr, br, pipe, got, body>>
        /\ Len(body) = body[1].size /\ Len(ledgers') = Len(ledgers) + 1
    BY <1>5 DEF BodyEnds, cmdVars, PipeTypeOK
  <2>2. Stream' = Stream
    BY <2>1 DEF Stream
  <2>3. ASSUME NEW v, ReadUpTo(v) PROVE ReadUpTo(v)'
    BY <1>0, <2>1, <2>3 DEF ReadUpTo, ReaderInv
  <2> QED BY <2>1, <2>2, <2>3 DEF ReaderInv, Reader, Payload, Follows
<1>6. CASE StreamStays /\ UNCHANGED <<got, body, ledgers>> /\ (pc' = pc \/ ~Reader')
  <2>1. Stream' = Stream /\ wr' = wr
    BY <1>6 DEF StreamStays, Stream
  <2> QED BY <1>6, <2>1 DEF ReaderInv, Reader, ReadUpTo, Payload, Follows
<1> QED BY <1>1, <1>2, <1>3, <1>4, <1>5, <1>6, ReaderFrame

\* The body grows by the units of its frame in order, and becomes a ledger
\* once it has them all.
LEMMA BodyStep ==
    ASSUME PipeTypeOK, StreamInv, ReaderInv, BodyInv, AllNext
    PROVE  BodyInv'
<1>0. /\ body \in Seq(Units) /\ ledgers \in Seq(Seq(Units))
      /\ Len(ledgers) \in Nat /\ Len(body) \in Nat
  BY DEF PipeTypeOK
<1>1. CASE ReadPrefix
  <2>1. /\ br # <<>> /\ br' = Tail(br) /\ pipe' = pipe /\ wr' = wr /\ ledgers' = ledgers
        /\ pc = "prefix" /\ Reader
        /\ pc' = "body" => body' = <<Head(br)>>
    BY <1>1 DEF ReadPrefix, cmdVars, Reader, Yield
  <2>2. PICK u \in Units : u = Head(br) /\ u.size > 0
    BY <2>1, NextRead
  <2>3. PICK v \in Units : ReadUpTo(v) /\ Payload(v) /\ Follows(v, u)
    BY <2>1, <2>2, NextRead
  <2>4. u.frame = Len(ledgers) + 1 /\ u.pos = 3 /\ u.size \in Nat
    BY <1>0, <2>1, <2>2, <2>3 DEF ReadUpTo, Follows, Payload, Units
  <2>5. pc' = "body" => Len(body') = 1 /\ body'[1] = u
    BY <2>1, <2>2
  <2>6. pc' = "body" => /\ Len(body') >= 1 /\ Len(body') <= body'[1].size
                        /\ \A k \in 1..Len(body') : body'[k].frame = Len(ledgers') + 1 /\ body'[k].pos = k + 2
    <3> SUFFICES ASSUME pc' = "body"
                 PROVE  /\ Len(body') >= 1 /\ Len(body') <= body'[1].size
                        /\ \A k \in 1..Len(body') : body'[k].frame = Len(ledgers') + 1 /\ body'[k].pos = k + 2
      OBVIOUS
    <3>1. Len(body') = 1 /\ body'[1] = u /\ ledgers' = ledgers
      BY <2>1, <2>5
    <3> QED BY <2>2, <2>4, <3>1
  <2> QED BY <2>1, <2>6 DEF BodyInv, NoShortLedger
<1>2. CASE ReadBody
  <2>1. /\ br # <<>> /\ br' = Tail(br) /\ pipe' = pipe /\ wr' = wr /\ ledgers' = ledgers
        /\ pc = "body" /\ pc' = "body" /\ Reader /\ Len(body) < body[1].size
        /\ body' = Append(body, Head(br))
    BY <1>2 DEF ReadBody, cmdVars, Reader
  <2>2. PICK u \in Units : u = Head(br) /\ u.size > 0
    BY <2>1, NextRead
  <2>3. PICK v \in Units : ReadUpTo(v) /\ Payload(v) /\ Follows(v, u)
    BY <2>1, <2>2, NextRead
  <2>4. /\ Len(body) >= 1
        /\ \A k \in 1..Len(body) : body[k].frame = Len(ledgers) + 1 /\ body[k].pos = k + 2
    BY <2>1 DEF BodyInv
  <2>5. u.frame = Len(ledgers) + 1 /\ u.pos = Len(body) + 3 /\ body[1].size \in Nat
    <3>1. body[1] \in Units
      BY <1>0, <2>4
    <3>2. v.frame = Len(ledgers) + 1 /\ v.pos = Len(body) + 2 /\ v.size = body[1].size
      BY <2>1, <2>3 DEF ReadUpTo
    <3>3. body[1].size \in Nat
      BY <3>1 DEF Units
    <3>4. v.pos # v.size + 2
      BY <1>0, <2>1, <3>2, <3>3
    <3> QED BY <1>0, <2>3, <3>2, <3>3, <3>4 DEF Follows
  <2>6. /\ Len(body') = Len(body) + 1 /\ body'[Len(body) + 1] = u
        /\ \A k \in 1..Len(body) : body'[k] = body[k]
    BY <1>0, <2>1, <2>2
  <2>7. /\ Len(body') >= 1 /\ Len(body') <= body'[1].size
        /\ \A k \in 1..Len(body') : body'[k].frame = Len(ledgers) + 1 /\ body'[k].pos = k + 2
    BY <1>0, <2>1, <2>4, <2>5, <2>6
  <2> QED BY <2>1, <2>7 DEF BodyInv, NoShortLedger
<1>3. CASE BodyEnds
  <2>1. /\ pc = "body" /\ pc' = "marker" /\ Len(body) = body[1].size /\ ledgers' = Append(ledgers, body)
    BY <1>3 DEF BodyEnds
  <2>2. /\ Len(ledgers') = Len(ledgers) + 1 /\ ledgers'[Len(ledgers) + 1] = body
        /\ \A i \in 1..Len(ledgers) : ledgers'[i] = ledgers[i]
    BY <1>0, <2>1
  <2>3. \A k \in 1..Len(body) : body[k].frame = Len(ledgers) + 1 /\ body[k].pos = k + 2
    BY <2>1 DEF BodyInv
  <2>4. ASSUME NEW i \in 1..Len(ledgers')
        PROVE  /\ Len(ledgers'[i]) = ledgers'[i][1].size
               /\ \A k \in 1..Len(ledgers'[i]) : ledgers'[i][k].frame = i /\ ledgers'[i][k].pos = k + 2
    <3>1. CASE i = Len(ledgers) + 1
      BY <2>1, <2>2, <2>3, <3>1
    <3>2. CASE i \in 1..Len(ledgers)
      BY <2>2, <3>2 DEF BodyInv, NoShortLedger
    <3> QED BY <1>0, <2>2, <3>1, <3>2
  <2> QED BY <2>1, <2>4 DEF BodyInv, NoShortLedger
<1>4. CASE ReadMarker \/ Start
  <2>1. UNCHANGED <<body, ledgers>> /\ pc' # "body"
    BY <1>4 DEF ReadMarker, Start, Yield, readVars
  <2> QED BY <2>1 DEF BodyInv, NoShortLedger
<1>5. CASE Fill \/ Write
  <2>1. UNCHANGED <<body, ledgers, pc>>
    BY <1>5 DEF Fill, Write, readVars
  <2> QED BY <2>1 DEF BodyInv, NoShortLedger
<1>6. CASE UNCHANGED <<body, ledgers>> /\ (pc' = pc \/ ~Reader')
  BY <1>6 DEF BodyInv, NoShortLedger, Reader
<1> QED BY <1>1, <1>2, <1>3, <1>4, <1>5, <1>6, ReaderFrame

-----------------------------------------------------------------------------
\* A read that fails before the context is cancelled found the pipe at its
\* end, with every unit written read.
LEMMA ReadFailsAtEnd ==
    ASSUME PipeTypeOK, ReaderInv, BlameInv, ReadFails, ~deadline
    PROVE  fds = {} /\ ReadUpTo(wr)
<1>1. br = <<>> /\ pipe = <<>> /\ fds = {} /\ Reader
  BY DEF ReadFails, NeedsPipe, Reading, Reader
<1>2. Len(Stream) = 0
  BY <1>1, StreamFacts
<1> QED BY <1>1, <1>2 DEF ReaderInv

\* Such a read, inside a frame, is the command's fault.
LEMMA CutIsFault ==
    ASSUME PipeTypeOK, StreamInv, ReaderInv, BodyInv, BlameInv, ReadFails, ~ctx,
           \/ pc = "marker" /\ got # 0
           \/ pc = "prefix"
           \/ pc = "body"
    PROVE  fault
<1>1. ~deadline /\ Reader /\ Blameless
  BY DEF BlameInv, Reader, Blameless
<1>2. fds = {} /\ ReadUpTo(wr)
  BY <1>1, ReadFailsAtEnd
<1>3. wr.pos \in Nat /\ wr.size \in Nat /\ Payload(wr) /\ wr.frame \in Nat /\ Len(ledgers) \in Nat
  BY DEF PipeTypeOK, Units, StreamInv
<1>4. ~AtBoundary
  <2>1. CASE pc = "marker" \/ pc = "prefix"
    BY <1>2, <1>3, <2>1 DEF ReadUpTo, Payload, AtBoundary
  <2>2. CASE pc = "body"
    <3>1. Len(body) # body[1].size /\ Len(body) \in Nat
      BY <2>2 DEF ReadFails, NeedsPipe, PipeTypeOK
    <3> QED BY <1>2, <1>3, <2>2, <3>1 DEF ReadUpTo, AtBoundary
  <2> QED BY <2>1, <2>2
<1> QED BY <1>1, <1>2, <1>4 DEF BlameInv

\* A step of the iterator that leaves the command and the context alone may
\* end the reading, and fails only over a fault.
LEMMA BlameKept ==
    ASSUME BlameInv, UNCHANGED <<ctx, deadline, watch, rOpen, termed, fds, wr, proc, writer, fault>>,
           Reader' \/ pc' = "eof" => Reader \/ pc = "eof",
           runErr' = "fail" => fault
    PROVE  BlameInv'
<1>1. Blameless' => Blameless
  BY Zenon DEF Blameless
<1>2. AtBoundary' <=> AtBoundary
  BY DEF AtBoundary
<1>3. (fault' <=> fault) /\ (ctx' <=> ctx) /\ (deadline' <=> deadline) /\ (rOpen' <=> rOpen)
  BY Zenon
<1>4. UNCHANGED <<watch, termed, fds, proc, writer>>
  OBVIOUS
<1>5. CancelIsNotFailure'
  BY <1>3 DEF CancelIsNotFailure
<1> QED BY <1>1, <1>2, <1>3, <1>4, <1>5 DEF BlameInv

\* Until a cancellation or an early stop, the command's end is its own doing,
\* and Run fails only over that.
LEMMA BlameStep ==
    ASSUME PipeTypeOK, StreamInv, ReaderInv, BodyInv, BlameInv, EndInv, AllNext
    PROVE  BlameInv'
<1>0. UNCHANGED writer /\ (fault => fault') /\ (runErr = "fail" => fault)
  BY ShapeFixed DEF BlameInv, CancelIsNotFailure
<1>1. CASE Start
  <2>1. UNCHANGED <<ctx, deadline, watch, rOpen, termed, fds, wr>> /\ pc = "start"
    BY <1>1 DEF Start
  <2>2. CASE proc' = [p \in Procs |-> "run"] /\ pc' = "marker" /\ UNCHANGED <<runErr, fault>>
    <3>1. proc'["sh"] = "run"
      BY <2>2, PipeFacts
    <3>2. Blameless' => Blameless
      BY <2>1, <2>2, Zenon DEF Blameless, Reader
    <3>3. AtBoundary' <=> AtBoundary
      BY <2>1 DEF AtBoundary
    <3>4. (fault' <=> fault) /\ (ctx' <=> ctx) /\ (deadline' <=> deadline) /\ (rOpen' <=> rOpen)
      BY <2>1, <2>2, Zenon
    <3>5. Reader /\ UNCHANGED <<watch, termed, fds, writer, runErr>>
      BY <1>0, <2>1, <2>2 DEF Reader
    <3> QED BY <3>1, <3>2, <3>3, <3>4, <3>5 DEF BlameInv, CancelIsNotFailure
  <2>3. CASE pc' = "returned" /\ runErr' = "fail" /\ fault' = TRUE
    <3>1. fault' /\ (ctx' <=> ctx) /\ (deadline' <=> deadline)
      BY <2>1, <2>3, Zenon
    <3> QED BY <2>1, <2>3, <3>1 DEF BlameInv, CancelIsNotFailure, Blameless, Reader
  <2> QED BY <1>1, <2>2, <2>3 DEF Start
<1>2. CASE Fill \/ ReadBody \/ BodyEnds
  <2>1. /\ UNCHANGED <<ctx, deadline, watch, rOpen, termed, fds, wr, proc, fault, runErr>>
        /\ Reader
    BY <1>2 DEF Fill, NeedsPipe, Reading, ReadBody, BodyEnds, cmdVars, Reader
  <2> QED BY <1>0, <2>1, BlameKept
<1>3. CASE ReadMarker \/ ReadPrefix
  <2>1. /\ UNCHANGED <<ctx, deadline, watch, rOpen, termed, fds, wr, proc, fault>>
        /\ Reader /\ br # <<>> /\ br' = Tail(br) /\ pipe' = pipe
        /\ runErr' = runErr \/ Head(br).kind # "ok"
    BY <1>3 DEF ReadMarker, ReadPrefix, Yield, cmdVars, Reader
  <2>2. Head(br).kind # "ok" => fault
    BY <2>1, NextRead
  <2>3. runErr' = "fail" => fault
    BY <1>0, <2>1, <2>2
  <2> QED BY <1>0, <2>1, <2>3, BlameKept
<1>4. CASE MarkerFails \/ PrefixFails \/ BodyFails
  <2>1. /\ UNCHANGED <<ctx, deadline, watch, rOpen, termed, fds, wr, proc, fault>>
        /\ Reader /\ ReadFails
    BY <1>4 DEF MarkerFails, PrefixFails, BodyFails, cmdVars, Reader
  <2>2. /\ runErr' = "fail" => runErr = "fail" \/ ~ctx
        /\ runErr' = "fail" /\ pc = "marker" => runErr = "fail" \/ ~(got = 0 /\ ~deadline)
        /\ pc \in {"marker", "prefix", "body"}
    BY <1>4 DEF MarkerFails, PrefixFails, BodyFails, Yield, Quit
  <2>3. runErr' = "fail" => fault
    <3> SUFFICES ASSUME runErr # "fail", runErr' = "fail" PROVE fault
      BY <1>0
    <3>1. ~ctx /\ ~deadline
      BY <2>2 DEF BlameInv
    <3> QED BY <2>1, <2>2, <3>1, CutIsFault
  <2> QED BY <1>0, <2>1, <2>3, BlameKept
<1>5. CASE Eof
  <2>1. /\ UNCHANGED <<ctx, deadline, watch, rOpen, termed, fds, wr, proc, fault>>
        /\ pc = "eof"
        /\ runErr' = "fail" => runErr = "fail" \/ (proc["sh"] = "err" /\ ~ctx)
    BY <1>5 DEF Eof, Yield, Quit, cmdVars
  <2>2. proc["sh"] = "err" /\ ~ctx => fault
    BY <2>1 DEF BlameInv, Blameless
  <2> QED BY <1>0, <2>1, <2>2, BlameKept
<1>6. CASE ConsumerStops \/ Reap
  <2>1. /\ UNCHANGED <<ctx, deadline, watch, rOpen, termed, fds, wr, proc, fault>>
        /\ pc' \in {"defer", "sweep"}
        /\ runErr' = runErr \/ runErr' = "stop"
    BY <1>6 DEF ConsumerStops, Reap, Yield, cmdVars
  <2> QED BY <1>0, <2>1, BlameKept DEF Reader
<1>7. CASE CloseRead \/ Sweep
  <2>1. /\ UNCHANGED <<ctx, deadline, watch, fault>> /\ pc' \in {"reap", "returned"}
        /\ runErr' = "fail" => runErr = "fail"
    BY <1>7 DEF CloseRead, Sweep
  <2>2. (fault' <=> fault) /\ (ctx' <=> ctx) /\ (deadline' <=> deadline) /\ watch' = watch
    BY <2>1, Zenon
  <2> QED BY <1>0, <2>1, <2>2 DEF BlameInv, CancelIsNotFailure, Blameless, Reader
<1>8. CASE Write
  <2>1. /\ UNCHANGED <<ctx, deadline, watch, rOpen, termed, fds, proc, pc, runErr>> /\ writer \in fds
    BY <1>8 DEF Write
  <2>2. (ctx' <=> ctx) /\ (deadline' <=> deadline) /\ (rOpen' <=> rOpen)
    BY <2>1, Zenon
  <2> QED BY <1>0, <2>1, <2>2 DEF BlameInv, CancelIsNotFailure, Blameless, Reader
<1>9. ASSUME NEW p \in Procs, Leave(p) PROVE BlameInv'
  <2>1. UNCHANGED <<ctx, deadline, watch, rOpen, termed, wr, pc, runErr>>
    BY <1>9 DEF Leave
  <2>2. (ctx' <=> ctx) /\ (deadline' <=> deadline) /\ (rOpen' <=> rOpen) /\ (AtBoundary' <=> AtBoundary)
    BY <2>1, Zenon DEF AtBoundary
  <2>3. Blameless => rOpen
    BY DEF BlameInv, Blameless
  <2>4. Blameless => (writer \notin fds' => fault' \/ AtBoundary) /\ (proc'["sh"] = "err" => fault')
    <3> SUFFICES ASSUME Blameless
                 PROVE (writer \notin fds' => fault' \/ AtBoundary) /\ (proc'["sh"] = "err" => fault')
      OBVIOUS
    <3>1. (writer \notin fds => fault \/ AtBoundary) /\ (proc["sh"] = "err" => fault)
      BY DEF BlameInv
    <3>2. ASSUME NEW status \in {"ok", "err"}, Die({p}, status),
                 fault' = (fault \/ (p = "sh" /\ status = "err") \/ (p = writer /\ ~AtBoundary))
          PROVE (writer \notin fds' => fault' \/ AtBoundary) /\ (proc'["sh"] = "err" => fault')
      <4>1. fds' = fds \ {p}
        BY <3>2 DEF Die
      <4>2. proc'["sh"] = "err" => proc["sh"] = "err" \/ (p = "sh" /\ status = "err")
        BY <3>2, PipeFacts DEF Die
      <4>3. /\ p = "sh" /\ status = "err" => fault'
            /\ p = writer /\ ~AtBoundary => fault'
        BY <3>2, Zenon
      <4> QED BY <1>0, <3>1, <4>1, <4>2, <4>3
    <3>3. ASSUME fds' = fds \ {p}, fault' = (fault \/ (p = writer /\ ~AtBoundary)), UNCHANGED proc
          PROVE (writer \notin fds' => fault' \/ AtBoundary) /\ (proc'["sh"] = "err" => fault')
      <4>1. p = writer /\ ~AtBoundary => fault'
        BY <3>3, Zenon
      <4> QED BY <1>0, <3>1, <3>3, <4>1
    <3> QED BY <1>9, <2>3, <3>2, <3>3 DEF Leave
  <2> QED BY <1>0, <2>1, <2>2, <2>4 DEF BlameInv, CancelIsNotFailure, Blameless, Reader
<1>10. ASSUME NEW p \in Procs, Terminate(p) PROVE BlameInv'
  <2>1. UNCHANGED <<ctx, deadline, watch, rOpen, termed, wr, pc, runErr, fault>> /\ termed # {}
    BY <1>10 DEF Terminate
  <2>2. (ctx' <=> ctx) /\ (deadline' <=> deadline) /\ (rOpen' <=> rOpen) /\ (fault' <=> fault)
    BY <2>1, Zenon
  <2> QED BY <2>1, <2>2 DEF BlameInv, CancelIsNotFailure, Blameless, Reader
<1>11. CASE CancelCtx
  <2>1. UNCHANGED <<rOpen, pc, runErr, fault>> /\ ctx' = TRUE
    BY <1>11 DEF CancelCtx, cmdVars
  <2>2. ctx' /\ (rOpen' <=> rOpen) /\ (fault' <=> fault)
    BY <2>1, Zenon
  <2> QED BY <2>1, <2>2 DEF BlameInv, CancelIsNotFailure, Blameless, Reader
<1>12. CASE Unblock \/ WatchCancel \/ WatchKill
  <2>1. UNCHANGED <<rOpen, pc, runErr, fault, ctx>> /\ ctx
    BY <1>12 DEF Unblock, WatchCancel, WatchKill, cmdVars, BlameInv
  <2>2. ctx' /\ (rOpen' <=> rOpen) /\ (fault' <=> fault)
    BY <2>1, Zenon
  <2> QED BY <2>1, <2>2 DEF BlameInv, CancelIsNotFailure, Blameless, Reader
<1>13. CASE UNCHANGED vars
  <2>1. UNCHANGED <<ctx, deadline, watch, rOpen, termed, fds, wr, proc, writer, fault, pc, runErr>>
    BY <1>13 DEF vars, cmdVars
  <2> QED BY <1>0, <2>1, BlameKept DEF Reader
<1> QED BY <1>1, <1>2, <1>3, <1>4, <1>5, <1>6, <1>7, <1>8, <1>9, <1>10, <1>11, <1>12, <1>13
        DEF AllNext, Next, Iterator, Command

-----------------------------------------------------------------------------
\* Once the range has ended it stays ended: nobody is left to write.
LEMMA AllReadStays ==
    ASSUME AllNext, AllRead, pc # "body"
    PROVE  AllRead'
<1> USE DEF AllRead, AtBoundary
<1>1. CASE Write
  BY <1>1 DEF Write
<1>2. ASSUME NEW p \in Procs, Leave(p) \/ Terminate(p) PROVE AllRead'
  <2>1. UNCHANGED <<wr, ledgers>> /\ fds' \subseteq fds
    BY <1>2 DEF Leave, Terminate, Die, readVars
  <2> QED BY <2>1
<1>3. CASE Iterator \/ ConsumerStops \/ CancelCtx \/ Unblock \/ WatchCancel \/ WatchKill \/ UNCHANGED vars
  <2>1. CASE Start \/ Fill \/ ReadMarker \/ MarkerFails \/ ReadPrefix \/ PrefixFails
    BY <2>1 DEF Start, Fill, ReadMarker, MarkerFails, ReadPrefix, PrefixFails, cmdVars, readVars
  <2>2. CASE ReadBody \/ BodyEnds \/ BodyFails \/ ConsumerStops
    BY <2>2 DEF ReadBody, BodyEnds, BodyFails, ConsumerStops
  <2>3. CASE Eof \/ CloseRead \/ Reap \/ CancelCtx \/ Unblock \/ WatchCancel \/ UNCHANGED vars
    BY <2>3 DEF Eof, CloseRead, Reap, CancelCtx, Unblock, WatchCancel, vars, cmdVars, readVars
  <2>4. CASE Sweep \/ WatchKill
    <3>1. UNCHANGED <<wr, ledgers>> /\ fds' \subseteq fds
      BY <2>4 DEF Sweep, WatchKill, Die, readVars
    <3> QED BY <3>1
  <2> QED BY <1>3, <2>1, <2>2, <2>3, <2>4 DEF Iterator
<1> QED BY <1>1, <1>2, <1>3 DEF AllNext, Next, Command

\* What a step does to the processes: Start apart, they only end.
LEMMA ProcsStep ==
    ASSUME PipeTypeOK, AllNext
    PROVE  Start \/ \A p \in Procs : /\ proc'[p] = "none" <=> proc[p] = "none"
                                     /\ proc[p] # "run" => proc'[p] = proc[p]
<1>1. CASE UNCHANGED proc
  BY <1>1
<1>2. ASSUME NEW ps, NEW status \in {"ok", "err"}, Die(ps, status)
      PROVE \A p \in Procs : /\ proc'[p] = "none" <=> proc[p] = "none"
                             /\ proc[p] # "run" => proc'[p] = proc[p]
  BY <1>2, DieFacts
<1>3. CASE Iterator \/ ConsumerStops
  BY <1>1, <1>2, <1>3 DEF Iterator, Fill, ReadMarker, MarkerFails, ReadPrefix, PrefixFails, ReadBody, BodyEnds,
       BodyFails, Eof, CloseRead, Reap, Sweep, ConsumerStops, cmdVars
<1>4. ASSUME NEW p \in Procs, Leave(p) \/ Terminate(p)
      PROVE \A q \in Procs : /\ proc'[q] = "none" <=> proc[q] = "none"
                             /\ proc[q] # "run" => proc'[q] = proc[q]
  BY <1>1, <1>2, <1>4 DEF Leave, Terminate
<1>5. CASE Write \/ CancelCtx \/ Unblock \/ WatchCancel \/ WatchKill \/ UNCHANGED vars
  BY <1>1, <1>2, <1>5 DEF Write, CancelCtx, Unblock, WatchCancel, WatchKill, vars, cmdVars
<1> QED BY <1>3, <1>4, <1>5 DEF AllNext, Next, Command

\* How the iterator moves, the context in view.
LEMMA PcStep ==
    ASSUME AllNext
    PROVE  \/ Start \/ MarkerFails \/ Eof \/ Sweep
           \/ UNCHANGED <<pc, runErr, ctx>>
           \/ UNCHANGED <<pc, runErr>> /\ ctx' /\ pc # "returned"
           \/ pc \in {"marker", "prefix", "body"} /\ pc' \in {"marker", "prefix", "body"} /\ UNCHANGED runErr
           \/ /\ pc \in {"marker", "prefix", "body"} /\ pc' = "defer"
              /\ runErr' \in {"fail", "cancel", "stop"} \/ (ctx' /\ UNCHANGED runErr)
           \/ pc = "defer" /\ pc' = "reap" /\ UNCHANGED <<runErr, ctx>>
           \/ pc = "reap" /\ pc' = "sweep" /\ UNCHANGED <<runErr, ctx>>
<1>1. CASE CancelCtx
  <2>1. UNCHANGED <<pc, runErr>> /\ ctx' = TRUE /\ pc # "returned"
    BY <1>1 DEF CancelCtx
  <2>2. ctx'
    BY <2>1, Zenon
  <2> QED BY <2>1, <2>2
<1>2. CASE PrefixFails
  <2>1. /\ ctx' = ctx /\ pc = "prefix" /\ pc' = "defer"
        /\ runErr' = "fail" \/ (ctx /\ UNCHANGED runErr)
    BY <1>2 DEF PrefixFails, Yield, Quit
  <2>2. ctx' <=> ctx
    BY <2>1, Zenon
  <2> QED BY <2>1, <2>2
<1>3. CASE Fill \/ Write \/ Unblock \/ WatchCancel \/ WatchKill \/ UNCHANGED vars
  BY <1>3 DEF Fill, Write, Unblock, WatchCancel, WatchKill, vars
<1>4. ASSUME NEW p \in Procs, Leave(p) \/ Terminate(p) PROVE UNCHANGED <<pc, runErr, ctx>>
  BY <1>4 DEF Leave, Terminate
<1>5. CASE ReadMarker \/ ReadPrefix \/ ReadBody \/ BodyEnds \/ BodyFails \/ ConsumerStops
  BY <1>5 DEF ReadMarker, ReadPrefix, ReadBody, BodyEnds, BodyFails, ConsumerStops, Yield
<1>6. CASE CloseRead \/ Reap
  BY <1>6 DEF CloseRead, Reap
<1> QED BY <1>1, <1>2, <1>3, <1>4, <1>5, <1>6 DEF AllNext, Next, Iterator, Command

\* A range that is complete was read to its end, and the command exited well.
LEMMA EndStep ==
    ASSUME PipeTypeOK, StreamInv, ReaderInv, BlameInv, EndInv, AllNext
    PROVE  EndInv'
<1> USE DEF Started, Reader, Pcs
<1>0. pc \in Pcs /\ "sh" \in Procs
  BY PipeFacts DEF PipeTypeOK
<1>1. CASE Start
  <2>1. pc = "start" /\ UNCHANGED ctx
    BY <1>1 DEF Start
  <2>2. CASE proc' = [p \in Procs |-> "run"] /\ pc' = "marker" /\ UNCHANGED runErr
    BY <2>1, <2>2 DEF EndInv
  <2>3. CASE pc' = "returned" /\ runErr' = "fail"
    BY <2>1, <2>3 DEF EndInv
  <2> QED BY <1>1, <2>2, <2>3 DEF Start
<1>2. ASSUME ~Start PROVE EndInv'
  <2>1. \A p \in Procs : /\ proc'[p] = "none" <=> proc[p] = "none"
                         /\ proc[p] # "run" => proc'[p] = proc[p]
    BY <1>2, ProcsStep
  <2>2. AllRead /\ pc # "body" => AllRead'
    BY AllReadStays
  <2>3. CASE MarkerFails
    <3>1. /\ pc = "marker" /\ UNCHANGED ctx /\ ReadFails
          /\ \/ pc' = "eof" /\ got = 0 /\ ~deadline /\ UNCHANGED runErr
             \/ pc' = "defer" /\ ctx /\ UNCHANGED runErr
             \/ pc' = "defer" /\ runErr' = "fail"
      BY <2>3 DEF MarkerFails, Yield, Quit
    <3>2. ctx' <=> ctx
      BY <3>1, Zenon
    <3>3. pc' = "eof" => AllRead
      <4> SUFFICES ASSUME got = 0, ~deadline PROVE AllRead
        BY <3>1
      <4>1. fds = {} /\ ReadUpTo(wr)
        BY <3>1, ReadFailsAtEnd
      <4> QED BY <3>1, <4>1 DEF ReadUpTo, AllRead, AtBoundary
    <3> QED BY <1>0, <2>1, <2>2, <3>1, <3>2, <3>3 DEF EndInv
  <2>4. CASE Eof
    <3>1. /\ pc = "eof" /\ pc' = "defer" /\ UNCHANGED <<ctx, proc>> /\ ~Alive("sh")
          /\ \/ runErr' = "fail"
             \/ ~(proc["sh"] = "err" /\ ~ctx) /\ UNCHANGED runErr
      BY <2>4 DEF Eof, Yield, Quit, cmdVars
    <3>2. ctx' <=> ctx
      BY <3>1, Zenon
    <3>3. proc["sh"] # "err" => proc["sh"] = "ok"
      BY <1>0, <3>1 DEF EndInv, Alive, PipeTypeOK
    <3> QED BY <1>0, <2>1, <2>2, <3>1, <3>2, <3>3 DEF EndInv
  <2>5. CASE Sweep
    <3>1. /\ pc = "sweep" /\ pc' = "returned"
          /\ runErr' = "clean" => (runErr = "none" /\ ~ctx) \/ runErr = "clean"
      BY <2>5 DEF Sweep
    <3> QED BY <1>0, <2>1, <2>2, <3>1 DEF EndInv
  <2>6. CASE UNCHANGED <<pc, runErr, ctx>>
    <3>1. ctx' <=> ctx
      BY <2>6, Zenon
    <3> QED BY <1>0, <2>1, <2>2, <2>6, <3>1 DEF EndInv
  <2>7. CASE UNCHANGED <<pc, runErr>> /\ ctx' /\ pc # "returned"
    BY <1>0, <2>1, <2>2, <2>7 DEF EndInv
  <2>8. CASE pc \in {"marker", "prefix", "body"} /\ pc' \in {"marker", "prefix", "body"} /\ UNCHANGED runErr
    BY <1>0, <2>1, <2>8 DEF EndInv
  <2>9. CASE /\ pc \in {"marker", "prefix", "body"} /\ pc' = "defer"
             /\ runErr' \in {"fail", "cancel", "stop"} \/ (ctx' /\ UNCHANGED runErr)
    BY <1>0, <2>1, <2>9 DEF EndInv
  <2>10. CASE \/ pc = "defer" /\ pc' = "reap" /\ UNCHANGED <<runErr, ctx>>
              \/ pc = "reap" /\ pc' = "sweep" /\ UNCHANGED <<runErr, ctx>>
    <3>0. ctx' = ctx
      BY <2>10
    <3>1. ctx' <=> ctx
      BY <3>0, Zenon
    <3> QED BY <1>0, <2>1, <2>2, <2>10, <3>1 DEF EndInv
  <2> QED BY <1>2, <2>3, <2>4, <2>5, <2>6, <2>7, <2>8, <2>9, <2>10, PcStep
<1> QED BY <1>1, <1>2

\* The sweep kills what is left of the group, and nothing of it comes back.
LEMMA SweptStep ==
    ASSUME PipeTypeOK, SweptInv, AllNext
    PROVE  SweptInv'
<1>0. escaped' = escaped /\ Group \subseteq Procs /\ Group' = Group
  BY ShapeFixed DEF Group
<1>1. CASE Start
  BY <1>0, <1>1 DEF Start, SweptInv, GroupIsSwept, Alive
<1>2. CASE Sweep
  <2>1. pc' = "returned" /\ \A p \in Group : proc'[p] # "run"
    BY <1>0, <1>2, DieFacts DEF Sweep
  <2> QED BY <1>0, <2>1 DEF SweptInv, GroupIsSwept, Alive
<1>3. ASSUME ~Start, ~Sweep PROVE SweptInv'
  <2>1. \A p \in Procs : /\ proc'[p] = "none" <=> proc[p] = "none"
                         /\ proc[p] # "run" => proc'[p] = proc[p]
    BY <1>3, ProcsStep
  <2>2. (pc' = "start" => pc = "start") /\ (pc' = "returned" => pc = "returned")
    BY <1>3, PcStep DEF MarkerFails, Eof, Yield, Quit
  <2> QED BY <1>0, <2>1, <2>2 DEF SweptInv, GroupIsSwept, Alive
<1> QED BY <1>1, <1>2, <1>3

-----------------------------------------------------------------------------
\* The pipe source's inductive invariant holds in every reachable state,
\* whatever the command does and whenever the context is cancelled.
THEOREM PipeInvariant == Spec => []PipeInv
<1>1. Init => PipeInv
  <2> SUFFICES ASSUME Init PROVE PipeInv
    OBVIOUS
  <2>1. PipeTypeOK
    BY DEF Init, PipeTypeOK, Pcs, Units, Kinds
  <2>2. Stream = <<>> /\ Len(Stream) = 0
    BY DEF Init, Stream
  <2>3. StreamInv
    BY <2>2 DEF Init, StreamInv, Payload
  <2>4. ReaderInv
    BY <2>2 DEF Init, ReaderInv, ReadUpTo
  <2>5. BodyInv /\ SweptInv
    BY DEF Init, BodyInv, NoShortLedger, SweptInv, GroupIsSwept
  <2>6. BlameInv
    <3>1. ~ctx /\ ~deadline /\ rOpen
      BY Zenon DEF Init
    <3> QED BY <3>1, PipeFacts DEF Init, BlameInv, Reader, CancelIsNotFailure
  <2>7. EndInv
    BY DEF Init, EndInv, Started
  <2> QED BY <2>1, <2>3, <2>4, <2>5, <2>6, <2>7 DEF PipeInv
<1>2. PipeInv /\ [AllNext]_vars => PipeInv'
  <2> SUFFICES ASSUME PipeInv, AllNext \/ UNCHANGED vars PROVE PipeInv'
    OBVIOUS
  <2>1. CASE AllNext
    BY <2>1, PipeTypeStep, StreamStep, ReaderStep, BodyStep, BlameStep, EndStep, SweptStep DEF PipeInv
  <2>2. CASE UNCHANGED vars
    <3> USE DEF PipeInv
    <3>1. UNCHANGED <<ctx, deadline, proc, escaped, writer, fds, termed, wr, fault, pipe, br, rOpen, pc,
                      got, body, ledgers, runErr, watch>>
      BY <2>2 DEF vars, cmdVars, readVars
    <3>2. Stream' = Stream
      BY <3>1 DEF Stream
    <3>3. PipeTypeOK' /\ BodyInv' /\ SweptInv'
      BY <3>1 DEF PipeTypeOK, BodyInv, NoShortLedger, SweptInv, GroupIsSwept, Group, Alive
    <3>4. (fault' <=> fault) /\ (ctx' <=> ctx)
      BY <3>1, Zenon
    <3>5. StreamInv' /\ ReaderInv'
      BY <3>1, <3>2, <3>4 DEF StreamInv, ReaderInv, Reader, ReadUpTo, Payload, Follows
    <3>6. BlameInv'
      BY <3>1, BlameKept DEF Reader, BlameInv, CancelIsNotFailure
    <3>7. EndInv'
      BY <3>1, <3>4 DEF EndInv, Started, Reader, AllRead, AtBoundary
    <3> QED BY <3>3, <3>5, <3>6, <3>7
  <2> QED BY <2>1, <2>2
<1>3. Spec => Init /\ [][AllNext]_vars
  BY DEF Spec, AllNext
<1> QED BY <1>1, <1>2, <1>3, PTL

\* A body that ends is one whole frame, the frames come in order, and a
\* command that dies in the middle never reads as a shorter ledger
\* (pipesource.go:203), for any sizes, pipe capacity and interleaving.
THEOREM NeverAShortLedger == Spec => []NoShortLedger
<1>1. PipeInv => NoShortLedger
  BY DEF PipeInv, BodyInv
<1> QED BY <1>1, PipeInvariant, PTL

\* Run fails only over what the command did: no kill, cut frame or timed-out
\* read of a shutdown, at any moment, looks like a failure (pipesource.go:221).
THEOREM CancelIsNeverFailure == Spec => []CancelIsNotFailure
<1>1. PipeInv => CancelIsNotFailure
  BY DEF PipeInv, BlameInv
<1> QED BY <1>1, PipeInvariant, PTL

\* A range reported complete was: the command exited well and every frame it
\* wrote was read (pipesource.go:167).
THEOREM CleanIsComplete == Spec => []FailureIsNotClean
<1>1. PipeInv => FailureIsNotClean
  BY DEF PipeInv, EndInv, AllRead, FailureIsNotClean
<1> QED BY <1>1, PipeInvariant, PTL

\* No process of the command's group outlives the iterator, for any tree of
\* processes (pipesource.go:149).
THEOREM GroupIsAlwaysSwept == Spec => []GroupIsSwept
<1>1. PipeInv => GroupIsSwept
  BY DEF PipeInv, SweptInv
<1> QED BY <1>1, PipeInvariant, PTL
=============================================================================
