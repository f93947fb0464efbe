---------------------------- MODULE RemoteLedger ----------------------------
(***************************************************************************)
(* The client (remoteledger/stream.go): it reassembles BEGIN/CHUNK/END     *)
(* into whole ledgers, checks each against its END and the sequence it     *)
(* expects, hands it to the consumer, and turns the end of the connection  *)
(* into what the consumer sees.  One message is one step.                  *)
(***************************************************************************)
EXTENDS Conn

VARIABLE cli   \* per subscriber, stream's local state and what it yielded

\* from, to: the range asked for (to 0: unbounded)
\* active..discarded: the assembly; expected, exhausted: the seqTracker
\* got: the ledgers yielded with what the observer saw; outcome: how it ended
\* oldest, latest: the bounds a TooFarBehindError carries
NotDialed == [from |-> 0, to |-> 0, active |-> FALSE, seq |-> 0, emitStart |-> 0,
              buf |-> <<>>, chunks |-> 0, discarded |-> 0, expected |-> 0,
              exhausted |-> FALSE, got |-> <<>>, outcome |-> "none",
              oldest |-> 0, latest |-> 0]

CliInit == cli = [s \in Subs |-> NotDialed]

SetCli(s, c) == cli' = [cli EXCEPT ![s] = c]

\* endpoint refuses the ranges the protocol has no room for.
endpoint(from, to) == from # MaxSeq /\ to # MaxSeq /\ (to # 0 => from <= to)

RawLedgers(s, from, to) ==
    /\ conn[s] = "none"
    /\ endpoint(from, to)
    /\ conn' = [conn EXCEPT ![s] = "open"]
    /\ SetCli(s, [NotDialed EXCEPT !.from = from, !.to = to, !.expected = from])
    /\ UNCHANGED net

-----------------------------------------------------------------------------
Reading(s) == conn[s] # "none" /\ cli[s].outcome = "none"
Arrives(s, type) == Reading(s) /\ net[s] # <<>> /\ Head(net[s]).type = type
Consume(s) == net' = [net EXCEPT ![s] = Tail(@)] /\ UNCHANGED conn

\* The iteration ends: CloseNow runs on every exit path, and the assembly and
\* what was still to be read go with it.
Ends(c, outcome) == [c EXCEPT !.outcome = outcome, !.active = FALSE, !.buf = <<>>]
CloseNow(s) == TakeDown(s) /\ net' = [net EXCEPT ![s] = <<>>]
Finished(s, outcome) == SetCli(s, Ends(cli[s], outcome)) /\ CloseNow(s)

\* seqTracker
accept(c, seq) == ~c.exhausted /\ (c.expected = 0 \/ seq = c.expected)
advance(c, seq) == [c EXCEPT !.exhausted = (seq = MaxSeq), !.expected = Succ(seq)]

RecvBegin(s) ==
    LET c == cli[s]
        m == Head(net[s])
        err == IF c.active THEN IF m.seq # c.seq THEN "protocol" ELSE "none"
                           ELSE IF accept(c, m.seq) THEN "none" ELSE "gap"
    IN
    /\ Arrives(s, "begin")
    /\ IF err # "none"
       THEN Finished(s, err)
       ELSE /\ SetCli(s, [c EXCEPT !.discarded = IF c.active THEN @ + 1 ELSE @,
                                   !.active = TRUE, !.seq = m.seq, !.emitStart = m.stamp,
                                   !.buf = <<>>, !.chunks = 0])
            /\ Consume(s)

RecvChunk(s) ==
    LET c == cli[s]
        m == Head(net[s])
        ok == /\ c.active /\ m.seq = c.seq
              /\ m.idx = c.chunks
              /\ Decodable(m)
              /\ Len(c.buf) + Len(Expand(m)) <= MaxPayload
    IN
    /\ Arrives(s, "chunk")
    /\ IF ~ok
       THEN Finished(s, "protocol")
       ELSE /\ SetCli(s, [c EXCEPT !.buf = @ \o Expand(m), !.chunks = @ + 1])
            /\ Consume(s)

\* What the consumer and its observer are given for one ledger.
LedgerInfo(c, m) ==
    [seq |-> m.seq, emitStart |-> c.emitStart, emitEnd |-> m.stamp,
     chunks |-> c.chunks, discarded |-> c.discarded, body |-> c.buf]

\* END: verify, yield, and stop when the range is complete or the consumer
\* stops pulling.
RecvEnd(s) ==
    LET c == cli[s]
        m == Head(net[s])
        ok == /\ c.active /\ m.seq = c.seq
              /\ m.count = c.chunks
              /\ m.total = Len(c.buf)
              /\ m.sum = Sum64(c.buf)
        d == [advance(c, m.seq) EXCEPT
                !.got = Append(@, LedgerInfo(c, m)),
                !.active = FALSE, !.discarded = 0, !.buf = <<>>]
    IN
    /\ Arrives(s, "end")
    /\ IF ~ok
       THEN Finished(s, "protocol")
       ELSE \/ SetCli(s, Ends(d, "stopped")) /\ CloseNow(s)
            \/ IF c.to # 0 /\ m.seq >= c.to
               THEN SetCli(s, Ends(d, "complete")) /\ CloseNow(s)
               ELSE SetCli(s, d) /\ Consume(s)

-----------------------------------------------------------------------------
\* Mutant: an orderly close is always the end of the story.
truncatedNever(c) == FALSE

\* The stream ended short of a bounded range.
truncated(c) == c.to # 0 /\ c.expected # 0 /\ c.expected <= c.to

classifyClose(c, m) ==
    CASE m.code \in {NormalClosure, GoingAway} ->
            IF c.active \/ truncated(c) THEN "truncated" ELSE "ok"
      [] m.code = TooFarBehind -> "toofar"
      [] OTHER -> "readerr"

RecvClose(s) ==
    LET m == Head(net[s]) IN
    /\ Arrives(s, "close")
    /\ SetCli(s, [Ends(cli[s], classifyClose(cli[s], m)) EXCEPT
                     !.oldest = m.oldest, !.latest = m.latest])
    /\ CloseNow(s)

\* The connection is down and the read fails, whatever was still in flight.
ReadError(s) ==
    /\ Reading(s)
    /\ conn[s] = "down"
    /\ Finished(s, "readerr")

\* The consumer's context is cancelled while a read is waiting.
Cancel(s) ==
    /\ Reading(s)
    /\ Finished(s, "stopped")

Receive(s) == RecvBegin(s) \/ RecvChunk(s) \/ RecvEnd(s) \/ RecvClose(s)
=============================================================================
