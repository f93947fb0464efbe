-------------------------------- MODULE Serve -------------------------------
(***************************************************************************)
(* Server.serve (internal/server/server.go): one subscription, as a cursor *)
(* over the retention ring and the live chunk flow.                        *)
(*                                                                         *)
(* Each step takes the broadcaster's or the store's lock at most once, or  *)
(* writes one message.  What an iteration decides to write is queued in    *)
(* out and the cursor moved at once: next and live are local to serve, and *)
(* a write that fails ends the subscription, so nothing sees the           *)
(* difference.                                                             *)
(***************************************************************************)
EXTENDS Broadcaster, Store, Conn

VARIABLES
    sub,          \* per subscriber, serve's local state
    liveAbandons  \* live flows given up in favour of the ring

serveVars == <<sub, liveAbandons>>

\* next: the sequence the subscriber expects, a uint64, 0 while unanchored
\* f, begun, sent: the live flow the subscriber is inside and its progress
\* changed, ended: what the last watch returned
Off == [pc |-> "off", start |-> 0, end |-> 0, next |-> 0, f |-> 0, begun |-> FALSE,
        sent |-> 0, changed |-> 0, ended |-> FALSE, out |-> <<>>]

ServeInit ==
    /\ sub = [s \in Subs |-> Off]
    /\ liveAbandons = 0

Set(s, x) == sub' = [sub EXCEPT ![s] = x]

-----------------------------------------------------------------------------
\* A request: end 0 is an absent end, which leaves the range unbounded.
parseStreamRequest(start, last) ==
    /\ start # MaxSeq
    /\ last # MaxSeq
    /\ last # 0 => start <= last

Bounded(x) == x.end # 0

handleStream(s, start, last) ==
    /\ sub[s].pc = "off"
    /\ parseStreamRequest(start, last)
    /\ Set(s, [Off EXCEPT !.pc = IF start = 0 THEN "anchor" ELSE "watch",
                          !.start = start, !.end = last, !.next = start])
    /\ UNCHANGED liveAbandons

\* Queue messages to write; a close frame is the last of them.
Write(x, msgs) == [x EXCEPT !.pc = "write", !.out = msgs]
Close(x, code, oldest, latest) == Write(x, <<CloseMsg(code, oldest, latest)>>)

\* The ledger is served: next++, on a uint64, so one past MaxSeq is not 0.
Served(x) == [x EXCEPT !.next = @ + 1]

endedClose(x) ==
    IF Bounded(x) /\ x.next <= x.end THEN GoingAway ELSE NormalClosure

\* Mutant: a failed source closes like a finished one.
IdleIgnoringFailure(x) ==
    IF x.ended THEN Close(x, endedClose(x), 0, 0) ELSE [x EXCEPT !.pc = "sleep"]

\* Nothing to send: close if the watch saw the stream final, else sleep.
Idle(x) ==
    IF x.ended
    THEN Close(x, IF srcErr THEN InternalError ELSE endedClose(x), 0, 0)
    ELSE [x EXCEPT !.pc = "sleep"]

anchorTip(s) ==
    /\ sub[s].pc = "anchor"
    /\ Set(s, [sub[s] EXCEPT !.pc = "watch",
                             !.next = IF snapComplete /\ snapSeq # 0 THEN snapSeq + 1 ELSE snapSeq])
    /\ UNCHANGED liveAbandons

-----------------------------------------------------------------------------
\* The loop body up to its first ring access or write.  Watched(s) is the
\* local state once watch returned; an unanchored cursor takes its sequence.
Watched(s) ==
    [sub[s] EXCEPT !.next = IF @ = 0 THEN snapSeq ELSE @,
                   !.changed = notify, !.ended = ended]

RangeDone(x) == x.next # 0 /\ Bounded(x) /\ x.next > x.end
AtFlow(x) == x.next # 0 /\ x.next = snapSeq
Behind(x) == x.next # 0 /\ (x.next < snapSeq \/ snapSeq = 0)

ServeRangeDone(s) ==
    /\ sub[s].pc = "watch"
    /\ RangeDone(Watched(s))
    /\ Set(s, Close(Watched(s), NormalClosure, 0, 0))
    /\ UNCHANGED liveAbandons

\* Mutant: the late delivery keeps its END stamp.
StampedEndFlow(f) == <<AppendBegin(f.seq, 0)>> \o f.chunks \o <<f.end>>

\* The completed flow, to a subscriber that reached it too late to see it live.
StamplessFlow(f) ==
    <<AppendBegin(f.seq, 0)>> \o f.chunks
        \o <<AppendEnd(f.seq, f.end.count, f.end.total, 0, f.end.sum)>>

writeStamplessFlow(s) ==
    LET x == Watched(s) IN
    /\ sub[s].pc = "watch"
    /\ ~RangeDone(x)
    /\ AtFlow(x)
    /\ ~x.begun /\ snapComplete
    /\ Set(s, Served(Write(x, StamplessFlow(cur))))
    /\ UNCHANGED liveAbandons

\* The live flow: what this snapshot holds beyond what was sent.  A flow object
\* other than the one being written starts over from its BEGIN.
Fresh(x) == ~x.begun \/ x.f # Len(flows)
Unsent(x) ==
    (IF Fresh(x) THEN <<cur.begin>> ELSE <<>>)
        \o SubSeq(cur.chunks, IF Fresh(x) THEN 1 ELSE x.sent + 1, Len(cur.chunks))
        \o (IF snapComplete THEN <<cur.end>> ELSE <<>>)

LeaveFlow(x) == [x EXCEPT !.f = 0, !.begun = FALSE, !.sent = 0]

ServeLive(s) ==
    LET x == Watched(s) IN
    /\ sub[s].pc = "watch"
    /\ ~RangeDone(x)
    /\ AtFlow(x)
    /\ x.begun \/ ~snapComplete
    /\ Set(s, IF Unsent(x) = <<>> THEN Idle(x)
              ELSE IF snapComplete
              THEN Served(LeaveFlow(Write(x, Unsent(x))))
              ELSE [Write(x, Unsent(x)) EXCEPT !.f = Len(flows), !.begun = TRUE,
                                               !.sent = Len(cur.chunks)])
    /\ UNCHANGED liveAbandons

\* Mutant: an END that is published is enough.
OwedAnEnd(x) == x.begun /\ complete(flows[x.f])

\* The flow the subscriber is inside was replaced, and it lacks only the END.
OwedOnlyEnd(x) == x.begun /\ x.sent = Len(flows[x.f].chunks) /\ complete(flows[x.f])

ServePinnedEnd(s) ==
    LET x == Watched(s) IN
    /\ sub[s].pc = "watch"
    /\ ~RangeDone(x)
    /\ Behind(x)
    /\ OwedOnlyEnd(x)
    /\ Set(s, Served(LeaveFlow(Write(x, <<flows[x.f].end>>))))
    /\ UNCHANGED liveAbandons

\* Mutant: an abandoned flow is not counted.
ServeBehindUncounted(s) ==
    /\ sub[s].pc = "watch" /\ ~RangeDone(Watched(s))
    /\ Behind(Watched(s)) /\ ~OwedOnlyEnd(Watched(s))
    /\ Set(s, [LeaveFlow(Watched(s)) EXCEPT !.pc = "bounds"])
    /\ UNCHANGED liveAbandons

\* Behind the flow: abandon a live delivery in progress, then read the ring.
ServeBehind(s) ==
    LET x == Watched(s) IN
    /\ sub[s].pc = "watch"
    /\ ~RangeDone(x)
    /\ Behind(x)
    /\ ~OwedOnlyEnd(x)
    /\ Set(s, [LeaveFlow(x) EXCEPT !.pc = "bounds"])
    /\ liveAbandons' = IF x.begun THEN liveAbandons + 1 ELSE liveAbandons

\* Unanchored, or ahead of the flow.
ServeAhead(s) ==
    LET x == Watched(s) IN
    /\ sub[s].pc = "watch"
    /\ ~RangeDone(x)
    /\ ~AtFlow(x) /\ ~Behind(x)
    /\ Set(s, Idle(x))
    /\ UNCHANGED liveAbandons

-----------------------------------------------------------------------------
\* readRing: Bounds, then Get's bounds check, then the file, then, when the
\* ledger is not retained, Bounds again for the close reason.
ServeBounds(s) ==
    /\ sub[s].pc = "bounds"
    /\ Unlocked
    /\ Set(s, IF ~ring.filled \/ sub[s].next > ring.latest
              THEN Idle(sub[s])
              ELSE [sub[s] EXCEPT !.pc = "get"])
    /\ UNCHANGED liveAbandons

ServeGet(s) ==
    /\ sub[s].pc = "get"
    /\ Unlocked
    /\ Set(s, [sub[s] EXCEPT !.pc = IF InBounds(sub[s].next) THEN "read" ELSE "reason"])
    /\ UNCHANGED liveAbandons

\* writeRingFlow: the stored ledger, cut into chunks and encoded again.
RingFlow(seq, raw) ==
    <<AppendBegin(seq, 0)>>
        \o [i \in 1..Pieces(raw) |-> encodeChunk(seq, i - 1, Piece(raw, i))]
        \o <<AppendEnd(seq, Pieces(raw), Len(raw), 0, Sum64(raw))>>

ServeRead(s) ==
    LET q == sub[s].next IN
    /\ sub[s].pc = "read"
    /\ Set(s, IF Exists(q)
              THEN Served(Write(sub[s], RingFlow(q, disk[q])))
              ELSE [sub[s] EXCEPT !.pc = "reason"])
    /\ UNCHANGED liveAbandons

ServeReason(s) ==
    /\ sub[s].pc = "reason"
    /\ Unlocked
    /\ Set(s, Close(sub[s], TooFarBehind, ring.oldest, ring.latest))
    /\ UNCHANGED liveAbandons

-----------------------------------------------------------------------------
\* The next iteration: what the last watch returned is dead.
Again(x) == [x EXCEPT !.pc = "watch", !.out = <<>>, !.changed = 0, !.ended = FALSE]

\* One message onto the connection; then the next, the next iteration, or,
\* after a close frame, the end of the handler.
ServeWrite(s) ==
    LET x == sub[s] IN
    /\ x.pc = "write"
    /\ CanWrite(s)
    /\ Send(s, Head(x.out))
    /\ Set(s, IF Head(x.out).type = "close" THEN [Off EXCEPT !.pc = "closed"]
              ELSE IF Len(x.out) > 1 THEN [x EXCEPT !.out = Tail(@)]
              ELSE Again(x))
    /\ UNCHANGED liveAbandons

ServeWake(s) ==
    /\ sub[s].pc = "sleep"
    /\ Closed(sub[s].changed)
    /\ Set(s, Again(sub[s]))
    /\ UNCHANGED liveAbandons

\* The connection is torn down with no close handshake: a write failed or
\* timed out (chunkWriteTimeout), the peer left while serve slept, or the
\* ring's file could not be read.
ServeGone(s) ==
    /\ \/ sub[s].pc = "write" /\ (conn[s] = "down" \/ Blocked(s))
       \/ sub[s].pc = "sleep" /\ conn[s] = "down"
       \/ sub[s].pc = "read" /\ Exists(sub[s].next)
    /\ Set(s, [Off EXCEPT !.pc = "gone"])
    /\ TakeDown(s)
    /\ UNCHANGED <<net, liveAbandons>>

\* The steps of serve that neither read nor write the connection.
ServeLocal(s) ==
    \/ anchorTip(s) \/ ServeRangeDone(s) \/ writeStamplessFlow(s) \/ ServeLive(s)
    \/ ServePinnedEnd(s) \/ ServeBehind(s) \/ ServeAhead(s)
    \/ ServeBounds(s) \/ ServeGet(s) \/ ServeRead(s) \/ ServeReason(s)
    \/ ServeWake(s)
=============================================================================
