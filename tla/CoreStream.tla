----------------------------- MODULE CoreStream -----------------------------
(***************************************************************************)
(* The whole stream: the source loop, a serve loop and a client for each   *)
(* subscriber, over the shared broadcaster, retention ring and             *)
(* connections.                                                            *)
(***************************************************************************)
EXTENDS SourceLoop, Serve, RemoteLedger

CONSTANT Requests   \* the <<start, end>> pairs subscribers ask for; end 0: unbounded

ASSUME RequestsAssumption == Requests \subseteq Seqs \X Seqs

vars == <<sourceVars, connVars, serveVars, cli>>

Init ==
    /\ SourceInit
    /\ ConnInit
    /\ ServeInit
    /\ CliInit

Connect(s) ==
    /\ \E r \in Requests : RawLedgers(s, r[1], r[2]) /\ handleStream(s, r[1], r[2])
    /\ UNCHANGED sourceVars

Source == SourceNext /\ UNCHANGED <<connVars, serveVars, cli>>
ServeStep(s) == ServeLocal(s) /\ UNCHANGED <<sourceVars, connVars, cli>>
WriteStep(s) == ServeWrite(s) /\ UNCHANGED <<sourceVars, cli>>
GoneStep(s) == ServeGone(s) /\ UNCHANGED <<sourceVars, cli>>
ClientStep(s) == (Receive(s) \/ ReadError(s)) /\ UNCHANGED <<sourceVars, serveVars>>
ClientCancels(s) == Cancel(s) /\ UNCHANGED <<sourceVars, serveVars>>
NetworkDrops(s) == Drop(s) /\ UNCHANGED <<sourceVars, serveVars, cli>>

Over(s) == sub[s].pc \in {"closed", "gone"}

AllDone ==
    /\ pc = "done"
    /\ \A s \in Subs : Over(s) /\ cli[s].outcome # "none"
    /\ UNCHANGED vars

Next ==
    \/ Source
    \/ \E s \in Subs : \/ Connect(s)
                       \/ ServeStep(s) \/ WriteStep(s) \/ GoneStep(s)
                       \/ ClientStep(s) \/ ClientCancels(s) \/ NetworkDrops(s)
    \/ AllDone

Spec == Init /\ [][Next]_vars

\* Goroutines are scheduled, a put's system calls return, and a write either
\* finds room, fails, or times out.  Nothing is assumed of the source (it may
\* stall for ever), of the network, or of the consumer.
ServerFairness ==
    /\ WF_vars(Source /\ pc \in {"end", "put", "return"})
    /\ WF_vars(Publish /\ UNCHANGED <<connVars, serveVars, cli>>)
    /\ \A s \in Subs : /\ WF_vars(ServeStep(s))
                       /\ WF_vars(WriteStep(s) \/ GoneStep(s))

ServerSpec == Spec /\ ServerFairness

\* A consumer that keeps pulling.
KeepsPulling(s) == WF_vars(ClientStep(s))

-----------------------------------------------------------------------------
\* However the steps interleave, what serve sends is a stream the client
\* accepts: in sequence from the ledger asked for, each ledger's chunks
\* contiguous and matching its END, and a second BEGIN only for the ledger
\* being assembled.  The client's gap and protocol errors never fire.
NoProtocolError ==
    \A s \in Subs : cli[s].outcome \notin {"gap", "protocol"}

Got(s) == cli[s].got

\* A ledger is delivered with the bytes the source emitted for it and closed
\* with an END, or with those an earlier run left in the ring; and the ledgers
\* of one subscription are consecutive, from the one asked for.
DeliversWhatWasEmitted ==
    \A s \in Subs : \A k \in 1..Len(Got(s)) :
        /\ \/ \E i \in 1..Len(flows) :
                complete(flows[i]) /\ flows[i].seq = Got(s)[k].seq /\ flows[i].end.sum = Got(s)[k].body
           \/ Got(s)[k].body = << <<"old", Got(s)[k].seq, 1>> >>
        /\ Got(s)[k].seq = IF k = 1 /\ cli[s].from = 0 THEN Got(s)[1].seq
                           ELSE IF k = 1 THEN cli[s].from
                           ELSE Got(s)[k - 1].seq + 1

\* Stamps are honest: a delivery carries both stamps of one flow, or none, and
\* a ledger redelivered after a discarded partial carries none and was
\* discarded once only.
StampsAreHonest ==
    \A s \in Subs : \A k \in 1..Len(Got(s)) : LET g == Got(s)[k] IN
        /\ g.emitStart = g.emitEnd
        /\ g.emitStart # 0 => flows[g.emitStart].seq = g.seq
        /\ g.discarded > 0 => g.emitStart = 0
        /\ g.discarded <= 1

\* A discarded partial is a live flow the server abandoned: the ledgers a client
\* had to start over never outnumber the abandons the server counts.
DiscardsAreAbandons ==
    \A s \in Subs :
        Cardinality({k \in 1..Len(Got(s)) : Got(s)[k].discarded > 0}) + cli[s].discarded
            <= liveAbandons

\* A clean end is not a failure in disguise.  An unbounded consumer whose
\* iteration ends with no error has seen the stream final without a source
\* failure, holds every completed ledger from the first it asked for, and was
\* not promised one more; a bounded consumer that named a first ledger never
\* ends that way short of its range.
CleanEndIsHonest ==
    \A s \in Subs : LET c == cli[s] IN
        c.outcome = "ok" =>
            IF c.to = 0
            THEN /\ ended /\ runErr = "none"
                 /\ c.expected # 0 =>
                      /\ \A i \in 1..Len(flows) :
                           /\ flows[i].seq # c.expected
                           /\ complete(flows[i]) => flows[i].seq < c.expected
                      /\ flows = <<>> /\ ring.filled => c.expected > ring.latest
            ELSE c.from = 0 \/ c.expected > c.to

\* No wakeup is lost: a subscriber asleep on an open channel has been sent all
\* there is to send it.  It waits for the first ledger, is ahead of the flow
\* and, before the first flow, of the ring, or is inside the open flow with
\* every chunk sent.  Behind the flow it sleeps only during a run's first
\* ledger, over a ring that does not hold the one it wants.
NoLostWakeup ==
    \A s \in Subs : LET x == sub[s] IN
        x.pc = "sleep" /\ ~Closed(x.changed) =>
            \/ x.next = 0 /\ snapSeq = 0
            \/ x.next > snapSeq /\ (snapSeq = 0 => ~InBounds(x.next))
            \/ x.next < snapSeq /\ Len(flows) = 1 /\ ~Exists(x.next)
            \/ x.next = snapSeq /\ OpenFlow /\ x.begun /\ x.f = Len(flows)
                 /\ x.sent = Len(cur.chunks)

\* A subscriber closed as too far behind really asked for a ledger older than
\* the retained range its close reason names.
TooFarBehindMeansOlder ==
    \A s \in Subs : cli[s].outcome = "toofar" => cli[s].expected < cli[s].oldest

-----------------------------------------------------------------------------
\* When the source loop is over every subscription ends, whatever its client
\* does: the writer's timeout gets serve past a client that stopped reading.
SubscriptionsEnd ==
    \A s \in Subs : ended /\ sub[s].pc # "off" ~> Over(s)

\* A consumer that keeps pulling gets every completed ledger it waits for, or
\* its iteration ends.
Delivered ==
    \A s \in Subs : KeepsPulling(s) => \A q \in Seqs \ {0} :
        (\E i \in 1..Len(flows) : complete(flows[i]) /\ flows[i].seq = q) /\ cli[s].expected = q
            ~> cli[s].expected # q \/ cli[s].outcome # "none"

-----------------------------------------------------------------------------
\* The abstract stream this implements: the log is the completed flows, and a
\* consumer's end is clean when its iteration yields no error.
CompletedFlows == IF OpenFlow THEN Len(flows) - 1 ELSE Len(flows)
CompletedLog == [i \in 1..CompletedFlows |-> [seq |-> flows[i].seq, body |-> flows[i].end.sum]]
SourceStatus == IF ~ended THEN "running" ELSE IF srcErr THEN "failed" ELSE "ended"
AskedFor == [s \in Subs |-> IF conn[s] = "none" THEN <<>> ELSE <<cli[s].from, cli[s].to>>]
GivenTo == [s \in Subs |-> [k \in 1..Len(Got(s)) |-> [seq |-> Got(s)[k].seq, body |-> Got(s)[k].body]]]
EndOf == [s \in Subs |-> CASE cli[s].outcome = "none" -> "no"
                            [] cli[s].outcome \in {"ok", "complete"} -> "clean"
                            [] OTHER -> "error"]

Abstract == INSTANCE LedgerStream WITH
    Consumers <- Subs,
    Sequence <- Seqs,
    Bodies <- Body,
    History <- LAMBDA q : {<< <<"old", q, 1>> >>},
    log <- CompletedLog,
    status <- SourceStatus,
    want <- AskedFor,
    got <- GivenTo,
    over <- EndOf

\* The server, its ring and its client together implement that stream: every
\* step of any of them is a step of it, or leaves it as it was.
ImplementsLedgerStream == Abstract!Spec
=============================================================================
