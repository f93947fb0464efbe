---------------------------- MODULE Broadcaster -----------------------------
(***************************************************************************)
(* The watch over the in-flight ledger's chunk flow                        *)
(* (internal/server/broadcast.go).  Every method runs under b.mu, so each  *)
(* is one indivisible step.  Flow objects live on in the subscribers that  *)
(* pin them, so the model keeps all of them: b.cur is the last one.        *)
(***************************************************************************)
EXTENDS Wire

VARIABLES
    flows,     \* every flow begun, in order; the last is b.cur, none is nil
    notify,    \* the open notify channel: a number that grows on every wake
    ended,     \* finish has run; the channel "notify" is closed for good
    srcErr,    \* whether finish recorded a source failure
    panicked   \* a method was called in a state it panics in

bVars == <<flows, notify, ended, srcErr, panicked>>

Flow == [seq : Seqs, begin : BeginMsg, chunks : Seq(ChunkMsg), end : EndMsg \cup {NoMsg}]

BroadcasterTypeOK ==
    /\ flows \in Seq(Flow)
    /\ notify \in Nat
    /\ ended \in BOOLEAN
    /\ srcErr \in BOOLEAN
    /\ panicked \in BOOLEAN

newBroadcaster ==
    /\ flows = <<>>
    /\ notify = 0
    /\ ended = FALSE
    /\ srcErr = FALSE
    /\ panicked = FALSE

complete(f) == f.end # NoMsg
cur == flows[Len(flows)]
OpenFlow == flows # <<>> /\ ~complete(cur)

Panic ==
    /\ panicked' = TRUE
    /\ UNCHANGED <<flows, notify, ended, srcErr>>

\* Closing a closed channel panics, so waking after finish would.
wakeLocked ==
    /\ IF ended THEN panicked' = TRUE /\ UNCHANGED notify
                ELSE notify' = notify + 1 /\ UNCHANGED panicked
    /\ UNCHANGED <<ended, srcErr>>

begin(seq, beginMsg) ==
    IF ended \/ OpenFlow
    THEN Panic
    ELSE /\ flows' = Append(flows, [seq |-> seq, begin |-> beginMsg,
                                    chunks |-> <<>>, end |-> NoMsg])
         /\ wakeLocked

chunk(chunkMsg) ==
    IF ~OpenFlow
    THEN Panic
    ELSE /\ flows' = [flows EXCEPT ![Len(flows)].chunks = Append(@, chunkMsg)]
         /\ wakeLocked

\* Mutant: END is published without waking the watchers.
endWithoutWake(endMsg) ==
    /\ flows' = [flows EXCEPT ![Len(flows)].end = endMsg]
    /\ UNCHANGED <<notify, ended, srcErr, panicked>>

end(endMsg) ==
    IF ~OpenFlow
    THEN Panic
    ELSE /\ flows' = [flows EXCEPT ![Len(flows)].end = endMsg]
         /\ wakeLocked

\* Idempotent: the second call changes nothing.
finish(failed) ==
    /\ ended' = TRUE
    /\ srcErr' = IF ended THEN srcErr ELSE failed
    /\ UNCHANGED <<flows, notify, panicked>>

\* watch: the current flow's number (0 before the first begin) and sequence
\* (0 likewise), the notify channel and whether the stream is final.
snapSeq == IF flows = <<>> THEN 0 ELSE cur.seq
snapComplete == flows # <<>> /\ complete(cur)

\* Mutant: finish leaves the channel open.
ClosedByWakeOnly(c) == c # notify

\* A receive on channel c returns: it was closed by a later wake, or by finish.
Closed(c) == c # notify \/ ended
=============================================================================
