----------------------------- MODULE PacedSource ----------------------------
(***************************************************************************)
(* The paced source (internal/server/emit.go) over a complete-ledger       *)
(* stream: a dump directory replayed in a cycle (filesource.go) or         *)
(* fabricated ledgers (synthetic.go).  Emissions start on a grid of the    *)
(* cadence, and a body's bytes fall due linearly over the window.          *)
(*                                                                         *)
(* Time is an integer clock that moves between any two steps, so every     *)
(* step of the source, and of its consumer, may come late by any amount.   *)
(* A ledger is a sequence of units; the stream reuses one buffer for all.  *)
(***************************************************************************)
EXTENDS Integers, Sequences

CONSTANTS
    Records,      \* the sizes of the dump's records, in dump order
    SynthSize,    \* the size of a fabricated ledger
    ChunkSize,    \* what the consumer reads at once
    Cadences, Windows,   \* the schedules that may be asked for
    Ledgers,      \* the range's length; bound: where an unbounded one is cut
    MaxTime       \* bound: where the clock stops

ASSUME PacedAssumption ==
    /\ Records \in Seq(Nat) /\ Records # <<>>
    /\ {SynthSize, ChunkSize, Ledgers} \subseteq Nat \ {0}
    /\ Cadences \cup Windows \subseteq Nat

VARIABLES
    kind, cadence, window, bounded,   \* how the source is configured
    now,        \* the clock
    ctx,        \* the context is cancelled
    pc,         \* where the iterators, and the consumer in them, are
    seq,        \* the ledger being emitted, counted from 1
    record,     \* FileStream's place in the dump
    buf, len,   \* the stream's buffer, and how much of it is the ledger
    nextStart,  \* the grid's next start; Zero before the first
    off, started,   \* the body's offset, and the time of its first read
    got,        \* what the consumer read of the body
    starts, bodies, \* when each emission started, and the bodies read
    outcome     \* how the iteration ended

confVars == <<kind, cadence, window, bounded>>
streamVars == <<seq, record, buf, len>>
bodyVars == <<off, started, got>>
vars == <<confVars, now, ctx, pc, streamVars, nextStart, bodyVars, starts, bodies, outcome>>

Zero == -1

\* The window of a configuration that startup accepts fits its cadence.
Init ==
    /\ kind \in {"file", "synthetic"}
    /\ cadence \in Cadences /\ window \in Windows
    /\ cadence > 0 => window <= cadence
    /\ bounded \in BOOLEAN
    /\ now = 0 /\ ctx = FALSE /\ pc = "pull"
    /\ seq = 1 /\ record = 1 /\ buf = <<>> /\ len = 0
    /\ nextStart = Zero
    /\ off = 0 /\ started = Zero /\ got = <<>>
    /\ starts = <<>> /\ bodies = <<>>
    /\ outcome = "none"

Tick ==
    /\ now < MaxTime
    /\ now' = now + 1
    /\ UNCHANGED <<confVars, ctx, pc, streamVars, nextStart, bodyVars, starts, bodies, outcome>>

CancelCtx ==
    /\ ~ctx
    /\ ctx' = TRUE
    /\ UNCHANGED <<confVars, now, pc, streamVars, nextStart, bodyVars, starts, bodies, outcome>>

End(how) == pc' = "ended" /\ outcome' = how

-----------------------------------------------------------------------------
\* The complete-ledger streams.

\* The n-th ledger of a dump, and of the synthetic stream.
FileLedger(r) == [i \in 1..Records[r] |-> <<"record", r, i>>]
SyntheticPayload(n) == [i \in 1..SynthSize |-> <<"synthetic", n, i>>]

\* The units of new over the front of the old buffer, which grows if need be.
Overwrite(old, new) ==
    [i \in 1..(IF Len(new) > Len(old) THEN Len(new) ELSE Len(old)) |->
        IF i <= Len(new) THEN new[i] ELSE old[i]]

\* Mutant: the buffer is not cut to the record.
readIntoUncut(new) == buf' = Overwrite(buf, new) /\ len' = Len(buf')

readInto(new) == buf' = Overwrite(buf, new) /\ len' = Len(new)

\* The next pull of a source that was cancelled.
PullCancelled ==
    /\ ctx
    /\ End("cancel")
    /\ UNCHANGED <<buf, len>>

\* A record of the dump is read into the buffer, or cannot be read.
PullFile ==
    /\ ~ctx /\ kind = "file"
    /\ \/ End("fail") /\ UNCHANGED <<buf, len>>
       \/ readInto(FileLedger(record)) /\ pc' = "schedule" /\ UNCHANGED outcome

\* A ledger is fabricated in the buffer, which has its size from the start.
PullSynthetic ==
    /\ ~ctx /\ kind # "file"
    /\ buf' = SyntheticPayload(seq) /\ len' = SynthSize
    /\ pc' = "schedule" /\ UNCHANGED outcome

Pull ==
    /\ pc = "pull"
    /\ seq <= Ledgers
    /\ PullCancelled \/ PullFile \/ PullSynthetic
    /\ UNCHANGED <<confVars, now, ctx, seq, record, nextStart, bodyVars, starts, bodies>>

NextRecord == IF record + 1 > Len(Records) THEN 1 ELSE record + 1

\* The consumer is done with the body and pulls on: the range is complete, or
\* the next ledger follows.
Advance ==
    /\ pc = "drained"
    /\ IF bounded /\ seq = Ledgers THEN End("clean") /\ UNCHANGED <<seq, record>>
       ELSE /\ seq' = seq + 1
            /\ record' = NextRecord
            /\ pc' = "pull"
            /\ UNCHANGED outcome
    /\ UNCHANGED <<confVars, now, ctx, buf, len, nextStart, bodyVars, starts, bodies>>

-----------------------------------------------------------------------------
\* The grid.

\* sleepUntil: a deadline in the past returns at once, with the context's
\* error if there is one; else a timer or the context ends the sleep.
sleepUntil(deadline, then, sleep) ==
    IF deadline <= now
    THEN IF ctx THEN End("cancel") ELSE pc' = then /\ UNCHANGED outcome
    ELSE pc' = sleep /\ UNCHANGED outcome

\* Mutant: only the timer ends a sleep.
WakeByTimer(deadline, then) == deadline <= now /\ pc' = then /\ UNCHANGED outcome

Wake(deadline, then) ==
    \/ deadline <= now /\ pc' = then /\ UNCHANGED outcome
    \/ ctx /\ End("cancel")

Schedule ==
    /\ pc = "schedule"
    /\ IF cadence = 0 THEN pc' = "emit" /\ UNCHANGED <<nextStart, outcome>>
       ELSE /\ nextStart' = IF nextStart = Zero THEN now ELSE nextStart
            /\ sleepUntil(nextStart', "emit", "sleep")
    /\ UNCHANGED <<confVars, now, ctx, streamVars, bodyVars, starts, bodies>>

Sleep ==
    /\ pc = "sleep"
    /\ Wake(nextStart, "emit")
    /\ UNCHANGED <<confVars, now, ctx, streamVars, nextStart, bodyVars, starts, bodies>>

\* Mutant: the grid is kept whatever was overrun.
GridNext == nextStart + cadence

\* An overrun grid is anchored anew.
Reanchored == IF nextStart + cadence < now THEN now ELSE nextStart + cadence

\* The emission starts: the grid moves on, the body is reset and yielded.
Emit ==
    /\ pc = "emit"
    /\ nextStart' = IF cadence > 0 THEN Reanchored ELSE nextStart
    /\ off' = 0 /\ started' = Zero /\ got' = <<>>
    /\ starts' = Append(starts, now)
    /\ pc' = "read"
    /\ UNCHANGED <<confVars, now, ctx, streamVars, bodies, outcome>>

-----------------------------------------------------------------------------
\* The body, and its consumer.

Min2(a, b) == IF a < b THEN a ELSE b
Piece == Min2(ChunkSize, len - off)

\* Mutant: a piece is due when its first unit is.
DueAtFirst(start) == start + (window * off) \div len

\* A piece is due when its last unit is.
Due(start) == start + (window * (off + Piece)) \div len

\* Read: the first one starts the window; then a piece waits until it is due.
Read ==
    /\ pc = "read"
    /\ off < len
    /\ started' = IF started = Zero THEN now ELSE started
    /\ IF window = 0 THEN pc' = "copy" /\ UNCHANGED outcome
                     ELSE sleepUntil(Due(IF started = Zero THEN now ELSE started), "copy", "readsleep")
    /\ UNCHANGED <<confVars, now, ctx, streamVars, nextStart, off, got, starts, bodies>>

ReadSleep ==
    /\ pc = "readsleep"
    /\ Wake(Due(started), "copy")
    /\ UNCHANGED <<confVars, now, ctx, streamVars, nextStart, bodyVars, starts, bodies>>

Copy ==
    /\ pc = "copy"
    /\ got' = got \o SubSeq(buf, off + 1, off + Piece)
    /\ off' = off + Piece
    /\ pc' = "read"
    /\ UNCHANGED <<confVars, now, ctx, streamVars, nextStart, started, starts, bodies, outcome>>

\* The body's EOF.
Drain ==
    /\ pc = "read"
    /\ off >= len
    /\ bodies' = Append(bodies, got)
    /\ pc' = "drained"
    /\ UNCHANGED <<confVars, now, ctx, streamVars, nextStart, bodyVars, starts, outcome>>

\* The consumer gives up (yield returns false).
ConsumerStops ==
    /\ pc = "read"
    /\ End("stop")
    /\ UNCHANGED <<confVars, now, ctx, streamVars, nextStart, bodyVars, starts, bodies>>

-----------------------------------------------------------------------------
Source == Pull \/ Advance \/ Schedule \/ Sleep \/ Emit \/ Read \/ ReadSleep \/ Copy \/ Drain

Next == Source \/ ConsumerStops \/ Tick \/ CancelCtx

Spec == Init /\ [][Next]_vars

\* The source and its consumer go on.  Nothing is assumed of the clock.
FairSpec == Spec /\ WF_vars(Source)

-----------------------------------------------------------------------------
\* The body is being read.
InBody == pc \in {"read", "readsleep", "copy", "drained"}

\* The k-th body is the k-th ledger, whole: the buffer that all records share
\* never shows through (filesource.go:57), the dump is cycled record by record
\* (filesource.go:84), a reused body starts over (emit.go:131), and a range
\* that ended well was emitted to its last ledger (filesource.go:81).
BodiesAreLedgers ==
    /\ outcome = "clean" => Len(bodies) = Ledgers
    /\ \A k \in 1..Len(bodies) :
          bodies[k] = IF kind = "file" THEN FileLedger(((k - 1) % Len(Records)) + 1)
                                       ELSE SyntheticPayload(k)

\* "A hiccup that overran the grid must not be repaid as a burst"
\* (emit.go:80): whatever delays came before, no three emissions start within
\* one cadence.
NoBurst ==
    cadence > 0 =>
        \A k \in 1..Len(starts) - 2 : starts[k + 2] - starts[k] >= cadence

\* No unit is released before its time, to the last one at the window's close
\* (emit.go:112): the emission takes at least the window.
NeverEarly ==
    (InBody /\ window > 0 /\ off > 0) => now - started >= (window * off) \div len

\* A cancelled context ends the source without waiting for a sleep to run out
\* (emit.go:117), even if no time passes at all.
CancelEndsSleep == ctx ~> (pc = "ended" \/ seq > Ledgers)
=============================================================================
