---------------------------- MODULE LedgerStream ----------------------------
(***************************************************************************)
(* What the stream promises its consumers, with no server in sight: a      *)
(* source completes ledgers one after the other into a log and stops, well *)
(* or badly; a consumer names a range and is given its ledgers whole, in   *)
(* order and without gaps; and its iteration ends cleanly only when it has *)
(* all it asked for, or all there will ever be.                            *)
(***************************************************************************)
EXTENDS Integers, Sequences

CONSTANTS
    Consumers,
    Sequence,     \* ledger sequences, 0 for "none named"
    Bodies,       \* ledger bodies
    History(_)    \* the bodies earlier runs may have left for a ledger

VARIABLES
    log,      \* the ledgers completed, each [seq, body], in order
    status,   \* the source: "running", "ended" or "failed"
    want,     \* per consumer, its range <<from, to>>, <<>> before it asks
    got,      \* per consumer, the ledgers it was given
    over      \* per consumer: "no", "clean" or "error"

vars == <<log, status, want, got, over>>

Entry == [seq : Sequence, body : Bodies]

Init ==
    /\ log = <<>>
    /\ status = "running"
    /\ want = [c \in Consumers |-> <<>>]
    /\ got = [c \in Consumers |-> <<>>]
    /\ over = [c \in Consumers |-> "no"]

\* Completed ledgers are consecutive: only the last representable one may be
\* followed by something else, which no consumer is given.
CompleteLedger ==
    /\ status = "running"
    /\ Len(log') = Len(log) + 1
    /\ SubSeq(log', 1, Len(log)) = log
    /\ log'[Len(log')] \in Entry
    /\ log # <<>> /\ log'[Len(log')].seq # 0 => log'[Len(log')].seq = log[Len(log)].seq + 1
    /\ UNCHANGED <<status, want, got, over>>

Stop ==
    /\ status = "running"
    /\ status' \in {"ended", "failed"}
    /\ UNCHANGED <<log, want, got, over>>

Ask(c) ==
    /\ want[c] = <<>>
    /\ \E from, to \in Sequence : want' = [want EXCEPT ![c] = <<from, to>>]
    /\ UNCHANGED <<log, status, got, over>>

Active(c) == want[c] # <<>> /\ over[c] = "no"
Last(c) == got[c][Len(got[c])].seq
Follows(c, q) ==
    IF got[c] = <<>> THEN want[c][1] \in {0, q} ELSE q = Last(c) + 1

Available(e) == (\E i \in 1..Len(log) : log[i] = e) \/ e.body \in History(e.seq)

\* The next ledger, whole.  The iteration ends with it if it is the last one
\* wanted, and may if the consumer stops there.
Give(c) ==
    /\ Active(c)
    /\ Len(got'[c]) = Len(got[c]) + 1
    /\ got' = [got EXCEPT ![c] = Append(@, got'[c][Len(got'[c])])]
    /\ LET e == got'[c][Len(got'[c])] IN
         /\ e.seq # 0 /\ Follows(c, e.seq) /\ Available(e)
         /\ over' \in { [over EXCEPT ![c] = o] :
                          o \in {"error"} \cup
                                (IF want[c][2] # 0 /\ e.seq >= want[c][2] THEN {"clean"} ELSE {"no"}) }
    /\ UNCHANGED <<log, status, want>>

\* Nothing is left to give: an unbounded consumer has every completed ledger
\* from the first it wanted, and the source stopped without failing.
Exhausted(c) ==
    IF want[c][2] = 0
    THEN /\ status = "ended"
         /\ got[c] # <<>> => \A i \in 1..Len(log) : log[i].seq <= Last(c)
         /\ got[c] = <<>> /\ want[c][1] # 0 => \A i \in 1..Len(log) : log[i].seq < want[c][1]
    ELSE want[c][1] = 0 /\ got[c] = <<>>

EndClean(c) ==
    /\ Active(c)
    /\ Exhausted(c)
    /\ over' = [over EXCEPT ![c] = "clean"]
    /\ UNCHANGED <<log, status, want, got>>

EndWithError(c) ==
    /\ Active(c)
    /\ over' = [over EXCEPT ![c] = "error"]
    /\ UNCHANGED <<log, status, want, got>>

Next ==
    \/ CompleteLedger
    \/ Stop
    \/ \E c \in Consumers : Ask(c) \/ Give(c) \/ EndClean(c) \/ EndWithError(c)

Spec == Init /\ [][Next]_vars
=============================================================================
