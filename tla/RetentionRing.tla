---------------------------- MODULE RetentionRing ---------------------------
(***************************************************************************)
(* The retention ring on its own: one writer that may put any sequence     *)
(* (the ring's contract covers gaps and rewinds), readers that Get while   *)
(* it does, and a process that may crash between any two steps and is      *)
(* restarted over whatever the directory then holds.                       *)
(***************************************************************************)
EXTENDS Store

CONSTANTS
    Readers,     \* concurrent Get calls
    Ranges,      \* directories found at start: contiguous sets of sequences
    PutSeqs,     \* the sequences the writer puts
    BodyLen,     \* units in every body
    MaxPuts,     \* bound: puts in one behaviour
    MaxCrashes   \* bound: crashes in one behaviour

ASSUME RangesAssumption ==
    /\ Ranges \subseteq SUBSET (Seqs \ {0})
    /\ \A S \in Ranges : Contiguous(S)
    /\ PutSeqs \subseteq Seqs
    /\ BodyLen \in Nat /\ MaxPuts \in Nat /\ MaxCrashes \in Nat

VARIABLES
    rd,       \* each reader: where it is, the ledger it wants, what it got
    acked,    \* history: the last ledger whose put returned nil, or 0
    dirty,    \* history: clearing or pruning failed since the store was opened
    puts,     \* puts so far
    crashes   \* crashes so far

ringVars == <<disk, ring, put, rd, acked, dirty, puts, crashes>>

Whole(origin, q) == [i \in 1..BodyLen |-> <<origin, q, i>>]

Idle == [pc |-> "idle", seq |-> 0, raw |-> <<>>]

Init ==
    /\ \E S \in Ranges : disk = [q \in S |-> Whole("old", q)]
    /\ ring = EmptyRing
    /\ put = [IdlePut EXCEPT !.pc = "down"]
    /\ rd = [r \in Readers |-> Idle]
    /\ acked = 0
    /\ dirty = FALSE
    /\ puts = 0
    /\ crashes = 0

\* A put that will reset the ring gives up what was acknowledged before it.
CallPut ==
    /\ puts < MaxPuts
    /\ \E q \in PutSeqs :
         /\ PutParts(q, Whole("live", q))
         /\ acked' = IF put'.pc = "clear" THEN 0 ELSE acked
    /\ puts' = puts + 1
    /\ UNCHANGED <<rd, dirty, crashes>>

PutStep ==
    /\ StoreStep
    /\ dirty' = (dirty \/ put'.err \in {"clear", "prune"})
    /\ UNCHANGED <<rd, acked, puts, crashes>>

ReturnPut ==
    /\ PutReturned
    /\ acked' = IF put.err = "none" THEN put.seq ELSE acked
    /\ UNCHANGED <<rd, dirty, puts, crashes>>

OpenStore ==
    /\ Open
    /\ dirty' = FALSE
    /\ UNCHANGED <<rd, acked, puts, crashes>>

\* Process death: the directory survives, memory and the readers do not.
Crash ==
    /\ crashes < MaxCrashes
    /\ put.pc # "down"
    /\ put' = [IdlePut EXCEPT !.pc = "down"]
    /\ ring' = EmptyRing
    /\ rd' = [r \in Readers |-> Idle]
    /\ crashes' = crashes + 1
    /\ UNCHANGED <<disk, acked, dirty, puts>>

\* Get's bounds check, under the read lock.
GetBounds(r) ==
    /\ rd[r].pc = "idle"
    /\ Unlocked
    /\ \E q \in PutSeqs :
         rd' = [rd EXCEPT ![r] = [pc |-> IF InBounds(q) THEN "read" ELSE "notRetained",
                                  seq |-> q, raw |-> <<>>]]
    /\ UNCHANGED <<disk, ring, put, acked, dirty, puts, crashes>>

\* Get's file read, with no lock held.
GetRead(r) ==
    /\ rd[r].pc = "read"
    /\ rd' = [rd EXCEPT ![r] = IF Exists(@.seq)
                               THEN [@ EXCEPT !.pc = "got", !.raw = disk[rd[r].seq]]
                               ELSE [@ EXCEPT !.pc = "notRetained"]]
    /\ UNCHANGED <<disk, ring, put, acked, dirty, puts, crashes>>

GetReturned(r) ==
    /\ rd[r].pc \in {"got", "notRetained"}
    /\ rd' = [rd EXCEPT ![r] = Idle]
    /\ UNCHANGED <<disk, ring, put, acked, dirty, puts, crashes>>

Next ==
    \/ CallPut
    \/ PutStep
    \/ ReturnPut
    \/ OpenStore
    \/ Crash
    \/ \E r \in Readers : GetBounds(r) \/ GetRead(r) \/ GetReturned(r)

Spec == Init /\ [][Next]_ringVars

-----------------------------------------------------------------------------
\* The files on disk form a contiguous range between any two system calls, a
\* put that resets the ring, a prune and a failed call included: Open's scan
\* (store.go:106), which refuses a gap, accepts whatever a crash leaves.
DiskContiguous == Contiguous(DOMAIN disk)

\* A Get that returns bytes returns the whole body some put stored under that
\* sequence: the temporary file and its rename (store.go:168) never let a
\* reader see half a ledger, nor another ledger's bytes.
GetIsWhole ==
    \A r \in Readers : rd[r].pc = "got" =>
        rd[r].raw \in {Whole("old", rd[r].seq), Whole("live", rd[r].seq)}

\* A put that returned nil is durable across process crashes: its ledger, or a
\* newer one that continues it and pruned it, is in the directory until a put
\* that breaks the sequence empties the ring.
AckedIsDurable ==
    acked # 0 => \E q \in DOMAIN disk : q >= acked

\* With no call in progress, and unless clearing or pruning has failed, the
\* index describes the directory exactly and within the retention count.
IndexMatchesDisk ==
    put.pc = "idle" /\ ~dirty =>
        /\ ring.filled <=> DOMAIN disk # {}
        /\ ring.filled => DOMAIN disk = ring.oldest..ring.latest
        /\ Cardinality(DOMAIN disk) <= Retention
=============================================================================
