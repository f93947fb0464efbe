-------------------------------- MODULE Store -------------------------------
(***************************************************************************)
(* The on-disk retention ring (internal/store/store.go): one file per      *)
(* ledger, an in-memory [oldest, latest] under a read-write lock.          *)
(*                                                                         *)
(* put holds the write lock from its first step to its last, so Bounds and *)
(* the bounds check of Get never see an intermediate ring; the directory   *)
(* has no lock, so a file read runs between any two steps of a put.  Each  *)
(* system call that changes the directory is a step, and may fail.         *)
(***************************************************************************)
EXTENDS Wire, FiniteSets

CONSTANT Retention   \* ledgers the ring holds (--retention)

ASSUME RetentionAssumption == Retention \in Nat \ {0}

VARIABLES
    disk,   \* the directory: the ledger files by sequence, and their contents
    ring,   \* the in-memory index: oldest, latest, filled
    put     \* the call in progress: where it is, its arguments, its error

storeVars == <<disk, ring, put>>

PutPc == {"down", "idle", "clear", "write", "rename", "prune", "done"}
PutErr == {"none", "sequence", "clear", "write", "prune"}

StoreTypeOK ==
    /\ disk \in [DOMAIN disk -> Body]
    /\ DOMAIN disk \subseteq Seqs
    /\ ring \in [oldest : Seqs, latest : Seqs, filled : BOOLEAN]
    /\ put \in [pc : PutPc, op : {"put", "open"}, seq : Seqs, parts : Body,
                tmp : Body, at : Seqs, err : PutErr]

EmptyRing == [oldest |-> 0, latest |-> 0, filled |-> FALSE]
IdlePut == [pc |-> "idle", op |-> "put", seq |-> 0, parts |-> <<>>,
            tmp |-> <<>>, at |-> 0, err |-> "none"]

\* The store is free: no writer holds the lock, so readers may take it.
Unlocked == put.pc \in {"idle", "done"}

Remove(q) == disk' = [x \in DOMAIN disk \ {q} |-> disk[x]]

\* int(latest-oldest)+1, a uint32 difference.
RingSize == ((ring.latest - ring.oldest) % (MaxSeq + 1)) + 1

-----------------------------------------------------------------------------
\* Open: rescan the directory, then prune.  A gap between two files fails it.

\* ScanLedgerDir's test: the sequences, sorted, each follow the one before.
Contiguous(S) == \A p, q \in S : \A x \in p..q : x \in S

rescan ==
    IF DOMAIN disk = {}
    THEN ring' = EmptyRing
    ELSE ring' = [oldest |-> CHOOSE q \in DOMAIN disk : \A x \in DOMAIN disk : q <= x,
                  latest |-> CHOOSE q \in DOMAIN disk : \A x \in DOMAIN disk : x <= q,
                  filled |-> TRUE]

\* Mutant: a directory from a larger retention is not shrunk.
OpenWithoutPrune ==
    /\ put.pc = "down" /\ Contiguous(DOMAIN disk)
    /\ rescan /\ put' = IdlePut /\ UNCHANGED disk

Open ==
    /\ put.pc = "down"
    /\ Contiguous(DOMAIN disk)
    /\ rescan
    /\ put' = [IdlePut EXCEPT !.pc = "prune", !.op = "open"]
    /\ UNCHANGED disk

-----------------------------------------------------------------------------
\* put, from its checks to its return.

\* Mutant: a sequence that does not continue the ring is written beside it.
PutWithoutReset(seq, parts) ==
    /\ put.pc = "idle"
    /\ put' = [IdlePut EXCEPT !.pc = "write", !.seq = seq, !.parts = parts]
    /\ UNCHANGED <<disk, ring>>

PutParts(seq, parts) ==
    /\ put.pc = "idle"
    /\ put' = [pc |-> IF seq = 0 THEN "done"
                      ELSE IF ring.filled /\ seq # Succ(ring.latest) THEN "clear"
                      ELSE "write",
               op |-> "put", seq |-> seq, parts |-> parts, tmp |-> <<>>,
               at |-> ring.oldest,
               err |-> IF seq = 0 THEN "sequence" ELSE "none"]
    /\ UNCHANGED <<disk, ring>>

\* One iteration of clearLocked: unlink, and after the last one forget the range.
clearLocked ==
    /\ put.pc = "clear"
    /\ Remove(put.at)
    /\ IF put.at = ring.latest
       THEN /\ ring' = EmptyRing
            /\ put' = [put EXCEPT !.pc = "write"]
       ELSE /\ put' = [put EXCEPT !.at = Succ(@)]
            /\ UNCHANGED ring

\* Mutant: a short write goes unnoticed.
writeShort ==
    /\ put.pc = "write"
    /\ put' = [put EXCEPT !.pc = "rename", !.tmp = SubSeq(put.parts, 1, Len(put.parts) - 1)]
    /\ UNCHANGED <<disk, ring>>

\* The temporary file is filled, then renamed to its final name.
write ==
    /\ put.pc = "write"
    /\ put' = [put EXCEPT !.pc = "rename", !.tmp = put.parts]
    /\ UNCHANGED <<disk, ring>>

\* Mutants: the index moves but the file does not; it moves one too far.
renameSkipped ==
    /\ put.pc = "rename"
    /\ ring' = [ring EXCEPT !.latest = put.seq, !.filled = TRUE]
    /\ put' = [put EXCEPT !.pc = "prune"]
    /\ UNCHANGED disk

renameOnePast ==
    /\ put.pc = "rename"
    /\ ring' = [ring EXCEPT !.latest = put.seq + 1, !.filled = TRUE]
    /\ put' = [put EXCEPT !.pc = "prune"]
    /\ UNCHANGED disk

rename ==
    /\ put.pc = "rename"
    /\ disk' = [x \in DOMAIN disk \cup {put.seq} |-> IF x = put.seq THEN put.tmp ELSE disk[x]]
    /\ ring' = [oldest |-> IF ring.filled THEN ring.oldest ELSE put.seq,
                latest |-> put.seq,
                filled |-> TRUE]
    /\ put' = [put EXCEPT !.pc = "prune"]

\* pruneLocked: unlink the oldest while the ring holds more than Retention.
\* Open, which prunes too, leaves an idle store behind; put returns to its caller.
pruneLocked ==
    /\ put.pc = "prune"
    /\ IF ring.filled /\ RingSize > Retention
       THEN /\ Remove(ring.oldest)
            /\ ring' = [ring EXCEPT !.oldest = Succ(@)]
            /\ UNCHANGED put
       ELSE /\ put' = IF put.op = "open" THEN IdlePut ELSE [put EXCEPT !.pc = "done"]
            /\ UNCHANGED <<disk, ring>>

\* A system call fails: put returns its error, with what was done so far.  The
\* bounds keep the values they had, also when clearLocked already unlinked files.
Fail ==
    /\ put.pc \in {"clear", "write", "rename", "prune"}
    /\ put' = [put EXCEPT !.pc = IF put.op = "open" THEN "down" ELSE "done",
                          !.err = IF put.pc = "rename" THEN "write" ELSE put.pc]
    /\ UNCHANGED <<disk, ring>>

\* The caller takes put's result; err stays as the last result, for the record.
PutReturned ==
    /\ put.pc = "done"
    /\ put' = [IdlePut EXCEPT !.err = put.err]
    /\ UNCHANGED <<disk, ring>>

StoreStep == clearLocked \/ write \/ rename \/ pruneLocked \/ Fail

-----------------------------------------------------------------------------
\* Get, in its two halves: the bounds check under the read lock, and the read
\* of the file after it, which finds the file or does not.
InBounds(q) == ring.filled /\ ring.oldest <= q /\ q <= ring.latest
Exists(q) == q \in DOMAIN disk
=============================================================================
