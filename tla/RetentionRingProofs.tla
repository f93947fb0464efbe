------------------------ MODULE RetentionRingProofs -------------------------
(***************************************************************************)
(* Proofs about the retention ring on its own: any puts, failures at any   *)
(* system call, crashes and concurrent readers, for every width, retention *)
(* and number of readers.                                                  *)
(*                                                                         *)
(* A failed clear leaves files missing at the front of the range the index *)
(* still names, so the index is not the directory.  What survives every    *)
(* failure is weaker, and enough: the directory is a range that ends where *)
(* the index says (Suffix), so the next ledger extends it and pruning eats *)
(* it from the front.                                                      *)
(***************************************************************************)
EXTENDS RetentionRing, WireProofs, FiniteSetTheorems

Files == DOMAIN disk

\* The directory is empty or a range.
FilesAreRange == Files = {} \/ \E lo, hi \in Seqs : lo <= hi /\ Files = lo..hi

\* An open store's index: nothing, over an empty directory, or a range whose
\* end is the directory's.
Suffix ==
    IF ring.filled
    THEN \E lo \in Seqs : /\ ring.oldest <= lo /\ lo <= ring.latest
                          /\ Files = lo..ring.latest
                          /\ put.pc = "clear" => put.at <= lo
    ELSE Files = {}

\* Unless clearing or pruning has failed, the index is the directory; while
\* the ring is cleared, from the file that goes next.
Exact ==
    ring.filled => /\ ring.oldest <= ring.latest
                   /\ Files = (IF put.pc = "clear" THEN put.at ELSE ring.oldest)..ring.latest

Short == ring.filled => ring.latest - ring.oldest < Retention

\* The ring, by the step put has reached.
RangeInv ==
    /\ 0 \notin Files
    /\ FilesAreRange
    /\ put.pc # "down" => Suffix /\ (~dirty => Exact)
    /\ put.pc \notin {"down", "prune"} /\ ~dirty => Short
    /\ put.pc = "clear" => ring.filled /\ ring.oldest <= put.at /\ put.at <= ring.latest /\ acked = 0
    /\ put.pc \in {"clear", "write", "rename"} => put.seq # 0 /\ put.op = "put"
    /\ put.pc \in {"write", "rename"} => (ring.filled => put.seq = Succ(ring.latest))
    /\ put.pc = "prune" /\ put.op = "put" => ring.filled /\ ring.latest = put.seq
    /\ put.pc = "done" /\ put.err = "none" => ring.filled /\ ring.latest = put.seq

Wholes(q) == {Whole("old", q), Whole("live", q)}

\* Every file, and the one being written, is a whole ledger.
BodyInv ==
    /\ \A q \in Files : disk[q] \in Wholes(q)
    /\ put.pc \in {"clear", "write", "rename"} => put.parts = Whole("live", put.seq)
    /\ put.pc = "rename" => put.tmp = put.parts

ReaderPc == {"idle", "read", "got", "notRetained"}

RingTypeOK ==
    /\ StoreTypeOK
    /\ rd \in [Readers -> [pc : ReaderPc, seq : Seqs, raw : Body]]
    /\ acked \in Seqs
    /\ dirty \in BOOLEAN

RingInv == RingTypeOK /\ RangeInv /\ BodyInv /\ GetIsWhole /\ AckedIsDurable

-----------------------------------------------------------------------------
\* Facts about the store's operators: uint32 arithmetic, and the types through
\* a put.

\* The uint32 difference pruneLocked computes is the plain one on a range.
LEMMA RingSizeFacts ==
    ASSUME ring.oldest \in Seqs, ring.latest \in Seqs, ring.oldest <= ring.latest
    PROVE  RingSize = ring.latest - ring.oldest + 1
<1>1. /\ MaxSeq \in Nat /\ ring.oldest \in Nat /\ ring.latest \in Nat
      /\ ring.latest - ring.oldest \in Nat /\ ring.latest - ring.oldest <= MaxSeq
  BY WireAssumption DEF Seqs
<1>2. \A a, m \in Nat : a <= m => a % (m + 1) = a
  OBVIOUS
<1> QED BY <1>1, <1>2 DEF RingSize

\* The empty index is well typed.
LEMMA EmptyRingType == EmptyRing \in [oldest : Seqs, latest : Seqs, filled : BOOLEAN]
<1>1. 0 \in Seqs
  BY WireAssumption DEF Seqs
<1> QED BY <1>1, Zenon DEF EmptyRing

\* Each step of put keeps the store well typed.
LEMMA StoreTypeStep ==
    ASSUME StoreTypeOK
    PROVE  /\ StoreStep => StoreTypeOK'
           /\ PutReturned => StoreTypeOK'
           /\ \A q \in Seqs, b \in Body : PutParts(q, b) => StoreTypeOK'
<1> USE DEF StoreTypeOK, PutPc, PutErr
<1>0. 0 \in Seqs /\ <<>> \in Body
  BY WireAssumption DEF Seqs, Body
<1>1. clearLocked => StoreTypeOK'
  BY SuccFacts, EmptyRingType DEF clearLocked, Remove
<1>2. write => StoreTypeOK'
  BY DEF write
<1>3. rename => StoreTypeOK'
  BY DEF rename
<1>4. pruneLocked => StoreTypeOK'
  BY <1>0, SuccFacts DEF pruneLocked, Remove, IdlePut
<1>5. Fail => StoreTypeOK'
  BY DEF Fail
<1>6. PutReturned => StoreTypeOK'
  BY <1>0 DEF PutReturned, IdlePut
<1>7. \A q \in Seqs, b \in Body : PutParts(q, b) => StoreTypeOK'
  BY <1>0 DEF PutParts
<1> QED BY <1>1, <1>2, <1>3, <1>4, <1>5, <1>6, <1>7 DEF StoreStep

-----------------------------------------------------------------------------
\* A contiguous set of sequences is empty or a range: what Open accepts.
LEMMA ContiguousIsRange ==
    ASSUME NEW S, S \subseteq Seqs, Contiguous(S), S # {}
    PROVE  \E lo, hi \in Seqs : lo <= hi /\ S = lo..hi
<1>1. MaxSeq \in Nat /\ \A x \in S : x \in Nat /\ x <= MaxSeq
  BY WireAssumption DEF Seqs
<1>2. PICK lo \in S : \A y \in S : lo <= y
  BY <1>1, LeastNat
<1> DEFINE T == {MaxSeq - x : x \in S}
<1>3. T \subseteq Nat /\ T # {}
  BY <1>1
<1>4. PICK t \in T : \A y \in T : t <= y
  BY <1>3, LeastNat
<1>5. PICK hi \in S : t = MaxSeq - hi
  BY <1>4
<1>6. ASSUME NEW y \in S PROVE y <= hi
  <2>1. t <= MaxSeq - y
    BY <1>4
  <2> QED BY <1>1, <1>5, <2>1
<1>7. S = lo..hi
  <2>1. \A x \in S : x \in lo..hi
    BY <1>1, <1>2, <1>6
  <2>2. \A x \in lo..hi : x \in S
    BY DEF Contiguous
  <2> QED BY <2>1, <2>2
<1> QED BY <1>1, <1>2, <1>6, <1>7

\* Any range is contiguous.
LEMMA RangeIsContiguous ==
    ASSUME NEW lo \in Int, NEW hi \in Int
    PROVE  Contiguous(lo..hi)
BY DEF Contiguous

\* Open finds the ends of the range.
LEMMA RescanFindsEnds ==
    ASSUME NEW lo \in Seqs, NEW hi \in Seqs, lo <= hi, Files = lo..hi, rescan
    PROVE  ring'.oldest = lo /\ ring'.latest = hi /\ ring'.filled
<1>1. lo \in Nat /\ hi \in Nat /\ lo \in Files /\ hi \in Files /\ Files # {}
  BY DEF Seqs
<1> DEFINE first == CHOOSE q \in DOMAIN disk : \A x \in DOMAIN disk : q <= x
           last == CHOOSE q \in DOMAIN disk : \A x \in DOMAIN disk : x <= q
<1>2. first \in Files /\ \A x \in Files : first <= x
  <2>1. \A x \in Files : lo <= x
    BY <1>1
  <2> QED BY <1>1, <2>1 DEF Files
<1>3. last \in Files /\ \A x \in Files : x <= last
  <2>1. \A x \in Files : x <= hi
    BY <1>1
  <2> QED BY <1>1, <2>1 DEF Files
<1>4. ring' = [oldest |-> first, latest |-> last, filled |-> TRUE]
  BY <1>1 DEF rescan, Files
<1> HIDE DEF first, last
<1>5. first = lo /\ last = hi
  BY <1>1, <1>2, <1>3
<1>6. ring'.oldest = first /\ ring'.latest = last /\ ring'.filled
  BY <1>4
<1> QED BY <1>5, <1>6

-----------------------------------------------------------------------------
\* The bodies the writer puts, and the ones found at start, are bodies.
LEMMA WholeIsBody ==
    ASSUME NEW q \in Seqs, NEW origin \in {"old", "live"}
    PROVE  Whole(origin, q) \in Body
BY RangesAssumption DEF Whole, Body, Unit

\* The invariant holds over any directory the store may be started on.
LEMMA RingInvInit == Init => RingInv
<1> SUFFICES ASSUME Init PROVE RingInv
  OBVIOUS
<1>1. PICK S \in Ranges : disk = [q \in S |-> Whole("old", q)]
  BY DEF Init
<1>2. Files = S /\ S \subseteq Seqs /\ 0 \notin S /\ Contiguous(S)
  BY <1>1, RangesAssumption DEF Files
<1>3. 0 \in Seqs /\ <<>> \in Body
  BY WireAssumption DEF Seqs, Body
<1>4. \A q \in S : Whole("old", q) \in Body
  BY <1>2, WholeIsBody
<1>5. RingTypeOK
  <2>1. disk \in [DOMAIN disk -> Body] /\ DOMAIN disk \subseteq Seqs
    BY <1>1, <1>2, <1>4 DEF Files
  <2>2. put \in [pc : PutPc, op : {"put", "open"}, seq : Seqs, parts : Body,
                 tmp : Body, at : Seqs, err : PutErr]
    BY <1>3 DEF Init, IdlePut, PutPc, PutErr
  <2>3. rd \in [Readers -> [pc : ReaderPc, seq : Seqs, raw : Body]]
    BY <1>3 DEF Init, Idle, ReaderPc
  <2>4. acked \in Seqs /\ dirty \in BOOLEAN
    BY <1>3, Zenon DEF Init
  <2> QED BY <2>1, <2>2, <2>3, <2>4, EmptyRingType DEF RingTypeOK, StoreTypeOK, Init
<1>6. put.pc = "down"
  BY DEF Init, IdlePut
<1>7. RangeInv
  <2>1. FilesAreRange
    BY <1>2, ContiguousIsRange DEF FilesAreRange
  <2> QED BY <1>2, <1>6, <2>1 DEF RangeInv
<1>8. BodyInv
  BY <1>1, <1>2, <1>6 DEF BodyInv, Wholes
<1>9. GetIsWhole /\ AckedIsDurable
  BY DEF Init, GetIsWhole, AckedIsDurable, Idle
<1> QED BY <1>5, <1>7, <1>8, <1>9 DEF RingInv

\* A put that starts: nothing on disk changes, and one that breaks the
\* sequence gives up what was acknowledged.
LEMMA CallPutStep ==
    ASSUME RingInv, CallPut
    PROVE  RingInv'
<1>1. PICK q \in PutSeqs : /\ PutParts(q, Whole("live", q))
                           /\ acked' = IF put'.pc = "clear" THEN 0 ELSE acked
  BY DEF CallPut
<1>2. q \in Seqs /\ Whole("live", q) \in Body
  BY RangesAssumption, WholeIsBody
<1>3. UNCHANGED <<disk, ring, rd, dirty>> /\ put.pc = "idle"
  BY <1>1 DEF CallPut, PutParts
<1>4. 0 \in Seqs
  BY WireAssumption DEF Seqs
<1>5. RingTypeOK'
  <2>1. StoreTypeOK'
    BY <1>1, <1>2, StoreTypeStep DEF RingInv, RingTypeOK
  <2>2. acked' \in Seqs
    BY <1>1, <1>4 DEF RingInv, RingTypeOK
  <2> QED BY <1>3, <2>1, <2>2 DEF RingInv, RingTypeOK
<1>6. /\ put'.seq = q /\ put'.op = "put" /\ put'.at = ring.oldest /\ put'.parts = Whole("live", q)
      /\ put'.pc \in {"done", "clear", "write"}
      /\ put'.pc = "done" => put'.err = "sequence"
      /\ put'.pc # "done" => q # 0
      /\ put'.pc = "clear" => ring.filled
      /\ put'.pc = "write" => (ring.filled => q = Succ(ring.latest))
  BY <1>1, <1>3 DEF PutParts
<1>7. RangeInv'
  <2>1. RangeInv /\ Suffix /\ (~dirty => Exact /\ Short)
    BY <1>3 DEF RingInv, RangeInv
  <2>2. (0 \notin Files /\ FilesAreRange)'
    BY <1>3, <2>1 DEF RangeInv, FilesAreRange, Files
  <2>3. Suffix'
    BY <1>3, <1>6, <2>1 DEF Suffix, Files
  <2>4. ~dirty' => Exact' /\ Short'
    BY <1>3, <1>6, <2>1 DEF Exact, Short, Files
  <2>5. put'.pc = "clear" => /\ ring'.filled /\ ring'.oldest <= put'.at
                             /\ put'.at <= ring'.latest /\ acked' = 0
    <3> SUFFICES ASSUME put'.pc = "clear" PROVE ring'.oldest <= put'.at /\ put'.at <= ring'.latest
      BY <1>1, <1>3, <1>6
    <3>1. ring.oldest \in Nat /\ ring.latest \in Nat
      BY WireAssumption DEF RingInv, RingTypeOK, StoreTypeOK, Seqs
    <3>2. PICK lo \in Seqs : ring.oldest <= lo /\ lo <= ring.latest
      BY <1>6, <2>1 DEF Suffix
    <3>3. lo \in Nat
      BY DEF Seqs
    <3> QED BY <1>3, <1>6, <3>1, <3>2, <3>3
  <2> QED BY <1>3, <1>6, <2>2, <2>3, <2>4, <2>5 DEF RangeInv
<1>8. BodyInv'
  BY <1>3, <1>6 DEF RingInv, BodyInv, Wholes, Whole, Files
<1>9. GetIsWhole' /\ AckedIsDurable'
  BY <1>1, <1>3 DEF RingInv, GetIsWhole, AckedIsDurable
<1> QED BY <1>5, <1>7, <1>8, <1>9 DEF RingInv

\* The facts every step of a put needs.
LEMMA RingFacts ==
    ASSUME RingInv
    PROVE  /\ ring.oldest \in Nat /\ ring.latest \in Nat /\ put.at \in Nat /\ put.seq \in Nat
           /\ ring.oldest \in Seqs /\ ring.latest \in Seqs /\ put.at \in Seqs /\ put.seq \in Seqs
           /\ \A q \in Seqs : q \in Nat /\ q <= MaxSeq
           /\ MaxSeq \in Nat /\ Files \subseteq Seqs
BY WireAssumption DEF RingInv, RingTypeOK, StoreTypeOK, Seqs, Files

\* Removing a file leaves the others as they were.
LEMMA RemoveKeeps ==
    ASSUME NEW q, Remove(q)
    PROVE  Files' = Files \ {q} /\ \A x \in Files' : disk'[x] = disk[x]
BY DEF Remove, Files

\* Unlinking one file of a reset: the ones left are the tail of the range,
\* and after the last the directory is empty and the index says so.
LEMMA ClearStep ==
    ASSUME RingInv, clearLocked, UNCHANGED <<rd, acked>>, dirty' = (dirty \/ put'.err \in {"clear", "prune"})
    PROVE  RingInv'
<1>1. RingTypeOK'
  <2>1. StoreTypeOK'
    BY StoreTypeStep DEF RingInv, RingTypeOK, StoreStep
  <2>2. dirty' \in BOOLEAN
    BY Zenon
  <2> QED BY <2>1, <2>2 DEF RingInv, RingTypeOK
<1>2. RangeInv
  BY DEF RingInv
<1>3. /\ put.pc = "clear" /\ ring.filled /\ acked = 0 /\ put.seq # 0 /\ put.op = "put"
      /\ ring.oldest <= put.at /\ put.at <= ring.latest
  BY <1>2 DEF clearLocked, RangeInv
<1>4. PICK lo \in Seqs : /\ ring.oldest <= lo /\ lo <= ring.latest
                         /\ Files = lo..ring.latest /\ put.at <= lo
  BY <1>2, <1>3 DEF RangeInv, Suffix
<1>5. Files' = Files \ {put.at} /\ \A x \in Files' : disk'[x] = disk[x]
  BY RemoveKeeps DEF clearLocked
<1>6. put'.seq = put.seq /\ put'.op = put.op /\ put'.parts = put.parts /\ put'.err = put.err
  BY DEF clearLocked, RingInv, RingTypeOK, StoreTypeOK
<1>7. ~dirty' => ~dirty
  BY Zenon
<1>8. RangeInv'
  <2>1. 0 \notin Files'
    BY <1>2, <1>5 DEF RangeInv
  <2>2. CASE put.at = ring.latest
    <3>1. Files' = {}
      BY <1>4, <1>5, <2>2, RingFacts
    <3>2. put'.pc = "write" /\ ~ring'.filled
      BY <2>2 DEF clearLocked, EmptyRing, RingInv, RingTypeOK, StoreTypeOK
    <3> QED BY <1>3, <1>6, <2>1, <3>1, <3>2 DEF RangeInv, FilesAreRange, Suffix, Exact, Short
  <2>3. CASE put.at # ring.latest
    <3>1. put'.pc = "clear" /\ put'.at = put.at + 1 /\ put.at + 1 \in Seqs /\ ring' = ring
      <4>1. Succ(put.at) = put.at + 1 /\ Succ(put.at) \in Seqs
        BY <1>3, <2>3, RingFacts, SuccFacts
      <4>2. put'.pc = "clear" /\ put'.at = Succ(put.at) /\ ring' = ring
        BY <1>3, <2>3 DEF clearLocked, RingInv, RingTypeOK, StoreTypeOK
      <4> QED BY <4>1, <4>2
    <3>2. \E l \in Seqs : /\ ring.oldest <= l /\ l <= ring.latest
                          /\ Files' = l..ring.latest /\ put.at + 1 <= l
      <4>1. CASE lo = put.at
        <5>1. Files' = (lo + 1)..ring.latest
          BY <1>4, <1>5, <4>1, RingFacts
        <5> QED BY <1>3, <1>4, <2>3, <3>1, <4>1, <5>1, RingFacts
      <4>2. CASE lo # put.at
        <5>1. Files' = Files
          BY <1>3, <1>4, <1>5, <4>2, RingFacts
        <5> QED BY <1>3, <1>4, <4>2, <5>1, RingFacts
      <4> QED BY <4>1, <4>2
    <3>3. Suffix' /\ FilesAreRange'
      BY <1>3, <3>1, <3>2, RingFacts DEF Suffix, FilesAreRange
    <3>4. ~dirty => Exact' /\ Short'
      <4> SUFFICES ASSUME ~dirty PROVE Exact' /\ Short'
        OBVIOUS
      <4>1. Files = put.at..ring.latest /\ Short /\ ring.oldest <= ring.latest
        BY <1>2, <1>3 DEF RangeInv, Exact
      <4>2. Files' = (put.at + 1)..ring.latest
        BY <1>5, <4>1, RingFacts
      <4> QED BY <3>1, <4>1, <4>2 DEF Exact, Short
    <3>5. ring'.oldest <= put'.at /\ put'.at <= ring'.latest
      BY <1>3, <2>3, <3>1, RingFacts
    <3> QED BY <1>3, <1>6, <1>7, <2>1, <3>1, <3>3, <3>4, <3>5 DEF RangeInv
  <2> QED BY <2>2, <2>3
<1>9. BodyInv'
  <2>1. put'.pc \in {"clear", "write"}
    BY <1>3 DEF clearLocked, RingInv, RingTypeOK, StoreTypeOK
  <2> QED BY <1>3, <1>5, <1>6, <2>1 DEF RingInv, BodyInv, Wholes, Whole
<1>10. GetIsWhole' /\ AckedIsDurable'
  BY <1>3 DEF RingInv, GetIsWhole, AckedIsDurable
<1> QED BY <1>1, <1>8, <1>9, <1>10 DEF RingInv

\* Filling the temporary file: nothing that has a final name changes.
LEMMA WriteStep ==
    ASSUME RingInv, write, UNCHANGED <<rd, acked>>, dirty' = (dirty \/ put'.err \in {"clear", "prune"})
    PROVE  RingInv'
<1>1. RingTypeOK'
  <2>1. StoreTypeOK'
    BY StoreTypeStep DEF RingInv, RingTypeOK, StoreStep
  <2>2. dirty' \in BOOLEAN
    BY Zenon
  <2> QED BY <2>1, <2>2 DEF RingInv, RingTypeOK
<1>2. /\ put'.seq = put.seq /\ put'.op = put.op /\ put'.parts = put.parts /\ put'.tmp = put.parts
      /\ put'.pc = "rename" /\ put.pc = "write" /\ UNCHANGED <<disk, ring>>
  BY DEF write, RingInv, RingTypeOK, StoreTypeOK
<1>3. ~dirty' => ~dirty
  BY Zenon
<1>4. RangeInv'
  BY <1>2, <1>3 DEF RingInv, RangeInv, FilesAreRange, Suffix, Exact, Short, Files
<1>5. BodyInv'
  BY <1>2 DEF RingInv, BodyInv, Wholes, Whole, Files
<1>6. GetIsWhole' /\ AckedIsDurable'
  BY <1>2 DEF RingInv, GetIsWhole, AckedIsDurable
<1> QED BY <1>1, <1>4, <1>5, <1>6 DEF RingInv

\* The rename: the new file continues the range, or starts one.
LEMMA RenameStep ==
    ASSUME RingInv, rename, UNCHANGED <<rd, acked>>, dirty' = (dirty \/ put'.err \in {"clear", "prune"})
    PROVE  RingInv'
<1>1. RingTypeOK'
  <2>1. StoreTypeOK'
    BY StoreTypeStep DEF RingInv, RingTypeOK, StoreStep
  <2>2. dirty' \in BOOLEAN
    BY Zenon
  <2> QED BY <2>1, <2>2 DEF RingInv, RingTypeOK
<1>2. RangeInv
  BY DEF RingInv
<1>3. /\ put.pc = "rename" /\ put.seq # 0 /\ put.op = "put"
      /\ ring.filled => put.seq = Succ(ring.latest)
      /\ Suffix
  BY <1>2 DEF rename, RangeInv
<1>4. put'.pc = "prune" /\ put'.op = "put" /\ put'.seq = put.seq
  BY <1>3 DEF rename, RingInv, RingTypeOK, StoreTypeOK
<1>5. /\ ring'.filled /\ ring'.latest = put.seq
      /\ ring'.oldest = IF ring.filled THEN ring.oldest ELSE put.seq
  BY DEF rename
<1>6. /\ Files' = Files \cup {put.seq}
      /\ disk'[put.seq] = put.tmp
      /\ \A x \in Files : x # put.seq => disk'[x] = disk[x]
  BY DEF rename, Files
<1>7. ~dirty' => ~dirty
  BY Zenon
<1>8. ring.filled => put.seq = ring.latest + 1
  BY <1>3, RingFacts, SuccFacts
<1>9. RangeInv'
  <2>1. 0 \notin Files'
    BY <1>2, <1>3, <1>6 DEF RangeInv
  <2>2. CASE ring.filled
    <3>1. PICK lo \in Seqs : ring.oldest <= lo /\ lo <= ring.latest /\ Files = lo..ring.latest
      BY <1>3, <2>2 DEF Suffix
    <3>2. Files' = lo..put.seq /\ lo <= put.seq
      BY <1>6, <1>8, <2>2, <3>1, RingFacts
    <3>3. Suffix' /\ FilesAreRange'
      BY <1>4, <1>5, <2>2, <3>1, <3>2, RingFacts DEF Suffix, FilesAreRange
    <3>4. ~dirty => Exact'
      <4>1. ~dirty => Files = ring.oldest..ring.latest /\ ring.oldest <= ring.latest
        BY <1>2, <1>3, <2>2 DEF RangeInv, Exact
      <4>2. ~dirty => Files' = ring.oldest..put.seq /\ ring.oldest <= put.seq
        BY <1>6, <1>8, <2>2, <4>1, RingFacts
      <4> QED BY <1>4, <1>5, <2>2, <4>2 DEF Exact
    <3> QED BY <1>4, <1>5, <1>7, <2>1, <3>3, <3>4 DEF RangeInv
  <2>3. CASE ~ring.filled
    <3>1. Files' = put.seq..put.seq
      BY <1>3, <1>6, <2>3, RingFacts DEF Suffix
    <3>2. Suffix' /\ FilesAreRange' /\ Exact'
      BY <1>4, <1>5, <2>3, <3>1, RingFacts DEF Suffix, FilesAreRange, Exact
    <3> QED BY <1>4, <1>5, <2>1, <3>2 DEF RangeInv
  <2> QED BY <2>2, <2>3
<1>10. BodyInv'
  BY <1>3, <1>4, <1>6 DEF RingInv, BodyInv, Wholes, Whole
<1>11. GetIsWhole' /\ AckedIsDurable'
  BY <1>6 DEF RingInv, GetIsWhole, AckedIsDurable, Files
<1> QED BY <1>1, <1>9, <1>10, <1>11 DEF RingInv

\* Pruning takes the oldest and never the newest, since the ring holds at
\* least one ledger more than the retention, which is at least one.
LEMMA PruneStep ==
    ASSUME RingInv, pruneLocked, UNCHANGED <<rd, acked>>, dirty' = (dirty \/ put'.err \in {"clear", "prune"})
    PROVE  RingInv'
<1>1. RingTypeOK'
  <2>1. StoreTypeOK'
    BY StoreTypeStep DEF RingInv, RingTypeOK, StoreStep
  <2>2. dirty' \in BOOLEAN
    BY Zenon
  <2> QED BY <2>1, <2>2 DEF RingInv, RingTypeOK
<1>2. RangeInv /\ put.pc = "prune" /\ Suffix /\ (~dirty => Exact)
  BY DEF RingInv, RangeInv, pruneLocked
<1>3. ~dirty' => ~dirty
  BY Zenon
<1>4. ring.filled => RingSize = ring.latest - ring.oldest + 1 /\ ring.oldest <= ring.latest
  <2> SUFFICES ASSUME ring.filled PROVE ring.oldest <= ring.latest
    BY RingFacts, RingSizeFacts
  <2>1. PICK lo \in Seqs : ring.oldest <= lo /\ lo <= ring.latest
    BY <1>2 DEF Suffix
  <2> QED BY <2>1, RingFacts
<1>5. CASE ring.filled /\ RingSize > Retention
  <2>1. Retention \in Nat /\ Retention >= 1
    BY RetentionAssumption
  <2>2. ring.oldest < ring.latest
    BY <1>4, <1>5, <2>1, RingFacts
  <2>3. /\ Files' = Files \ {ring.oldest} /\ \A x \in Files' : disk'[x] = disk[x]
        /\ put' = put
    BY <1>5, RemoveKeeps DEF pruneLocked
  <2>4. /\ ring'.oldest = ring.oldest + 1 /\ ring'.latest = ring.latest
        /\ ring'.filled /\ ring.oldest + 1 \in Seqs
    <3>1. Succ(ring.oldest) = ring.oldest + 1 /\ Succ(ring.oldest) \in Seqs
      BY <2>2, RingFacts, SuccFacts
    <3>2. /\ ring'.oldest = Succ(ring.oldest) /\ ring'.latest = ring.latest
          /\ ring'.filled
      BY <1>5 DEF pruneLocked, RingInv, RingTypeOK, StoreTypeOK
    <3> QED BY <3>1, <3>2
  <2>5. PICK lo \in Seqs : ring.oldest <= lo /\ lo <= ring.latest /\ Files = lo..ring.latest
    BY <1>2, <1>5 DEF Suffix
  <2>6. \E l \in Seqs : ring.oldest + 1 <= l /\ l <= ring.latest /\ Files' = l..ring.latest
    <3>1. CASE lo = ring.oldest
      <4>1. Files' = (lo + 1)..ring.latest
        BY <2>3, <2>5, <3>1, RingFacts
      <4> QED BY <2>2, <2>4, <3>1, <4>1, RingFacts
    <3>2. CASE lo # ring.oldest
      <4>1. Files' = Files
        BY <2>3, <2>5, <3>2, RingFacts
      <4> QED BY <2>5, <3>2, <4>1, RingFacts
    <3> QED BY <3>1, <3>2
  <2>7. RangeInv'
    <3>1. 0 \notin Files'
      BY <1>2, <2>3 DEF RangeInv
    <3>2. Suffix' /\ FilesAreRange'
      BY <1>2, <2>3, <2>4, <2>6, RingFacts DEF Suffix, FilesAreRange
    <3>3. ~dirty => Exact'
      <4>1. ~dirty => Files = ring.oldest..ring.latest
        BY <1>2, <1>5 DEF Exact
      <4>2. ~dirty => Files' = (ring.oldest + 1)..ring.latest
        BY <2>3, <4>1, RingFacts
      <4> QED BY <1>2, <2>2, <2>3, <2>4, <4>2, RingFacts DEF Exact
    <3> QED BY <1>2, <1>3, <1>5, <2>3, <2>4, <3>1, <3>2, <3>3 DEF RangeInv
  <2>8. BodyInv'
    BY <1>2, <2>3 DEF RingInv, BodyInv, Wholes, Whole
  <2>9. AckedIsDurable'
    <3> SUFFICES ASSUME acked # 0 PROVE \E q \in Files' : q >= acked
      BY DEF AckedIsDurable, Files
    <3>1. PICK q \in Files : q >= acked
      BY DEF RingInv, AckedIsDurable, Files
    <3>2. ring.latest \in Files'
      BY <2>6, RingFacts
    <3>3. acked \in Nat
      BY DEF RingInv, RingTypeOK, Seqs
    <3>4. ring.latest >= q
      BY <2>5, <3>1, RingFacts
    <3> QED BY <2>5, <3>1, <3>2, <3>3, <3>4, RingFacts
  <2>10. GetIsWhole'
    BY DEF RingInv, GetIsWhole
  <2> QED BY <1>1, <2>7, <2>8, <2>9, <2>10 DEF RingInv
<1>6. CASE ~(ring.filled /\ RingSize > Retention)
  <2>1. UNCHANGED <<disk, ring>>
    BY <1>6 DEF pruneLocked
  <2>2. /\ put'.pc \in {"idle", "done"}
        /\ put'.pc = "done" => put'.seq = put.seq /\ put.op = "put"
    BY <1>6 DEF pruneLocked, IdlePut, RingInv, RingTypeOK, StoreTypeOK
  <2>3. Short
    BY <1>4, <1>6, RetentionAssumption, RingFacts DEF Short
  <2>4. RangeInv'
    BY <1>2, <1>3, <2>1, <2>2, <2>3 DEF RangeInv, FilesAreRange, Suffix, Exact, Short, Files
  <2>5. BodyInv'
    BY <2>1, <2>2 DEF RingInv, BodyInv, Wholes, Whole, Files
  <2>6. GetIsWhole' /\ AckedIsDurable'
    BY <2>1 DEF RingInv, GetIsWhole, AckedIsDurable
  <2> QED BY <1>1, <2>4, <2>5, <2>6 DEF RingInv
<1> QED BY <1>5, <1>6

\* A system call that fails leaves the directory and the index as they are,
\* and is on record when it was clearing or pruning.
LEMMA FailStep ==
    ASSUME RingInv, Fail, UNCHANGED <<rd, acked>>, dirty' = (dirty \/ put'.err \in {"clear", "prune"})
    PROVE  RingInv'
<1>1. RingTypeOK'
  <2>1. StoreTypeOK'
    BY StoreTypeStep DEF RingInv, RingTypeOK, StoreStep
  <2>2. dirty' \in BOOLEAN
    BY Zenon
  <2> QED BY <2>1, <2>2 DEF RingInv, RingTypeOK
<1>2. /\ put.pc \in {"clear", "write", "rename", "prune"} /\ UNCHANGED <<disk, ring>>
      /\ put'.pc = IF put.op = "open" THEN "down" ELSE "done"
      /\ put'.err = IF put.pc = "rename" THEN "write" ELSE put.pc
  BY DEF Fail, RingInv, RingTypeOK, StoreTypeOK
<1>3. ~dirty' => ~dirty /\ put'.err \notin {"clear", "prune"}
  BY Zenon
<1>4. ~dirty' => put.pc \in {"write", "rename"}
  BY <1>2, <1>3
<1>5. RangeInv'
  <2>1. (0 \notin Files /\ FilesAreRange)'
    BY <1>2 DEF RingInv, RangeInv, FilesAreRange, Files
  <2>2. Suffix'
    BY <1>2 DEF RingInv, RangeInv, Suffix, Files
  <2>3. ~dirty' => Exact' /\ Short'
    BY <1>2, <1>3, <1>4 DEF RingInv, RangeInv, Exact, Short, Files
  <2> QED BY <1>2, <2>1, <2>2, <2>3 DEF RangeInv
<1>6. BodyInv'
  BY <1>2 DEF RingInv, BodyInv, Wholes, Whole, Files
<1>7. GetIsWhole' /\ AckedIsDurable'
  BY <1>2 DEF RingInv, GetIsWhole, AckedIsDurable
<1> QED BY <1>1, <1>5, <1>6, <1>7 DEF RingInv

\* A put that returns nil has its ledger at the end of the range.
LEMMA ReturnPutStep ==
    ASSUME RingInv, ReturnPut
    PROVE  RingInv'
<1>1. /\ put.pc = "done" /\ UNCHANGED <<disk, ring, rd, dirty>>
      /\ acked' = IF put.err = "none" THEN put.seq ELSE acked
      /\ put'.pc = "idle"
  BY DEF ReturnPut, PutReturned, IdlePut
<1>2. RingTypeOK'
  <2>1. StoreTypeOK'
    BY StoreTypeStep DEF RingInv, RingTypeOK, ReturnPut
  <2>2. acked' \in Seqs
    BY <1>1, RingFacts DEF RingInv, RingTypeOK
  <2> QED BY <1>1, <2>1, <2>2 DEF RingInv, RingTypeOK
<1>3. RangeInv'
  BY <1>1 DEF RingInv, RangeInv, FilesAreRange, Suffix, Exact, Short, Files
<1>4. BodyInv'
  BY <1>1 DEF RingInv, BodyInv, Wholes, Whole, Files
<1>5. AckedIsDurable'
  <2>1. CASE put.err = "none"
    <3>1. ring.filled /\ ring.latest = put.seq /\ Suffix
      BY <1>1, <2>1 DEF RingInv, RangeInv
    <3>2. PICK lo \in Seqs : lo <= ring.latest /\ Files = lo..ring.latest
      BY <3>1 DEF Suffix
    <3>3. put.seq \in Files /\ put.seq >= put.seq
      BY <3>1, <3>2, RingFacts
    <3> QED BY <1>1, <2>1, <3>3 DEF AckedIsDurable, Files
  <2>2. CASE put.err # "none"
    BY <1>1, <2>2 DEF RingInv, AckedIsDurable
  <2> QED BY <2>1, <2>2
<1>6. GetIsWhole'
  BY <1>1 DEF RingInv, GetIsWhole
<1> QED BY <1>2, <1>3, <1>4, <1>5, <1>6 DEF RingInv

\* Open accepts every directory a crash or a failure leaves, and its index is
\* the directory.
LEMMA OpenStep ==
    ASSUME RingInv, OpenStore
    PROVE  RingInv'
<1>1. /\ rescan /\ UNCHANGED <<disk, rd, acked>> /\ ~dirty' /\ dirty' \in BOOLEAN
      /\ put'.pc = "prune" /\ put'.op = "open"
  BY DEF OpenStore, Open, IdlePut
<1>2. 0 \in Seqs /\ <<>> \in Body
  BY WireAssumption DEF Seqs, Body
<1>3. /\ put' \in [pc : PutPc, op : {"put", "open"}, seq : Seqs, parts : Body,
                   tmp : Body, at : Seqs, err : PutErr]
  BY <1>2 DEF OpenStore, Open, IdlePut, PutPc, PutErr
<1>4. (0 \notin Files /\ FilesAreRange)'
  BY <1>1 DEF RingInv, RangeInv, FilesAreRange, Files
<1>5. RingTypeOK' /\ Suffix' /\ Exact'
  <2>1. CASE Files = {}
    <3>1. ring' = EmptyRing
      BY <1>1, <2>1 DEF rescan, Files
    <3>2. ring' \in [oldest : Seqs, latest : Seqs, filled : BOOLEAN]
      BY <3>1, EmptyRingType
    <3>3. ~ring'.filled
      BY <3>1 DEF EmptyRing
    <3> QED BY <1>1, <1>3, <2>1, <3>2, <3>3
            DEF RingInv, RingTypeOK, StoreTypeOK, Suffix, Exact, Files
  <2>2. CASE Files # {}
    <3>1. PICK lo, hi \in Seqs : lo <= hi /\ Files = lo..hi
      BY <2>2 DEF RingInv, RangeInv, FilesAreRange
    <3>2. ring'.oldest = lo /\ ring'.latest = hi /\ ring'.filled
      BY <1>1, <3>1, RescanFindsEnds
    <3>3. ring' \in [oldest : Seqs, latest : Seqs, filled : BOOLEAN]
      <4>1. ring' = [oldest |-> ring'.oldest, latest |-> ring'.latest, filled |-> TRUE]
        BY <1>1, <2>2, <3>2 DEF rescan, Files
      <4> QED BY <3>2, <4>1
    <3>4. Files' = lo..hi
      BY <1>1, <3>1 DEF Files
    <3>5. Suffix' /\ Exact'
      BY <1>1, <3>1, <3>2, <3>4, RingFacts DEF Suffix, Exact
    <3> QED BY <1>1, <1>3, <3>3, <3>5 DEF RingInv, RingTypeOK, StoreTypeOK
  <2> QED BY <2>1, <2>2
<1>6. RangeInv'
  BY <1>1, <1>4, <1>5 DEF RangeInv
<1>7. BodyInv'
  BY <1>1 DEF RingInv, BodyInv, Wholes, Whole, Files
<1>8. GetIsWhole' /\ AckedIsDurable'
  BY <1>1 DEF RingInv, GetIsWhole, AckedIsDurable
<1> QED BY <1>5, <1>6, <1>7, <1>8 DEF RingInv

\* A crash between any two steps keeps the directory.
LEMMA CrashStep ==
    ASSUME RingInv, Crash
    PROVE  RingInv'
<1>1. /\ UNCHANGED <<disk, acked, dirty>> /\ put'.pc = "down" /\ ring' = EmptyRing
      /\ rd' = [r \in Readers |-> Idle]
  BY DEF Crash, IdlePut
<1>2. 0 \in Seqs /\ <<>> \in Body
  BY WireAssumption DEF Seqs, Body
<1>3. RingTypeOK'
  <2>1. put' \in [pc : PutPc, op : {"put", "open"}, seq : Seqs, parts : Body,
                  tmp : Body, at : Seqs, err : PutErr]
    BY <1>2 DEF Crash, IdlePut, PutPc, PutErr
  <2>2. rd' \in [Readers -> [pc : ReaderPc, seq : Seqs, raw : Body]]
    BY <1>1, <1>2 DEF Idle, ReaderPc
  <2> QED BY <1>1, <2>1, <2>2, EmptyRingType DEF RingInv, RingTypeOK, StoreTypeOK
<1>4. RangeInv' /\ BodyInv'
  BY <1>1 DEF RingInv, RangeInv, FilesAreRange, BodyInv, Wholes, Whole, Files
<1>5. GetIsWhole' /\ AckedIsDurable'
  BY <1>1 DEF RingInv, GetIsWhole, AckedIsDurable, Idle
<1> QED BY <1>3, <1>4, <1>5 DEF RingInv

\* A reader changes nothing but itself, and what it reads under a final name
\* is a whole ledger.
LEMMA ReaderStep ==
    ASSUME RingInv, NEW r \in Readers, GetBounds(r) \/ GetRead(r) \/ GetReturned(r)
    PROVE  RingInv'
<1>1. UNCHANGED <<disk, ring, put, acked, dirty>>
  BY DEF GetBounds, GetRead, GetReturned
<1>2. RangeInv' /\ BodyInv' /\ AckedIsDurable' /\ StoreTypeOK'
  BY <1>1 DEF RingInv, RingTypeOK, StoreTypeOK, RangeInv, FilesAreRange, Suffix, Exact, Short, BodyInv,
       Wholes, Whole, Files, AckedIsDurable
<1>3. 0 \in Seqs /\ <<>> \in Body
  BY WireAssumption DEF Seqs, Body
<1>4. rd \in [Readers -> [pc : ReaderPc, seq : Seqs, raw : Body]] /\ GetIsWhole
  BY DEF RingInv, RingTypeOK
<1>5. rd' \in [Readers -> [pc : ReaderPc, seq : Seqs, raw : Body]] /\ GetIsWhole'
  <2>1. CASE GetBounds(r)
    BY <1>3, <1>4, <2>1, RangesAssumption DEF GetBounds, ReaderPc, GetIsWhole, Whole
  <2>2. CASE GetRead(r)
    <3>1. Exists(rd[r].seq) => disk[rd[r].seq] \in Body /\ disk[rd[r].seq] \in Wholes(rd[r].seq)
      BY DEF Exists, RingInv, RingTypeOK, StoreTypeOK, BodyInv, Files
    <3> QED BY <1>4, <2>2, <3>1 DEF GetRead, ReaderPc, GetIsWhole, Whole, Wholes
  <2>3. CASE GetReturned(r)
    BY <1>3, <1>4, <2>3 DEF GetReturned, Idle, ReaderPc, GetIsWhole, Whole
  <2> QED BY <2>1, <2>2, <2>3
<1> QED BY <1>1, <1>2, <1>4, <1>5 DEF RingInv, RingTypeOK

-----------------------------------------------------------------------------
\* The ring's inductive invariant holds in every reachable state: any puts
\* (store.go:137), a failure at any of their system calls, crashes and
\* restarts, and readers at every point between.
THEOREM RingInvariant == Spec => []RingInv
<1>1. Init => RingInv
  BY RingInvInit
<1>2. RingInv /\ [Next]_ringVars => RingInv'
  <2> SUFFICES ASSUME RingInv, [Next]_ringVars PROVE RingInv'
    OBVIOUS
  <2>1. CASE PutStep
    <3>1. UNCHANGED <<rd, acked>> /\ dirty' = (dirty \/ put'.err \in {"clear", "prune"})
      BY <2>1 DEF PutStep
    <3> QED BY <2>1, <3>1, ClearStep, WriteStep, RenameStep, PruneStep, FailStep DEF PutStep, StoreStep
  <2>2. CASE UNCHANGED ringVars
    BY <2>2 DEF ringVars, RingInv, RingTypeOK, StoreTypeOK, RangeInv, FilesAreRange, Suffix, Exact, Short,
         BodyInv, Wholes, Whole, Files, GetIsWhole, AckedIsDurable
  <2> QED BY <2>1, <2>2, CallPutStep, ReturnPutStep, OpenStep, CrashStep, ReaderStep DEF Next
<1> QED BY <1>1, <1>2, PTL DEF Spec

\* Whatever fails and whenever the process dies, the files left form one
\* contiguous range, so the scan that refuses a gap (store.go:106) never
\* refuses what the ring itself wrote.
THEOREM CrashesLeaveARange == Spec => []DiskContiguous
<1>1. RingInv => DiskContiguous
  <2> SUFFICES ASSUME RingInv PROVE Contiguous(Files)
    BY DEF DiskContiguous, Files
  <2>1. CASE Files = {}
    BY <2>1 DEF Contiguous
  <2>2. CASE Files # {}
    <3>1. PICK lo, hi \in Seqs : Files = lo..hi
      BY <2>2 DEF RingInv, RangeInv, FilesAreRange
    <3>2. lo \in Int /\ hi \in Int
      BY RingFacts
    <3> QED BY <3>1, <3>2, RangeIsContiguous
  <2> QED BY <2>1, <2>2
<1> QED BY <1>1, RingInvariant, PTL

\* A Get that runs between any two steps of a put, an unlink or a crash
\* returns a whole ledger of the sequence it asked for (store.go:191).
THEOREM GetIsAlwaysWhole == Spec => []GetIsWhole
<1>1. RingInv => GetIsWhole
  BY DEF RingInv
<1> QED BY <1>1, RingInvariant, PTL

\* A put that returned nil outlives the process: its ledger, or a later one
\* of the same range, stays in the directory until a put resets the ring.
THEOREM AckedIsAlwaysDurable == Spec => []AckedIsDurable
<1>1. RingInv => AckedIsDurable
  BY DEF RingInv
<1> QED BY <1>1, RingInvariant, PTL

\* Between calls, and unless an unlink has failed, [oldest, latest] is the
\* directory and holds at most Retention ledgers (store.go:226).
THEOREM IndexIsTheDirectory == Spec => []IndexMatchesDisk
<1>1. RingInv => IndexMatchesDisk
  <2> SUFFICES ASSUME RingInv, put.pc = "idle", ~dirty
               PROVE  /\ ring.filled <=> Files # {}
                      /\ ring.filled => Files = ring.oldest..ring.latest
                      /\ Cardinality(Files) <= Retention
    BY DEF IndexMatchesDisk, Files
  <2>1. Suffix /\ Exact /\ Short
    BY DEF RingInv, RangeInv
  <2>2. Retention \in Nat
    BY RetentionAssumption
  <2>3. CASE ring.filled
    <3>1. /\ Files = ring.oldest..ring.latest /\ ring.oldest <= ring.latest
          /\ ring.latest - ring.oldest < Retention
      BY <2>1, <2>3 DEF Exact, Short
    <3>2. Cardinality(ring.oldest..ring.latest) = ring.latest - ring.oldest + 1
      <4>1. \A a, b \in Int : Cardinality(a..b) = IF a > b THEN 0 ELSE b - a + 1
        BY FS_Interval, Zenon
      <4>2. ring.oldest \in Int /\ ring.latest \in Int /\ ~(ring.oldest > ring.latest)
        BY <3>1, RingFacts
      <4>3. Cardinality(ring.oldest..ring.latest)
              = IF ring.oldest > ring.latest THEN 0 ELSE ring.latest - ring.oldest + 1
        BY <4>1, <4>2, Zenon
      <4> QED BY <4>2, <4>3
    <3>3. ring.oldest \in Files
      BY <3>1, RingFacts
    <3> QED BY <2>2, <2>3, <3>1, <3>2, <3>3, RingFacts
  <2>4. CASE ~ring.filled
    <3>1. Files = {} /\ Cardinality({}) = 0
      BY <2>1, <2>4, FS_EmptySet DEF Suffix
    <3> QED BY <2>2, <2>4, <3>1
  <2> QED BY <2>3, <2>4
<1> QED BY <1>1, RingInvariant, PTL
=============================================================================
