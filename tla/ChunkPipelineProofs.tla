------------------------ MODULE ChunkPipelineProofs -------------------------
(***************************************************************************)
(* Proofs about Run and its goroutines, for every number of workers, every *)
(* capacity of the queues, chunk size, declared size and payload cap, with *)
(* compression or without.                                                 *)
(*                                                                         *)
(* PipeInv says of the memory who may still write which cell: what was     *)
(* handed on (Given) is out of the arena's free part and of the spare      *)
(* buffer (MemInv, Placed), no two slices overlap (Apart), and a step      *)
(* changes at most the header cell of one unpublished slice or allocates   *)
(* its clone (Writes, Safe).  So the slices keep holding the body          *)
(* (LedgerInv), the jobs and the published chunks stay what they were made *)
(* of it (JobsInv, PubInv, OldInv), and the ring, the digest and the       *)
(* subscribers all read the same bytes.                                    *)
(*                                                                         *)
(* The order is counted: NPub chunks published, NSub submitted, and the    *)
(* jobs between them in flight (OrderInv), each with one goroutine that    *)
(* has yet to encode it or none (WorkInv).                                 *)
(***************************************************************************)
EXTENDS ChunkPipeline, WireProofs, FiniteSetTheorems

-----------------------------------------------------------------------------
\* Types.

BufName == {"nil", "arena", "spare", "clone"} \X Nat \X Nat
Cell == Unit \cup {Junk} \cup ({"header"} \X Nat \X Nat \X Codec) \cup ({"zstd"} \X Body)
Slice == [buf : BufName, lo : Nat, len : Nat]
PipeFlow == [seq : Seqs, begin : BeginMsg, chunks : Seq(Slice), end : EndMsg \cup {NoMsg}]
RunPc == {"pull", "read", "submit", "offer", "hash", "flush", "sum", "end", "put",
          "return", "wait", "drain", "done"}
KeyType == Nat \X Nat

FlowsTypeOK == flows \in Seq(PipeFlow) /\ notify \in Nat /\ ended \in BOOLEAN /\ srcErr \in BOOLEAN
MemTypeOK == mem \in [DOMAIN mem -> Seq(Cell)] /\ DOMAIN mem \subseteq BufName

RunTypeOK ==
    /\ compress \in BOOLEAN
    /\ pc \in RunPc
    /\ em \in [seq : Seqs, size : Nat]
    /\ used \in Nat
    /\ spare \in BufName
    /\ got \in [msg : Slice, arena : BOOLEAN, rerr : {"nil", "eof", "cancel", "fail"}]
    /\ chunkIdx \in Nat /\ total \in Nat
    /\ parts \in Seq(Slice)
    /\ runErr \in BOOLEAN

JobsTypeOK ==
    /\ jobs \in [DOMAIN jobs -> [msg : Slice, out : Slice, done : BOOLEAN]]
    /\ ordered \in Seq(KeyType) /\ work \in Seq(KeyType)
    /\ hand \in [Workers -> KeyType] /\ pubHand \in KeyType
    /\ inflight \in Nat /\ fallbacks \in Nat

HashTypeOK == hin \in Seq(Slice) /\ hashed \in Body /\ hashPc \in {"idle", "report"} /\ stored \in Seq(Body)

PipeTypeOK == FlowsTypeOK /\ MemTypeOK /\ RunTypeOK /\ JobsTypeOK /\ HashTypeOK

-----------------------------------------------------------------------------
\* The ledger in progress.

\* Between a read and Hash the region read is Run's, though neither counted
\* as used nor among the parts yet.
Handed == pc \in {"submit", "offer", "hash"}
Given == IF Handed THEN Append(parts, DataOf(got.msg)) ELSE parts
UsedNow == IF Handed THEN NextUsed ELSE used
SpareNow == IF Handed THEN NextSpare ELSE spare

\* The chunks of it submitted, and those published.
NSub == IF pc = "submit" THEN Len(parts) ELSE Len(Given)
NPub == IF flows = <<>> THEN 0 ELSE Len(cur.chunks)

\* Run's control point, and the goroutines that returned.
ControlInv ==
    /\ ~panicked
    /\ ended <=> pc = "done"
    /\ em.seq = Len(flows) /\ em.seq <= MaxLedgers
    /\ \A i \in 1..Len(flows) : flows[i].seq = i /\ flows[i].begin = AppendBegin(i, i)
    /\ \A i \in 1..Len(flows) - 1 : complete(flows[i])
    /\ pc = "pull" => ~OpenFlow
    /\ pc \in {"read", "submit", "offer", "hash", "flush", "sum", "end"} => OpenFlow
    /\ pc = "put" => flows # <<>> /\ complete(cur)
    /\ pc \in {"offer", "wait"} => compress
    /\ chunkIdx = Len(parts)
    /\ inflight # 0 => OpenFlow /\ compress
    /\ pc \in {"sum", "end"} => inflight = 0
    /\ "ordered" \in closed => pc \in {"drain", "done"}
    /\ compress /\ "publisher" \in exited => pc \in {"drain", "done"} /\ inflight = 0
    /\ pc = "done" => inflight = 0

\* Who may still write where: the arena beyond what was handed on, the spare
\* buffer, and buffers not allocated yet.
MemInv ==
    /\ \A b \in DOMAIN mem : b[1] = "arena" => b[2] <= em.seq
    /\ em.size > 0 => /\ Arena(em.seq) \in DOMAIN mem
                      /\ Len(mem[Arena(em.seq)]) = ArenaSize(em.size)
    /\ SpareNow = NoBuf \/ /\ SpareNow \in DOMAIN mem /\ SpareNow[1] = "spare"
                           /\ Len(mem[SpareNow]) = ChunkSize + 1
    /\ \A b \in DOMAIN mem : b[1] = "spare" =>
         \/ b[2] < em.seq
         \/ b[2] = em.seq /\ b[3] < Len(Given)
         \/ b[2] = em.seq /\ b[3] = Len(Given) /\ b = SpareNow

\* The slices handed on: within their buffers, out of what is free, and each
\* with its header cell apart from the others.
Placed(g) ==
    /\ g.buf \in DOMAIN mem
    /\ g.lo >= 2 /\ g.len \in 1..ChunkSize
    /\ g.lo + g.len - 1 <= Len(mem[g.buf])
    /\ \/ g.buf = Arena(em.seq) /\ g.lo + g.len - 1 <= UsedNow
       \/ g.buf[1] = "spare" /\ g.buf # SpareNow
Apart(g, h) == g.buf # h.buf \/ g.lo + g.len < h.lo

GivenInv ==
    /\ \A k \in 1..Len(Given) : Placed(Given[k])
    /\ \A j, k \in 1..Len(Given) : j < k => Apart(Given[j], Given[k])

\* The slices hold the body in order, slice k the units up to off[k].
Holds(g, lo) == \A p \in 1..g.len : mem[g.buf][g.lo + p - 1] = <<"live", em.seq, lo + p>>

\* How many parts the hasher has taken in.
Digested == Len(parts) - (IF pc = "end" /\ hashPc = "idle" THEN Len(hin) - 1 ELSE Len(hin))

HashInv(off) ==
    IF OpenFlow
    THEN /\ Digested \in 0..Len(parts)
         /\ hashed = Units("live", em.seq, 0, off[Digested])
         /\ \A j \in 1..Len(parts) - Digested : hin[j] = parts[Digested + j]
         /\ pc = "end" /\ hashPc = "idle" => hin # <<>> /\ hin[Len(hin)] = EndOfLedger
         /\ hashPc = "report" => pc = "end" /\ hin = <<>>
    ELSE hin = <<>> /\ hashed = <<>> /\ hashPc = "idle"

Story(off) ==
    /\ off[0] = 0
    /\ \A k \in 1..Len(Given) : off[k] = off[k - 1] + Given[k].len /\ Holds(Given[k], off[k - 1])
    /\ total = off[Len(parts)]
    /\ HashInv(off)
    /\ pc = "put" => cur.end.sum = Units("live", em.seq, 0, off[Len(parts)])

LedgerInv == \E off \in [0..Len(Given) -> Nat] : Story(off)

-----------------------------------------------------------------------------
\* The chunks made of it.

\* A message, of its payload.
Whole(g) == [g EXCEPT !.lo = @ - 1, !.len = @ + 1]

\* The chunk i made of slice g: its buffer with a header in front, or a frame.
RawOut(c, i, g) == c = Whole(g) /\ mem[g.buf][g.lo - 1] = Header(em.seq, i, "raw")
ZstdOut(c, i, g) ==
    /\ c = [buf |-> CloneOf(<<em.seq, i>>), lo |-> 1, len |-> 2]
    /\ c.buf \in DOMAIN mem
    /\ mem[c.buf] = << Header(em.seq, i, "zstd"), <<"zstd", Cells(g)>> >>
    /\ Smaller(Cells(g)) /\ compress
Out(c, i, g) == RawOut(c, i, g) \/ ZstdOut(c, i, g)

OrderInv ==
    /\ NPub + inflight = NSub
    /\ inflight = Len(ordered) + (IF pubHand = NoJob THEN 0 ELSE 1)
    /\ pubHand # NoJob => pubHand = <<em.seq, NPub>>
    /\ \A k \in 1..Len(ordered) : ordered[k] = <<em.seq, NSub - Len(ordered) + k - 1>>
    /\ DOMAIN jobs = {<<em.seq, i>> : i \in NPub..NSub - 1}

JobOK(i) ==
    LET j == jobs[<<em.seq, i>>] IN
    /\ j.msg = Whole(Given[i + 1])
    /\ IF j.done THEN Out(j.out, i, Given[i + 1]) ELSE j.out = j.msg
JobsInv == \A i \in NPub..NSub - 1 : JobOK(i)

\* A job that is to be encoded, once.
Todo(key) == key \in DOMAIN jobs /\ ~jobs[key].done
WorkInv ==
    /\ \A k \in 1..Len(work) : Todo(work[k])
    /\ \A w \in Workers : hand[w] # NoJob => Todo(hand[w])
    /\ pc = "offer" => Todo(Key)
    /\ \A j, k \in 1..Len(work) : work[j] = work[k] => j = k
    /\ \A v, w \in Workers : hand[v] = hand[w] /\ hand[v] # NoJob => v = w
    /\ \A w \in Workers, k \in 1..Len(work) : hand[w] # work[k]
    /\ pc = "offer" => /\ \A k \in 1..Len(work) : work[k] # Key
                       /\ \A w \in Workers : hand[w] # Key

PubInv == \A k \in 1..NPub : Out(cur.chunks[k], k - 1, Given[k])

\* The chunks of earlier ledgers are in buffers nobody writes.
Old(b) ==
    /\ b \in DOMAIN mem
    /\ \/ b[1] \in {"arena", "clone"} /\ b[2] < em.seq
       \/ b[1] = "spare" /\ b # SpareNow /\ \A k \in 1..Len(Given) : b # Given[k].buf
OldInv == \A i \in 1..Len(flows) - 1 : \A k \in 1..Len(flows[i].chunks) : Old(flows[i].chunks[k].buf)

Reading == {"read", "submit", "offer", "hash", "flush", "sum", "end", "put"}
RetainedInv ==
    /\ pc = "pull" => Len(stored) = Len(flows)
    /\ pc \in Reading => Len(stored) = Len(flows) - 1
    /\ Len(stored) <= Len(flows)
    /\ \A i \in 1..Len(stored) : complete(flows[i]) /\ stored[i] = flows[i].end.sum

\* The chunks framed raw though they compress: published, and not yet.
IsRaw(m) == m.codec = "raw" /\ Smaller(m.payload)
Fell ==
    {x \in Nat \X Nat : /\ x[1] \in 1..Len(flows) /\ x[2] \in 1..Len(flows[x[1]].chunks)
                        /\ IsRaw(Msg(flows[x[1]].chunks[x[2]]))}
Falling ==
    {x \in Nat \X Nat :
        /\ x[1] = em.seq /\ x[2] > 0 /\ <<x[1], x[2] - 1>> \in DOMAIN jobs
        /\ LET j == jobs[<<x[1], x[2] - 1>>] IN
             j.done /\ j.out = j.msg /\ Smaller(Cells(DataOf(j.msg)))}
FellInv == compress => IsFiniteSet(Fell \cup Falling) /\ Cardinality(Fell \cup Falling) <= fallbacks

PipeInv ==
    /\ PipeTypeOK /\ ControlInv /\ MemInv /\ GivenInv /\ LedgerInv
    /\ OrderInv /\ JobsInv /\ WorkInv /\ PubInv /\ OldInv /\ RetainedInv /\ FellInv

-----------------------------------------------------------------------------
\* What the assumptions say of the constants.
LEMMA Consts ==
    /\ MaxSeq \in Nat /\ ChunkSize \in Nat /\ ChunkSize >= 1 /\ MaxPayload \in Nat
    /\ MaxLedgers \in Nat /\ MaxLedgers <= MaxSeq /\ Compress \in BOOLEAN
    /\ \A d \in DeclaredSizes : d \in Nat
    /\ EncodeSlots \in Nat /\ PendingChunks \in Nat /\ HashSlots \in Nat
BY WireAssumption, PipelineAssumption

\* A buffer allocated or filled.
LEMMA MemWith ==
    ASSUME MemTypeOK, NEW b \in BufName, NEW v \in Seq(Cell)
    PROVE  /\ DOMAIN With(mem, b, v) = DOMAIN mem \cup {b}
           /\ With(mem, b, v)[b] = v
           /\ \A x \in DOMAIN mem : x # b => With(mem, b, v)[x] = mem[x]
           /\ With(mem, b, v) \in [DOMAIN mem \cup {b} -> Seq(Cell)]
           /\ DOMAIN With(mem, b, v) \subseteq BufName
<1>1. mem \in [DOMAIN mem -> Seq(Cell)] /\ DOMAIN mem \subseteq BufName
  BY DEF MemTypeOK
<1> QED BY <1>1 DEF With

\* A buffer as allocated: n cells of junk.
LEMMA JunkType ==
    ASSUME NEW n \in Nat
    PROVE  [i \in 1..n |-> Junk] \in Seq(Cell) /\ Len([i \in 1..n |-> Junk]) = n
BY DEF Cell

\* A header written to cell p of buffer b.
LEMMA HeaderFacts ==
    ASSUME MemTypeOK, NEW s \in Slice, s.buf \in DOMAIN mem, s.lo \in 1..Len(mem[s.buf]),
           NEW seq \in Nat, NEW idx \in Nat
    PROVE  LET m == PutChunkHeader(s, seq, idx) IN
           /\ DOMAIN m = DOMAIN mem
           /\ \A x \in DOMAIN mem : x # s.buf => m[x] = mem[x]
           /\ \A x \in DOMAIN mem : Len(m[x]) = Len(mem[x])
           /\ m[s.buf][s.lo] = Header(seq, idx, "raw")
           /\ \A p \in 1..Len(mem[s.buf]) : p # s.lo => m[s.buf][p] = mem[s.buf][p]
           /\ m \in [DOMAIN mem -> Seq(Cell)]
<1> DEFINE h == Header(seq, idx, "raw")
           m == PutChunkHeader(s, seq, idx)
           b == s.buf
           q == [mem[b] EXCEPT ![s.lo] = h]
<1>1. h \in Cell
  BY DEF Cell, Header, Codec
<1>2. mem \in [DOMAIN mem -> Seq(Cell)] /\ mem[b] \in Seq(Cell)
  BY DEF MemTypeOK
<1>3. m = [mem EXCEPT ![b] = q]
  BY DEF PutChunkHeader
<1> HIDE DEF h
<1>4. q \in Seq(Cell) /\ Len(q) = Len(mem[b]) /\ q[s.lo] = h
      /\ \A p \in 1..Len(mem[b]) : p # s.lo => q[p] = mem[b][p]
  BY <1>1, <1>2
<1> HIDE DEF m, q
<1>5. DOMAIN m = DOMAIN mem /\ m[b] = q /\ \A x \in DOMAIN mem : x # b => m[x] = mem[x]
  BY <1>2, <1>3
<1>6. m \in [DOMAIN mem -> Seq(Cell)]
  BY <1>2, <1>3, <1>4
<1> QED BY <1>4, <1>5, <1>6 DEF m, h

-----------------------------------------------------------------------------
\* Names of buffers.

\* The names of buffers differ in their first component.
LEMMA NameFacts ==
    ASSUME NEW q \in Nat, NEW k \in Nat
    PROVE  /\ Arena(q) \in BufName /\ Arena(q)[1] = "arena" /\ Arena(q)[2] = q
           /\ <<"spare", q, k>> \in BufName /\ <<"spare", q, k>>[1] = "spare"
           /\ <<"spare", q, k>>[2] = q /\ <<"spare", q, k>>[3] = k
           /\ CloneOf(<<q, k>>) \in BufName /\ CloneOf(<<q, k>>)[1] = "clone"
           /\ CloneOf(<<q, k>>)[2] = q /\ CloneOf(<<q, k>>)[3] = k
           /\ CloneOf(<<q, k>>) = <<"clone", q, k>>
           /\ NoBuf \in BufName /\ NoBuf[1] = "nil"
BY DEF Arena, BufName, CloneOf, NoBuf

\* Payload and message of one slice.
LEMMA SliceFacts ==
    ASSUME NEW c \in Slice
    PROVE  /\ c.buf \in BufName /\ c.lo \in Nat /\ c.len \in Nat
           /\ c = [buf |-> c.buf, lo |-> c.lo, len |-> c.len]
           /\ DataOf(c) = [buf |-> c.buf, lo |-> c.lo + 1, len |-> c.len - 1]
           /\ Whole(c) = [buf |-> c.buf, lo |-> c.lo - 1, len |-> c.len + 1]
           /\ c.len >= 1 => DataOf(c) \in Slice /\ Whole(DataOf(c)) = c
           /\ c.lo >= 1 => Whole(c) \in Slice /\ DataOf(Whole(c)) = c
<1>1. /\ c.buf \in BufName /\ c.lo \in Nat /\ c.len \in Nat
      /\ c = [buf |-> c.buf, lo |-> c.lo, len |-> c.len]
  BY DEF Slice
<1>2. DataOf(c) = [buf |-> c.buf, lo |-> c.lo + 1, len |-> c.len - 1]
  <2>1. DataOf(c) = [c EXCEPT !.lo = c.lo + 1, !.len = c.len - 1]
    BY DEF DataOf
  <2> QED BY <1>1, <2>1 DEF Slice
<1>3. Whole(c) = [buf |-> c.buf, lo |-> c.lo - 1, len |-> c.len + 1]
  <2>1. Whole(c) = [c EXCEPT !.lo = c.lo - 1, !.len = c.len + 1]
    BY DEF Whole
  <2> QED BY <1>1, <2>1 DEF Slice
<1>4. c.len >= 1 => DataOf(c) \in Slice
  BY <1>1, <1>2 DEF Slice
<1>5. c.lo >= 1 => Whole(c) \in Slice
  BY <1>1, <1>3 DEF Slice
<1>6. \A d \in [buf : BufName, lo : Int, len : Int] :
        /\ DataOf(d) = [buf |-> d.buf, lo |-> d.lo + 1, len |-> d.len - 1]
        /\ Whole(d) = [buf |-> d.buf, lo |-> d.lo - 1, len |-> d.len + 1]
  <2> TAKE d \in [buf : BufName, lo : Int, len : Int]
  <2>1. DataOf(d) = [d EXCEPT !.lo = d.lo + 1, !.len = d.len - 1]
    BY DEF DataOf
  <2>2. Whole(d) = [d EXCEPT !.lo = d.lo - 1, !.len = d.len + 1]
    BY DEF Whole
  <2> QED BY <2>1, <2>2
<1>7. Whole(DataOf(c)) = c /\ DataOf(Whole(c)) = c
  <2> DEFINE d == DataOf(c)
             e == Whole(c)
  <2>1. /\ d \in [buf : BufName, lo : Int, len : Int] /\ e \in [buf : BufName, lo : Int, len : Int]
        /\ d.buf = c.buf /\ d.lo = c.lo + 1 /\ d.len = c.len - 1
        /\ e.buf = c.buf /\ e.lo = c.lo - 1 /\ e.len = c.len + 1
    BY <1>1, <1>2, <1>3
  <2> HIDE DEF d, e
  <2>2. /\ Whole(d) = [buf |-> d.buf, lo |-> d.lo - 1, len |-> d.len + 1]
        /\ DataOf(e) = [buf |-> e.buf, lo |-> e.lo + 1, len |-> e.len - 1]
    BY <1>6, <2>1
  <2>3. c.lo + 1 - 1 = c.lo /\ c.len - 1 + 1 = c.len /\ c.lo - 1 + 1 = c.lo /\ c.len + 1 - 1 = c.len
    BY <1>1
  <2>4. Whole(d) = c
    BY <1>1, <2>1, <2>2, <2>3
  <2>5. DataOf(e) = c
    BY <1>1, <2>1, <2>2, <2>3
  <2> QED BY <2>4, <2>5 DEF d, e
<1> QED BY <1>1, <1>2, <1>3, <1>4, <1>5, <1>6, <1>7

\* What is handed on.
LEMMA GivenFacts ==
    ASSUME RunTypeOK, GivenInv
    PROVE  /\ Given \in Seq(Slice) /\ Len(Given) \in Nat /\ SpareNow \in BufName /\ UsedNow \in Nat
           /\ parts \in Seq(Slice) /\ Len(parts) \in Nat /\ em.seq \in Seqs /\ em.seq \in Nat
           /\ \A k \in 1..Len(Given) : /\ Given[k] \in Slice
                                       /\ Given[k].buf \in BufName /\ Given[k].lo \in Nat /\ Given[k].len \in Nat
                                       /\ Given[k].lo >= 2 /\ Given[k].len \in 1..ChunkSize
           /\ ~Handed => Given = parts
           /\ Handed => /\ Len(Given) = Len(parts) + 1 /\ Given[Len(Given)] = DataOf(got.msg)
                        /\ got.msg = Whole(Given[Len(Given)]) /\ got.msg \in Slice
                        /\ got.msg.len = Given[Len(Given)].len + 1
           /\ \A k \in 1..Len(parts) : Given[k] = parts[k]
<1>1. /\ parts \in Seq(Slice) /\ Len(parts) \in Nat /\ got.msg \in Slice /\ used \in Nat /\ spare \in BufName
      /\ em.seq \in Seqs /\ em.seq \in Nat /\ NoBuf \in BufName
  BY Consts DEF RunTypeOK, Seqs, NoBuf, BufName
<1>2. /\ got.msg.buf \in BufName /\ got.msg.lo \in Nat /\ got.msg.len \in Nat
      /\ DataOf(got.msg) = [buf |-> got.msg.buf, lo |-> got.msg.lo + 1, len |-> got.msg.len - 1]
      /\ got.msg.len >= 1 => DataOf(got.msg) \in Slice /\ Whole(DataOf(got.msg)) = got.msg
  <2> HIDE DEF Slice
  <2>1. \A c \in Slice : /\ c.buf \in BufName /\ c.lo \in Nat /\ c.len \in Nat
                         /\ DataOf(c) = [buf |-> c.buf, lo |-> c.lo + 1, len |-> c.len - 1]
                         /\ c.len >= 1 => DataOf(c) \in Slice /\ Whole(DataOf(c)) = c
    BY SliceFacts
  <2> QED BY <1>1, <2>1
<1>3. CASE Handed
  <2> DEFINE d == DataOf(got.msg)
             G == [buf : BufName, lo : Int, len : Int]
  <2>1. d \in G /\ d.len = got.msg.len - 1 /\ d.lo = got.msg.lo + 1
    BY <1>2
  <2>2. parts \in Seq(G)
    <3>1. Slice \subseteq G
      BY DEF Slice
    <3> HIDE DEF G, Slice
    <3> QED BY <1>1, <3>1
  <2>3. Given = Append(parts, d)
    BY <1>3 DEF Given
  <2> HIDE DEF d, G
  <2>4. /\ Len(Given) = Len(parts) + 1 /\ Given[Len(Given)] = d
        /\ \A k \in 1..Len(parts) : Given[k] = parts[k]
    BY <2>1, <2>2, <2>3
  <2>5. Len(Given) \in 1..Len(Given)
    BY <1>1, <2>4
  <2>6. d.len \in 1..ChunkSize
    BY <2>4, <2>5 DEF GivenInv, Placed
  <2>7. got.msg.len >= 1 /\ got.msg.len = d.len + 1
    BY <1>2, <2>1, <2>6, Consts
  <2>8. d \in Slice /\ Whole(d) = got.msg
    BY <1>2, <2>7 DEF d
  <2>9. Given \in Seq(Slice)
    BY <1>1, <2>3, <2>8
  <2>10. /\ SpareNow \in BufName /\ UsedNow \in Nat
    BY <1>1, <1>2, <1>3 DEF SpareNow, UsedNow, NextSpare, NextUsed
  <2>11. \A k \in 1..Len(Given) : Given[k] \in Slice /\ Given[k].lo >= 2 /\ Given[k].len \in 1..ChunkSize
    BY <2>9 DEF GivenInv, Placed
  <2>12. \A k \in 1..Len(Given) : Given[k].buf \in BufName /\ Given[k].lo \in Nat /\ Given[k].len \in Nat
    BY <2>11 DEF Slice
  <2> QED BY <1>1, <1>3, <2>4, <2>7, <2>8, <2>9, <2>10, <2>11, <2>12 DEF d
<1>4. CASE ~Handed
  <2>1. Given = parts /\ SpareNow = spare /\ UsedNow = used
    BY <1>4 DEF Given, SpareNow, UsedNow
  <2>2. \A k \in 1..Len(Given) : Given[k] \in Slice /\ Given[k].lo >= 2 /\ Given[k].len \in 1..ChunkSize
    BY <1>1, <2>1 DEF GivenInv, Placed
  <2>3. \A k \in 1..Len(Given) : Given[k].buf \in BufName /\ Given[k].lo \in Nat /\ Given[k].len \in Nat
    BY <2>2 DEF Slice
  <2> QED BY <1>1, <1>4, <2>1, <2>2, <2>3
<1> QED BY <1>3, <1>4

\* The region a read is given.
LEMMA RegionFacts ==
    ASSUME MemTypeOK, RunTypeOK, ControlInv, MemInv, pc = "read"
    PROVE  LET r == Region
               m == IF r.buf \in DOMAIN mem THEN mem ELSE Alloc(r.buf, ChunkSize + 1)
           IN /\ r \in Slice /\ r.buf \in BufName /\ r.lo >= 1 /\ r.len \in 2..ChunkSize + 1
              /\ IF ArenaLeft >= 2
                 THEN r.buf = Arena(em.seq) /\ r.lo = used + 1 /\ r.buf \in DOMAIN mem
                 ELSE /\ r.lo = 1 /\ r.buf[1] = "spare"
                      /\ IF spare = NoBuf
                         THEN r.buf = <<"spare", em.seq, Len(parts)>> /\ r.buf \notin DOMAIN mem
                         ELSE r.buf = spare /\ r.buf \in DOMAIN mem
              /\ m \in [DOMAIN m -> Seq(Cell)] /\ DOMAIN m = DOMAIN mem \cup {r.buf} /\ DOMAIN m \subseteq BufName
              /\ \A b \in DOMAIN mem : m[b] = mem[b]
              /\ r.lo + r.len - 1 <= Len(m[r.buf])
              /\ ArenaLeft < 2 => Len(m[r.buf]) = ChunkSize + 1
<1> DEFINE r == Region
           m == IF r.buf \in DOMAIN mem THEN mem ELSE Alloc(r.buf, ChunkSize + 1)
<1>1. /\ ChunkSize \in Nat /\ ChunkSize >= 1 /\ em.seq \in Nat /\ em.size \in Nat /\ used \in Nat
      /\ chunkIdx \in Nat /\ spare \in BufName /\ DOMAIN mem \subseteq BufName
      /\ mem \in [DOMAIN mem -> Seq(Cell)] /\ Len(parts) \in Nat /\ chunkIdx = Len(parts)
  <2>1. em.seq \in Nat /\ em.size \in Nat
    BY WireAssumption DEF RunTypeOK, Seqs
  <2>2. Len(parts) \in Nat
    BY DEF RunTypeOK
  <2> QED BY <2>1, <2>2, Consts DEF MemTypeOK, RunTypeOK, ControlInv
<1>2. ArenaSize(em.size) \in Nat
  BY <1>1 DEF ArenaSize
<1>3. SpareNow = spare /\ Given = parts
  BY DEF SpareNow, Given, Handed
<1>4. CASE ArenaLeft >= 2
  <2>1. em.size > 0 /\ ArenaLeft = ArenaSize(em.size) - used
    BY <1>1, <1>4 DEF ArenaLeft
  <2>2. /\ r = [buf |-> Arena(em.seq), lo |-> used + 1,
                len |-> IF ChunkSize + 1 < ArenaLeft THEN ChunkSize + 1 ELSE ArenaLeft]
    BY <1>4 DEF Region
  <2>3. Arena(em.seq) \in DOMAIN mem /\ Len(mem[Arena(em.seq)]) = ArenaSize(em.size)
    BY <2>1 DEF MemInv
  <2>4. ArenaLeft \in Nat
    BY <1>1, <1>2, <1>4, <2>1
  <2>5. r.buf = Arena(em.seq) /\ r.lo = used + 1 /\ r.len \in 2..ChunkSize + 1 /\ r.len <= ArenaLeft
    BY <1>1, <1>4, <2>2, <2>4
  <2>6. r \in Slice
    <3>1. Arena(em.seq) \in BufName
      BY <1>1, NameFacts
    <3> QED BY <1>1, <2>2, <2>4, <3>1 DEF Slice
  <2>7. r.lo + r.len - 1 <= Len(mem[r.buf])
    BY <1>1, <1>2, <2>1, <2>3, <2>4, <2>5
  <2> HIDE DEF r
  <2>8. m = mem /\ DOMAIN mem \cup {r.buf} = DOMAIN mem
    BY <2>3, <2>5
  <2>9. /\ r.buf \in BufName /\ r.lo >= 1 /\ r.buf \in DOMAIN mem /\ ~(ArenaLeft < 2)
        /\ r.lo + r.len - 1 <= Len(m[r.buf])
    BY <1>1, <1>4, <2>3, <2>4, <2>5, <2>7, <2>8
  <2> HIDE DEF m
  <2>10. /\ m \in [DOMAIN m -> Seq(Cell)] /\ DOMAIN m = DOMAIN mem \cup {r.buf} /\ DOMAIN m \subseteq BufName
         /\ \A b \in DOMAIN mem : m[b] = mem[b]
    BY <1>1, <2>8
  <2> QED BY <1>4, <2>5, <2>6, <2>9, <2>10 DEF r, m
<1>5. CASE ~(ArenaLeft >= 2)
  <2>2. r = [buf |-> IF spare = NoBuf THEN <<"spare", em.seq, chunkIdx>> ELSE spare,
             lo |-> 1, len |-> ChunkSize + 1]
    BY <1>5 DEF Region
  <2>3. r.lo = 1 /\ r.len = ChunkSize + 1
    BY <2>2
  <2>4. r.buf \in BufName /\ r.buf[1] = "spare"
        /\ (spare = NoBuf => r.buf = <<"spare", em.seq, Len(parts)>> /\ r.buf \notin DOMAIN mem)
        /\ (spare # NoBuf => r.buf = spare /\ r.buf \in DOMAIN mem /\ Len(mem[r.buf]) = ChunkSize + 1)
    <3>1. CASE spare = NoBuf
      <4> DEFINE s == <<"spare", em.seq, Len(parts)>>
      <4>1. r.buf = s
        BY <1>1, <2>2, <3>1
      <4>2. s \in BufName /\ s[1] = "spare" /\ s[2] = em.seq /\ s[3] = Len(parts)
        BY <1>1, NameFacts
      <4>3. NoBuf[1] = "nil"
        BY DEF NoBuf
      <4> HIDE DEF s, r
      <4>4. s \notin DOMAIN mem
        BY <1>1, <1>3, <3>1, <4>2, <4>3 DEF MemInv
      <4> QED BY <3>1, <4>1, <4>2, <4>4 DEF s
    <3>2. CASE spare # NoBuf
      <4>1. r.buf = spare
        BY <2>2, <3>2
      <4> QED BY <1>1, <1>3, <3>2, <4>1 DEF MemInv
    <3> QED BY <3>1, <3>2
  <2>5. r \in Slice
    BY <1>1, <2>2, <2>4 DEF Slice
  <2> HIDE DEF r
  <2>6. CASE r.buf \in DOMAIN mem
    <3>1. m = mem /\ DOMAIN mem \cup {r.buf} = DOMAIN mem /\ Len(mem[r.buf]) = ChunkSize + 1
      BY <2>4, <2>6
    <3> QED BY <1>1, <1>5, <2>3, <2>4, <2>5, <3>1 DEF r
  <2>7. CASE r.buf \notin DOMAIN mem
    <3> DEFINE v == [i \in 1..ChunkSize + 1 |-> Junk]
    <3>1. m = With(mem, r.buf, v)
      BY <2>7 DEF Alloc
    <3>2. v \in Seq(Cell) /\ Len(v) = ChunkSize + 1
      BY <1>1, JunkType
    <3> HIDE DEF v, m
    <3>3. /\ DOMAIN m = DOMAIN mem \cup {r.buf} /\ m[r.buf] = v
          /\ \A x \in DOMAIN mem : x # r.buf => m[x] = mem[x]
          /\ m \in [DOMAIN mem \cup {r.buf} -> Seq(Cell)] /\ DOMAIN m \subseteq BufName
      <4>1. \A b \in BufName : /\ DOMAIN With(mem, b, v) = DOMAIN mem \cup {b}
                               /\ With(mem, b, v)[b] = v
                               /\ \A x \in DOMAIN mem : x # b => With(mem, b, v)[x] = mem[x]
                               /\ With(mem, b, v) \in [DOMAIN mem \cup {b} -> Seq(Cell)]
                               /\ DOMAIN With(mem, b, v) \subseteq BufName
        BY <3>2, MemWith
      <4> QED BY <2>4, <3>1, <4>1, Zenon
    <3>4. /\ m \in [DOMAIN m -> Seq(Cell)]
          /\ \A b \in DOMAIN mem : m[b] = mem[b]
          /\ Len(m[r.buf]) = ChunkSize + 1 /\ r.lo + r.len - 1 <= Len(m[r.buf])
      BY <1>1, <2>3, <2>7, <3>2, <3>3
    <3> QED BY <1>1, <1>5, <2>3, <2>4, <2>5, <2>7, <3>3, <3>4 DEF r, m
  <2> QED BY <2>6, <2>7
<1> QED BY <1>4, <1>5

\* What a read leaves in the memory m it was given.
FilledOf(f, m, r, n) ==
    /\ f \in [DOMAIN m -> Seq(Cell)] /\ DOMAIN f = DOMAIN m
    /\ \A x \in DOMAIN m : x # r.buf => f[x] = m[x]
    /\ Len(f[r.buf]) = Len(m[r.buf])
    /\ \A p \in 1..Len(m[r.buf]) : p <= r.lo \/ p >= r.lo + r.len => f[r.buf][p] = m[r.buf][p]
    /\ \A p \in 1..Len(m[r.buf]) : p > r.lo /\ p <= r.lo + n =>
          f[r.buf][p] = <<"live", em.seq, total + p - r.lo>>

\* A read of n units fills n cells of the region and may scribble on the rest of it.
LEMMA FilledFacts ==
    ASSUME NEW m, m \in [DOMAIN m -> Seq(Cell)], NEW r \in Slice, r.buf \in DOMAIN m,
           NEW n \in Nat, n <= r.len - 1, em.seq \in Seqs, total \in Nat
    PROVE  FilledOf(Filled(m, r, n), m, r, n)
<1> DEFINE b == r.buf
           c(i) == IF i <= r.lo \/ i >= r.lo + r.len THEN m[b][i]
                   ELSE IF i <= r.lo + n THEN <<"live", em.seq, total + i - r.lo>> ELSE Junk
           q == [i \in 1..Len(m[b]) |-> c(i)]
           f == Filled(m, r, n)
<1>1. r.lo \in Nat /\ r.len \in Nat /\ m[b] \in Seq(Cell) /\ Len(m[b]) \in Nat
  BY DEF Slice
<1>2. f = [m EXCEPT ![b] = q]
  BY DEF Filled
<1>3. \A i \in 1..Len(m[b]) : c(i) \in Cell
  <2> SUFFICES ASSUME NEW i \in 1..Len(m[b]) PROVE c(i) \in Cell
    OBVIOUS
  <2>1. m[b][i] \in Cell
    BY <1>1
  <2>2. Junk \in Cell
    BY DEF Cell
  <2>3. i > r.lo => total + i - r.lo \in Nat
    BY <1>1
  <2>4. i > r.lo => <<"live", em.seq, total + i - r.lo>> \in Cell
    BY <2>3 DEF Cell, Unit
  <2> QED BY <1>1, <2>1, <2>2, <2>4
<1>4. q \in Seq(Cell) /\ Len(q) = Len(m[b]) /\ \A i \in 1..Len(m[b]) : q[i] = c(i)
  BY <1>1, <1>3
<1>5. \A p \in 1..Len(m[b]) : p <= r.lo \/ p >= r.lo + r.len => q[p] = m[b][p]
  BY <1>4
<1>6. \A p \in 1..Len(m[b]) : p > r.lo /\ p <= r.lo + n => q[p] = <<"live", em.seq, total + p - r.lo>>
  <2> TAKE p \in 1..Len(m[b])
  <2>1. p > r.lo /\ p <= r.lo + n => ~(p <= r.lo \/ p >= r.lo + r.len)
    BY <1>1
  <2> QED BY <1>4, <2>1
<1> HIDE DEF f, q
<1>7. /\ f \in [DOMAIN m -> Seq(Cell)] /\ DOMAIN f = DOMAIN m /\ f[b] = q
      /\ \A x \in DOMAIN m : x # b => f[x] = m[x]
  BY <1>2, <1>4
<1>8. FilledOf(f, m, r, n)
  BY <1>4, <1>5, <1>6, <1>7 DEF FilledOf
<1> QED BY <1>8 DEF f

-----------------------------------------------------------------------------
\* The broadcaster's methods.

\* An END is not the absence of one.
LEMMA EndIsNotNil == ASSUME NEW m \in EndMsg PROVE m # NoMsg
BY DEF EndMsg, NoMsg

\* begin opens an empty flow.
LEMMA BeginEffect ==
    ASSUME FlowsTypeOK, ~ended, ~OpenFlow, NEW seq \in Seqs, NEW m \in BeginMsg, begin(seq, m)
    PROVE  /\ FlowsTypeOK'
           /\ Len(flows') = Len(flows) + 1 /\ Len(flows) \in Nat
           /\ \A i \in 1..Len(flows) : flows'[i] = flows[i]
           /\ cur'.seq = seq /\ cur'.begin = m /\ cur'.chunks = <<>> /\ OpenFlow'
           /\ NPub' = 0
           /\ ended' = ended /\ panicked' = panicked
<1>1. flows \in Seq(PipeFlow) /\ notify \in Nat
  BY DEF FlowsTypeOK
<1> DEFINE f == [seq |-> seq, begin |-> m, chunks |-> <<>>, end |-> NoMsg]
<1>2. f \in PipeFlow
  BY DEF PipeFlow
<1>3. flows' = Append(flows, f) /\ notify' = notify + 1
      /\ panicked' = panicked /\ ended' = ended /\ srcErr' = srcErr
  BY DEF begin, wakeLocked
<1>4. f.seq = seq /\ f.begin = m /\ f.end = NoMsg /\ f.chunks = <<>>
  OBVIOUS
<1> HIDE DEF f
<1>5. /\ flows' \in Seq(PipeFlow) /\ Len(flows') = Len(flows) + 1
      /\ \A i \in 1..Len(flows) : flows'[i] = flows[i]
      /\ flows'[Len(flows) + 1] = f
  BY <1>1, <1>2, <1>3
<1>6. cur' = f /\ flows' # <<>>
  BY <1>1, <1>5 DEF cur
<1>7. FlowsTypeOK'
  BY <1>3, <1>5, <1>1 DEF FlowsTypeOK
<1>8. OpenFlow' /\ NPub' = 0
  BY <1>4, <1>6 DEF OpenFlow, complete, NPub
<1> QED BY <1>1, <1>3, <1>4, <1>5, <1>6, <1>7, <1>8

\* chunk appends to the open flow.
LEMMA ChunkEffect ==
    ASSUME FlowsTypeOK, ~ended, OpenFlow, NEW c \in Slice, chunk(c)
    PROVE  /\ FlowsTypeOK'
           /\ Len(flows') = Len(flows) /\ Len(flows) \in Nat /\ Len(flows) > 0 /\ flows' # <<>>
           /\ \A i \in 1..Len(flows) - 1 : flows'[i] = flows[i]
           /\ cur'.seq = cur.seq /\ cur'.begin = cur.begin /\ cur'.end = cur.end /\ OpenFlow'
           /\ cur.chunks \in Seq(Slice) /\ cur'.chunks = Append(cur.chunks, c)
           /\ NPub \in Nat /\ NPub' = NPub + 1
           /\ ended' = ended /\ panicked' = panicked
<1>1. flows \in Seq(PipeFlow) /\ notify \in Nat /\ Len(flows) \in Nat /\ Len(flows) > 0 /\ flows # <<>>
  BY DEF FlowsTypeOK, OpenFlow
<1>2. /\ flows' = [flows EXCEPT ![Len(flows)].chunks = Append(@, c)]
      /\ notify' = notify + 1 /\ panicked' = panicked /\ ended' = ended /\ srcErr' = srcErr
  BY DEF chunk, wakeLocked
<1> DEFINE g == [cur EXCEPT !.chunks = Append(@, c)]
<1>3. cur \in PipeFlow
  BY <1>1 DEF cur
<1>4. /\ g \in PipeFlow /\ g.seq = cur.seq /\ g.begin = cur.begin /\ g.end = cur.end
      /\ g.chunks = Append(cur.chunks, c) /\ cur.chunks \in Seq(Slice)
  BY <1>3 DEF PipeFlow
<1>5. flows' = [flows EXCEPT ![Len(flows)] = g]
  BY <1>2 DEF cur
<1> HIDE DEF g
<1>6. /\ flows' \in Seq(PipeFlow) /\ Len(flows') = Len(flows)
      /\ \A i \in 1..Len(flows) - 1 : flows'[i] = flows[i]
      /\ flows'[Len(flows)] = g
  BY <1>1, <1>4, <1>5
<1>7. cur' = g /\ flows' # <<>>
  BY <1>1, <1>6 DEF cur
<1>8. FlowsTypeOK'
  BY <1>1, <1>2, <1>6 DEF FlowsTypeOK
<1>9. OpenFlow'
  BY <1>4, <1>7 DEF OpenFlow, complete
<1>10. NPub \in Nat /\ NPub' = NPub + 1
  <2>1. NPub = Len(cur.chunks) /\ NPub' = Len(cur'.chunks)
    BY <1>1, <1>7 DEF NPub
  <2>2. \A s \in Seq(Slice) : Len(s) \in Nat /\ Len(Append(s, c)) = Len(s) + 1
    OBVIOUS
  <2> QED BY <1>4, <1>7, <2>1, <2>2
<1> QED BY <1>1, <1>2, <1>4, <1>6, <1>7, <1>8, <1>9, <1>10

\* end closes the open flow with its message.
LEMMA EndEffect ==
    ASSUME FlowsTypeOK, ~ended, OpenFlow, NEW m \in EndMsg, end(m)
    PROVE  /\ FlowsTypeOK'
           /\ Len(flows') = Len(flows) /\ Len(flows) \in Nat /\ Len(flows) > 0 /\ flows' # <<>>
           /\ \A i \in 1..Len(flows) - 1 : flows'[i] = flows[i]
           /\ cur'.seq = cur.seq /\ cur'.begin = cur.begin /\ cur'.chunks = cur.chunks
           /\ cur'.end = m /\ complete(cur') /\ ~OpenFlow'
           /\ NPub' = NPub
           /\ ended' = ended /\ panicked' = panicked
<1>1. flows \in Seq(PipeFlow) /\ notify \in Nat /\ Len(flows) \in Nat /\ Len(flows) > 0 /\ flows # <<>>
  BY DEF FlowsTypeOK, OpenFlow
<1>2. /\ flows' = [flows EXCEPT ![Len(flows)].end = m]
      /\ notify' = notify + 1 /\ panicked' = panicked /\ ended' = ended /\ srcErr' = srcErr
  BY DEF end, wakeLocked
<1> DEFINE g == [cur EXCEPT !.end = m]
<1>3. cur \in PipeFlow
  BY <1>1 DEF cur
<1>4. g \in PipeFlow /\ g.seq = cur.seq /\ g.begin = cur.begin /\ g.end = m /\ g.chunks = cur.chunks
  BY <1>3 DEF PipeFlow
<1>5. flows' = [flows EXCEPT ![Len(flows)] = g]
  BY <1>2 DEF cur
<1> HIDE DEF g
<1>6. /\ flows' \in Seq(PipeFlow) /\ Len(flows') = Len(flows)
      /\ \A i \in 1..Len(flows) - 1 : flows'[i] = flows[i]
      /\ flows'[Len(flows)] = g
  BY <1>1, <1>4, <1>5
<1>7. cur' = g /\ flows' # <<>>
  BY <1>1, <1>6 DEF cur
<1>8. m # NoMsg
  BY EndIsNotNil
<1>9. FlowsTypeOK'
  BY <1>1, <1>2, <1>6 DEF FlowsTypeOK
<1>10. complete(cur') /\ ~OpenFlow'
  BY <1>4, <1>7, <1>8 DEF OpenFlow, complete
<1>11. NPub' = NPub
  BY <1>1, <1>4, <1>7 DEF NPub
<1> QED BY <1>1, <1>2, <1>4, <1>6, <1>7, <1>9, <1>10, <1>11

-----------------------------------------------------------------------------
\* What a step other than Begin and Read leaves of the ledger in progress, and
\* what it may write.

SameLedger == em' = em /\ Given' = Given /\ UsedNow' = UsedNow /\ SpareNow' = SpareNow

Calm ==
    \/ Stop
    \/ SubmitInline \/ Submit \/ Offer \/ Hash \/ Flush \/ AskSum \/ End \/ PutParts
    \/ CloseQueues \/ CloseOrdered \/ Finish
    \/ \E w \in Workers : Worker(w)
    \/ Publisher \/ Hasher
    \/ UNCHANGED vars

\* Every step reads, begins a ledger, or is calm.
LEMMA NextCases == [Next \/ (Stopped /\ UNCHANGED vars)]_vars => Calm \/ Begin \/ Read
BY DEF Next, Source, Run, Calm

\* The region read changes hands from Run to the parts in one step, Hash.
LEMMA SameLedgerStep ==
    ASSUME RunTypeOK, Calm
    PROVE  SameLedger
<1>1. CASE UNCHANGED srcVars
  BY <1>1 DEF SameLedger, Given, UsedNow, SpareNow, Handed, NextUsed, NextSpare, srcVars, readVars
<1>2. CASE UNCHANGED readVars /\ (Handed <=> Handed')
  BY <1>2 DEF SameLedger, Given, UsedNow, SpareNow, NextUsed, NextSpare, readVars
<1>3. CASE Stop
  BY <1>2, <1>3 DEF Stop, Return, Handed
<1>4. CASE SubmitInline
  BY <1>2, <1>4 DEF SubmitInline, Handed
<1>5. CASE Submit
  BY <1>2, <1>5 DEF Submit, Handed
<1>6. CASE Offer
  BY <1>2, <1>6 DEF Offer, Handed
<1>7. CASE Hash
  <2>1. /\ pc = "hash" /\ used' = NextUsed /\ spare' = NextSpare /\ em' = em
        /\ parts' = Append(parts, DataOf(got.msg)) /\ AfterRead(got.rerr)
    BY <1>7 DEF Hash
  <2>2. ~Handed'
    <3>1. got.rerr \in {"nil", "eof", "cancel", "fail"}
      BY DEF RunTypeOK
    <3>2. pc' \in {"read", "flush", "return"}
      BY <2>1, <3>1 DEF AfterRead, Return
    <3> QED BY <3>2 DEF Handed
  <2> QED BY <2>1, <2>2 DEF SameLedger, Given, UsedNow, SpareNow, Handed
<1>8. CASE Flush
  BY <1>2, <1>8 DEF Flush, Return, Handed
<1>9. CASE AskSum
  BY <1>2, <1>9 DEF AskSum, Handed
<1>10. CASE End
  BY <1>2, <1>10 DEF End, Handed
<1>11. CASE PutParts
  BY <1>2, <1>11 DEF PutParts, Return, Handed
<1>12. CASE CloseQueues
  BY <1>2, <1>12 DEF CloseQueues, Handed
<1>13. CASE CloseOrdered
  BY <1>2, <1>13 DEF CloseOrdered, Handed
<1>14. CASE Finish
  BY <1>2, <1>14 DEF Finish, Handed
<1>15. CASE \E w \in Workers : Worker(w)
  BY <1>1, <1>15 DEF Worker, Take, Encode, WorkerReturns
<1>16. CASE Publisher
  BY <1>1, <1>16 DEF Publisher, TakeOrdered, Publish, PublisherReturns
<1>17. CASE Hasher
  BY <1>1, <1>17 DEF Hasher, HashNext, HasherReturns
<1>18. CASE UNCHANGED vars
  BY <1>1, <1>18 DEF vars
<1> QED BY <1>3, <1>4, <1>5, <1>6, <1>7, <1>8, <1>9, <1>10, <1>11, <1>12, <1>13, <1>14, <1>15,
           <1>16, <1>17, <1>18 DEF Calm

\* The memory is left alone (n = 0), or slice n gets its header or its frame.
Clone(n) == CloneOf(<<em.seq, n - 1>>)
Writes(n) ==
    \/ n = 0 /\ mem' = mem
    \/ n \in 1..Len(Given) /\ mem' = PutChunkHeader(Whole(Given[n]), em.seq, n - 1)
    \/ /\ n \in 1..Len(Given)
       /\ mem' = With(mem, Clone(n), <<Header(em.seq, n - 1, "zstd")>> \o EncodeAll(Cells(Given[n])))

\* Only the header cell of slice n and its clone can change.
LEMMA WritesFacts ==
    ASSUME MemTypeOK, RunTypeOK, GivenInv, NEW n \in Nat, Writes(n),
           n # 0 => Cells(Given[n]) \in Body
    PROVE  /\ MemTypeOK'
           /\ DOMAIN mem \subseteq DOMAIN mem'
           /\ \A b \in DOMAIN mem' : b \in DOMAIN mem \/ b[1] = "clone"
           /\ \A b \in DOMAIN mem : b[1] # "clone" => Len(mem'[b]) = Len(mem[b])
           /\ \A b \in DOMAIN mem : n = 0 \/ (b # Given[n].buf /\ b # Clone(n)) => mem'[b] = mem[b]
           /\ n # 0 => \A p \in 1..Len(mem[Given[n].buf]) : p # Given[n].lo - 1 =>
                          mem'[Given[n].buf][p] = mem[Given[n].buf][p]
<1> DEFINE g == Given[n]
<1>1. CASE n = 0 /\ mem' = mem
  BY <1>1 DEF MemTypeOK
<1>0. n \in 1..Len(Given) => /\ g \in Slice /\ g.buf \in BufName /\ g.lo \in Nat /\ g.lo >= 2 /\ g.len \in Nat /\ g.len >= 1
                             /\ g.buf \in DOMAIN mem /\ g.lo + g.len - 1 <= Len(mem[g.buf])
                             /\ g.buf[1] # "clone" /\ n - 1 \in Nat /\ em.seq \in Nat
  <2> SUFFICES ASSUME n \in 1..Len(Given)
               PROVE  /\ g \in Slice /\ g.buf \in BufName /\ g.lo \in Nat /\ g.lo >= 2 /\ g.len \in Nat /\ g.len >= 1
                      /\ g.buf \in DOMAIN mem /\ g.lo + g.len - 1 <= Len(mem[g.buf])
                      /\ g.buf[1] # "clone" /\ n - 1 \in Nat /\ em.seq \in Nat
    OBVIOUS
  <2>1. g \in Slice /\ g.buf \in BufName /\ g.lo \in Nat /\ g.len \in Nat /\ em.seq \in Nat
    BY GivenFacts
  <2>2. Placed(g)
    BY DEF GivenInv
  <2>3. Arena(em.seq)[1] = "arena"
    BY DEF Arena
  <2> HIDE DEF g
  <2>4. g.buf \in DOMAIN mem /\ g.lo + g.len - 1 <= Len(mem[g.buf]) /\ g.lo >= 2 /\ g.len >= 1 /\ g.buf[1] # "clone"
    BY <2>1, <2>2, <2>3 DEF Placed
  <2> QED BY <2>1, <2>4
<1>2. CASE n \in 1..Len(Given) /\ mem' = PutChunkHeader(Whole(Given[n]), em.seq, n - 1)
  <2> DEFINE s == Whole(g)
  <2>1. s \in Slice /\ s.buf = g.buf /\ s.lo = g.lo - 1
    <3>1. \A c \in Slice : /\ Whole(c) = [buf |-> c.buf, lo |-> c.lo - 1, len |-> c.len + 1]
                           /\ c.lo >= 1 => Whole(c) \in Slice
      BY SliceFacts
    <3> QED BY <1>0, <1>2, <3>1
  <2>2. s.buf \in DOMAIN mem /\ s.lo \in 1..Len(mem[s.buf])
    <3>1. Len(mem[g.buf]) \in Nat
      BY <1>0, <1>2 DEF MemTypeOK
    <3>2. g.lo \in Nat /\ g.lo >= 2 /\ g.len \in Nat /\ g.len >= 1 /\ g.lo + g.len - 1 <= Len(mem[g.buf])
          /\ g.buf \in DOMAIN mem
      BY <1>0, <1>2
    <3> HIDE DEF s, g
    <3>3. g.lo - 1 \in 1..Len(mem[g.buf])
      BY <3>1, <3>2
    <3> QED BY <2>1, <3>2, <3>3
  <2> HIDE DEF s, g
  <2>3. mem' = PutChunkHeader(s, em.seq, n - 1)
    BY <1>2 DEF s, g
  <2>4. /\ DOMAIN mem' = DOMAIN mem
        /\ \A x \in DOMAIN mem : x # s.buf => mem'[x] = mem[x]
        /\ \A x \in DOMAIN mem : Len(mem'[x]) = Len(mem[x])
        /\ \A p \in 1..Len(mem[s.buf]) : p # s.lo => mem'[s.buf][p] = mem[s.buf][p]
        /\ mem' \in [DOMAIN mem -> Seq(Cell)]
    <3>1. \A c \in Slice, q, i \in Nat : c.buf \in DOMAIN mem /\ c.lo \in 1..Len(mem[c.buf]) =>
             LET m == PutChunkHeader(c, q, i) IN
               /\ DOMAIN m = DOMAIN mem
               /\ \A x \in DOMAIN mem : x # c.buf => m[x] = mem[x]
               /\ \A x \in DOMAIN mem : Len(m[x]) = Len(mem[x])
               /\ \A p \in 1..Len(mem[c.buf]) : p # c.lo => m[c.buf][p] = mem[c.buf][p]
               /\ m \in [DOMAIN mem -> Seq(Cell)]
      BY HeaderFacts
    <3>2. em.seq \in Nat /\ n - 1 \in Nat
      BY <1>0, <1>2
    <3> QED BY <2>1, <2>2, <2>3, <3>1, <3>2, Zenon
  <2>5. MemTypeOK'
    BY <2>4 DEF MemTypeOK
  <2>6. /\ \A b \in DOMAIN mem : b # g.buf => mem'[b] = mem[b]
        /\ \A p \in 1..Len(mem[g.buf]) : p # g.lo - 1 => mem'[g.buf][p] = mem[g.buf][p]
    BY <2>1, <2>4
  <2>7. /\ DOMAIN mem \subseteq DOMAIN mem'
        /\ \A b \in DOMAIN mem' : b \in DOMAIN mem \/ b[1] = "clone"
        /\ \A b \in DOMAIN mem : b[1] # "clone" => Len(mem'[b]) = Len(mem[b])
        /\ \A b \in DOMAIN mem : n = 0 \/ (b # g.buf /\ b # Clone(n)) => mem'[b] = mem[b]
        /\ n # 0 => \A p \in 1..Len(mem[g.buf]) : p # g.lo - 1 => mem'[g.buf][p] = mem[g.buf][p]
    BY <1>2, <2>4, <2>6
  <2> QED BY <2>5, <2>7, Zenon DEF g
<1>3. CASE /\ n \in 1..Len(Given)
           /\ mem' = With(mem, Clone(n), <<Header(em.seq, n - 1, "zstd")>> \o EncodeAll(Cells(Given[n])))
  <2> DEFINE v == <<Header(em.seq, n - 1, "zstd")>> \o EncodeAll(Cells(g))
             b == Clone(n)
  <2>1. v \in Seq(Cell)
    <3>1. Header(em.seq, n - 1, "zstd") \in Cell
      BY <1>0, <1>3 DEF Header, Cell, Codec
    <3>2. Cells(g) \in Body
      BY <1>0, <1>3
    <3>3. <<"zstd", Cells(g)>> \in Cell
      BY <3>2 DEF Cell
    <3>4. << <<"zstd", Cells(g)>> >> \in Seq(Cell) /\ <<Header(em.seq, n - 1, "zstd")>> \in Seq(Cell)
      BY <3>1, <3>3
    <3> HIDE DEF g
    <3> QED BY <3>4 DEF EncodeAll
  <2>2. b \in BufName /\ b[1] = "clone"
    <3>1. \A q, k \in Nat : CloneOf(<<q, k>>) \in BufName /\ CloneOf(<<q, k>>)[1] = "clone"
      BY SMT DEF CloneOf, BufName
    <3>2. em.seq \in Nat /\ n - 1 \in Nat
      BY <1>0, <1>3
    <3>3. b = CloneOf(<<em.seq, n - 1>>)
      BY DEF Clone
    <3> HIDE DEF b
    <3> QED BY <3>1, <3>2, <3>3, Zenon
  <2>3. b # g.buf /\ g.buf \in DOMAIN mem
    BY <1>0, <1>3, <2>2
  <2>4. mem' = With(mem, b, v)
    BY <1>3
  <2> HIDE DEF v, b, g
  <2>5. /\ DOMAIN mem' = DOMAIN mem \cup {b}
        /\ \A x \in DOMAIN mem : x # b => mem'[x] = mem[x]
        /\ mem' \in [DOMAIN mem \cup {b} -> Seq(Cell)]
        /\ DOMAIN mem' \subseteq BufName
    BY <2>1, <2>2, <2>4, MemWith
  <2>6. MemTypeOK'
    BY <2>5 DEF MemTypeOK
  <2>7. \A p \in 1..Len(mem[g.buf]) : mem'[g.buf][p] = mem[g.buf][p]
    BY <2>3, <2>5
  <2>8. \A x \in DOMAIN mem : x # g.buf /\ x # Clone(n) => mem'[x] = mem[x]
    BY <2>5 DEF b
  <2>9. \A x \in DOMAIN mem : x[1] # "clone" => Len(mem'[x]) = Len(mem[x])
    BY <2>2, <2>5
  <2>10. /\ DOMAIN mem \subseteq DOMAIN mem'
         /\ \A x \in DOMAIN mem' : x \in DOMAIN mem \/ x[1] = "clone"
         /\ \A x \in DOMAIN mem : n = 0 \/ (x # g.buf /\ x # Clone(n)) => mem'[x] = mem[x]
         /\ n # 0 => \A p \in 1..Len(mem[g.buf]) : p # g.lo - 1 => mem'[g.buf][p] = mem[g.buf][p]
    BY <1>3, <2>2, <2>5, <2>7, <2>8
  <2> QED BY <2>6, <2>9, <2>10, Zenon DEF g
<1> QED BY <1>1, <1>2, <1>3 DEF Writes

\* The cells of a slice.
LEMMA CellsAre ==
    ASSUME NEW c \in Seq(Cell), NEW lo \in Nat, NEW n \in Nat, lo >= 1, lo + n - 1 <= Len(c)
    PROVE  /\ SubSeq(c, lo, lo + n - 1) \in Seq(Cell) /\ Len(SubSeq(c, lo, lo + n - 1)) = n
           /\ \A p \in 1..n : SubSeq(c, lo, lo + n - 1)[p] = c[lo + p - 1]
<1> DEFINE s == SubSeq(c, lo, lo + n - 1)
<1>1. s \in Seq(Cell) /\ Len(s) = n
  OBVIOUS
<1>2. ASSUME NEW p \in 1..n PROVE s[p] = c[lo + p - 1]
  OBVIOUS
<1> QED BY <1>1, <1>2

\* Two memories that agree on a slice.
LEMMA CellsSame ==
    ASSUME NEW c \in Seq(Cell), NEW d \in Seq(Cell), NEW lo \in Nat, NEW n \in Nat, lo >= 1,
           lo + n - 1 <= Len(c), lo + n - 1 <= Len(d),
           \A p \in 1..n : d[lo + p - 1] = c[lo + p - 1]
    PROVE  SubSeq(d, lo, lo + n - 1) = SubSeq(c, lo, lo + n - 1)
<1> DEFINE s == SubSeq(c, lo, lo + n - 1)
           t == SubSeq(d, lo, lo + n - 1)
<1>1. /\ s \in Seq(Cell) /\ Len(s) = n /\ \A p \in 1..n : s[p] = c[lo + p - 1]
      /\ t \in Seq(Cell) /\ Len(t) = n /\ \A p \in 1..n : t[p] = d[lo + p - 1]
  BY CellsAre
<1> HIDE DEF s, t
<1>2. \A p \in 1..n : t[p] = s[p]
  BY <1>1
<1>3. t = s
  BY <1>1, <1>2, SeqEqual
<1> QED BY <1>3 DEF s, t

\* What every step but Begin keeps of what was handed on and published, apart
\* from the header and the clone of slice n.
Safe(n) ==
    /\ em' = em
    /\ Len(Given') >= Len(Given)
    /\ \A k \in 1..Len(Given) :
         /\ Given'[k] = Given[k]
         /\ Given[k].buf \in DOMAIN mem'
         /\ Len(mem'[Given[k].buf]) = Len(mem[Given[k].buf])
         /\ \A p \in 1..Given[k].len : mem'[Given[k].buf][Given[k].lo + p - 1] = mem[Given[k].buf][Given[k].lo + p - 1]
         /\ k # n => mem'[Given[k].buf][Given[k].lo - 1] = mem[Given[k].buf][Given[k].lo - 1]
    /\ \A i \in Nat : i + 1 # n /\ CloneOf(<<em.seq, i>>) \in DOMAIN mem =>
         CloneOf(<<em.seq, i>>) \in DOMAIN mem' /\ mem'[CloneOf(<<em.seq, i>>)] = mem[CloneOf(<<em.seq, i>>)]
    /\ \A b \in DOMAIN mem : Old(b) => Old(b)' /\ mem'[b] = mem[b]

\* A header or a frame is written where nothing else is.
LEMMA WritesSafe ==
    ASSUME MemTypeOK, RunTypeOK, MemInv, GivenInv, SameLedger, NEW n \in Nat, Writes(n),
           n # 0 => Cells(Given[n]) \in Body
    PROVE  MemTypeOK' /\ Safe(n) /\ MemInv' /\ GivenInv'
<1>1. /\ MemTypeOK'
      /\ DOMAIN mem \subseteq DOMAIN mem'
      /\ \A b \in DOMAIN mem' : b \in DOMAIN mem \/ b[1] = "clone"
      /\ \A b \in DOMAIN mem : b[1] # "clone" => Len(mem'[b]) = Len(mem[b])
      /\ \A b \in DOMAIN mem : n = 0 \/ (b # Given[n].buf /\ b # Clone(n)) => mem'[b] = mem[b]
      /\ n # 0 => \A p \in 1..Len(mem[Given[n].buf]) : p # Given[n].lo - 1 =>
                     mem'[Given[n].buf][p] = mem[Given[n].buf][p]
  BY WritesFacts
<1>2. em' = em /\ Given' = Given /\ UsedNow' = UsedNow /\ SpareNow' = SpareNow
  BY DEF SameLedger
<1>3. /\ Given \in Seq(Slice) /\ Len(Given) \in Nat /\ em.seq \in Nat
      /\ \A k \in 1..Len(Given) : /\ Given[k].buf \in BufName /\ Given[k].lo \in Nat /\ Given[k].len \in Nat
                                  /\ Given[k].lo >= 2 /\ Given[k].len >= 1
                                  /\ Given[k].buf \in DOMAIN mem
                                  /\ Given[k].lo + Given[k].len - 1 <= Len(mem[Given[k].buf])
                                  /\ Len(mem[Given[k].buf]) \in Nat
                                  /\ Given[k].buf = Arena(em.seq) \/ Given[k].buf[1] = "spare"
                                  /\ Given[k].buf[1] # "clone"
  <2>1. /\ Given \in Seq(Slice) /\ Len(Given) \in Nat /\ em.seq \in Nat
        /\ \A k \in 1..Len(Given) : /\ Given[k].buf \in BufName /\ Given[k].lo \in Nat /\ Given[k].len \in Nat
                                    /\ Given[k].lo >= 2 /\ Given[k].len \in 1..ChunkSize
    BY GivenFacts
  <2>2. Arena(em.seq)[1] = "arena"
    BY DEF Arena
  <2>3. ASSUME NEW k \in 1..Len(Given)
        PROVE  /\ Given[k].buf \in DOMAIN mem
               /\ Given[k].lo + Given[k].len - 1 <= Len(mem[Given[k].buf])
               /\ Given[k].buf = Arena(em.seq) \/ Given[k].buf[1] = "spare"
    BY DEF GivenInv, Placed
  <2>4. \A b \in DOMAIN mem : Len(mem[b]) \in Nat
    BY DEF MemTypeOK
  <2> QED BY <2>1, <2>2, <2>3, <2>4, Consts
<1>4. \A j, k \in 1..Len(Given) : j # k /\ Given[j].buf = Given[k].buf =>
         \/ j < k /\ Given[j].lo + Given[j].len < Given[k].lo
         \/ k < j /\ Given[k].lo + Given[k].len < Given[j].lo
  <2> TAKE j, k \in 1..Len(Given)
  <2>1. j < k \/ k < j \/ j = k
    BY <1>3
  <2> QED BY <2>1 DEF GivenInv, Apart
<1>5. n # 0 => n \in 1..Len(Given)
  BY DEF Writes
<1>6. ASSUME n # 0 PROVE Clone(n) = <<"clone", em.seq, n - 1>> /\ Clone(n)[1] = "clone" /\ Clone(n)[2] = em.seq
  BY <1>3, <1>5, <1>6 DEF Clone, CloneOf
<1>7. ASSUME NEW k \in 1..Len(Given), NEW q \in Nat, q >= Given[k].lo - 1, q <= Given[k].lo + Given[k].len - 1,
             q # Given[k].lo - 1 \/ k # n
      PROVE  mem'[Given[k].buf][q] = mem[Given[k].buf][q]
  <2> DEFINE g == Given[k]
             h == Given[n]
  <2>1. /\ g.buf \in DOMAIN mem /\ g.lo \in Nat /\ g.lo >= 2 /\ g.len \in Nat /\ g.len >= 1 /\ g.buf[1] # "clone"
        /\ g.lo + g.len - 1 <= Len(mem[g.buf]) /\ Len(mem[g.buf]) \in Nat
    BY <1>3
  <2>2. CASE n = 0 \/ g.buf # h.buf
    <3>1. n = 0 \/ (g.buf # h.buf /\ g.buf # Clone(n))
      BY <1>6, <2>1, <2>2
    <3>2. mem'[g.buf] = mem[g.buf]
      BY <1>1, <2>1, <3>1
    <3> QED BY <3>2
  <2>3. CASE n # 0 /\ g.buf = h.buf
    <3>1. n \in 1..Len(Given) /\ h.lo \in Nat /\ h.len \in Nat /\ h.lo >= 2 /\ h.len >= 1
      BY <1>3, <1>5, <2>3
    <3>2. q \in 1..Len(mem[h.buf])
      <4>1. q >= g.lo - 1 /\ q <= g.lo + g.len - 1
        BY <1>7
      <4> HIDE DEF g, h
      <4> QED BY <2>1, <2>3, <4>1
    <3>3. q # h.lo - 1
      <4>1. k = n => g = h
        OBVIOUS
      <4>2. k # n => \/ k < n /\ g.lo + g.len < h.lo
                     \/ n < k /\ h.lo + h.len < g.lo
        BY <1>4, <2>3, <3>1
      <4>3. q >= g.lo - 1 /\ q <= g.lo + g.len - 1 /\ (q # g.lo - 1 \/ k # n)
        BY <1>7
      <4> HIDE DEF g, h
      <4> QED BY <2>1, <3>1, <4>1, <4>2, <4>3
    <3> QED BY <1>1, <2>3, <3>2, <3>3
  <2> QED BY <2>2, <2>3
<1>8. ASSUME NEW b \in DOMAIN mem, Old(b) PROVE Old(b)' /\ mem'[b] = mem[b]
  <2>1. Old(b)'
    BY <1>1, <1>2, <1>8 DEF Old
  <2>2. n # 0 => b # Given[n].buf
    <3>1. Arena(em.seq)[1] = "arena" /\ Arena(em.seq)[2] = em.seq
      BY DEF Arena
    <3>2. n # 0 => Given[n].buf = Arena(em.seq) \/ Given[n].buf[1] = "spare"
      BY <1>3, <1>5
    <3> QED BY <1>3, <1>5, <1>8, <3>1, <3>2 DEF Old
  <2>3. n # 0 => b # Clone(n)
    BY <1>3, <1>6, <1>8 DEF Old
  <2> QED BY <1>1, <2>1, <2>2, <2>3
<1>9. ASSUME NEW i \in Nat, i + 1 # n, CloneOf(<<em.seq, i>>) \in DOMAIN mem
      PROVE  CloneOf(<<em.seq, i>>) \in DOMAIN mem' /\ mem'[CloneOf(<<em.seq, i>>)] = mem[CloneOf(<<em.seq, i>>)]
  <2> DEFINE c == CloneOf(<<em.seq, i>>)
  <2>1. c[1] = "clone" /\ c[3] = i
    BY <1>3 DEF CloneOf
  <2>2. n # 0 => Clone(n)[3] = n - 1 /\ n - 1 # i
    BY <1>3, <1>5, <1>6, <1>9
  <2> HIDE DEF c
  <2>3. c \in DOMAIN mem
    BY <1>9 DEF c
  <2>4. n # 0 => c # Given[n].buf /\ c # Clone(n)
    BY <1>3, <1>5, <2>1, <2>2
  <2>5. mem'[c] = mem[c] /\ c \in DOMAIN mem'
    BY <1>1, <2>3, <2>4
  <2> QED BY <2>5 DEF c
<1>10. Safe(n)
  <2>1. ASSUME NEW k \in 1..Len(Given)
        PROVE  /\ Given'[k] = Given[k]
               /\ Given[k].buf \in DOMAIN mem'
               /\ Len(mem'[Given[k].buf]) = Len(mem[Given[k].buf])
               /\ \A p \in 1..Given[k].len : mem'[Given[k].buf][Given[k].lo + p - 1] = mem[Given[k].buf][Given[k].lo + p - 1]
               /\ k # n => mem'[Given[k].buf][Given[k].lo - 1] = mem[Given[k].buf][Given[k].lo - 1]
    <3>1. /\ Given[k].buf \in DOMAIN mem' /\ Len(mem'[Given[k].buf]) = Len(mem[Given[k].buf])
          /\ Given'[k] = Given[k]
      BY <1>1, <1>2, <1>3
    <3>2. Given[k].lo \in Nat /\ Given[k].len \in Nat /\ Given[k].lo >= 2
      BY <1>3
    <3>3. ASSUME NEW p \in 1..Given[k].len PROVE mem'[Given[k].buf][Given[k].lo + p - 1] = mem[Given[k].buf][Given[k].lo + p - 1]
      <4> DEFINE q == Given[k].lo + p - 1
      <4>1. q \in Nat /\ q >= Given[k].lo - 1 /\ q <= Given[k].lo + Given[k].len - 1 /\ q # Given[k].lo - 1
        BY <3>2
      <4> HIDE DEF q
      <4>2. mem'[Given[k].buf][q] = mem[Given[k].buf][q]
        BY <1>7, <4>1
      <4> QED BY <4>2 DEF q
    <3>4. ASSUME k # n PROVE mem'[Given[k].buf][Given[k].lo - 1] = mem[Given[k].buf][Given[k].lo - 1]
      <4> DEFINE q == Given[k].lo - 1
      <4>1. q \in Nat /\ q >= Given[k].lo - 1 /\ q <= Given[k].lo + Given[k].len - 1
        BY <3>2
      <4> HIDE DEF q
      <4>2. mem'[Given[k].buf][q] = mem[Given[k].buf][q]
        BY <1>7, <3>4, <4>1
      <4> QED BY <4>2 DEF q
    <3> QED BY <3>1, <3>3, <3>4
  <2>2. Len(Given') >= Len(Given)
    BY <1>2, <1>3
  <2> QED BY <1>2, <1>8, <1>9, <2>1, <2>2 DEF Safe
<1>11. MemInv'
  <2>1. /\ em.size > 0 => Arena(em.seq) \in DOMAIN mem /\ Len(mem[Arena(em.seq)]) = ArenaSize(em.size)
        /\ SpareNow = NoBuf \/ (SpareNow \in DOMAIN mem /\ SpareNow[1] = "spare" /\ Len(mem[SpareNow]) = ChunkSize + 1)
        /\ \A b \in DOMAIN mem : b[1] = "arena" => b[2] <= em.seq
        /\ \A b \in DOMAIN mem : b[1] = "spare" =>
             \/ b[2] < em.seq
             \/ b[2] = em.seq /\ b[3] < Len(Given)
             \/ b[2] = em.seq /\ b[3] = Len(Given) /\ b = SpareNow
    BY DEF MemInv
  <2>2. Arena(em.seq)[1] = "arena"
    BY DEF Arena
  <2>3. /\ em.size > 0 => Arena(em.seq) \in DOMAIN mem' /\ Len(mem'[Arena(em.seq)]) = ArenaSize(em.size)
        /\ SpareNow = NoBuf \/ (SpareNow \in DOMAIN mem' /\ SpareNow[1] = "spare" /\ Len(mem'[SpareNow]) = ChunkSize + 1)
    BY <1>1, <2>1, <2>2
  <2>4. /\ \A b \in DOMAIN mem' : b[1] = "arena" => b[2] <= em.seq
        /\ \A b \in DOMAIN mem' : b[1] = "spare" =>
             \/ b[2] < em.seq
             \/ b[2] = em.seq /\ b[3] < Len(Given)
             \/ b[2] = em.seq /\ b[3] = Len(Given) /\ b = SpareNow
    BY <1>1, <2>1
  <2> QED BY <1>2, <2>3, <2>4 DEF MemInv
<1>12. GivenInv'
  <2>1. ASSUME NEW k \in 1..Len(Given) PROVE Placed(Given[k])'
    <3>1. Placed(Given[k])
      BY DEF GivenInv
    <3>2. Given[k].buf \in DOMAIN mem' /\ Len(mem'[Given[k].buf]) = Len(mem[Given[k].buf])
      BY <1>1, <1>3
    <3> QED BY <1>2, <3>1, <3>2 DEF Placed
  <2> QED BY <1>2, <2>1 DEF GivenInv, Apart
<1> QED BY <1>1, <1>10, <1>11, <1>12

\* What a read does: it writes to the region it was given, and hands it on
\* with the units in it, or stops.
ReadOf(r, n) ==
    /\ r.lo >= 1 /\ r.len \in 2..ChunkSize + 1 /\ n <= r.len - 1
    /\ IF ArenaLeft >= 2
       THEN r.buf = Arena(em.seq) /\ r.lo = used + 1 /\ r.buf \in DOMAIN mem /\ spare' = spare
       ELSE /\ r.lo = 1 /\ r.buf[1] = "spare" /\ spare' = r.buf /\ Len(mem'[r.buf]) = ChunkSize + 1
            /\ IF spare = NoBuf
               THEN r.buf = <<"spare", em.seq, Len(parts)>> /\ r.buf \notin DOMAIN mem
               ELSE r.buf = spare /\ r.buf \in DOMAIN mem
    /\ DOMAIN mem' = DOMAIN mem \cup {r.buf}
    /\ \A x \in DOMAIN mem : x # r.buf => mem'[x] = mem[x]
    /\ r.buf \in DOMAIN mem =>
         /\ Len(mem'[r.buf]) = Len(mem[r.buf])
         /\ \A p \in 1..Len(mem[r.buf]) : p <= r.lo => mem'[r.buf][p] = mem[r.buf][p]
    /\ r.lo + r.len - 1 <= Len(mem'[r.buf])
    /\ \A p \in 1..n : mem'[r.buf][r.lo + p] = <<"live", em.seq, total + p>>
    /\ \/ /\ pc' = "submit" /\ n >= 1 /\ total + n <= MaxPayload
          /\ got' = [msg |-> [buf |-> r.buf, lo |-> r.lo, len |-> n + 1],
                     arena |-> ArenaLeft >= 2, rerr |-> got'.rerr]
          /\ got'.rerr \in {"nil", "eof", "cancel", "fail"}
       \/ pc' \in {"read", "flush", "return"} /\ got' = got

\* A read is of the region, and leaves the memory typed.
LEMMA ReadFacts ==
    ASSUME MemTypeOK, RunTypeOK, ControlInv, MemInv, Read
    PROVE  MemTypeOK' /\ \E r \in Slice, n \in Nat : ReadOf(r, n)
<1> DEFINE r == Region
           m == IF r.buf \in DOMAIN mem THEN mem ELSE Alloc(r.buf, ChunkSize + 1)
<1>1. pc = "read"
  BY DEF Read
<1>2. /\ r \in Slice /\ r.buf \in BufName /\ r.lo >= 1 /\ r.len \in 2..ChunkSize + 1
      /\ IF ArenaLeft >= 2
         THEN r.buf = Arena(em.seq) /\ r.lo = used + 1 /\ r.buf \in DOMAIN mem
         ELSE /\ r.lo = 1 /\ r.buf[1] = "spare"
              /\ IF spare = NoBuf
                 THEN r.buf = <<"spare", em.seq, Len(parts)>> /\ r.buf \notin DOMAIN mem
                 ELSE r.buf = spare /\ r.buf \in DOMAIN mem
      /\ m \in [DOMAIN m -> Seq(Cell)] /\ DOMAIN m = DOMAIN mem \cup {r.buf} /\ DOMAIN m \subseteq BufName
      /\ \A b \in DOMAIN mem : m[b] = mem[b]
      /\ r.lo + r.len - 1 <= Len(m[r.buf])
      /\ ArenaLeft < 2 => Len(m[r.buf]) = ChunkSize + 1
  BY <1>1, RegionFacts, Zenon
<1>3. PICK n \in 0..r.len - 1, rerr \in {"nil", "eof", "cancel", "fail"} :
        /\ mem' = Filled(m, r, n)
        /\ spare' = IF ArenaLeft >= 2 THEN spare ELSE r.buf
        /\ IF n = 0 THEN AfterRead(rerr) /\ UNCHANGED got
           ELSE IF total + n > MaxPayload THEN Return(TRUE) /\ UNCHANGED got
           ELSE /\ got' = [msg |-> [r EXCEPT !.len = n + 1],
                           arena |-> ArenaLeft >= 2, rerr |-> rerr]
                /\ pc' = "submit"
  BY DEF Read
<1>4. /\ em.seq \in Seqs /\ em.seq \in Nat /\ total \in Nat /\ used \in Nat /\ spare \in BufName
      /\ ChunkSize \in Nat /\ MaxPayload \in Nat /\ ArenaLeft \in Int
  <2>1. em.seq \in Nat /\ em.size \in Nat /\ used \in Nat
    BY Consts DEF RunTypeOK, Seqs
  <2>2. ArenaLeft \in Int
    BY <2>1, Consts DEF ArenaLeft, ArenaSize
  <2> QED BY <2>1, <2>2, Consts DEF RunTypeOK
<1>5. r.lo \in Nat /\ r.len \in Nat /\ n \in Nat /\ n <= r.len - 1
      /\ [r EXCEPT !.len = n + 1] = [buf |-> r.buf, lo |-> r.lo, len |-> n + 1]
  <2> HIDE DEF r
  <2>1. r \in Slice /\ r.len \in 2..ChunkSize + 1
    BY <1>2
  <2>2. r.lo \in Nat /\ r.len \in Nat
    BY <2>1 DEF Slice
  <2>3. r = [buf |-> r.buf, lo |-> r.lo, len |-> r.len]
    BY <2>1 DEF Slice
  <2>4. [r EXCEPT !.len = n + 1] = [buf |-> r.buf, lo |-> r.lo, len |-> n + 1]
    BY <2>3
  <2> QED BY <2>1, <2>2, <2>4
<1> HIDE DEF r, m
<1>6. /\ mem' \in [DOMAIN m -> Seq(Cell)] /\ DOMAIN mem' = DOMAIN m
      /\ \A x \in DOMAIN m : x # r.buf => mem'[x] = m[x]
      /\ Len(mem'[r.buf]) = Len(m[r.buf])
      /\ \A p \in 1..Len(m[r.buf]) : p <= r.lo \/ p >= r.lo + r.len => mem'[r.buf][p] = m[r.buf][p]
      /\ \A p \in 1..Len(m[r.buf]) : p > r.lo /\ p <= r.lo + n =>
            mem'[r.buf][p] = <<"live", em.seq, total + p - r.lo>>
  <2>1. r.buf \in DOMAIN m
    BY <1>2
  <2>2. \A w, s, k : w \in [DOMAIN w -> Seq(Cell)] /\ s \in Slice /\ s.buf \in DOMAIN w /\ k \in Nat /\ k <= s.len - 1 =>
           FilledOf(Filled(w, s, k), w, s, k)
    BY <1>4, FilledFacts
  <2>3. FilledOf(mem', m, r, n)
    BY <1>2, <1>3, <1>5, <2>1, <2>2, Zenon
  <2> QED BY <2>3, Zenon DEF FilledOf
<1>7. MemTypeOK'
  BY <1>2, <1>6 DEF MemTypeOK
<1>8. ASSUME NEW p \in 1..n PROVE mem'[r.buf][r.lo + p] = <<"live", em.seq, total + p>>
  <2> DEFINE q == r.lo + p
  <2>0. Len(m[r.buf]) \in Nat
    BY <1>2
  <2>1. q \in 1..Len(m[r.buf]) /\ q > r.lo /\ q <= r.lo + n /\ total + q - r.lo = total + p
    <3> DEFINE l == Len(m[r.buf])
    <3>1. l \in Nat /\ r.lo >= 1 /\ r.lo + r.len - 1 <= l /\ r.lo \in Nat /\ r.len \in Nat /\ n \in Nat
          /\ n <= r.len - 1 /\ total \in Nat
      BY <1>2, <1>4, <1>5, <2>0, Zenon
    <3> HIDE DEF l
    <3>2. q \in 1..l /\ q > r.lo /\ q <= r.lo + n /\ total + q - r.lo = total + p
      BY <3>1
    <3> QED BY <3>2 DEF l
  <2> HIDE DEF q
  <2>2. mem'[r.buf][q] = <<"live", em.seq, total + q - r.lo>>
    BY <1>6, <2>1
  <2> QED BY <2>1, <2>2 DEF q
<1>9. /\ r.buf \in DOMAIN mem =>
           /\ Len(mem'[r.buf]) = Len(mem[r.buf])
           /\ \A p \in 1..Len(mem[r.buf]) : p <= r.lo => mem'[r.buf][p] = mem[r.buf][p]
      /\ r.lo + r.len - 1 <= Len(mem'[r.buf])
      /\ \A x \in DOMAIN mem : x # r.buf => mem'[x] = mem[x]
      /\ DOMAIN mem' = DOMAIN mem \cup {r.buf}
  BY <1>2, <1>6
<1>10. IF ArenaLeft >= 2
       THEN r.buf = Arena(em.seq) /\ r.lo = used + 1 /\ r.buf \in DOMAIN mem /\ spare' = spare
       ELSE /\ r.lo = 1 /\ r.buf[1] = "spare" /\ spare' = r.buf /\ Len(mem'[r.buf]) = ChunkSize + 1
            /\ IF spare = NoBuf
               THEN r.buf = <<"spare", em.seq, Len(parts)>> /\ r.buf \notin DOMAIN mem
               ELSE r.buf = spare /\ r.buf \in DOMAIN mem
  BY <1>2, <1>3, <1>4, <1>6
<1>11. \/ /\ pc' = "submit" /\ n >= 1 /\ total + n <= MaxPayload
          /\ got' = [msg |-> [buf |-> r.buf, lo |-> r.lo, len |-> n + 1],
                     arena |-> ArenaLeft >= 2, rerr |-> got'.rerr]
          /\ got'.rerr \in {"nil", "eof", "cancel", "fail"}
       \/ pc' \in {"read", "flush", "return"} /\ got' = got
  <2>1. CASE n = 0
    BY <1>3, <2>1 DEF AfterRead, Return
  <2>2. CASE n # 0 /\ total + n > MaxPayload
    BY <1>3, <2>2 DEF Return
  <2>3. CASE n # 0 /\ ~(total + n > MaxPayload)
    <3>1. got' = [msg |-> [buf |-> r.buf, lo |-> r.lo, len |-> n + 1], arena |-> ArenaLeft >= 2, rerr |-> rerr]
          /\ pc' = "submit"
      BY <1>3, <1>5, <2>3
    <3>2. got'.rerr = rerr
      BY <3>1
    <3>3. n >= 1 /\ total + n <= MaxPayload
      BY <1>4, <1>5, <2>3
    <3> QED BY <3>1, <3>2, <3>3
  <2> QED BY <2>1, <2>2, <2>3
<1>12. ReadOf(r, n)
  BY <1>2, <1>5, <1>8, <1>9, <1>10, <1>11, Zenon DEF ReadOf
<1> QED BY <1>2, <1>5, <1>7, <1>12

\* The slice a read hands on.
ReadSlice(r, n) == [buf |-> r.buf, lo |-> r.lo + 1, len |-> n]

\* What it leaves of the ledger in progress.
LEMMA ReadLedger ==
    ASSUME MemTypeOK, RunTypeOK, ControlInv, MemInv, GivenInv, Read,
           NEW r \in Slice, NEW n \in Nat, ReadOf(r, n)
    PROVE  /\ em' = em /\ parts' = parts /\ total' = total /\ used' = used /\ chunkIdx' = chunkIdx
           /\ pc = "read" /\ Given = parts /\ UsedNow = used /\ SpareNow = spare
           /\ \/ /\ pc' = "submit" /\ n >= 1 /\ total + n <= MaxPayload
                 /\ Given' = Append(Given, ReadSlice(r, n))
                 /\ IF ArenaLeft >= 2 THEN UsedNow' = used + n + 1 /\ SpareNow' = spare
                                      ELSE UsedNow' = used /\ SpareNow' = NoBuf
              \/ /\ pc' \in {"read", "flush", "return"}
                 /\ Given' = Given /\ UsedNow' = used /\ SpareNow' = spare'
<1>1. /\ pc = "read" /\ em' = em /\ parts' = parts /\ total' = total /\ used' = used /\ chunkIdx' = chunkIdx
  BY DEF Read
<1>2. Given = parts /\ UsedNow = used /\ SpareNow = spare
  BY <1>1 DEF Given, UsedNow, SpareNow, Handed
<1>3. r.buf \in BufName /\ r.lo \in Nat /\ used \in Nat
  BY DEF Slice, RunTypeOK
<1>4. CASE /\ pc' = "submit" /\ n >= 1 /\ total + n <= MaxPayload
           /\ got' = [msg |-> [buf |-> r.buf, lo |-> r.lo, len |-> n + 1],
                      arena |-> ArenaLeft >= 2, rerr |-> got'.rerr]
  <2>1. /\ got'.msg = [buf |-> r.buf, lo |-> r.lo, len |-> n + 1] /\ (got'.arena <=> ArenaLeft >= 2)
    <3> DEFINE a == ArenaLeft >= 2
               c == [buf |-> r.buf, lo |-> r.lo, len |-> n + 1]
               e == got'.rerr
    <3>1. got' = [msg |-> c, arena |-> a, rerr |-> e]
      BY <1>4
    <3> HIDE DEF a, c, e
    <3>2. got'.msg = c /\ got'.arena = a
      BY <3>1, Zenon
    <3> QED BY <3>2, Zenon DEF a, c
  <2>2. DataOf(got'.msg) = ReadSlice(r, n)
    <3> DEFINE c == [buf |-> r.buf, lo |-> r.lo, len |-> n + 1]
    <3>1. DataOf(c) = [buf |-> c.buf, lo |-> c.lo + 1, len |-> c.len - 1]
      <4>1. DataOf(c) = [c EXCEPT !.lo = c.lo + 1, !.len = c.len - 1]
        BY DEF DataOf
      <4> QED BY <4>1
    <3>2. c.lo + 1 = r.lo + 1 /\ c.len - 1 = n /\ c.buf = r.buf
      BY <1>3
    <3> HIDE DEF c
    <3>3. DataOf(c) = ReadSlice(r, n)
      BY <3>1, <3>2 DEF ReadSlice
    <3> QED BY <2>1, <3>3 DEF c
  <2>3. Handed'
    BY <1>4 DEF Handed
  <2>4. Given' = Append(Given, ReadSlice(r, n))
    BY <1>1, <1>2, <2>2, <2>3 DEF Given
  <2>5. used + got'.msg.len = used + n + 1 /\ used + (n + 1) = used + n + 1
    BY <1>3, <2>1
  <2>6. CASE ArenaLeft >= 2
    <3>1. got'.arena /\ spare' = spare
      BY <2>1, <2>6 DEF ReadOf
    <3>2. UsedNow' = used' + got'.msg.len /\ SpareNow' = spare'
      BY <2>3, <3>1 DEF UsedNow, SpareNow, NextUsed, NextSpare
    <3> QED BY <1>1, <1>2, <1>4, <2>4, <2>5, <2>6, <3>1, <3>2
  <2>7. CASE ~(ArenaLeft >= 2)
    <3>1. ~got'.arena
      BY <2>1, <2>7
    <3>2. UsedNow' = used' /\ SpareNow' = NoBuf
      BY <2>3, <3>1 DEF UsedNow, SpareNow, NextUsed, NextSpare
    <3> QED BY <1>1, <1>2, <1>4, <2>4, <2>7, <3>2
  <2> QED BY <2>6, <2>7
<1>5. CASE pc' \in {"read", "flush", "return"} /\ got' = got
  <2>1. ~Handed'
    BY <1>5 DEF Handed
  <2>2. Given' = Given /\ UsedNow' = used /\ SpareNow' = spare'
    BY <1>1, <1>2, <2>1 DEF Given, UsedNow, SpareNow
  <2> QED BY <1>1, <1>2, <1>5, <2>2
<1> QED BY <1>4, <1>5 DEF ReadOf

\* A read writes to what nobody has been handed, and hands on a slice of it.
LEMMA ReadSafe ==
    ASSUME MemTypeOK, RunTypeOK, ControlInv, MemInv, GivenInv, Read,
           NEW r \in Slice, NEW n \in Nat, ReadOf(r, n)
    PROVE  Safe(0) /\ MemInv' /\ GivenInv'
<1> USE DEF Arena
<1>1. /\ em' = em /\ Given = parts /\ UsedNow = used /\ SpareNow = spare
      /\ \/ /\ pc' = "submit" /\ n >= 1
            /\ Given' = Append(Given, ReadSlice(r, n))
            /\ IF ArenaLeft >= 2 THEN UsedNow' = used + n + 1 /\ SpareNow' = spare
                                 ELSE UsedNow' = used /\ SpareNow' = NoBuf
         \/ /\ Given' = Given /\ UsedNow' = used /\ SpareNow' = spare'
  BY ReadLedger
<1>2. /\ r.lo >= 1 /\ r.len \in 2..ChunkSize + 1 /\ n <= r.len - 1
      /\ IF ArenaLeft >= 2
         THEN r.buf = Arena(em.seq) /\ r.lo = used + 1 /\ r.buf \in DOMAIN mem /\ spare' = spare
         ELSE /\ r.lo = 1 /\ r.buf[1] = "spare" /\ spare' = r.buf /\ Len(mem'[r.buf]) = ChunkSize + 1
              /\ IF spare = NoBuf
                 THEN r.buf = <<"spare", em.seq, Len(parts)>> /\ r.buf \notin DOMAIN mem
                 ELSE r.buf = spare /\ r.buf \in DOMAIN mem
      /\ DOMAIN mem' = DOMAIN mem \cup {r.buf}
      /\ \A x \in DOMAIN mem : x # r.buf => mem'[x] = mem[x]
      /\ r.buf \in DOMAIN mem =>
           /\ Len(mem'[r.buf]) = Len(mem[r.buf])
           /\ \A p \in 1..Len(mem[r.buf]) : p <= r.lo => mem'[r.buf][p] = mem[r.buf][p]
      /\ r.lo + r.len - 1 <= Len(mem'[r.buf])
  BY Zenon DEF ReadOf
<1>3. /\ Given \in Seq(Slice) /\ Len(Given) \in Nat /\ em.seq \in Nat /\ UsedNow \in Nat /\ used \in Nat
      /\ \A k \in 1..Len(Given) : /\ Given[k].buf \in BufName /\ Given[k].lo \in Nat /\ Given[k].len \in Nat
                                  /\ Given[k].lo >= 2 /\ Given[k].len >= 1 /\ Given[k].len \in 1..ChunkSize
                                  /\ Given[k].buf \in DOMAIN mem
                                  /\ Given[k].lo + Given[k].len - 1 <= Len(mem[Given[k].buf])
                                  /\ Len(mem[Given[k].buf]) \in Nat
                                  /\ \/ Given[k].buf = Arena(em.seq) /\ Given[k].lo + Given[k].len - 1 <= used
                                     \/ Given[k].buf[1] = "spare" /\ Given[k].buf # spare
  <2>1. /\ Given \in Seq(Slice) /\ Len(Given) \in Nat /\ em.seq \in Nat /\ UsedNow \in Nat /\ used \in Nat
        /\ \A k \in 1..Len(Given) : /\ Given[k].buf \in BufName /\ Given[k].lo \in Nat /\ Given[k].len \in Nat
                                    /\ Given[k].lo >= 2 /\ Given[k].len \in 1..ChunkSize
    BY <1>1, GivenFacts
  <2>2. ASSUME NEW k \in 1..Len(Given)
        PROVE  /\ Given[k].buf \in DOMAIN mem
               /\ Given[k].lo + Given[k].len - 1 <= Len(mem[Given[k].buf])
               /\ \/ Given[k].buf = Arena(em.seq) /\ Given[k].lo + Given[k].len - 1 <= used
                  \/ Given[k].buf[1] = "spare" /\ Given[k].buf # spare
    BY <1>1 DEF GivenInv, Placed
  <2>3. \A b \in DOMAIN mem : Len(mem[b]) \in Nat
    BY DEF MemTypeOK
  <2>4. \A k \in 1..Len(Given) : Given[k].len >= 1
    BY <2>1, Consts
  <2> QED BY <2>1, <2>2, <2>3, <2>4
<1>4. r.lo \in Nat /\ r.len \in Nat /\ r.buf \in BufName /\ ChunkSize \in Nat /\ n <= ChunkSize
  <2>1. r.lo \in Nat /\ r.len \in Nat /\ r.buf \in BufName
    BY DEF Slice
  <2> QED BY <1>2, <2>1, Consts
<1> DEFINE d == ReadSlice(r, n)
<1>5. /\ d.buf = r.buf /\ d.lo = r.lo + 1 /\ d.len = n /\ d \in Slice
      /\ Given' = Given \/ (n >= 1 /\ Given' = Append(Given, d))
  BY <1>1, <1>4 DEF ReadSlice, Slice
<1> HIDE DEF d
<1>6. /\ Len(Given') >= Len(Given) /\ \A k \in 1..Len(Given) : Given'[k] = Given[k]
      /\ Given' = Append(Given, d) => Len(Given') = Len(Given) + 1 /\ Given'[Len(Given) + 1] = d
  <2>1. \A s \in Seq(Slice) : /\ Len(s) \in Nat /\ Len(Append(s, d)) = Len(s) + 1 /\ Append(s, d)[Len(s) + 1] = d
                              /\ \A k \in 1..Len(s) : Append(s, d)[k] = s[k]
    BY <1>5
  <2>2. CASE Given' = Given
    BY <1>3, <2>1, <2>2
  <2>3. CASE Given' = Append(Given, d)
    BY <1>3, <2>1, <2>3
  <2> QED BY <1>5, <2>2, <2>3
<1>7. ASSUME NEW k \in 1..Len(Given)
      PROVE  /\ Given[k].buf \in DOMAIN mem' /\ Len(mem'[Given[k].buf]) = Len(mem[Given[k].buf])
             /\ \A q \in Nat : q >= 1 /\ q <= Given[k].lo + Given[k].len - 1 =>
                   mem'[Given[k].buf][q] = mem[Given[k].buf][q]
  <2> DEFINE g == Given[k]
  <2>1. /\ g.buf \in DOMAIN mem /\ g.lo \in Nat /\ g.len \in Nat /\ Len(mem[g.buf]) \in Nat
        /\ g.lo + g.len - 1 <= Len(mem[g.buf])
        /\ \/ g.buf = Arena(em.seq) /\ g.lo + g.len - 1 <= used
           \/ g.buf[1] = "spare" /\ g.buf # spare
    BY <1>3
  <2> HIDE DEF g
  <2>2. CASE g.buf # r.buf
    <3>1. mem'[g.buf] = mem[g.buf] /\ g.buf \in DOMAIN mem'
      BY <1>2, <2>1, <2>2
    <3> QED BY <3>1 DEF g
  <2>3. CASE g.buf = r.buf
    <3>1. r.buf = Arena(em.seq) /\ r.lo = used + 1 /\ g.lo + g.len - 1 <= used
      BY <1>2, <2>1, <2>3
    <3>2. ASSUME NEW q \in Nat, q >= 1, q <= g.lo + g.len - 1 PROVE mem'[g.buf][q] = mem[g.buf][q]
      <4>1. q \in 1..Len(mem[r.buf]) /\ q <= r.lo
        BY <1>3, <2>1, <2>3, <3>1, <3>2
      <4> QED BY <1>2, <2>1, <2>3, <4>1
    <3>3. g.buf \in DOMAIN mem' /\ Len(mem'[g.buf]) = Len(mem[g.buf])
      BY <1>2, <2>1, <2>3
    <3> QED BY <3>2, <3>3 DEF g
  <2> QED BY <2>2, <2>3
<1>8. SpareNow' \in {spare, r.buf, NoBuf}
  BY <1>1, <1>2
<1>9. ASSUME NEW b \in DOMAIN mem, Old(b) PROVE Old(b)' /\ mem'[b] = mem[b]
  <2>1. b # r.buf
    BY <1>1, <1>2, <1>3, <1>9 DEF Old
  <2>2. b # NoBuf \/ b[1] # "spare"
    BY DEF NoBuf
  <2>3. \A k \in 1..Len(Given') : b[1] = "spare" => b # Given'[k].buf
    <3>1. \A k \in 1..Len(Given) : b[1] = "spare" => b # Given[k].buf
      BY <1>9 DEF Old
    <3>2. CASE Given' = Given
      BY <3>1, <3>2
    <3>3. CASE Given' = Append(Given, d)
      <4>1. \A k \in 1..Len(Given') : k \in 1..Len(Given) \/ k = Len(Given) + 1
        BY <1>3, <1>6, <3>3
      <4> QED BY <1>5, <1>6, <2>1, <3>1, <3>3, <4>1
    <3> QED BY <1>5, <3>2, <3>3
  <2>4. b[1] = "spare" => b # SpareNow'
    BY <1>1, <1>8, <1>9, <2>1, <2>2 DEF Old
  <2>5. Old(b)'
    BY <1>1, <1>2, <1>9, <2>3, <2>4 DEF Old
  <2> QED BY <1>2, <2>1, <2>5
<1>10. Safe(0)
  <2>1. ASSUME NEW i \in Nat, CloneOf(<<em.seq, i>>) \in DOMAIN mem
        PROVE  CloneOf(<<em.seq, i>>) \in DOMAIN mem' /\ mem'[CloneOf(<<em.seq, i>>)] = mem[CloneOf(<<em.seq, i>>)]
    <3> DEFINE c == CloneOf(<<em.seq, i>>)
    <3>1. c[1] = "clone"
      BY DEF CloneOf
    <3> HIDE DEF c
    <3>2. c \in DOMAIN mem
      BY <2>1 DEF c
    <3>3. r.buf[1] # "clone"
      BY <1>2
    <3>4. c \in DOMAIN mem' /\ mem'[c] = mem[c]
      BY <1>2, <3>1, <3>2, <3>3
    <3> QED BY <3>4 DEF c
  <2>2. ASSUME NEW k \in 1..Len(Given)
        PROVE  /\ \A p \in 1..Given[k].len : mem'[Given[k].buf][Given[k].lo + p - 1] = mem[Given[k].buf][Given[k].lo + p - 1]
               /\ mem'[Given[k].buf][Given[k].lo - 1] = mem[Given[k].buf][Given[k].lo - 1]
    <3>1. Given[k].lo \in Nat /\ Given[k].len \in Nat /\ Given[k].lo >= 2 /\ Given[k].len >= 1
      BY <1>3
    <3>2. ASSUME NEW p \in 1..Given[k].len PROVE mem'[Given[k].buf][Given[k].lo + p - 1] = mem[Given[k].buf][Given[k].lo + p - 1]
      <4> DEFINE q == Given[k].lo + p - 1
      <4>1. q \in Nat /\ q >= 1 /\ q <= Given[k].lo + Given[k].len - 1
        BY <3>1
      <4> HIDE DEF q
      <4>2. mem'[Given[k].buf][q] = mem[Given[k].buf][q]
        BY <1>7, <4>1
      <4> QED BY <4>2 DEF q
    <3>3. mem'[Given[k].buf][Given[k].lo - 1] = mem[Given[k].buf][Given[k].lo - 1]
      <4> DEFINE q == Given[k].lo - 1
      <4>1. q \in Nat /\ q >= 1 /\ q <= Given[k].lo + Given[k].len - 1
        BY <3>1
      <4> HIDE DEF q
      <4>2. mem'[Given[k].buf][q] = mem[Given[k].buf][q]
        BY <1>7, <4>1
      <4> QED BY <4>2 DEF q
    <3> QED BY <3>2, <3>3
  <2> QED BY <1>1, <1>6, <1>7, <1>9, <2>1, <2>2 DEF Safe
<1>11. MemInv'
  <2>1. /\ em.size > 0 => Arena(em.seq) \in DOMAIN mem /\ Len(mem[Arena(em.seq)]) = ArenaSize(em.size)
        /\ spare = NoBuf \/ (spare \in DOMAIN mem /\ spare[1] = "spare" /\ Len(mem[spare]) = ChunkSize + 1)
        /\ \A b \in DOMAIN mem : b[1] = "arena" => b[2] <= em.seq
        /\ \A b \in DOMAIN mem : b[1] = "spare" =>
             \/ b[2] < em.seq
             \/ b[2] = em.seq /\ b[3] < Len(Given)
             \/ b[2] = em.seq /\ b[3] = Len(Given) /\ b = spare
    BY <1>1 DEF MemInv
  <2>2. em.size > 0 => Arena(em.seq) \in DOMAIN mem' /\ Len(mem'[Arena(em.seq)]) = ArenaSize(em.size)
    BY <1>2, <2>1
  <2>3. SpareNow' = NoBuf \/ (SpareNow' \in DOMAIN mem' /\ SpareNow'[1] = "spare" /\ Len(mem'[SpareNow']) = ChunkSize + 1)
    <3>1. CASE SpareNow' = spare /\ r.buf # spare
      BY <1>2, <2>1, <3>1
    <3>2. CASE SpareNow' = r.buf /\ ~(ArenaLeft >= 2)
      BY <1>2, <3>2
    <3>3. CASE ArenaLeft >= 2 /\ SpareNow' = spare
      <4>1. spare # r.buf \/ spare[1] # "spare"
        BY <1>2, <3>3
      <4> QED BY <1>2, <2>1, <3>3, <4>1
    <3>4. \/ SpareNow' = NoBuf \/ (ArenaLeft >= 2 /\ SpareNow' = spare)
          \/ (SpareNow' = r.buf /\ ~(ArenaLeft >= 2))
      BY <1>1, <1>2
    <3> QED BY <3>2, <3>3, <3>4
  <2>4. \A b \in DOMAIN mem' : b[1] = "arena" => b[2] <= em.seq
    BY <1>2, <1>3, <2>1
  <2>5. ASSUME NEW b \in DOMAIN mem', b[1] = "spare"
        PROVE  \/ b[2] < em.seq
               \/ b[2] = em.seq /\ b[3] < Len(Given')
               \/ b[2] = em.seq /\ b[3] = Len(Given') /\ b = SpareNow'
    <3>1. CASE b \in DOMAIN mem
      <4>1. CASE Given' = Append(Given, d)
        <5>1. b[3] \in Nat /\ Len(Given') = Len(Given) + 1
          BY <1>6, <3>1, <4>1 DEF MemTypeOK, BufName
        <5> QED BY <1>3, <2>1, <2>5, <3>1, <5>1
      <4>2. CASE ~(Given' = Append(Given, d))
        <5>1. Given' = Given /\ SpareNow' = spare'
          BY <1>1, <4>2 DEF d
        <5>2. b = spare => spare' = spare
          <6>1. b # NoBuf
            BY <2>5 DEF NoBuf
          <6> QED BY <1>2, <6>1
        <5> QED BY <2>1, <2>5, <3>1, <5>1, <5>2
      <4> QED BY <4>1, <4>2
    <3>2. CASE b \notin DOMAIN mem
      <4>1. b = r.buf /\ ~(ArenaLeft >= 2) /\ r.buf = <<"spare", em.seq, Len(parts)>> /\ spare' = r.buf
        <5>1. b = r.buf
          BY <1>2, <3>2
        <5> QED BY <1>2, <3>2, <5>1
      <4>2. b[2] = em.seq /\ b[3] = Len(Given)
        BY <1>1, <4>1
      <4>3. CASE Given' = Append(Given, d)
        BY <1>3, <1>6, <4>2, <4>3
      <4>4. CASE ~(Given' = Append(Given, d))
        <5>1. Given' = Given /\ SpareNow' = spare'
          BY <1>1, <4>4 DEF d
        <5> QED BY <4>1, <4>2, <5>1
      <4> QED BY <4>3, <4>4
    <3> QED BY <3>1, <3>2
  <2> QED BY <1>1, <2>2, <2>3, <2>4, <2>5 DEF MemInv
<1>12. GivenInv'
  <2>1. \A k \in 1..Len(Given') : \/ k \in 1..Len(Given) /\ Given'[k] = Given[k]
                                  \/ Given' = Append(Given, d) /\ k = Len(Given) + 1 /\ Given'[k] = d
    <3>1. CASE Given' = Given
      BY <3>1
    <3>2. CASE Given' = Append(Given, d)
      BY <1>3, <1>6, <3>2
    <3> QED BY <1>5, <3>1, <3>2
  <2>2. Given' = Append(Given, d) => n >= 1 /\ IF ArenaLeft >= 2 THEN UsedNow' = used + n + 1 /\ SpareNow' = spare
                                                               ELSE UsedNow' = used /\ SpareNow' = NoBuf
    <3>1. Given' = Append(Given, d) => Given' # Given
      BY <1>3, <1>6
    <3> QED BY <1>1, <3>1 DEF d
  <2>3. UsedNow' \in Nat /\ UsedNow' >= used
    BY <1>1, <1>3
  <2>4. ASSUME NEW k \in 1..Len(Given) PROVE Placed(Given[k])' /\ Given'[k] = Given[k]
    <3>1. /\ Given[k].lo \in Nat /\ Given[k].len \in Nat /\ Given[k].lo >= 2 /\ Given[k].len \in 1..ChunkSize
          /\ Given[k].lo + Given[k].len - 1 <= Len(mem[Given[k].buf])
          /\ Given[k].buf \in DOMAIN mem
          /\ \/ Given[k].buf = Arena(em.seq) /\ Given[k].lo + Given[k].len - 1 <= used
             \/ Given[k].buf[1] = "spare" /\ Given[k].buf # spare
      BY <1>3
    <3>2. Given[k].buf[1] = "spare" /\ Given[k].buf # spare => Given[k].buf # SpareNow'
      <4>1. Given[k].buf[1] = "spare" => Given[k].buf # NoBuf
        BY DEF NoBuf
      <4>2. Given[k].buf[1] = "spare" /\ Given[k].buf # spare => Given[k].buf # r.buf
        BY <1>2, <3>1
      <4> QED BY <1>8, <4>1, <4>2
    <3>3. Given[k].buf \in DOMAIN mem' /\ Len(mem'[Given[k].buf]) = Len(mem[Given[k].buf])
      BY <1>7
    <3>4. Given'[k] = Given[k]
      BY <1>6
    <3>5. \/ Given[k].buf = Arena(em.seq) /\ Given[k].lo + Given[k].len - 1 <= UsedNow'
          \/ Given[k].buf[1] = "spare" /\ Given[k].buf # SpareNow'
      BY <1>3, <2>3, <3>1, <3>2
    <3> QED BY <1>1, <3>1, <3>3, <3>4, <3>5 DEF Placed
  <2>5. ASSUME Given' = Append(Given, d) PROVE /\ d.buf \in DOMAIN mem' /\ d.lo >= 2 /\ d.len \in 1..ChunkSize
                                               /\ d.lo + d.len - 1 <= Len(mem'[d.buf])
                                               /\ \/ d.buf = Arena(em'.seq) /\ d.lo + d.len - 1 <= UsedNow'
                                                  \/ d.buf[1] = "spare" /\ d.buf # SpareNow'
    <3>1. Len(mem'[r.buf]) \in Nat
      BY <1>2, ReadFacts DEF MemTypeOK
    <3>2. d.buf \in DOMAIN mem' /\ d.lo >= 2 /\ d.len \in 1..ChunkSize
      BY <1>2, <1>4, <1>5, <2>2, <2>5
    <3>3. d.lo + d.len - 1 <= Len(mem'[d.buf])
      BY <1>2, <1>4, <1>5, <3>1
    <3>4. CASE ArenaLeft >= 2
      BY <1>1, <1>2, <1>3, <1>4, <1>5, <2>2, <2>5, <3>2, <3>3, <3>4
    <3>5. CASE ~(ArenaLeft >= 2)
      <4>1. d.buf[1] = "spare" /\ d.buf # NoBuf
        BY <1>2, <1>5, <3>5 DEF NoBuf
      <4> QED BY <1>1, <2>2, <2>5, <3>2, <3>3, <3>5, <4>1
    <3> QED BY <3>4, <3>5
  <2>6. ASSUME NEW j \in 1..Len(Given'), NEW k \in 1..Len(Given'), j < k PROVE Apart(Given'[j], Given'[k])
    <3>1. CASE k \in 1..Len(Given)
      <4>1. j \in 1..Len(Given)
        BY <1>3, <2>6, <3>1
      <4> QED BY <1>6, <2>6, <3>1, <4>1 DEF GivenInv
    <3>2. CASE k \notin 1..Len(Given)
      <4>1. Given' = Append(Given, d) /\ k = Len(Given) + 1 /\ Given'[k] = d /\ j \in 1..Len(Given) /\ Given'[j] = Given[j]
        <5>1. Given' = Append(Given, d) /\ k = Len(Given) + 1 /\ Given'[k] = d
          BY <2>1, <3>2
        <5>2. j \in 1..Len(Given)
          BY <1>3, <2>6, <5>1
        <5> QED BY <1>6, <5>1, <5>2
      <4>2. /\ Given[j].lo \in Nat /\ Given[j].len \in Nat
            /\ \/ Given[j].buf = Arena(em.seq) /\ Given[j].lo + Given[j].len - 1 <= used
               \/ Given[j].buf[1] = "spare" /\ Given[j].buf # spare
            /\ Given[j].buf \in DOMAIN mem
        BY <1>3, <4>1
      <4>3. CASE ArenaLeft >= 2
        <5>1. d.lo = used + 2 /\ d.buf = Arena(em.seq)
          BY <1>2, <1>3, <1>5, <4>3
        <5>2. Given[j].buf # d.buf \/ Given[j].lo + Given[j].len < d.lo
          <6> DEFINE g == Given[j]
          <6>1. /\ g.lo \in Nat /\ g.len \in Nat /\ used \in Nat
                /\ \/ g.buf = Arena(em.seq) /\ g.lo + g.len - 1 <= used
                   \/ g.buf[1] = "spare"
            BY <1>3, <4>2
          <6>2. Arena(em.seq)[1] = "arena"
            OBVIOUS
          <6> HIDE DEF g, Arena
          <6>3. g.buf # d.buf \/ g.lo + g.len < d.lo
            BY <5>1, <6>1, <6>2
          <6> QED BY <6>3 DEF g
        <5> QED BY <4>1, <5>2 DEF Apart
      <4>4. CASE ~(ArenaLeft >= 2)
        BY <1>2, <1>5, <4>1, <4>2, <4>4 DEF Apart
      <4> QED BY <4>3, <4>4
    <3> QED BY <3>1, <3>2
  <2>7. ASSUME NEW k \in 1..Len(Given') PROVE Placed(Given[k])'
    <3>1. CASE k \in 1..Len(Given)
      BY <2>4, <3>1
    <3>2. CASE Given' = Append(Given, d) /\ k = Len(Given) + 1 /\ Given'[k] = d
      BY <2>5, <3>2 DEF Placed
    <3> QED BY <2>1, <3>1, <3>2
  <2>8. \A j, k \in 1..Len(Given') : j < k => Apart(Given[j], Given[k])'
    BY <2>6 DEF Apart
  <2> QED BY <2>7, <2>8 DEF GivenInv
<1> QED BY <1>10, <1>11, <1>12

-----------------------------------------------------------------------------
\* What follows from a step being safe.

\* The cells of the slices handed on.
LEMMA GivenCells ==
    ASSUME MemTypeOK, RunTypeOK, GivenInv, NEW k \in 1..Len(Given)
    PROVE  /\ Cells(Given[k]) \in Seq(Cell) /\ Len(Cells(Given[k])) = Given[k].len
           /\ \A p \in 1..Given[k].len : Cells(Given[k])[p] = mem[Given[k].buf][Given[k].lo + p - 1]
<1> DEFINE g == Given[k]
           b == mem[g.buf]
<1>1. g.lo \in Nat /\ g.len \in Nat /\ g.lo >= 2
  BY GivenFacts
<1>2. g.buf \in DOMAIN mem /\ g.lo + g.len - 1 <= Len(b)
  BY DEF GivenInv, Placed
<1>3. b \in Seq(Cell)
  BY <1>2 DEF MemTypeOK
<1>4. Cells(g) = SubSeq(b, g.lo, g.lo + g.len - 1)
  BY DEF Cells
<1> HIDE DEF b, g
<1>5. g.lo >= 1
  BY <1>1
<1>6. \A lo, n \in Nat : lo >= 1 /\ lo + n - 1 <= Len(b) =>
         /\ SubSeq(b, lo, lo + n - 1) \in Seq(Cell) /\ Len(SubSeq(b, lo, lo + n - 1)) = n
         /\ \A p \in 1..n : SubSeq(b, lo, lo + n - 1)[p] = b[lo + p - 1]
  BY <1>3, CellsAre
<1>7. /\ SubSeq(b, g.lo, g.lo + g.len - 1) \in Seq(Cell) /\ Len(SubSeq(b, g.lo, g.lo + g.len - 1)) = g.len
      /\ \A p \in 1..g.len : SubSeq(b, g.lo, g.lo + g.len - 1)[p] = b[g.lo + p - 1]
  BY <1>1, <1>2, <1>5, <1>6, Zenon
<1> QED BY <1>4, <1>7, Zenon DEF g, b

\* They stay as they are.
LEMMA CellsKept ==
    ASSUME MemTypeOK, MemTypeOK', RunTypeOK, GivenInv, NEW n \in Nat, Safe(n), NEW k \in 1..Len(Given)
    PROVE  Cells(Given[k])' = Cells(Given[k]) /\ Given'[k] = Given[k]
<1> DEFINE g == Given[k]
           b == mem[g.buf]
           d == mem'[g.buf]
<1>1. g.lo \in Nat /\ g.len \in Nat /\ g.lo >= 1
  BY GivenFacts
<1>2. g.buf \in DOMAIN mem /\ g.lo + g.len - 1 <= Len(b)
  BY DEF GivenInv, Placed
<1>3. /\ Given'[k] = g /\ g.buf \in DOMAIN mem' /\ Len(d) = Len(b)
      /\ \A p \in 1..g.len : d[g.lo + p - 1] = b[g.lo + p - 1]
  BY DEF Safe
<1>4. b \in Seq(Cell) /\ d \in Seq(Cell)
  BY <1>2, <1>3 DEF MemTypeOK
<1>5. Cells(g) = SubSeq(b, g.lo, g.lo + g.len - 1)
  BY DEF Cells
<1>6. Cells(Given[k])' = SubSeq(d, g.lo, g.lo + g.len - 1)
  BY <1>3 DEF Cells
<1> HIDE DEF b, d, g
<1>7. \A lo, m \in Nat : /\ lo >= 1 /\ lo + m - 1 <= Len(b) /\ lo + m - 1 <= Len(d)
                         /\ \A p \in 1..m : d[lo + p - 1] = b[lo + p - 1]
         => SubSeq(d, lo, lo + m - 1) = SubSeq(b, lo, lo + m - 1)
  BY <1>4, CellsSame
<1>8. SubSeq(d, g.lo, g.lo + g.len - 1) = SubSeq(b, g.lo, g.lo + g.len - 1)
  <2>1. g.lo + g.len - 1 <= Len(d)
    BY <1>2, <1>3
  <2> QED BY <1>1, <1>2, <1>3, <1>7, <2>1, Zenon
<1> QED BY <1>3, <1>5, <1>6, <1>8 DEF g

\* So do the units in them ...
LEMMA HoldsKept ==
    ASSUME NEW n \in Nat, Safe(n), NEW k \in 1..Len(Given), NEW lo \in Nat, Holds(Given[k], lo)
    PROVE  Holds(Given[k], lo)'
<1> DEFINE g == Given[k]
<1>1. /\ em' = em /\ Given'[k] = g
      /\ \A p \in 1..g.len : mem'[g.buf][g.lo + p - 1] = mem[g.buf][g.lo + p - 1]
  BY DEF Safe
<1>2. \A p \in 1..g.len : mem[g.buf][g.lo + p - 1] = <<"live", em.seq, lo + p>>
  BY DEF Holds
<1> HIDE DEF g
<1>3. \A p \in 1..g.len : mem'[g.buf][g.lo + p - 1] = <<"live", em'.seq, lo + p>>
  BY <1>1, <1>2
<1> QED BY <1>1, <1>3, Zenon DEF Holds

\* ... and the chunk made of one, unless it is the one being made.
LEMMA FormKept ==
    ASSUME MemTypeOK, MemTypeOK', RunTypeOK, GivenInv, NEW n \in Nat, Safe(n), compress' = compress,
           NEW i \in Nat, i + 1 \in 1..Len(Given), i + 1 # n, NEW c
    PROVE  /\ RawOut(c, i, Given[i + 1]) => RawOut(c, i, Given[i + 1])'
           /\ ZstdOut(c, i, Given[i + 1]) => ZstdOut(c, i, Given[i + 1])'
<1> DEFINE g == Given[i + 1]
<1>1. /\ em' = em /\ Given'[i + 1] = g /\ g.buf \in DOMAIN mem'
      /\ mem'[g.buf][g.lo - 1] = mem[g.buf][g.lo - 1]
  BY DEF Safe
<1>2. Cells(Given[i + 1])' = Cells(g)
  <2>1. \A k \in 1..Len(Given) : Cells(Given[k])' = Cells(Given[k])
    BY CellsKept
  <2> QED BY <2>1
<1>3. ASSUME RawOut(c, i, g) PROVE RawOut(c, i, Given[i + 1])'
  BY <1>1, <1>3 DEF RawOut, Whole
<1>4. ASSUME ZstdOut(c, i, g) PROVE ZstdOut(c, i, Given[i + 1])'
  <2> DEFINE b == CloneOf(<<em.seq, i>>)
  <2>1. c = [buf |-> b, lo |-> 1, len |-> 2] /\ c.buf \in DOMAIN mem
        /\ mem[c.buf] = << Header(em.seq, i, "zstd"), <<"zstd", Cells(g)>> >> /\ Smaller(Cells(g)) /\ compress
    BY <1>4 DEF ZstdOut
  <2>2. c.buf = b
    BY <2>1
  <2>3. b \in DOMAIN mem' /\ mem'[b] = mem[b]
    BY <2>1, <2>2 DEF Safe
  <2> QED BY <1>1, <1>2, <2>1, <2>2, <2>3 DEF ZstdOut
<1> QED BY <1>3, <1>4

\* Either way it is still the chunk made of that slice.
LEMMA OutKept ==
    ASSUME MemTypeOK, MemTypeOK', RunTypeOK, GivenInv, NEW n \in Nat, Safe(n), compress' = compress,
           NEW i \in Nat, i + 1 \in 1..Len(Given), i + 1 # n, NEW c, Out(c, i, Given[i + 1])
    PROVE  Out(c, i, Given[i + 1])'
BY FormKept DEF Out

\* A chunk as a message.
LEMMA OutMsg ==
    ASSUME MemTypeOK, RunTypeOK, GivenInv, NEW i \in Nat, i + 1 \in 1..Len(Given), NEW c
    PROVE  /\ RawOut(c, i, Given[i + 1]) => Msg(c) = RawChunk(em.seq, i, Cells(Given[i + 1]))
           /\ ZstdOut(c, i, Given[i + 1]) => /\ Msg(c) = compressChunk(em.seq, i, Cells(Given[i + 1]))
                                             /\ Smaller(Cells(Given[i + 1]))
<1> DEFINE g == Given[i + 1]
           b == mem[g.buf]
<1>1. g \in Slice /\ g.buf \in BufName /\ g.lo \in Nat /\ g.len \in Nat /\ g.lo >= 2 /\ em.seq \in Nat
  BY GivenFacts
<1>2. g.buf \in DOMAIN mem /\ g.lo + g.len - 1 <= Len(b)
  BY DEF GivenInv, Placed
<1>3. b \in Seq(Cell)
  BY <1>2 DEF MemTypeOK
<1>4. /\ Cells(g) \in Seq(Cell) /\ Len(Cells(g)) = g.len
      /\ \A p \in 1..g.len : Cells(g)[p] = b[g.lo + p - 1]
  <2>1. \A k \in 1..Len(Given) : /\ Cells(Given[k]) \in Seq(Cell) /\ Len(Cells(Given[k])) = Given[k].len
                                 /\ \A p \in 1..Given[k].len : Cells(Given[k])[p] = mem[Given[k].buf][Given[k].lo + p - 1]
    BY GivenCells
  <2> QED BY <2>1
<1>5. ASSUME RawOut(c, i, g) PROVE Msg(c) = RawChunk(em.seq, i, Cells(g))
  <2> DEFINE h == Header(em.seq, i, "raw")
             w == Cells(c)
  <2>1. c = [buf |-> g.buf, lo |-> g.lo - 1, len |-> g.len + 1] /\ b[g.lo - 1] = h
    <3>1. \A s \in Slice : Whole(s) = [buf |-> s.buf, lo |-> s.lo - 1, len |-> s.len + 1]
      BY SliceFacts
    <3> QED BY <1>1, <1>5, <3>1 DEF RawOut
  <2>2. w = SubSeq(b, g.lo - 1, g.lo - 1 + (g.len + 1) - 1)
    BY <2>1 DEF Cells
  <2> HIDE DEF g, b, h, w
  <2>3. /\ w \in Seq(Cell) /\ Len(w) = g.len + 1 /\ \A p \in 1..g.len + 1 : w[p] = b[g.lo - 1 + p - 1]
    <3>1. \A lo, n \in Nat : lo >= 1 /\ lo + n - 1 <= Len(b) =>
             /\ SubSeq(b, lo, lo + n - 1) \in Seq(Cell) /\ Len(SubSeq(b, lo, lo + n - 1)) = n
             /\ \A p \in 1..n : SubSeq(b, lo, lo + n - 1)[p] = b[lo + p - 1]
      BY <1>3, CellsAre
    <3>2. g.lo - 1 \in Nat /\ g.len + 1 \in Nat /\ g.lo - 1 >= 1 /\ g.lo - 1 + (g.len + 1) - 1 <= Len(b)
      <4>1. g.lo - 1 + (g.len + 1) - 1 = g.lo + g.len - 1
        BY <1>1
      <4>2. Len(b) \in Nat
        BY <1>3
      <4>3. g.lo - 1 \in Nat /\ g.len + 1 \in Nat /\ g.lo - 1 >= 1
        BY <1>1
      <4>4. g.lo + g.len - 1 <= Len(b)
        BY <1>2
      <4> QED BY <4>1, <4>3, <4>4, Zenon
    <3> QED BY <2>2, <3>1, <3>2, Zenon
  <2>4. w[1] = h
    <3>1. 1 \in 1..g.len + 1 /\ g.lo - 1 + 1 - 1 = g.lo - 1
      BY <1>1
    <3>2. w[1] = b[g.lo - 1 + 1 - 1]
      BY <2>3, <3>1, Zenon
    <3> QED BY <2>1, <3>1, <3>2
  <2>5. Tail(w) = Cells(g)
    <3> DEFINE u == Cells(g)
    <3>1. u \in Seq(Cell) /\ Len(u) = g.len /\ \A p \in 1..g.len : u[p] = b[g.lo + p - 1]
      BY <1>4
    <3> HIDE DEF u
    <3>2. Tail(w) \in Seq(Cell) /\ Len(Tail(w)) = g.len
      BY <1>1, <2>3
    <3>3. ASSUME NEW p \in 1..g.len PROVE Tail(w)[p] = u[p]
      <4>1. p + 1 \in 1..g.len + 1 /\ g.lo - 1 + (p + 1) - 1 = g.lo + p - 1
        BY <1>1
      <4>2. Tail(w)[p] = w[p + 1]
        BY <1>1, <2>3
      <4>3. w[p + 1] = b[g.lo - 1 + (p + 1) - 1]
        BY <2>3, <4>1
      <4>4. u[p] = b[g.lo + p - 1]
        BY <3>1
      <4> QED BY <4>1, <4>2, <4>3, <4>4
    <3>4. Tail(w) = u
      BY <3>1, <3>2, <3>3, SeqEqual
    <3> QED BY <3>4 DEF u
  <2>6. h[1] = "header" /\ h[2] = em.seq /\ h[3] = i /\ h[4] = "raw"
    BY DEF h, Header
  <2>7. Msg(c) = AppendChunk(w[1][2], w[1][3], w[1][4], Tail(w))
    BY <2>4, <2>6 DEF Msg, w
  <2> QED BY <2>4, <2>5, <2>6, <2>7 DEF RawChunk
<1>6. ASSUME ZstdOut(c, i, g) PROVE Msg(c) = compressChunk(em.seq, i, Cells(g)) /\ Smaller(Cells(g))
  <2> DEFINE h == Header(em.seq, i, "zstd")
             f == <<"zstd", Cells(g)>>
             m == << h, f >>
             w == Cells(c)
  <2>1. c = [buf |-> CloneOf(<<em.seq, i>>), lo |-> 1, len |-> 2] /\ mem[c.buf] = m /\ Smaller(Cells(g))
    BY <1>6 DEF ZstdOut
  <2>2. w = SubSeq(m, 1, 1 + 2 - 1)
    BY <2>1 DEF Cells
  <2>3. h[1] = "header" /\ h[2] = em.seq /\ h[3] = i /\ h[4] = "zstd"
    BY DEF Header
  <2> HIDE DEF h, f, w
  <2>4. w = m
    <3>1. m \in Seq({h, f}) /\ Len(m) = 2
      OBVIOUS
    <3> HIDE DEF m
    <3> QED BY <2>2, <3>1
  <2>5. m[1] = h /\ Tail(m) = << f >>
    OBVIOUS
  <2>6. Msg(c) = AppendChunk(w[1][2], w[1][3], w[1][4], Tail(w))
    BY <2>3, <2>4, <2>5 DEF Msg, w
  <2>7. Msg(c) = AppendChunk(em.seq, i, "zstd", << f >>)
    BY <2>3, <2>4, <2>5, <2>6
  <2> QED BY <2>1, <2>7 DEF compressChunk, EncodeAll, f
<1> QED BY <1>5, <1>6

-----------------------------------------------------------------------------
\* Types and control.


\* A step that leaves the broadcaster alone.
LEMMA FlowsFrame ==
    ASSUME UNCHANGED bVars
    PROVE  /\ flows' = flows /\ ended' = ended /\ panicked' = panicked
           /\ (OpenFlow <=> OpenFlow') /\ NPub' = NPub /\ cur' = cur /\ Len(flows') = Len(flows)
           /\ FlowsTypeOK => FlowsTypeOK'
BY DEF bVars, OpenFlow, NPub, cur, complete, FlowsTypeOK

\* Run's state keeps its types.
LEMMA RunTypeStep ==
    ASSUME MemTypeOK, RunTypeOK, ControlInv, MemInv, GivenInv, Calm \/ Begin \/ Read
    PROVE  RunTypeOK'
<1>1. /\ compress \in BOOLEAN /\ pc \in RunPc /\ em \in [seq : Seqs, size : Nat] /\ used \in Nat /\ spare \in BufName
      /\ got \in [msg : Slice, arena : BOOLEAN, rerr : {"nil", "eof", "cancel", "fail"}]
      /\ chunkIdx \in Nat /\ total \in Nat /\ parts \in Seq(Slice) /\ runErr \in BOOLEAN
  BY DEF RunTypeOK
<1> USE DEF RunTypeOK
<1>2. CASE UNCHANGED srcVars
  BY <1>2 DEF srcVars, readVars
<1>3. CASE Begin
  <2>1. PICK size \in DeclaredSizes : em' = [seq |-> em.seq + 1, size |-> size]
    BY <1>3 DEF Begin
  <2>2. em.seq + 1 \in Seqs /\ size \in Nat
    BY <1>1, <1>3, Consts DEF Begin, Seqs
  <2>3. em' \in [seq : Seqs, size : Nat]
    BY <2>1, <2>2
  <2>4. UNCHANGED <<compress, spare, got, runErr>> /\ pc' = "read" /\ used' = 0 /\ chunkIdx' = 0 /\ total' = 0 /\ parts' = <<>>
    BY <1>3 DEF Begin
  <2>5. <<>> \in Seq(Slice)
    OBVIOUS
  <2> HIDE DEF Slice
  <2> QED BY <1>1, <2>3, <2>4, <2>5 DEF RunPc
<1>4. CASE Read
  <2>1. PICK r \in Slice, n \in Nat : ReadOf(r, n)
    BY <1>4, ReadFacts
  <2>2. r.buf \in BufName /\ r.lo \in Nat
    BY DEF Slice
  <2>3. UNCHANGED <<compress, em, used, chunkIdx, total, parts>>
    BY <1>4 DEF Read
  <2>4. spare' \in BufName
    BY <1>1, <2>1, <2>2 DEF ReadOf
  <2>5. pc' \in RunPc
    BY <2>1 DEF ReadOf, RunPc
  <2>6. got' \in [msg : Slice, arena : BOOLEAN, rerr : {"nil", "eof", "cancel", "fail"}]
    <3>1. CASE got' = got
      BY <1>1, <3>1
    <3>2. CASE /\ got' = [msg |-> [buf |-> r.buf, lo |-> r.lo, len |-> n + 1],
                          arena |-> ArenaLeft >= 2, rerr |-> got'.rerr]
               /\ got'.rerr \in {"nil", "eof", "cancel", "fail"}
      <4> DEFINE c == [buf |-> r.buf, lo |-> r.lo, len |-> n + 1]
                 a == ArenaLeft >= 2
                 e == got'.rerr
      <4>1. c \in Slice
        BY <2>2 DEF Slice
      <4>2. a \in BOOLEAN
        OBVIOUS
      <4>3. got' = [msg |-> c, arena |-> a, rerr |-> e] /\ e \in {"nil", "eof", "cancel", "fail"}
        BY <3>2
      <4> HIDE DEF a, c, e
      <4> QED BY <4>1, <4>2, <4>3
    <3> QED BY <2>1, <3>1, <3>2 DEF ReadOf
  <2>7. runErr' \in BOOLEAN
    <3>1. PICK rerr \in {"nil", "eof", "cancel", "fail"} :
            AfterRead(rerr) \/ Return(TRUE) \/ UNCHANGED runErr
      BY <1>4, Zenon DEF Read
    <3> QED BY <1>1, <3>1 DEF AfterRead, Return
  <2> HIDE DEF RunTypeOK
  <2> QED BY <1>1, <2>3, <2>4, <2>5, <2>6, <2>7 DEF RunTypeOK
<1>5. CASE Hash
  <2>1. /\ used' = NextUsed /\ spare' = NextSpare /\ chunkIdx' = chunkIdx + 1 /\ parts' = Append(parts, DataOf(got.msg))
        /\ total' = total + got.msg.len - 1 /\ AfterRead(got.rerr) /\ UNCHANGED <<compress, em, got>> /\ Handed
    BY <1>5 DEF Hash, Handed
  <2>2. /\ Given \in Seq(Slice) /\ UsedNow \in Nat /\ SpareNow \in BufName /\ got.msg.len = Given[Len(Given)].len + 1
        /\ Given[Len(Given)].len \in Nat
    <3>1. Len(Given) \in 1..Len(Given)
      BY <1>1, <2>1, GivenFacts
    <3> QED BY <2>1, <3>1, GivenFacts
  <2>3. parts' \in Seq(Slice) /\ used' \in Nat /\ spare' \in BufName
    BY <2>1, <2>2 DEF Given, UsedNow, SpareNow
  <2>4. total' \in Nat /\ chunkIdx' \in Nat
    BY <1>1, <2>1, <2>2
  <2>5. pc' \in RunPc /\ runErr' \in BOOLEAN
    BY <1>1, <2>1 DEF AfterRead, Return, RunPc
  <2> HIDE DEF RunTypeOK
  <2> QED BY <1>1, <2>1, <2>3, <2>4, <2>5 DEF RunTypeOK
<1>6. CASE UNCHANGED readVars /\ pc' \in RunPc /\ runErr' \in BOOLEAN
  BY <1>1, <1>6 DEF readVars
<1>7. CASE Stop
  BY <1>1, <1>6, <1>7 DEF Stop, Return, RunPc
<1>8. CASE SubmitInline \/ Submit \/ Offer \/ AskSum \/ End \/ CloseQueues \/ CloseOrdered \/ Finish
  <2>1. UNCHANGED <<readVars, runErr>> /\ pc' \in RunPc
    BY <1>8 DEF SubmitInline, Submit, Offer, AskSum, End, CloseQueues, CloseOrdered, Finish, RunPc
  <2> QED BY <1>1, <1>6, <2>1
<1>9. CASE Flush \/ PutParts
  BY <1>1, <1>6, <1>9 DEF Flush, PutParts, Return, RunPc
<1>10. CASE \E w \in Workers : Worker(w)
  BY <1>2, <1>10 DEF Worker, Take, Encode, WorkerReturns
<1>11. CASE Publisher \/ Hasher
  BY <1>2, <1>11 DEF Publisher, TakeOrdered, Publish, PublisherReturns, Hasher, HashNext, HasherReturns
<1>12. CASE UNCHANGED vars
  BY <1>2, <1>12 DEF vars
<1> QED BY <1>3, <1>4, <1>5, <1>7, <1>8, <1>9, <1>10, <1>11, <1>12 DEF Calm

\* Indices of jobs.
LEMMA Counts ==
    ASSUME FlowsTypeOK, RunTypeOK, JobsTypeOK, ControlInv, GivenInv, OrderInv
    PROVE  /\ NPub \in Nat /\ NSub \in Nat /\ inflight \in Nat /\ NPub + inflight = NSub /\ NSub <= Len(Given)
           /\ Len(ordered) \in Nat /\ Len(Given) \in Nat /\ Len(parts) \in Nat /\ chunkIdx = Len(parts)
           /\ em.seq \in Nat
           /\ \A key \in DOMAIN jobs : \E i \in NPub..NSub - 1 : key = <<em.seq, i>>
           /\ \A i \in NPub..NSub - 1 : <<em.seq, i>> \in DOMAIN jobs
           /\ pc \in {"submit", "offer", "hash"} => Len(Given) = Len(parts) + 1
           /\ pc \notin {"submit", "offer", "hash"} => Given = parts
<1>1. /\ Len(Given) \in Nat /\ Len(parts) \in Nat /\ em.seq \in Nat
      /\ pc \in {"submit", "offer", "hash"} => Len(Given) = Len(parts) + 1
      /\ pc \notin {"submit", "offer", "hash"} => Given = parts
  BY GivenFacts DEF Handed
<1>2. NPub \in Nat
  <2>1. CASE flows = <<>>
    BY <2>1 DEF NPub
  <2>2. CASE flows # <<>>
    <3>1. cur \in PipeFlow
      BY <2>2 DEF cur, FlowsTypeOK
    <3>2. cur.chunks \in Seq(Slice)
      BY <3>1 DEF PipeFlow
    <3> HIDE DEF Slice
    <3> QED BY <2>2, <3>2 DEF NPub
  <2> QED BY <2>1, <2>2
<1>3. NSub \in Nat /\ NSub <= Len(Given)
  BY <1>1 DEF NSub
<1>4. inflight \in Nat /\ Len(ordered) \in Nat
  BY DEF JobsTypeOK
<1>5. /\ NPub + inflight = NSub
      /\ DOMAIN jobs = {<<em.seq, i>> : i \in NPub..NSub - 1}
  BY DEF OrderInv
<1>6. /\ \A key \in DOMAIN jobs : \E i \in NPub..NSub - 1 : key = <<em.seq, i>>
      /\ \A i \in NPub..NSub - 1 : <<em.seq, i>> \in DOMAIN jobs
  BY <1>5
<1>7. chunkIdx = Len(parts)
  BY DEF ControlInv
<1> QED BY <1>1, <1>2, <1>3, <1>4, <1>5, <1>6, <1>7

\* Run's control point, the flows and who has returned.
LEMMA ControlStep ==
    ASSUME FlowsTypeOK, MemTypeOK, RunTypeOK, JobsTypeOK, ControlInv, MemInv, GivenInv, OrderInv,
           Calm \/ Begin \/ Read, hashed \in Body
    PROVE  ControlInv' /\ FlowsTypeOK'
<1>1. /\ ~panicked
      /\ ended <=> pc = "done"
      /\ em.seq = Len(flows) /\ em.seq <= MaxLedgers
      /\ \A i \in 1..Len(flows) : flows[i].seq = i /\ flows[i].begin = AppendBegin(i, i)
      /\ \A i \in 1..Len(flows) - 1 : complete(flows[i])
      /\ pc = "pull" => ~OpenFlow
      /\ pc \in {"read", "submit", "offer", "hash", "flush", "sum", "end"} => OpenFlow
      /\ pc = "put" => flows # <<>> /\ complete(cur)
      /\ pc \in {"offer", "wait"} => compress
      /\ chunkIdx = Len(parts)
      /\ inflight # 0 => OpenFlow /\ compress
      /\ pc \in {"sum", "end"} => inflight = 0
      /\ "ordered" \in closed => pc \in {"drain", "done"}
      /\ compress /\ "publisher" \in exited => pc \in {"drain", "done"} /\ inflight = 0
      /\ pc = "done" => inflight = 0
  BY DEF ControlInv
<1>2. /\ flows \in Seq(PipeFlow) /\ Len(flows) \in Nat /\ inflight \in Nat /\ parts \in Seq(Slice) /\ Len(parts) \in Nat
      /\ em.seq \in Nat /\ MaxLedgers \in Nat
  BY Consts, Counts DEF FlowsTypeOK, RunTypeOK, JobsTypeOK
<1>3. UNCHANGED bVars =>
           /\ flows' = flows /\ ended' = ended /\ panicked' = panicked
           /\ (OpenFlow <=> OpenFlow') /\ NPub' = NPub /\ cur' = cur /\ Len(flows') = Len(flows)
           /\ FlowsTypeOK'
  BY FlowsFrame
<1>4. CASE UNCHANGED <<bVars, srcVars, inflight, closed, exited>>
  BY <1>1, <1>3, <1>4 DEF ControlInv, srcVars, readVars
<1>5. CASE Stop
  BY <1>1, <1>3, <1>5 DEF Stop, Return, ControlInv, readVars, pipeVars, restVars
<1>6. CASE Begin
  <2> DEFINE q == em.seq + 1
  <2>1. PICK size \in DeclaredSizes : em' = [seq |-> q, size |-> size] /\ begin(q, AppendBegin(q, Len(flows) + 1))
    BY <1>6 DEF Begin
  <2>2. /\ pc = "pull" /\ em.seq < MaxLedgers /\ parts' = <<>> /\ chunkIdx' = 0 /\ pc' = "read"
        /\ UNCHANGED <<compress, inflight, closed, exited>>
    BY <1>6 DEF Begin, pipeVars, restVars
  <2>3. q \in Seqs /\ q \in Nat /\ q = Len(flows) + 1 /\ q <= MaxLedgers /\ em'.seq = q
    BY <1>1, <1>2, <2>1, <2>2, Consts DEF Seqs
  <2>4. AppendBegin(q, Len(flows) + 1) \in BeginMsg
    BY <2>3 DEF AppendBegin, BeginMsg
  <2>5. /\ FlowsTypeOK'
        /\ Len(flows') = Len(flows) + 1
        /\ \A i \in 1..Len(flows) : flows'[i] = flows[i]
        /\ cur'.seq = q /\ cur'.begin = AppendBegin(q, Len(flows) + 1) /\ OpenFlow'
        /\ ended' = ended /\ panicked' = panicked
    <3>1. \A s \in Seqs, m \in BeginMsg : begin(s, m) =>
            /\ FlowsTypeOK'
            /\ Len(flows') = Len(flows) + 1
            /\ \A i \in 1..Len(flows) : flows'[i] = flows[i]
            /\ cur'.seq = s /\ cur'.begin = m /\ OpenFlow'
            /\ ended' = ended /\ panicked' = panicked
      BY <1>1, <2>2, BeginEffect
    <3> QED BY <2>1, <2>3, <2>4, <3>1
  <2> HIDE DEF q
  <2>6. cur' = flows'[q]
    BY <2>3, <2>5 DEF cur
  <2>7. \A i \in 1..Len(flows') : flows'[i].seq = i /\ flows'[i].begin = AppendBegin(i, i)
    <3> TAKE i \in 1..Len(flows')
    <3>1. CASE i = q
      BY <2>3, <2>5, <2>6, <3>1
    <3>2. CASE i # q
      <4>1. i \in 1..Len(flows)
        BY <1>2, <2>3, <2>5, <3>2
      <4> QED BY <1>1, <2>5, <4>1
    <3> QED BY <3>1, <3>2
  <2>8. \A i \in 1..Len(flows') - 1 : complete(flows'[i])
    <3> TAKE i \in 1..Len(flows') - 1
    <3>1. i \in 1..Len(flows)
      BY <1>2, <2>5
    <3>2. complete(flows[i])
      <4>1. CASE i = Len(flows)
        <5>1. flows # <<>> /\ ~OpenFlow
          BY <1>1, <1>2, <2>2, <3>1
        <5> QED BY <4>1, <5>1 DEF OpenFlow, cur
      <4>2. CASE i # Len(flows)
        BY <1>1, <1>2, <3>1, <4>2
      <4> QED BY <4>1, <4>2
    <3>3. flows'[i] = flows[i]
      BY <2>5, <3>1
    <3> QED BY <3>2, <3>3 DEF complete
  <2>9. inflight = 0 /\ Len(parts') = 0 /\ em'.seq = Len(flows') /\ em'.seq <= MaxLedgers
    BY <1>1, <2>2, <2>3, <2>5
  <2>10. ~panicked' /\ (ended' <=> pc' = "done") /\ inflight' = 0 /\ closed' = closed /\ exited' = exited /\ compress' = compress
    BY <1>1, <2>2, <2>5, <2>9
  <2>11. /\ "ordered" \notin closed /\ ~(compress /\ "publisher" \in exited)
    BY <1>1, <2>2
  <2>12. \A i \in 1..Len(flows') - 1 : complete(flows[i])'
    BY <2>8 DEF complete
  <2>13. ControlInv'
    BY <2>2, <2>5, <2>7, <2>12, <2>9, <2>10, <2>11 DEF ControlInv
  <2> QED BY <2>5, <2>13
<1>7. CASE Read
  <2>1. PICK r \in Slice, n \in Nat : ReadOf(r, n)
    BY <1>7, ReadFacts
  <2>2. pc = "read" /\ pc' \in {"submit", "read", "flush", "return"}
        /\ UNCHANGED <<bVars, compress, em, used, chunkIdx, total, parts, pipeVars, restVars>>
    BY <1>7, <2>1 DEF Read, ReadOf
  <2> QED BY <1>1, <1>3, <2>2 DEF ControlInv, pipeVars, restVars
<1>8. ASSUME NEW c \in Slice, chunk(c), ~ended, OpenFlow,
             UNCHANGED <<em, chunkIdx, parts, compress, closed, exited>>,
             pc' \in RunPc, pc' \in {"sum", "end", "done"} => pc' = pc,
             pc' = "put" => FALSE, pc' = "pull" => FALSE, pc' \in {"offer", "wait"} => compress,
             pc \in {"drain", "done"} => pc' = pc,
             inflight' = 0 \/ (inflight # 0 /\ inflight' \in Nat), pc = "done" => FALSE
      PROVE  ControlInv' /\ FlowsTypeOK'
  <2>1. /\ FlowsTypeOK'
        /\ Len(flows') = Len(flows) /\ Len(flows) > 0
        /\ \A i \in 1..Len(flows) - 1 : flows'[i] = flows[i]
        /\ cur'.seq = cur.seq /\ cur'.begin = cur.begin /\ OpenFlow'
        /\ ended' = ended /\ panicked' = panicked
    BY <1>8, ChunkEffect
  <2>2. cur' = flows'[Len(flows)] /\ cur = flows[Len(flows)]
    BY <2>1 DEF cur
  <2>3. \A i \in 1..Len(flows') : flows'[i].seq = i /\ flows'[i].begin = AppendBegin(i, i)
    <3> TAKE i \in 1..Len(flows')
    <3>1. CASE i = Len(flows)
      BY <1>1, <1>2, <2>1, <2>2, <3>1
    <3>2. CASE i # Len(flows)
      <4>1. i \in 1..Len(flows) - 1 /\ i \in 1..Len(flows)
        BY <1>2, <2>1, <3>2
      <4> QED BY <1>1, <2>1, <4>1
    <3> QED BY <3>1, <3>2
  <2>4. \A i \in 1..Len(flows') - 1 : complete(flows[i])'
    <3> TAKE i \in 1..Len(flows') - 1
    <3>1. i \in 1..Len(flows) - 1
      BY <2>1
    <3> QED BY <1>1, <2>1, <3>1 DEF complete
  <2>5. ~panicked' /\ (ended' <=> pc' = "done") /\ em'.seq = Len(flows') /\ em'.seq <= MaxLedgers /\ chunkIdx' = Len(parts')
    BY <1>1, <1>8, <2>1
  <2>6. /\ inflight' # 0 => compress'
        /\ pc' \in {"sum", "end"} => inflight' = 0
        /\ "ordered" \in closed' => pc' \in {"drain", "done"}
        /\ compress' /\ "publisher" \in exited' => pc' \in {"drain", "done"} /\ inflight' = 0
        /\ pc' = "done" => inflight' = 0
    BY <1>1, <1>2, <1>8
  <2>7. ControlInv'
    BY <1>8, <2>1, <2>3, <2>4, <2>5, <2>6 DEF ControlInv
  <2> QED BY <2>1, <2>7
<1>9. CASE SubmitInline
  <2>1. got.msg \in Slice
    BY DEF RunTypeOK
  <2>2. /\ pc = "submit" /\ ~compress /\ chunk(got.msg) /\ pc' = "hash" /\ inflight' = inflight
        /\ UNCHANGED <<em, chunkIdx, parts, compress, closed, exited>>
    BY <1>9 DEF SubmitInline, readVars, pipeVars, restVars
  <2>3. ~ended /\ OpenFlow /\ inflight = 0
    BY <1>1, <2>2
  <2> QED BY <1>8, <2>1, <2>2, <2>3 DEF RunPc
<1>10. CASE Submit
  BY <1>1, <1>2, <1>3, <1>10 DEF Submit, ControlInv, readVars, restVars
<1>11. CASE Offer
  BY <1>1, <1>3, <1>11 DEF Offer, ControlInv, readVars, restVars
<1>12. CASE Hash
  <2>1. /\ pc = "hash" /\ chunkIdx' = chunkIdx + 1 /\ parts' = Append(parts, DataOf(got.msg)) /\ AfterRead(got.rerr)
        /\ UNCHANGED <<bVars, compress, em, inflight, closed, exited>>
    BY <1>12 DEF Hash, pipeVars
  <2>2. pc' \in {"read", "flush", "return"}
    BY <2>1 DEF AfterRead, Return, RunTypeOK
  <2>3. Len(parts') = Len(parts) + 1
    <3>1. Handed
      BY <2>1 DEF Handed
    <3> QED BY <2>1, <3>1, GivenFacts DEF Given
  <2> QED BY <1>1, <1>3, <2>1, <2>2, <2>3 DEF ControlInv
<1>13. CASE Flush
  BY <1>1, <1>3, <1>13 DEF Flush, Return, ControlInv, readVars, pipeVars, restVars
<1>14. CASE AskSum
  BY <1>1, <1>3, <1>14 DEF AskSum, ControlInv, readVars, pipeVars
<1>15. CASE End
  <2> DEFINE m == AppendEnd(em.seq, chunkIdx, total, Len(flows), Sum64(hashed))
  <2>1. /\ pc = "end" /\ end(m) /\ pc' = "put" /\ UNCHANGED <<em, chunkIdx, parts, compress, inflight, closed, exited>>
    BY <1>15 DEF End, readVars, pipeVars
  <2>2. m \in EndMsg
    <3>1. em.seq \in Seqs /\ chunkIdx \in Nat /\ total \in Nat
      BY DEF RunTypeOK
    <3> QED BY <1>2, <3>1 DEF AppendEnd, EndMsg, Sum64
  <2> HIDE DEF m
  <2>3. ~ended /\ OpenFlow /\ inflight = 0
    BY <1>1, <2>1
  <2>4. /\ FlowsTypeOK'
        /\ Len(flows') = Len(flows) /\ Len(flows) > 0 /\ flows' # <<>>
        /\ \A i \in 1..Len(flows) - 1 : flows'[i] = flows[i]
        /\ cur'.seq = cur.seq /\ cur'.begin = cur.begin /\ complete(cur')
        /\ ended' = ended /\ panicked' = panicked
    BY <2>1, <2>2, <2>3, EndEffect
  <2>5. cur' = flows'[Len(flows)] /\ cur = flows[Len(flows)]
    BY <2>4 DEF cur
  <2>6. \A i \in 1..Len(flows') : flows'[i].seq = i /\ flows'[i].begin = AppendBegin(i, i)
    <3> TAKE i \in 1..Len(flows')
    <3>1. CASE i = Len(flows)
      BY <1>1, <1>2, <2>4, <2>5, <3>1
    <3>2. CASE i # Len(flows)
      <4>1. i \in 1..Len(flows) - 1 /\ i \in 1..Len(flows)
        BY <1>2, <2>4, <3>2
      <4> QED BY <1>1, <2>4, <4>1
    <3> QED BY <3>1, <3>2
  <2>7. \A i \in 1..Len(flows') - 1 : complete(flows[i])'
    <3> TAKE i \in 1..Len(flows') - 1
    <3>1. i \in 1..Len(flows) - 1
      BY <2>4
    <3> QED BY <1>1, <2>4, <3>1 DEF complete
  <2>8. complete(cur)'
    BY <2>4 DEF complete
  <2>9. /\ em'.seq = Len(flows') /\ ~panicked' /\ ~ended' /\ inflight' = 0 /\ chunkIdx' = Len(parts') /\ em'.seq <= MaxLedgers
        /\ "ordered" \notin closed' /\ ~(compress' /\ "publisher" \in exited')
    BY <1>1, <2>1, <2>3, <2>4
  <2>10. ControlInv'
    BY <2>1, <2>4, <2>6, <2>7, <2>8, <2>9 DEF ControlInv
  <2> QED BY <2>4, <2>10
<1>16. CASE PutParts
  <2>1. pc = "put" /\ pc' \in {"pull", "return"} /\ UNCHANGED <<bVars, readVars, pipeVars, exited>>
    BY <1>16 DEF PutParts, Return
  <2>2. ~OpenFlow
    BY <1>1, <2>1 DEF OpenFlow
  <2> QED BY <1>1, <1>3, <2>1, <2>2 DEF ControlInv, readVars, pipeVars
<1>17. CASE CloseQueues
  BY <1>1, <1>3, <1>17 DEF CloseQueues, ControlInv, readVars, restVars
<1>18. CASE CloseOrdered
  BY <1>1, <1>3, <1>18 DEF CloseOrdered, ControlInv, readVars, restVars
<1>19. CASE Finish
  <2>1. pc = "drain" /\ "publisher" \in exited /\ pc' = "done" /\ flows' = flows /\ panicked' = panicked /\ ended' = TRUE
        /\ notify' = notify /\ srcErr' \in {srcErr, runErr}
        /\ UNCHANGED <<em, chunkIdx, parts, compress, inflight, closed, exited>>
    BY <1>19 DEF Finish, finish, readVars, pipeVars, restVars
  <2>2. inflight = 0
    BY <1>1, <2>1
  <2>3. FlowsTypeOK'
    BY <2>1 DEF FlowsTypeOK, RunTypeOK
  <2>4. (OpenFlow <=> OpenFlow') /\ cur' = cur
    BY <2>1 DEF OpenFlow, complete, cur
  <2>5. ControlInv'
    BY <1>1, <2>1, <2>2, <2>4 DEF ControlInv, complete
  <2> QED BY <2>3, <2>5
<1>20. CASE \E w \in Workers : Worker(w)
  <2>1. PICK w \in Workers : Worker(w)
    BY <1>20
  <2>2. CASE Take(w) \/ Encode(w)
    BY <1>4, <2>2 DEF Take, Encode, restVars
  <2>3. CASE WorkerReturns(w)
    <3>1. w # "publisher"
      BY PipelineAssumption
    <3> QED BY <1>1, <1>3, <2>3, <3>1 DEF WorkerReturns, ControlInv, srcVars, readVars, pipeVars
  <2> QED BY <2>1, <2>2, <2>3 DEF Worker
<1>21. CASE TakeOrdered
  BY <1>4, <1>21 DEF TakeOrdered, restVars
<1>22. CASE Publish
  <2>1. /\ pubHand # NoJob /\ chunk(jobs[pubHand].out) /\ inflight' = inflight - 1
        /\ UNCHANGED <<em, chunkIdx, parts, compress, closed, exited, pc>>
    BY <1>22 DEF Publish, srcVars, readVars, restVars
  <2>2. inflight # 0
    BY <1>2, <2>1 DEF OrderInv, JobsTypeOK
  <2>3. jobs[pubHand].out \in Slice
    <3>1. pubHand = <<em.seq, NPub>> /\ NPub \in NPub..NSub - 1
      BY <2>1, <2>2, Counts DEF OrderInv
    <3>2. pubHand \in DOMAIN jobs
      BY <3>1, Counts
    <3> QED BY <3>2 DEF JobsTypeOK
  <2>4. OpenFlow /\ compress /\ ~ended /\ pc \notin {"pull", "put", "sum", "end", "done"}
    <3>1. OpenFlow /\ compress /\ pc # "done" /\ ~ended /\ pc # "pull" /\ pc \notin {"sum", "end"}
      BY <1>1, <2>2
    <3>2. pc # "put"
      BY <1>1, <3>1 DEF OpenFlow
    <3> QED BY <3>1, <3>2
  <2>5. pc' = pc /\ pc \in RunPc /\ inflight' \in Nat
    BY <1>2, <2>1, <2>2 DEF RunTypeOK
  <2> QED BY <1>8, <2>1, <2>2, <2>3, <2>4, <2>5
<1>23. CASE PublisherReturns
  <2>1. /\ pubHand = NoJob /\ ordered = <<>> /\ "ordered" \in closed /\ exited' = exited \cup {"publisher"}
        /\ UNCHANGED <<bVars, srcVars, pipeVars>>
    BY <1>23 DEF PublisherReturns
  <2>2. inflight = 0
    BY <2>1 DEF OrderInv
  <2> QED BY <1>1, <1>3, <2>1, <2>2 DEF ControlInv, srcVars, readVars, pipeVars
<1>24. CASE Hasher
  <2>1. CASE HashNext
    BY <1>4, <2>1 DEF HashNext, pipeVars
  <2>2. CASE HasherReturns
    BY <1>1, <1>3, <2>2 DEF HasherReturns, ControlInv, srcVars, readVars, pipeVars
  <2> QED BY <1>24, <2>1, <2>2 DEF Hasher
<1>25. CASE UNCHANGED vars
  BY <1>4, <1>25 DEF vars, pipeVars, restVars
<1> QED BY <1>5, <1>6, <1>7, <1>9, <1>10, <1>11, <1>12, <1>13, <1>14, <1>15, <1>16, <1>17, <1>18,
           <1>19, <1>20, <1>21, <1>22, <1>23, <1>24, <1>25 DEF Calm, Publisher

-----------------------------------------------------------------------------
\* The body in the slices.

\* The story tells what each slice holds.
LEMMA StoryCells ==
    ASSUME MemTypeOK, RunTypeOK, GivenInv, NEW off \in [0..Len(Given) -> Nat], Story(off), NEW k \in 1..Len(Given)
    PROVE  /\ Cells(Given[k]) = Units("live", em.seq, off[k - 1], off[k])
           /\ Cells(Given[k]) \in Body /\ Len(Cells(Given[k])) = Given[k].len
           /\ off[k - 1] \in Nat /\ off[k] \in Nat /\ off[k - 1] < off[k]
           /\ off[k] = off[k - 1] + Given[k].len
<1> DEFINE g == Given[k]
           s == Cells(g)
           lo == off[k - 1]
           hi == off[k]
           u == Units("live", em.seq, lo, hi)
<1>1. /\ s \in Seq(Cell) /\ Len(s) = g.len
      /\ \A p \in 1..g.len : s[p] = mem[g.buf][g.lo + p - 1]
  BY GivenCells
<1>2. g.len \in Nat /\ g.len >= 1 /\ Len(Given) \in Nat /\ em.seq \in Seqs
  BY GivenFacts, Consts
<1>3. lo \in Nat /\ hi \in Nat
  BY <1>2
<1>4. hi = lo + g.len /\ Holds(g, lo)
  BY DEF Story
<1>5. \A p \in 1..g.len : mem[g.buf][g.lo + p - 1] = <<"live", em.seq, lo + p>>
  BY <1>4 DEF Holds
<1> HIDE DEF s, g, lo, hi
<1>6. lo < hi /\ lo <= hi /\ hi - lo = g.len
  BY <1>2, <1>3, <1>4
<1>7. u \in Body /\ Len(u) = hi - lo /\ \A p \in 1..hi - lo : u[p] = <<"live", em.seq, lo + p>>
  <2>1. u \in Body /\ Len(u) = hi - lo
    BY <1>2, <1>3, <1>6, UnitsFacts
  <2> QED BY <2>1 DEF Units
<1> HIDE DEF u
<1>8. s = u
  <2>1. u \in Seq(Cell) /\ Len(u) = g.len
    <3>1. Unit \subseteq Cell /\ u \in Seq(Unit)
      BY <1>7 DEF Cell, Body
    <3> HIDE DEF Unit, Cell
    <3> QED BY <1>6, <1>7, <3>1
  <2>2. ASSUME NEW p \in 1..g.len PROVE s[p] = u[p]
    BY <1>1, <1>5, <1>6, <1>7
  <2> QED BY <1>1, <1>2, <2>1, <2>2, SeqEqual
<1> QED BY <1>1, <1>2, <1>3, <1>4, <1>6, <1>7, <1>8 DEF s, g, lo, hi, u

\* So every slice is a piece of a body.
LEMMA GivenBody ==
    ASSUME MemTypeOK, RunTypeOK, GivenInv, LedgerInv, NEW k \in 1..Len(Given)
    PROVE  Cells(Given[k]) \in Body
<1>1. PICK off \in [0..Len(Given) -> Nat] : Story(off)
  BY DEF LedgerInv
<1>2. \A f \in [0..Len(Given) -> Nat], j \in 1..Len(Given) : Story(f) => Cells(Given[j]) \in Body
  BY StoryCells
<1> QED BY <1>1, <1>2

-----------------------------------------------------------------------------
\* The jobs in flight: one for each chunk submitted and not published, in order
\* in the ordered queue, and for each not done somebody who will encode it.

\* A job's key is not the empty hand's.
LEMMA KeyFacts ==
    ASSUME FlowsTypeOK, RunTypeOK, ControlInv, OpenFlow
    PROVE  /\ em.seq \in Nat /\ em.seq >= 1
           /\ \A i : <<em.seq, i>> # NoJob
           /\ \A i, j : <<em.seq, i>> = <<em.seq, j>> => i = j
<1>1. em.seq \in Nat
  BY Consts DEF RunTypeOK, Seqs
<1>2. em.seq = Len(flows) /\ flows # <<>> /\ flows \in Seq(PipeFlow)
  BY DEF ControlInv, OpenFlow, FlowsTypeOK
<1> HIDE DEF PipeFlow
<1>3. em.seq >= 1
  BY <1>2
<1>4. ASSUME NEW i PROVE <<em.seq, i>> # NoJob
  <2>1. <<em.seq, i>>[1] = em.seq /\ NoJob[1] = 0
    BY DEF NoJob
  <2> QED BY <1>1, <1>3, <2>1
<1>5. ASSUME NEW i, NEW j, <<em.seq, i>> = <<em.seq, j>> PROVE i = j
  BY <1>5
<1> QED BY <1>1, <1>3, <1>4, <1>5

\* Nothing changes for the jobs.
LEMMA OrderFrame ==
    ASSUME JobsTypeOK, OrderInv, WorkInv,
           UNCHANGED <<jobs, ordered, work, hand, pubHand, inflight, fallbacks>>,
           NPub' = NPub, NSub' = NSub, em' = em,
           pc' = "offer" => pc = "offer" /\ chunkIdx' = chunkIdx
    PROVE  JobsTypeOK' /\ OrderInv' /\ WorkInv'
<1>1. JobsTypeOK'
  BY DEF JobsTypeOK
<1>2. OrderInv'
  BY DEF OrderInv
<1>3. \A key : Todo(key)' <=> Todo(key)
  BY DEF Todo
<1>4. pc' = "offer" => pc = "offer" /\ Key' = Key
  BY DEF Key
<1>5. WorkInv'
  BY <1>3, <1>4 DEF WorkInv
<1> QED BY <1>1, <1>2, <1>5

\* submit queues the next job of the ledger for the publisher.
LEMMA SubmitOrder ==
    ASSUME FlowsTypeOK, RunTypeOK, JobsTypeOK, ControlInv, GivenInv, OrderInv, WorkInv, SameLedger, Submit
    PROVE  /\ JobsTypeOK' /\ OrderInv' /\ WorkInv'
           /\ NPub' = NPub /\ NSub' = NSub + 1 /\ Key = <<em.seq, NSub>> /\ NSub = Len(parts)
<1> DEFINE j == [msg |-> got.msg, out |-> got.msg, done |-> FALSE]
<1>1. /\ NPub \in Nat /\ NSub \in Nat /\ inflight \in Nat /\ NPub + inflight = NSub
      /\ Len(ordered) \in Nat /\ Len(parts) \in Nat /\ chunkIdx = Len(parts) /\ em.seq \in Nat
      /\ pc \in {"submit", "offer", "hash"} => Len(Given) = Len(parts) + 1
  BY Counts
<1>2. /\ pc = "submit" /\ jobs' = With(jobs, Key, j) /\ ordered' = Append(ordered, Key) /\ inflight' = inflight + 1
      /\ pc' = "offer" /\ UNCHANGED <<bVars, em, chunkIdx, parts, work, hand, pubHand, fallbacks>>
  BY DEF Submit, readVars
<1>3. OpenFlow
  BY <1>2 DEF ControlInv
<1>4. /\ em.seq >= 1 /\ (\A i : <<em.seq, i>> # NoJob) /\ (\A i, k : <<em.seq, i>> = <<em.seq, k>> => i = k)
  BY <1>3, KeyFacts
<1>5. NPub' = NPub /\ Given' = Given /\ em' = em
  BY <1>2, FlowsFrame DEF SameLedger
<1>6. NSub = Len(parts) /\ NSub' = NSub + 1
  BY <1>1, <1>2, <1>5 DEF NSub
<1>7. Key = <<em.seq, NSub>> /\ Key' = Key /\ Key \in KeyType
  BY <1>1, <1>2, <1>6 DEF Key, KeyType
<1>8. /\ jobs \in [DOMAIN jobs -> [msg : Slice, out : Slice, done : BOOLEAN]]
      /\ ordered \in Seq(KeyType) /\ work \in Seq(KeyType)
      /\ hand \in [Workers -> KeyType] /\ pubHand \in KeyType /\ fallbacks \in Nat
  BY DEF JobsTypeOK
<1>9. j \in [msg : Slice, out : Slice, done : BOOLEAN] /\ j.done = FALSE
  BY DEF RunTypeOK
<1> HIDE DEF j
<1>10. /\ DOMAIN jobs' = DOMAIN jobs \cup {Key} /\ jobs'[Key] = j
       /\ \A x \in DOMAIN jobs : x # Key => jobs'[x] = jobs[x]
       /\ jobs' \in [DOMAIN jobs \cup {Key} -> [msg : Slice, out : Slice, done : BOOLEAN]]
  <2> DEFINE R == [msg : Slice, out : Slice, done : BOOLEAN]
  <2> HIDE DEF R
  <2>1. j \in R /\ jobs \in [DOMAIN jobs -> R]
    BY <1>8, <1>9 DEF R
  <2>2. /\ DOMAIN With(jobs, Key, j) = DOMAIN jobs \cup {Key}
        /\ With(jobs, Key, j)[Key] = j
        /\ \A x \in DOMAIN jobs : x # Key => With(jobs, Key, j)[x] = jobs[x]
        /\ \A S : j \in S /\ jobs \in [DOMAIN jobs -> S] => With(jobs, Key, j) \in [DOMAIN jobs \cup {Key} -> S]
    BY DEF With
  <2>3. jobs' \in [DOMAIN jobs \cup {Key} -> R]
    BY <1>2, <2>1, <2>2, Zenon
  <2> QED BY <1>2, <2>2, <2>3 DEF R
<1>11. JobsTypeOK'
  <2>1. jobs' \in [DOMAIN jobs' -> [msg : Slice, out : Slice, done : BOOLEAN]]
    BY <1>10
  <2>2. ordered' \in Seq(KeyType) /\ inflight' \in Nat
    BY <1>1, <1>2, <1>7, <1>8
  <2> QED BY <1>2, <1>8, <2>1, <2>2 DEF JobsTypeOK
<1>12. DOMAIN jobs = {<<em.seq, i>> : i \in NPub..NSub - 1}
  BY DEF OrderInv
<1>13. Key \notin DOMAIN jobs
  <2> SUFFICES ASSUME Key \in DOMAIN jobs PROVE FALSE
    OBVIOUS
  <2>1. PICK i \in NPub..NSub - 1 : Key = <<em.seq, i>>
    BY <1>12
  <2>2. i = NSub
    BY <1>4, <1>7, <2>1
  <2> QED BY <1>1, <2>2
<1>14. OrderInv'
  <2>1. NPub' + inflight' = NSub'
    BY <1>1, <1>2, <1>5, <1>6
  <2>2. Len(ordered') = Len(ordered) + 1 /\ ordered'[Len(ordered) + 1] = Key
        /\ \A k \in 1..Len(ordered) : ordered'[k] = ordered[k]
    <3> HIDE DEF KeyType
    <3> QED BY <1>2, <1>7, <1>8
  <2>3. inflight' = Len(ordered') + (IF pubHand' = NoJob THEN 0 ELSE 1)
    BY <1>1, <1>2, <2>2 DEF OrderInv
  <2>4. pubHand' # NoJob => pubHand' = <<em'.seq, NPub'>>
    BY <1>2, <1>5 DEF OrderInv
  <2>5. ASSUME NEW k \in 1..Len(ordered') PROVE ordered'[k] = <<em'.seq, NSub' - Len(ordered') + k - 1>>
    <3>1. NSub' - Len(ordered') + k - 1 = NSub - Len(ordered) + k - 1 /\ k \in Nat
      BY <1>1, <1>6, <2>2
    <3>2. CASE k <= Len(ordered)
      <4>1. k \in 1..Len(ordered)
        BY <1>1, <3>1, <3>2
      <4>2. ordered[k] = <<em.seq, NSub - Len(ordered) + k - 1>>
        BY <4>1 DEF OrderInv
      <4> QED BY <1>5, <2>2, <3>1, <4>1, <4>2
    <3>3. CASE ~(k <= Len(ordered))
      <4>1. k = Len(ordered) + 1 /\ NSub - Len(ordered) + k - 1 = NSub
        BY <1>1, <2>2, <3>3
      <4> QED BY <1>5, <1>7, <2>2, <3>1, <4>1
    <3> QED BY <3>2, <3>3
  <2>6. DOMAIN jobs' = {<<em'.seq, i>> : i \in NPub'..NSub' - 1}
    <3>1. \A i : i \in NPub..NSub + 1 - 1 <=> i \in NPub..NSub - 1 \/ i = NSub
      BY <1>1
    <3>2. {<<em.seq, i>> : i \in NPub..NSub + 1 - 1} = {<<em.seq, i>> : i \in NPub..NSub - 1} \cup {<<em.seq, NSub>>}
      BY <3>1
    <3> QED BY <1>5, <1>6, <1>7, <1>10, <1>12, <3>2
  <2> QED BY <2>1, <2>3, <2>4, <2>5, <2>6 DEF OrderInv
<1>15. WorkInv'
  <2>1. ASSUME NEW key, Todo(key) PROVE Todo(key)' /\ key # Key
    <3>1. key # Key
      BY <1>13, <2>1 DEF Todo
    <3> QED BY <1>10, <2>1, <3>1 DEF Todo
  <2>2. Todo(Key)'
    BY <1>7, <1>9, <1>10 DEF Todo
  <2>3. \A w \in Workers : hand[w] # Key
    <3> TAKE w \in Workers
    <3>1. Key # NoJob
      BY <1>4, <1>7
    <3> QED BY <2>1, <3>1 DEF WorkInv
  <2> QED BY <1>2, <1>7, <2>1, <2>2, <2>3 DEF WorkInv
<1> QED BY <1>5, <1>6, <1>7, <1>11, <1>14, <1>15

\* Without a pool, submit publishes the chunk itself.
LEMMA InlineOrder ==
    ASSUME FlowsTypeOK, RunTypeOK, JobsTypeOK, ControlInv, GivenInv, OrderInv, WorkInv, SameLedger, SubmitInline
    PROVE  /\ JobsTypeOK' /\ OrderInv' /\ WorkInv'
           /\ NPub' = NPub + 1 /\ NSub' = NSub + 1 /\ NPub = NSub /\ NSub = Len(parts) /\ inflight = 0
           /\ cur.chunks \in Seq(Slice) /\ cur'.chunks = Append(cur.chunks, got.msg) /\ Len(flows') = Len(flows)
           /\ \A i \in 1..Len(flows) - 1 : flows'[i] = flows[i]
<1>1. /\ NPub \in Nat /\ NSub \in Nat /\ inflight \in Nat /\ NPub + inflight = NSub
      /\ Len(ordered) \in Nat /\ Len(parts) \in Nat /\ chunkIdx = Len(parts) /\ em.seq \in Nat
      /\ pc \in {"submit", "offer", "hash"} => Len(Given) = Len(parts) + 1
  BY Counts
<1>2. /\ pc = "submit" /\ ~compress /\ chunk(got.msg) /\ pc' = "hash"
      /\ UNCHANGED <<em, parts, chunkIdx, jobs, ordered, work, hand, pubHand, inflight, fallbacks>>
  BY DEF SubmitInline, readVars, pipeVars
<1>3. OpenFlow /\ ~ended /\ inflight = 0
  BY <1>2 DEF ControlInv
<1>4. got.msg \in Slice
  BY DEF RunTypeOK
<1>5. /\ NPub' = NPub + 1 /\ cur.chunks \in Seq(Slice) /\ cur'.chunks = Append(cur.chunks, got.msg)
      /\ Len(flows') = Len(flows) /\ \A i \in 1..Len(flows) - 1 : flows'[i] = flows[i]
  <2>1. \A c \in Slice : chunk(c) =>
           /\ NPub' = NPub + 1 /\ cur.chunks \in Seq(Slice) /\ cur'.chunks = Append(cur.chunks, c)
           /\ Len(flows') = Len(flows) /\ \A i \in 1..Len(flows) - 1 : flows'[i] = flows[i]
    BY <1>3, ChunkEffect
  <2> QED BY <1>2, <1>4, <2>1
<1>6. NPub = NSub /\ NSub = Len(parts) /\ NSub' = NSub + 1
  BY <1>1, <1>2, <1>3 DEF NSub, SameLedger
<1>7. DOMAIN jobs = {} /\ Len(ordered) = 0 /\ pubHand = NoJob
  <2>1. NPub..NSub - 1 = {}
    BY <1>1, <1>6
  <2> QED BY <1>1, <1>3, <2>1 DEF OrderInv
<1>8. JobsTypeOK'
  BY <1>2 DEF JobsTypeOK
<1>9. OrderInv'
  <2>1. NPub'..NSub' - 1 = {}
    BY <1>1, <1>5, <1>6
  <2>2. DOMAIN jobs' = {<<em'.seq, i>> : i \in NPub'..NSub' - 1}
    BY <1>2, <1>7, <2>1
  <2>3. NPub' + inflight' = NSub'
    BY <1>1, <1>2, <1>5, <1>6
  <2> QED BY <1>1, <1>2, <1>3, <1>7, <2>2, <2>3 DEF OrderInv
<1>10. WorkInv'
  BY <1>2 DEF WorkInv, Todo
<1> QED BY <1>3, <1>5, <1>6, <1>8, <1>9, <1>10

\* Appending to, and taking from, a queue of keys.
LEMMA KeySeq ==
    ASSUME NEW s \in Seq(KeyType), NEW key \in KeyType
    PROVE  /\ Len(s) \in Nat /\ Append(s, key) \in Seq(KeyType) /\ Len(Append(s, key)) = Len(s) + 1
           /\ Append(s, key)[Len(s) + 1] = key /\ \A k \in 1..Len(s) : Append(s, key)[k] = s[k]
           /\ s # <<>> => /\ Head(s) = s[1] /\ Head(s) \in KeyType /\ Tail(s) \in Seq(KeyType)
                          /\ Len(s) >= 1 /\ Len(Tail(s)) = Len(s) - 1
                          /\ \A k \in 1..Len(s) - 1 : Tail(s)[k] = s[k + 1]
<1> HIDE DEF KeyType
<1> QED OBVIOUS

\* A job is offered to the workers, or done at once when their queue is full.
LEMMA OfferOrder ==
    ASSUME FlowsTypeOK, RunTypeOK, JobsTypeOK, ControlInv, GivenInv, OrderInv, WorkInv, SameLedger, Offer
    PROVE  JobsTypeOK' /\ OrderInv' /\ WorkInv' /\ NPub' = NPub /\ NSub' = NSub
<1>1. /\ pc = "offer" /\ pc' = "hash" /\ Todo(Key)
      /\ UNCHANGED <<bVars, em, parts, chunkIdx, ordered, hand, pubHand, inflight>>
  BY DEF Offer, readVars, WorkInv
<1>2. NPub' = NPub /\ NSub' = NSub /\ em' = em
  BY <1>1, FlowsFrame DEF NSub, SameLedger
<1>3. /\ jobs \in [DOMAIN jobs -> [msg : Slice, out : Slice, done : BOOLEAN]]
      /\ ordered \in Seq(KeyType) /\ work \in Seq(KeyType)
      /\ hand \in [Workers -> KeyType] /\ pubHand \in KeyType
      /\ inflight \in Nat /\ fallbacks \in Nat
  BY DEF JobsTypeOK
<1>4. CASE work' = Append(work, Key) /\ UNCHANGED <<mem, jobs, fallbacks>>
  <2>1. Key \in KeyType
    BY Counts DEF Key, KeyType
  <2>2. /\ work' \in Seq(KeyType) /\ Len(work') = Len(work) + 1 /\ Len(work) \in Nat
        /\ work'[Len(work) + 1] = Key /\ \A k \in 1..Len(work) : work'[k] = work[k]
    BY <1>3, <1>4, <2>1, KeySeq
  <2>3. JobsTypeOK'
    BY <1>1, <1>3, <1>4, <2>2 DEF JobsTypeOK
  <2>4. OrderInv'
    BY <1>1, <1>2, <1>4 DEF OrderInv
  <2>5. \A k \in 1..Len(work') : k \in 1..Len(work) \/ k = Len(work) + 1
    BY <2>2
  <2>6. \A key : Todo(key)' <=> Todo(key)
    BY <1>4 DEF Todo
  <2>7. WorkInv'
    <3>1. \A k \in 1..Len(work') : Todo(work'[k])
      BY <1>1, <2>2, <2>5 DEF WorkInv
    <3>2. \A j, k \in 1..Len(work') : work'[j] = work'[k] => j = k
      BY <1>1, <2>2, <2>5 DEF WorkInv
    <3>3. \A w \in Workers, k \in 1..Len(work') : hand[w] # work'[k]
      BY <1>1, <2>2, <2>5 DEF WorkInv
    <3> QED BY <1>1, <2>6, <3>1, <3>2, <3>3 DEF WorkInv
  <2> QED BY <1>2, <2>3, <2>4, <2>7
<1>5. CASE jobs' = [jobs EXCEPT ![Key].done = TRUE] /\ fallbacks' = fallbacks + 1 /\ work' = work
  <2> DEFINE R == [msg : Slice, out : Slice, done : BOOLEAN]
  <2>1. Key \in DOMAIN jobs
    BY <1>1 DEF Todo
  <2>2. /\ jobs' \in [DOMAIN jobs -> R] /\ DOMAIN jobs' = DOMAIN jobs
        /\ \A x \in DOMAIN jobs : x # Key => jobs'[x] = jobs[x]
    <3> DEFINE v == [jobs[Key] EXCEPT !.done = TRUE]
    <3>1. v \in R
      BY <1>3, <2>1
    <3>2. jobs' = [jobs EXCEPT ![Key] = v]
      BY <1>5
    <3> HIDE DEF v, R
    <3>3. jobs \in [DOMAIN jobs -> R]
      BY <1>3 DEF R
    <3> QED BY <2>1, <3>1, <3>2, <3>3
  <2>3. JobsTypeOK'
    BY <1>1, <1>3, <1>5, <2>2 DEF JobsTypeOK
  <2>4. OrderInv'
    BY <1>1, <1>2, <1>5, <2>2 DEF OrderInv
  <2>5. \A key : Todo(key) /\ key # Key => Todo(key)'
    BY <2>2 DEF Todo
  <2>6. WorkInv'
    BY <1>1, <1>5, <2>5 DEF WorkInv
  <2> QED BY <1>2, <2>3, <2>4, <2>6
<1> QED BY <1>4, <1>5 DEF Offer

\* A worker takes the oldest job offered.
LEMMA TakeOrder ==
    ASSUME FlowsTypeOK, RunTypeOK, JobsTypeOK, ControlInv, GivenInv, OrderInv, WorkInv, SameLedger,
           NEW w \in Workers, Take(w)
    PROVE  JobsTypeOK' /\ OrderInv' /\ WorkInv' /\ NPub' = NPub /\ NSub' = NSub
<1>1. /\ hand[w] = NoJob /\ work # <<>> /\ hand' = [hand EXCEPT ![w] = Head(work)] /\ work' = Tail(work)
      /\ UNCHANGED <<bVars, srcVars, jobs, ordered, pubHand, inflight, fallbacks>>
  BY DEF Take
<1>2. NPub' = NPub /\ NSub' = NSub /\ em' = em
  BY <1>1, FlowsFrame DEF NSub, SameLedger, srcVars, readVars
<1>3. /\ jobs \in [DOMAIN jobs -> [msg : Slice, out : Slice, done : BOOLEAN]]
      /\ ordered \in Seq(KeyType) /\ work \in Seq(KeyType)
      /\ hand \in [Workers -> KeyType] /\ pubHand \in KeyType
      /\ inflight \in Nat /\ fallbacks \in Nat
  BY DEF JobsTypeOK
<1>4. /\ Len(work) \in Nat /\ Len(work) >= 1 /\ Head(work) = work[1] /\ Head(work) \in KeyType
      /\ work' \in Seq(KeyType) /\ Len(work') = Len(work) - 1
      /\ \A k \in 1..Len(work') : work'[k] = work[k + 1]
  BY <1>1, <1>3, KeySeq
<1>5. /\ hand' \in [Workers -> KeyType] /\ hand'[w] = work[1] /\ \A v \in Workers : v # w => hand'[v] = hand[v]
  <2> HIDE DEF KeyType
  <2> QED BY <1>1, <1>3, <1>4
<1>6. JobsTypeOK'
  BY <1>1, <1>3, <1>4, <1>5 DEF JobsTypeOK
<1>7. OrderInv'
  BY <1>1, <1>2 DEF OrderInv
<1>8. \A key : Todo(key)' <=> Todo(key)
  BY <1>1 DEF Todo
<1>9. 1 \in 1..Len(work) /\ \A k \in 1..Len(work') : k + 1 \in 1..Len(work) /\ k + 1 # 1
  BY <1>4
<1>10. pc' = pc /\ Key' = Key
  BY <1>1 DEF srcVars, readVars, Key
<1>11. WorkInv'
  <2>1. \A k \in 1..Len(work') : Todo(work'[k])
    BY <1>4, <1>9 DEF WorkInv
  <2>2. \A v \in Workers : hand'[v] # NoJob => Todo(hand'[v])
    BY <1>5, <1>9 DEF WorkInv
  <2>3. \A j, k \in 1..Len(work') : work'[j] = work'[k] => j = k
    <3> TAKE j, k \in 1..Len(work')
    <3> HAVE work'[j] = work'[k]
    <3>1. work[j + 1] = work[k + 1] /\ j + 1 \in 1..Len(work) /\ k + 1 \in 1..Len(work)
      BY <1>4, <1>9
    <3>2. j + 1 = k + 1
      BY <3>1, Zenon DEF WorkInv
    <3> QED BY <3>2
  <2>4. \A u, v \in Workers : hand'[u] = hand'[v] /\ hand'[u] # NoJob => u = v
    <3> TAKE u, v \in Workers
    <3>1. CASE u # w /\ v # w
      BY <1>5, <3>1 DEF WorkInv
    <3>2. CASE u = w \/ v = w
      BY <1>5, <1>9, <3>2 DEF WorkInv
    <3> QED BY <3>1, <3>2
  <2>5. \A v \in Workers, k \in 1..Len(work') : hand'[v] # work'[k]
    <3> TAKE v \in Workers, k \in 1..Len(work')
    <3>1. work'[k] = work[k + 1] /\ k + 1 \in 1..Len(work) /\ k + 1 # 1
      BY <1>4, <1>9
    <3>2. CASE v = w
      <4>1. work[1] # work[k + 1]
        BY <1>9, <3>1, Zenon DEF WorkInv
      <4> QED BY <1>5, <3>1, <3>2, <4>1
    <3>3. CASE v # w
      <4>1. hand[v] # work[k + 1]
        BY <3>1, Zenon DEF WorkInv
      <4> QED BY <1>5, <3>1, <3>3, <4>1
    <3> QED BY <3>2, <3>3
  <2>6. pc = "offer" => /\ Todo(Key)
                        /\ \A k \in 1..Len(work') : work'[k] # Key
                        /\ \A v \in Workers : hand'[v] # Key
    BY <1>4, <1>5, <1>9 DEF WorkInv
  <2> QED BY <1>8, <1>10, <2>1, <2>2, <2>3, <2>4, <2>5, <2>6 DEF WorkInv
<1> QED BY <1>2, <1>6, <1>7, <1>11

\* A worker finishes the job in its hand.
LEMMA EncodeOrder ==
    ASSUME FlowsTypeOK, RunTypeOK, JobsTypeOK, ControlInv, GivenInv, OrderInv, WorkInv, SameLedger,
           NEW w \in Workers, Encode(w)
    PROVE  JobsTypeOK' /\ OrderInv' /\ WorkInv' /\ NPub' = NPub /\ NSub' = NSub
<1> DEFINE job == hand[w]
           out == [buf |-> CloneOf(job), lo |-> 1, len |-> 2]
           R == [msg : Slice, out : Slice, done : BOOLEAN]
<1>1. /\ job # NoJob /\ hand' = [hand EXCEPT ![w] = NoJob]
      /\ UNCHANGED <<bVars, srcVars, ordered, work, pubHand, inflight, fallbacks>>
      /\ \/ jobs' = [jobs EXCEPT ![job].out = out, ![job].done = TRUE]
         \/ jobs' = [jobs EXCEPT ![job].done = TRUE]
  BY DEF Encode
<1>2. NPub' = NPub /\ NSub' = NSub /\ em' = em
  BY <1>1, FlowsFrame DEF NSub, SameLedger, srcVars, readVars
<1>3. /\ jobs \in [DOMAIN jobs -> R]
      /\ ordered \in Seq(KeyType) /\ work \in Seq(KeyType)
      /\ hand \in [Workers -> KeyType] /\ pubHand \in KeyType
      /\ inflight \in Nat /\ fallbacks \in Nat
  BY DEF JobsTypeOK
<1>4. Todo(job) /\ job \in DOMAIN jobs /\ job \in KeyType /\ jobs[job] \in R
  BY <1>1, <1>3 DEF WorkInv, Todo
<1>5. out \in Slice
  BY <1>4 DEF Slice, CloneOf, BufName, KeyType
<1>6. /\ jobs' \in [DOMAIN jobs -> R] /\ DOMAIN jobs' = DOMAIN jobs
      /\ \A x \in DOMAIN jobs : x # job => jobs'[x] = jobs[x]
  <2>1. CASE jobs' = [jobs EXCEPT ![job].out = out, ![job].done = TRUE]
    <3> DEFINE v == [jobs[job] EXCEPT !.out = out, !.done = TRUE]
    <3> HIDE DEF job, out
    <3>1. v \in R
      BY <1>4, <1>5
    <3>2. jobs' = [jobs EXCEPT ![job] = v]
      BY <1>3, <1>4, <2>1
    <3> HIDE DEF v, R
    <3> QED BY <1>3, <1>4, <3>1, <3>2
  <2>2. CASE jobs' = [jobs EXCEPT ![job].done = TRUE]
    <3> DEFINE v == [jobs[job] EXCEPT !.done = TRUE]
    <3> HIDE DEF job
    <3>1. v \in R
      BY <1>4
    <3>2. jobs' = [jobs EXCEPT ![job] = v]
      BY <2>2
    <3> HIDE DEF v, R
    <3> QED BY <1>3, <1>4, <3>1, <3>2
  <2> QED BY <1>1, <2>1, <2>2
<1>7. /\ hand' \in [Workers -> KeyType] /\ hand'[w] = NoJob /\ \A v \in Workers : v # w => hand'[v] = hand[v]
  <2>1. NoJob \in KeyType
    BY DEF NoJob, KeyType
  <2> HIDE DEF KeyType
  <2> QED BY <1>1, <1>3, <2>1
<1>8. JobsTypeOK'
  BY <1>1, <1>3, <1>6, <1>7 DEF JobsTypeOK
<1>9. OrderInv'
  BY <1>1, <1>2, <1>6 DEF OrderInv
<1> HIDE DEF out, R
<1>10. \A key : Todo(key) /\ key # job => Todo(key)'
  BY <1>6 DEF Todo
<1>11. pc' = pc /\ Key' = Key
  BY <1>1 DEF srcVars, readVars, Key
<1>12. WorkInv'
  <2>1. \A k \in 1..Len(work) : Todo(work[k])'
    <3> TAKE k \in 1..Len(work)
    <3>1. Todo(work[k]) /\ work[k] # job /\ work' = work
      BY <1>1 DEF WorkInv
    <3>2. \A key : Todo(key) /\ key # job => key \in DOMAIN jobs' /\ ~jobs'[key].done
      BY <1>10 DEF Todo
    <3> QED BY <3>1, <3>2 DEF Todo
  <2>2. \A v \in Workers : hand'[v] # NoJob => Todo(hand[v])' /\ v # w
    <3> TAKE v \in Workers
    <3> HAVE hand'[v] # NoJob
    <3>1. v # w /\ hand'[v] = hand[v]
      BY <1>7
    <3>2. Todo(hand[v]) /\ hand[v] # job
      BY <1>1, <3>1 DEF WorkInv
    <3>3. \A key : Todo(key) /\ key # job => key \in DOMAIN jobs' /\ ~jobs'[key].done
      BY <1>10 DEF Todo
    <3>4. hand'[v] \in DOMAIN jobs' /\ ~jobs'[hand'[v]].done
      BY <3>1, <3>2, <3>3
    <3> QED BY <3>1, <3>4 DEF Todo
  <2>3. pc = "offer" => Todo(Key)'
    <3>1. \A key : Todo(key) /\ key # job => key \in DOMAIN jobs' /\ ~jobs'[key].done
      BY <1>10 DEF Todo
    <3> QED BY <1>11, <3>1 DEF WorkInv, Todo
  <2>4. \A u, v \in Workers : hand'[u] = hand'[v] /\ hand'[u] # NoJob => u = v
    BY <1>7, <2>2 DEF WorkInv
  <2>5. \A v \in Workers, k \in 1..Len(work) : hand'[v] # work[k]
    <3> TAKE v \in Workers, k \in 1..Len(work)
    <3>1. CASE v = w
      <4>1. Todo(work[k])
        BY DEF WorkInv
      <4>2. PICK i \in NPub..NSub - 1 : work[k] = <<em.seq, i>>
        BY <4>1 DEF Todo, OrderInv
      <4>3. OpenFlow
        <5>1. inflight # 0
          BY <4>2, Counts
        <5> QED BY <5>1 DEF ControlInv
      <4> QED BY <1>7, <3>1, <4>2, <4>3, KeyFacts
    <3>2. CASE v # w
      BY <1>7, <3>2 DEF WorkInv
    <3> QED BY <3>1, <3>2
  <2>6. pc = "offer" => \A v \in Workers : hand'[v] # Key
    <3> SUFFICES ASSUME pc = "offer", NEW v \in Workers PROVE hand'[v] # Key
      OBVIOUS
    <3>1. OpenFlow
      BY DEF ControlInv
    <3> QED BY <1>7, <3>1, KeyFacts DEF WorkInv, Key
  <2>7. \A k \in 1..Len(work) : pc = "offer" => work[k] # Key
    BY DEF WorkInv
  <2>8. \A j, k \in 1..Len(work) : work[j] = work[k] => j = k
    BY DEF WorkInv
  <2> QED BY <1>1, <1>11, <2>1, <2>2, <2>3, <2>4, <2>5, <2>6, <2>7, <2>8 DEF WorkInv
<1> QED BY <1>2, <1>8, <1>9, <1>12

\* The publisher takes the oldest job not published.
LEMMA TakeOrderedOrder ==
    ASSUME FlowsTypeOK, RunTypeOK, JobsTypeOK, ControlInv, GivenInv, OrderInv, WorkInv, SameLedger, TakeOrdered
    PROVE  JobsTypeOK' /\ OrderInv' /\ WorkInv' /\ NPub' = NPub /\ NSub' = NSub
<1>1. /\ pubHand = NoJob /\ ordered # <<>> /\ pubHand' = Head(ordered) /\ ordered' = Tail(ordered)
      /\ UNCHANGED <<bVars, srcVars, jobs, work, hand, inflight, fallbacks>>
  BY DEF TakeOrdered
<1>2. NPub' = NPub /\ NSub' = NSub /\ em' = em
  BY <1>1, FlowsFrame DEF NSub, SameLedger, srcVars, readVars
<1>3. ordered \in Seq(KeyType)
  BY DEF JobsTypeOK
<1>4. /\ Len(ordered) \in Nat /\ Len(ordered) >= 1 /\ Head(ordered) = ordered[1] /\ Head(ordered) \in KeyType
      /\ ordered' \in Seq(KeyType) /\ Len(ordered') = Len(ordered) - 1
      /\ \A k \in 1..Len(ordered') : ordered'[k] = ordered[k + 1]
  BY <1>1, <1>3, KeySeq
<1>5. JobsTypeOK'
  BY <1>1, <1>4 DEF JobsTypeOK
<1>6. NPub \in Nat /\ NSub \in Nat /\ inflight \in Nat /\ NPub + inflight = NSub /\ inflight = Len(ordered)
  BY <1>1, <1>4, Counts DEF OrderInv
<1>7. OpenFlow
  BY <1>4, <1>6 DEF ControlInv
<1>8. pubHand' = <<em.seq, NPub>> /\ pubHand' # NoJob
  <2>1. 1 \in 1..Len(ordered) /\ NSub - Len(ordered) + 1 - 1 = NPub
    BY <1>4, <1>6
  <2>2. ordered[1] = <<em.seq, NSub - Len(ordered) + 1 - 1>>
    BY <2>1, Zenon DEF OrderInv
  <2> QED BY <1>1, <1>4, <1>7, <2>1, <2>2, KeyFacts
<1>9. OrderInv'
  <2>1. ASSUME NEW k \in 1..Len(ordered') PROVE ordered'[k] = <<em'.seq, NSub' - Len(ordered') + k - 1>>
    <3>1. k + 1 \in 1..Len(ordered) /\ NSub - Len(ordered) + (k + 1) - 1 = NSub' - Len(ordered') + k - 1
      BY <1>2, <1>4, <1>6
    <3>2. ordered[k + 1] = <<em.seq, NSub - Len(ordered) + (k + 1) - 1>>
      BY <3>1, Zenon DEF OrderInv
    <3> QED BY <1>2, <1>4, <3>1, <3>2
  <2>2. inflight' = Len(ordered') + 1 /\ NPub' + inflight' = NSub'
    BY <1>1, <1>2, <1>4, <1>6
  <2>3. DOMAIN jobs' = {<<em'.seq, i>> : i \in NPub'..NSub' - 1}
    BY <1>1, <1>2 DEF OrderInv
  <2> QED BY <1>2, <1>8, <2>1, <2>2, <2>3 DEF OrderInv
<1>10. pc' = pc /\ Key' = Key
  BY <1>1 DEF srcVars, readVars, Key
<1>11. WorkInv'
  BY <1>1, <1>10 DEF WorkInv, Todo
<1> QED BY <1>2, <1>5, <1>9, <1>11

\* The publisher publishes the oldest job, which is done.
LEMMA PublishOrder ==
    ASSUME FlowsTypeOK, RunTypeOK, JobsTypeOK, ControlInv, GivenInv, OrderInv, WorkInv, SameLedger, Publish
    PROVE  /\ JobsTypeOK' /\ OrderInv' /\ WorkInv'
           /\ pubHand = <<em.seq, NPub>> /\ pubHand \in DOMAIN jobs /\ jobs[pubHand].done /\ jobs[pubHand].out \in Slice
           /\ NPub \in Nat /\ NPub < NSub /\ NPub' = NPub + 1 /\ NSub' = NSub
           /\ DOMAIN jobs' = DOMAIN jobs \ {pubHand} /\ \A x \in DOMAIN jobs' : jobs'[x] = jobs[x]
           /\ cur.chunks \in Seq(Slice) /\ cur'.chunks = Append(cur.chunks, jobs[pubHand].out)
           /\ OpenFlow /\ OpenFlow' /\ Len(flows') = Len(flows) /\ \A i \in 1..Len(flows) - 1 : flows'[i] = flows[i]
<1>1. /\ pubHand # NoJob /\ jobs[pubHand].done /\ chunk(jobs[pubHand].out)
      /\ jobs' = [j \in DOMAIN jobs \ {pubHand} |-> jobs[j]] /\ pubHand' = NoJob /\ inflight' = inflight - 1
      /\ UNCHANGED <<srcVars, ordered, work, hand, fallbacks>>
  BY DEF Publish, Ready
<1>2. /\ NPub \in Nat /\ NSub \in Nat /\ inflight \in Nat /\ NPub + inflight = NSub
      /\ Len(ordered) \in Nat /\ inflight = Len(ordered) + 1 /\ pubHand = <<em.seq, NPub>>
      /\ \A i \in NPub..NSub - 1 : <<em.seq, i>> \in DOMAIN jobs
      /\ DOMAIN jobs = {<<em.seq, i>> : i \in NPub..NSub - 1}
  BY <1>1, Counts DEF OrderInv
<1>3. OpenFlow /\ ~ended
  BY <1>2 DEF ControlInv
<1>4. pubHand \in DOMAIN jobs /\ NPub < NSub
  BY <1>2
<1>5. jobs[pubHand].out \in Slice
  BY <1>4 DEF JobsTypeOK
<1>6. /\ NPub' = NPub + 1 /\ cur.chunks \in Seq(Slice) /\ cur'.chunks = Append(cur.chunks, jobs[pubHand].out)
      /\ Len(flows') = Len(flows) /\ OpenFlow' /\ \A i \in 1..Len(flows) - 1 : flows'[i] = flows[i]
  <2>1. \A c \in Slice : chunk(c) =>
           /\ NPub' = NPub + 1 /\ cur.chunks \in Seq(Slice) /\ cur'.chunks = Append(cur.chunks, c)
           /\ Len(flows') = Len(flows) /\ OpenFlow' /\ \A i \in 1..Len(flows) - 1 : flows'[i] = flows[i]
    BY <1>3, ChunkEffect
  <2> QED BY <1>1, <1>5, <2>1
<1>7. NSub' = NSub /\ em' = em /\ pc' = pc /\ Key' = Key
  BY <1>1 DEF NSub, SameLedger, srcVars, readVars, Key
<1>8. DOMAIN jobs' = DOMAIN jobs \ {pubHand} /\ \A x \in DOMAIN jobs' : jobs'[x] = jobs[x]
  BY <1>1
<1>9. JobsTypeOK'
  <2> DEFINE R == [msg : Slice, out : Slice, done : BOOLEAN]
  <2>1. /\ jobs \in [DOMAIN jobs -> R] /\ ordered \in Seq(KeyType) /\ work \in Seq(KeyType)
        /\ hand \in [Workers -> KeyType] /\ fallbacks \in Nat
    BY DEF JobsTypeOK
  <2>2. inflight' \in Nat /\ pubHand' \in KeyType
    BY <1>1, <1>2 DEF NoJob, KeyType
  <2> HIDE DEF R
  <2>3. jobs' \in [DOMAIN jobs' -> R]
    BY <1>1, <2>1
  <2> QED BY <1>1, <2>1, <2>2, <2>3 DEF JobsTypeOK, R
<1>10. OrderInv'
  <2>1. NPub' + inflight' = NSub' /\ inflight' = Len(ordered')
    BY <1>1, <1>2, <1>6, <1>7
  <2>2. ASSUME NEW k \in 1..Len(ordered') PROVE ordered'[k] = <<em'.seq, NSub' - Len(ordered') + k - 1>>
    BY <1>1, <1>7 DEF OrderInv
  <2>3. DOMAIN jobs' = {<<em'.seq, i>> : i \in NPub'..NSub' - 1}
    <3>1. \A i : i \in NPub + 1..NSub - 1 <=> i \in NPub..NSub - 1 /\ i # NPub
      BY <1>2
    <3>2. {<<em.seq, i>> : i \in NPub + 1..NSub - 1} = {<<em.seq, i>> : i \in NPub..NSub - 1} \ {<<em.seq, NPub>>}
      BY <3>1
    <3> QED BY <1>2, <1>6, <1>7, <1>8, <3>2
  <2> QED BY <1>1, <2>1, <2>2, <2>3 DEF OrderInv
<1>11. WorkInv'
  <2>1. \A key : Todo(key) => key \in DOMAIN jobs' /\ ~jobs'[key].done
    BY <1>1, <1>8 DEF Todo
  <2>2. work' = work /\ hand' = hand
    BY <1>1
  <2>3. \A k \in 1..Len(work) : Todo(work[k])'
    BY <2>1, <2>2 DEF WorkInv, Todo
  <2>4. \A w \in Workers : hand[w] # NoJob => Todo(hand[w])'
    BY <2>1, <2>2 DEF WorkInv, Todo
  <2>5. pc = "offer" => Todo(Key)'
    BY <1>7, <2>1 DEF WorkInv, Todo
  <2> QED BY <1>7, <2>2, <2>3, <2>4, <2>5 DEF WorkInv
<1> QED BY <1>1, <1>2, <1>3, <1>4, <1>5, <1>6, <1>7, <1>8, <1>9, <1>10, <1>11

\* A ledger begins without jobs.
LEMMA BeginOrder ==
    ASSUME FlowsTypeOK, RunTypeOK, JobsTypeOK, ControlInv, GivenInv, OrderInv, WorkInv, Begin
    PROVE  /\ JobsTypeOK' /\ OrderInv' /\ WorkInv'
           /\ inflight = 0 /\ DOMAIN jobs = {} /\ jobs' = jobs /\ NPub' = 0 /\ NSub' = 0
           /\ Given' = <<>> /\ Given = parts /\ SpareNow = spare /\ SpareNow' = SpareNow /\ UsedNow' = 0
           /\ em'.seq = em.seq + 1 /\ em.seq = Len(flows) /\ Len(flows') = Len(flows) + 1
           /\ \A i \in 1..Len(flows) : flows'[i] = flows[i] /\ complete(flows[i])
           /\ cur'.chunks = <<>> /\ OpenFlow' /\ ~OpenFlow
<1> DEFINE q == em.seq + 1
<1>1. PICK size \in DeclaredSizes : em' = [seq |-> q, size |-> size] /\ begin(q, AppendBegin(q, Len(flows) + 1))
  BY DEF Begin
<1>2. /\ pc = "pull" /\ em.seq < MaxLedgers /\ parts' = <<>> /\ used' = 0 /\ pc' = "read"
      /\ UNCHANGED <<spare, jobs, ordered, work, hand, pubHand, inflight, fallbacks>>
  BY DEF Begin, pipeVars
<1>3. ~OpenFlow /\ ~ended /\ inflight = 0 /\ em.seq = Len(flows) /\ \A i \in 1..Len(flows) - 1 : complete(flows[i])
  BY <1>2 DEF ControlInv
<1>4. em.seq \in Nat /\ NPub \in Nat /\ NSub \in Nat /\ NPub + inflight = NSub /\ Len(ordered) \in Nat
  BY Counts
<1>5. q \in Seqs /\ em'.seq = q
  BY <1>1, <1>2, <1>4, Consts DEF Seqs
<1>6. AppendBegin(q, Len(flows) + 1) \in BeginMsg
  BY <1>3, <1>4, <1>5 DEF AppendBegin, BeginMsg
<1>7. /\ Len(flows') = Len(flows) + 1 /\ Len(flows) \in Nat
      /\ \A i \in 1..Len(flows) : flows'[i] = flows[i]
      /\ cur'.chunks = <<>> /\ OpenFlow' /\ NPub' = 0
  <2>1. \A s \in Seqs, m \in BeginMsg : begin(s, m) =>
          /\ Len(flows') = Len(flows) + 1 /\ Len(flows) \in Nat
          /\ \A i \in 1..Len(flows) : flows'[i] = flows[i]
          /\ cur'.chunks = <<>> /\ OpenFlow' /\ NPub' = 0
    BY <1>3, BeginEffect
  <2> HIDE DEF q
  <2> QED BY <1>1, <1>5, <1>6, <2>1
<1>8. \A i \in 1..Len(flows) : complete(flows[i])
  <2> TAKE i \in 1..Len(flows)
  <2>1. CASE i = Len(flows)
    <3>1. flows # <<>>
      BY <1>7
    <3> QED BY <1>3, <2>1, <3>1 DEF OpenFlow, cur
  <2>2. CASE i # Len(flows)
    <3>1. i \in 1..Len(flows) - 1
      BY <1>7, <2>2
    <3> QED BY <1>3, <3>1
  <2> QED BY <2>1, <2>2
<1>9. DOMAIN jobs = {} /\ Len(ordered) = 0 /\ pubHand = NoJob
  <2>1. NPub..NSub - 1 = {}
    BY <1>3, <1>4
  <2> QED BY <1>3, <1>4, <2>1 DEF OrderInv
<1>10. Given' = <<>> /\ NSub' = 0 /\ UsedNow' = 0 /\ SpareNow' = spare
  BY <1>2 DEF Given, NSub, UsedNow, SpareNow, Handed
<1>11. Given = parts /\ SpareNow = spare
  BY <1>2 DEF Given, SpareNow, Handed
<1>12. JobsTypeOK'
  BY <1>2 DEF JobsTypeOK
<1>13. OrderInv'
  <2>1. NPub'..NSub' - 1 = {}
    BY <1>7, <1>10
  <2>2. DOMAIN jobs' = {<<em'.seq, i>> : i \in NPub'..NSub' - 1}
    BY <1>2, <1>9, <2>1
  <2>3. NPub' + inflight' = NSub'
    BY <1>2, <1>3, <1>7, <1>10
  <2> QED BY <1>2, <1>3, <1>4, <1>9, <2>2, <2>3 DEF OrderInv
<1>14. WorkInv'
  BY <1>2 DEF WorkInv, Todo
<1> QED BY <1>2, <1>3, <1>5, <1>7, <1>8, <1>9, <1>10, <1>11, <1>12, <1>13, <1>14

\* The steps that neither submit, encode nor publish a chunk.
Quiet ==
    \/ Stop \/ Hash \/ Flush \/ AskSum \/ End \/ PutParts
    \/ CloseQueues \/ CloseOrdered \/ Finish
    \/ \E w \in Workers : WorkerReturns(w)
    \/ PublisherReturns \/ Hasher
    \/ UNCHANGED vars

\* The calm steps are the quiet ones and those of a job.
LEMMA CalmCases ==
    Calm => Quiet \/ SubmitInline \/ Submit \/ Offer \/ (\E w \in Workers : Take(w) \/ Encode(w)) \/ TakeOrdered \/ Publish
BY DEF Calm, Quiet, Worker, Publisher

\* What they leave alone.
LEMMA QuietFrame ==
    ASSUME FlowsTypeOK, RunTypeOK, ControlInv, Quiet, hashed \in Body
    PROVE  /\ mem' = mem
           /\ UNCHANGED <<jobs, ordered, work, hand, pubHand, inflight, fallbacks, compress, em>>
           /\ Len(flows') = Len(flows) /\ NPub' = NPub
           /\ \A i \in 1..Len(flows) : flows'[i].chunks = flows[i].chunks
           /\ pc' # "submit" \/ (pc' = pc /\ UNCHANGED parts)
           /\ pc' = "offer" => pc = "offer" /\ chunkIdx' = chunkIdx
           /\ pc = "submit" => pc' = "submit"
<1>1. UNCHANGED bVars => /\ Len(flows') = Len(flows) /\ NPub' = NPub
                         /\ \A i \in 1..Len(flows) : flows'[i].chunks = flows[i].chunks
  BY FlowsFrame DEF bVars
<1>2. CASE Stop
  BY <1>1, <1>2 DEF Stop, Return, readVars, pipeVars, restVars
<1>3. CASE Hash
  <2>1. got.rerr \in {"nil", "eof", "cancel", "fail"}
    BY DEF RunTypeOK
  <2>2. pc' \in {"read", "flush", "return"}
    BY <1>3, <2>1 DEF Hash, AfterRead, Return
  <2>3. pc = "hash" /\ UNCHANGED <<bVars, mem, compress, em, got, pipeVars, hashed, hashPc, exited, stored>>
    BY <1>3 DEF Hash
  <2>4. mem' = mem /\ UNCHANGED <<bVars, compress, em>> /\ UNCHANGED pipeVars
    BY <2>3
  <2>5. UNCHANGED <<jobs, ordered, work, hand, pubHand, inflight, fallbacks>>
    BY <2>4 DEF pipeVars
  <2> QED BY <1>1, <2>2, <2>3, <2>4, <2>5
<1>4. CASE Flush
  BY <1>1, <1>4 DEF Flush, Return, readVars, pipeVars, restVars
<1>5. CASE AskSum
  BY <1>1, <1>5 DEF AskSum, readVars, pipeVars, restVars
<1>6. CASE PutParts
  BY <1>1, <1>6 DEF PutParts, Return, readVars, pipeVars, restVars
<1>7. CASE CloseQueues \/ CloseOrdered
  BY <1>1, <1>7 DEF CloseQueues, CloseOrdered, readVars, pipeVars, restVars
<1>8. CASE Finish
  <2>1. flows' = flows
    BY <1>8 DEF Finish, finish
  <2>2. Len(flows') = Len(flows) /\ NPub' = NPub /\ \A i \in 1..Len(flows) : flows'[i].chunks = flows[i].chunks
    BY <2>1 DEF NPub, cur
  <2> QED BY <1>8, <2>2 DEF Finish, readVars, pipeVars, restVars
<1>9. CASE (\E w \in Workers : WorkerReturns(w)) \/ PublisherReturns
  BY <1>1, <1>9 DEF WorkerReturns, PublisherReturns, srcVars, readVars, pipeVars, restVars
<1>10. CASE Hasher
  BY <1>1, <1>10 DEF Hasher, HashNext, HasherReturns, srcVars, readVars, pipeVars, restVars
<1>11. CASE UNCHANGED vars
  BY <1>1, <1>11 DEF vars, srcVars, readVars, pipeVars, restVars
<1>12. CASE End
  <2> DEFINE m == AppendEnd(em.seq, chunkIdx, total, Len(flows), Sum64(hashed))
  <2>1. /\ pc = "end" /\ end(m) /\ pc' = "put" /\ UNCHANGED <<mem, readVars, runErr, pipeVars>>
    BY <1>12 DEF End
  <2>2. m \in EndMsg
    <3>1. em.seq \in Seqs /\ chunkIdx \in Nat /\ total \in Nat /\ Len(flows) \in Nat
      BY DEF RunTypeOK, FlowsTypeOK
    <3> QED BY <3>1 DEF AppendEnd, EndMsg, Sum64
  <2> HIDE DEF m
  <2>3. ~ended /\ OpenFlow
    BY <2>1 DEF ControlInv
  <2>4. /\ Len(flows') = Len(flows) /\ Len(flows) \in Nat /\ Len(flows) > 0
        /\ \A i \in 1..Len(flows) - 1 : flows'[i] = flows[i]
        /\ cur'.chunks = cur.chunks /\ NPub' = NPub
    BY <2>1, <2>2, <2>3, EndEffect
  <2>5. cur' = flows'[Len(flows)] /\ cur = flows[Len(flows)]
    BY <2>4 DEF cur
  <2>6. \A i \in 1..Len(flows) : flows'[i].chunks = flows[i].chunks
    <3> TAKE i \in 1..Len(flows)
    <3>1. i = Len(flows) \/ i \in 1..Len(flows) - 1
      BY <2>4
    <3> QED BY <2>4, <2>5, <3>1
  <2> QED BY <2>1, <2>4, <2>6 DEF readVars, pipeVars
<1> QED BY <1>2, <1>3, <1>4, <1>5, <1>6, <1>7, <1>8, <1>9, <1>10, <1>11, <1>12 DEF Quiet

\* A quiet step leaves the jobs alone.
LEMMA QuietOrder ==
    ASSUME FlowsTypeOK, RunTypeOK, JobsTypeOK, ControlInv, GivenInv, OrderInv, WorkInv, SameLedger, Quiet, hashed \in Body
    PROVE  JobsTypeOK' /\ OrderInv' /\ WorkInv' /\ NPub' = NPub /\ NSub' = NSub /\ jobs' = jobs
<1>1. /\ UNCHANGED <<jobs, ordered, work, hand, pubHand, inflight, fallbacks, compress, em>> /\ NPub' = NPub
      /\ pc' # "submit" \/ (pc' = pc /\ UNCHANGED parts)
      /\ pc' = "offer" => pc = "offer" /\ chunkIdx' = chunkIdx
      /\ pc = "submit" => pc' = "submit"
  BY QuietFrame
<1>2. NSub' = NSub
  BY <1>1 DEF SameLedger, NSub
<1> QED BY <1>1, <1>2, OrderFrame

\* So does a read.
LEMMA ReadOrder ==
    ASSUME FlowsTypeOK, MemTypeOK, RunTypeOK, JobsTypeOK, ControlInv, MemInv, GivenInv, OrderInv, WorkInv, Read
    PROVE  JobsTypeOK' /\ OrderInv' /\ WorkInv' /\ NPub' = NPub /\ NSub' = NSub /\ jobs' = jobs
<1>1. PICK r \in Slice, n \in Nat : ReadOf(r, n)
  BY ReadFacts
<1>2. /\ em' = em /\ parts' = parts /\ pc = "read" /\ Given = parts
      /\ pc' = "submit" \/ (pc' \in {"read", "flush", "return"} /\ Given' = Given)
  BY <1>1, ReadLedger
<1>3. UNCHANGED <<bVars, jobs, ordered, work, hand, pubHand, inflight, fallbacks>>
  BY DEF Read, pipeVars
<1>4. NPub' = NPub
  BY <1>3, FlowsFrame
<1>5. NSub' = NSub
  BY <1>2 DEF NSub
<1> QED BY <1>2, <1>3, <1>4, <1>5, OrderFrame

-----------------------------------------------------------------------------
\* The chunk a write makes.

\* In place: the buffer becomes a raw chunk.
LEMMA HeaderMakes ==
    ASSUME MemTypeOK, RunTypeOK, GivenInv, SameLedger, NEW n \in 1..Len(Given),
           mem' = PutChunkHeader(Whole(Given[n]), em.seq, n - 1)
    PROVE  n \in Nat /\ Writes(n) /\ RawOut(Whole(Given[n]), n - 1, Given[n])'
<1> DEFINE g == Given[n]
           b == mem[g.buf]
           h == Header(em.seq, n - 1, "raw")
<1>1. /\ g \in Slice /\ g.lo \in Nat /\ g.len \in Nat /\ g.lo >= 2 /\ g.len >= 1 /\ Len(Given) \in Nat
      /\ g.buf \in DOMAIN mem /\ g.lo + g.len - 1 <= Len(b)
  BY GivenFacts, Consts DEF GivenInv, Placed
<1>2. b \in Seq(Cell) /\ Len(b) \in Nat /\ DOMAIN b = 1..Len(b)
  BY <1>1 DEF MemTypeOK
<1>3. Whole(g).buf = g.buf /\ Whole(g).lo = g.lo - 1
  <2>1. \A c \in Slice : Whole(c) = [buf |-> c.buf, lo |-> c.lo - 1, len |-> c.len + 1]
    BY SliceFacts
  <2> QED BY <1>1, <2>1
<1>4. mem' = [mem EXCEPT ![g.buf] = [b EXCEPT ![g.lo - 1] = h]]
  BY <1>3 DEF PutChunkHeader
<1> HIDE DEF b, h, g
<1>5. g.lo - 1 \in DOMAIN b
  BY <1>1, <1>2
<1>6. mem'[g.buf][g.lo - 1] = h
  BY <1>1, <1>4, <1>5 DEF b
<1>7. Given'[n] = g /\ em' = em
  BY DEF SameLedger, g
<1>8. RawOut(Whole(Given[n]), n - 1, Given[n])'
  <2>1. (Whole(Given[n]))' = Whole(Given'[n])
    BY DEF Whole
  <2> QED BY <1>6, <1>7, <2>1 DEF RawOut, h
<1>9. n \in Nat /\ Writes(n)
  BY <1>1 DEF Writes
<1> QED BY <1>8, <1>9

\* A header and a frame.
LEMMA TwoCells ==
    ASSUME NEW h, NEW f
    PROVE  <<h>> \o << f >> = << h, f >>
<1> DEFINE S == {h, f}
<1>1. <<h>> \in Seq(S) /\ << f >> \in Seq(S) /\ << h, f >> \in Seq(S)
  OBVIOUS
<1>2. Len(<<h>>) = 1 /\ Len(<< f >>) = 1 /\ <<h>>[1] = h /\ << f >>[1] = f
      /\ Len(<< h, f >>) = 2 /\ << h, f >>[1] = h /\ << h, f >>[2] = f
  OBVIOUS
<1>3. \A a, d \in Seq(S) : /\ a \o d \in Seq(S)
                          /\ Len(a \o d) = Len(a) + Len(d)
                          /\ \A i \in 1..Len(a) + Len(d) : (a \o d)[i] = IF i <= Len(a) THEN a[i] ELSE d[i - Len(a)]
  <2> HIDE DEF S
  <2> QED BY ConcatProperties
<1> DEFINE a == <<h>>
           d == << f >>
           u == << h, f >>
<1> HIDE DEF S, a, d, u
<1>4. /\ a \o d \in Seq(S) /\ Len(a \o d) = 2
      /\ \A i \in 1..2 : (a \o d)[i] = IF i <= 1 THEN a[i] ELSE d[i - 1]
  BY <1>1, <1>2, <1>3 DEF a, d
<1>5. \A i \in 1..2 : (a \o d)[i] = u[i]
  <2>1. (a \o d)[1] = a[1] /\ (a \o d)[2] = d[1]
    BY <1>4
  <2>2. u[1] = a[1] /\ u[2] = d[1]
    <3>1. a[1] = h /\ d[1] = f
      BY <1>2, Zenon DEF a, d
    <3>2. u[1] = h /\ u[2] = f
      BY <1>2, Zenon DEF u
    <3> QED BY <3>1, <3>2
  <2>3. \A i \in 1..2 : i = 1 \/ i = 2
    OBVIOUS
  <2>4. (a \o d)[1] = u[1] /\ (a \o d)[2] = u[2]
    BY <2>1, <2>2
  <2> QED BY <2>3, <2>4, Zenon
<1>6. a \o d = u
  <2>1. u \in Seq(S) /\ Len(u) = 2
    BY <1>1, <1>2 DEF u
  <2> QED BY <1>4, <1>5, <2>1, SeqEqual
<1> QED BY <1>6 DEF a, d, u

\* Or a copy of it: a frame that is smaller.
LEMMA CloneMakes ==
    ASSUME MemTypeOK, MemTypeOK', RunTypeOK, GivenInv, SameLedger, NEW n \in 1..Len(Given),
           mem' = With(mem, Clone(n), <<Header(em.seq, n - 1, "zstd")>> \o EncodeAll(Cells(Given[n]))),
           Smaller(Cells(Given[n])), compress', Safe(n)
    PROVE  ZstdOut([buf |-> Clone(n), lo |-> 1, len |-> 2], n - 1, Given[n])'
<1> DEFINE s == Cells(Given[n])
           h == Header(em.seq, n - 1, "zstd")
           f == <<"zstd", s>>
           b == Clone(n)
           c == [buf |-> b, lo |-> 1, len |-> 2]
<1>1. Len(Given) \in Nat /\ n \in Nat
  BY GivenFacts
<1>2. Given' = Given /\ em' = em /\ Cells(Given[n])' = s
  BY <1>1, CellsKept DEF SameLedger
<1>3. mem' = With(mem, b, <<h>> \o << f >>)
  BY DEF EncodeAll
<1>4. b = CloneOf(<<em.seq, n - 1>>) /\ Smaller(s)
  BY DEF Clone
<1> HIDE DEF s, h, f, b
<1>5. <<h>> \o << f >> = << h, f >>
  BY TwoCells
<1>6. b \in DOMAIN mem' /\ mem'[b] = << h, f >>
  BY <1>3, <1>5 DEF With
<1>7. c.buf = b
  OBVIOUS
<1>8. b' = b
  BY <1>2 DEF b, Clone
<1>9. ZstdOut(c, n - 1, Given[n])'
  BY <1>2, <1>4, <1>6, <1>7, <1>8 DEF ZstdOut, h, f, s
<1> QED BY <1>9 DEF b

\* A job that is not being encoded stays as it is, and a chunk that is published.
LEMMA JobKept ==
    ASSUME MemTypeOK, MemTypeOK', RunTypeOK, GivenInv, NEW n \in Nat, Safe(n), compress' = compress,
           NEW i \in Nat, i + 1 \in 1..Len(Given), JobOK(i), i + 1 # n \/ ~jobs[<<em.seq, i>>].done,
           jobs'[<<em.seq, i>>] = jobs[<<em.seq, i>>]
    PROVE  JobOK(i)'
<1>1. em' = em /\ Given'[i + 1] = Given[i + 1]
  BY DEF Safe
<1> DEFINE j == jobs[<<em.seq, i>>]
<1>2. j.msg = Whole(Given[i + 1]) /\ (IF j.done THEN Out(j.out, i, Given[i + 1]) ELSE j.out = j.msg)
  BY DEF JobOK
<1>3. (jobs[<<em.seq, i>>])' = j
  BY <1>1
<1>4. (Whole(Given[i + 1]))' = Whole(Given[i + 1])
  BY <1>1 DEF Whole
<1>5. CASE j.done
  <2>1. i + 1 # n
    BY <1>5
  <2> HIDE DEF j
  <2>2. \A c : Out(c, i, Given[i + 1]) => Out(c, i, Given[i + 1])'
    BY <2>1, OutKept
  <2>3. \A c : c = j.out => Out(c, i, Given[i + 1])'
    BY <1>2, <1>5, <2>2
  <2>4. Out(jobs[<<em.seq, i>>].out, i, Given[i + 1])'
    BY <1>3, <2>3
  <2> QED BY <1>2, <1>3, <1>4, <1>5, <2>4 DEF JobOK, j
<1>6. CASE ~j.done
  BY <1>2, <1>3, <1>4, <1>6 DEF JobOK
<1> QED BY <1>5, <1>6

\* What was published stays what it was when the writes are safe.
LEMMA PubKept ==
    ASSUME MemTypeOK, MemTypeOK', RunTypeOK, GivenInv, PubInv, NEW n \in Nat, Safe(n), compress' = compress,
           NPub \in Nat, NPub <= Len(Given), n = 0 \/ n > NPub
    PROVE  \A k \in 1..NPub : Out(cur.chunks[k], k - 1, Given[k]) /\ \A c : c = cur.chunks[k] => Out(c, k - 1, Given[k])'
<1> TAKE k \in 1..NPub
<1>1. Out(cur.chunks[k], k - 1, Given[k])
  BY DEF PubInv
<1>2. Len(Given) \in Nat
  BY GivenFacts
<1> DEFINE i == k - 1
<1>3. i \in Nat /\ i + 1 \in 1..Len(Given) /\ i + 1 # n /\ i + 1 = k
  BY <1>2
<1> HIDE DEF i
<1>4. \A c : Out(c, i, Given[i + 1]) => Out(c, i, Given[i + 1])'
  BY <1>3, OutKept
<1>5. Out(cur.chunks[k], i, Given[i + 1])
  BY <1>1, <1>3 DEF i
<1>6. \A c : c = cur.chunks[k] => Out(c, i, Given[i + 1])'
  BY <1>4, <1>5
<1> QED BY <1>1, <1>3, <1>6 DEF i

-----------------------------------------------------------------------------
\* What each step does to the memory, the jobs and the chunks published.

\* The parts of the invariant by name.
LEMMA Parts ==
    ASSUME PipeInv
    PROVE  /\ FlowsTypeOK /\ MemTypeOK /\ RunTypeOK /\ JobsTypeOK /\ HashTypeOK /\ ControlInv /\ MemInv /\ GivenInv
           /\ LedgerInv /\ OrderInv /\ JobsInv /\ WorkInv /\ PubInv /\ OldInv /\ RetainedInv /\ FellInv /\ hashed \in Body
BY DEF PipeInv, PipeTypeOK, HashTypeOK

\* Nothing is written, or slice n's header or copy, and slice n is not published.
Effect(n) ==
    /\ MemTypeOK' /\ MemInv' /\ GivenInv' /\ Safe(n)
    /\ n = 0 \/ n \in NPub + 1..Len(Given)
    /\ JobsInv' /\ PubInv'

\* A step that writes nothing.
LEMMA MemSame ==
    ASSUME PipeInv, SameLedger, mem' = mem
    PROVE  MemTypeOK' /\ MemInv' /\ GivenInv' /\ Safe(0)
<1>1. Writes(0)
  BY DEF Writes
<1> HIDE DEF Writes
<1>2. MemTypeOK /\ RunTypeOK /\ MemInv /\ GivenInv
  BY Parts
<1> QED BY <1>1, <1>2, WritesSafe

\* The jobs that are not touched.
LEMMA JobsKept ==
    ASSUME PipeInv, MemTypeOK', NEW n \in Nat, Safe(n), compress' = compress
    PROVE  \A i \in NPub..NSub - 1 :
             /\ i \in Nat /\ i + 1 \in 1..Len(Given) /\ JobOK(i) /\ <<em.seq, i>> \in DOMAIN jobs
             /\ (i + 1 # n \/ ~jobs[<<em.seq, i>>].done) /\ jobs'[<<em.seq, i>>] = jobs[<<em.seq, i>>] => JobOK(i)'
<1>1. /\ MemTypeOK /\ RunTypeOK /\ GivenInv /\ JobsInv
      /\ NPub \in Nat /\ NSub \in Nat /\ NSub <= Len(Given) /\ Len(Given) \in Nat
      /\ \A i \in NPub..NSub - 1 : <<em.seq, i>> \in DOMAIN jobs
  BY Parts, Counts
<1> TAKE i \in NPub..NSub - 1
<1>2. i \in Nat /\ i + 1 \in 1..Len(Given)
  BY <1>1
<1>3. JobOK(i)
  BY <1>1 DEF JobsInv
<1>4. (i + 1 # n \/ ~jobs[<<em.seq, i>>].done) /\ jobs'[<<em.seq, i>>] = jobs[<<em.seq, i>>] => JobOK(i)'
  BY <1>1, <1>2, <1>3, JobKept
<1> QED BY <1>1, <1>2, <1>3, <1>4

\* The chunks published stay.
LEMMA ChunksKept ==
    ASSUME PipeInv, MemTypeOK', NEW n \in Nat, Safe(n), compress' = compress, n = 0 \/ n \in NPub + 1..Len(Given),
           NPub' = NPub, NPub # 0 => cur'.chunks = cur.chunks
    PROVE  PubInv'
<1>1. MemTypeOK /\ RunTypeOK /\ GivenInv /\ PubInv /\ NPub \in Nat /\ NPub <= Len(Given) /\ Len(Given) \in Nat
  BY Parts, Counts
<1>2. \A k \in 1..NPub : \A c : c = cur.chunks[k] => Out(c, k - 1, Given[k])'
  BY <1>1, PubKept
<1>3. ASSUME NEW k \in 1..NPub PROVE Out(cur.chunks[k], k - 1, Given[k])'
  <2>1. cur'.chunks = cur.chunks
    BY <1>1
  <2>2. cur'.chunks[k] = cur.chunks[k]
    BY <2>1
  <2> QED BY <1>2, <2>2
<1> QED BY <1>3 DEF PubInv

\* One more is published.
LEMMA ChunkAdded ==
    ASSUME PipeInv, MemTypeOK', NEW n \in Nat, Safe(n), compress' = compress, n = 0 \/ n \in NPub + 1..Len(Given),
           NEW m \in Nat, m = NPub, NPub' = m + 1, NEW c \in Slice, cur.chunks \in Seq(Slice),
           cur'.chunks = Append(cur.chunks, c), flows # <<>>, Out(c, m, Given[m + 1])'
    PROVE  PubInv'
<1>1. /\ MemTypeOK /\ RunTypeOK /\ GivenInv /\ PubInv /\ NPub \in Nat /\ NPub <= Len(Given) /\ Len(Given) \in Nat
      /\ n = 0 \/ n > NPub
  BY Parts, Counts
<1>2. \A k \in 1..NPub : \A d : d = cur.chunks[k] => Out(d, k - 1, Given[k])'
  BY <1>1, PubKept
<1>3. m = Len(cur.chunks)
  BY DEF NPub
<1>4. cur'.chunks[m + 1] = c /\ \A k \in 1..m : cur'.chunks[k] = cur.chunks[k]
  <2> HIDE DEF Slice
  <2> QED BY <1>1, <1>3
<1>5. \A d, i, k : d = c /\ i = m /\ k = m + 1 => Out(d, i, Given[k])'
  OBVIOUS
<1>6. ASSUME NEW k \in 1..m + 1 PROVE Out(cur.chunks[k], k - 1, Given[k])'
  <2>1. CASE k = m + 1
    <3>1. k - 1 = m
      BY <2>1
    <3>2. cur'.chunks[k] = c
      BY <1>4, <2>1, Zenon
    <3> QED BY <1>5, <2>1, <3>1, <3>2
  <2>2. CASE k # m + 1
    <3>1. k \in 1..m
      BY <2>2
    <3>2. cur'.chunks[k] = cur.chunks[k]
      BY <1>4, <3>1
    <3> QED BY <1>2, <3>1, <3>2
  <2> QED BY <2>1, <2>2
<1> QED BY <1>6 DEF PubInv

\* No chunk of the current flow changes when the flows keep theirs.
LEMMA CurChunks ==
    ASSUME Len(flows') = Len(flows), \A i \in 1..Len(flows) : flows'[i].chunks = flows[i].chunks, FlowsTypeOK
    PROVE  NPub # 0 => cur'.chunks = cur.chunks
<1> SUFFICES ASSUME NPub # 0 PROVE cur'.chunks = cur.chunks
  OBVIOUS
<1>1. flows # <<>> /\ Len(flows) \in 1..Len(flows)
  <2>1. flows # <<>> /\ flows \in Seq(PipeFlow)
    BY DEF NPub, FlowsTypeOK
  <2> HIDE DEF PipeFlow
  <2> QED BY <2>1
<1> QED BY <1>1 DEF cur

\* The steps that leave memory, jobs and chunks alone.
LEMMA StillEffect ==
    ASSUME PipeInv, SameLedger, mem' = mem, jobs' = jobs, compress' = compress, NPub' = NPub, NSub' = NSub,
           Len(flows') = Len(flows), \A i \in 1..Len(flows) : flows'[i].chunks = flows[i].chunks
    PROVE  Effect(0)
<1>1. MemTypeOK' /\ MemInv' /\ GivenInv' /\ Safe(0) /\ em' = em /\ FlowsTypeOK
  BY MemSame, Parts DEF SameLedger
<1>2. PubInv'
  BY <1>1, ChunksKept, CurChunks
<1>3. \A i \in NPub..NSub - 1 : JobOK(i)'
  <2>1. \A i \in NPub..NSub - 1 : i + 1 # 0
    BY Counts, Parts
  <2>2. \A i \in NPub..NSub - 1 :
          (i + 1 # 0 \/ ~jobs[<<em.seq, i>>].done) /\ jobs'[<<em.seq, i>>] = jobs[<<em.seq, i>>] => JobOK(i)'
    BY <1>1, JobsKept
  <2> QED BY <2>1, <2>2
<1>4. JobsInv'
  BY <1>3 DEF JobsInv
<1> QED BY <1>1, <1>2, <1>4 DEF Effect

\* The effect of a quiet step.
LEMMA QuietEffect ==
    ASSUME PipeInv, SameLedger, Quiet
    PROVE  Effect(0)
<1>1. FlowsTypeOK /\ RunTypeOK /\ JobsTypeOK /\ ControlInv /\ GivenInv /\ OrderInv /\ WorkInv /\ hashed \in Body
  BY Parts
<1>2. /\ mem' = mem /\ compress' = compress /\ Len(flows') = Len(flows)
      /\ \A i \in 1..Len(flows) : flows'[i].chunks = flows[i].chunks
  BY <1>1, QuietFrame
<1>3. NPub' = NPub /\ NSub' = NSub /\ jobs' = jobs
  BY <1>1, QuietOrder
<1> QED BY <1>2, <1>3, StillEffect

\* The effect of taking a job.
LEMMA TakeEffect ==
    ASSUME PipeInv, SameLedger, (\E w \in Workers : Take(w)) \/ TakeOrdered
    PROVE  Effect(0)
<1>1. FlowsTypeOK /\ RunTypeOK /\ JobsTypeOK /\ ControlInv /\ GivenInv /\ OrderInv /\ WorkInv
  BY Parts
<1>2. UNCHANGED <<bVars, mem, srcVars, jobs>>
  BY DEF Take, TakeOrdered
<1>3. compress' = compress /\ flows' = flows
  BY <1>2 DEF srcVars, readVars, bVars
<1>4. NPub' = NPub /\ NSub' = NSub
  BY <1>1, TakeOrder, TakeOrderedOrder
<1> QED BY <1>2, <1>3, <1>4, StillEffect

\* The effect of submit with a pool.
LEMMA SubmitEffect ==
    ASSUME PipeInv, SameLedger, Submit
    PROVE  Effect(0)
<1>1. FlowsTypeOK /\ RunTypeOK /\ JobsTypeOK /\ ControlInv /\ GivenInv /\ OrderInv /\ WorkInv
  BY Parts
<1>2. /\ pc = "submit" /\ mem' = mem /\ flows' = flows /\ compress' = compress
      /\ jobs' = With(jobs, Key, [msg |-> got.msg, out |-> got.msg, done |-> FALSE])
  BY DEF Submit, readVars, bVars
<1>3. MemTypeOK' /\ MemInv' /\ GivenInv' /\ Safe(0) /\ em' = em /\ Given' = Given
  BY <1>2, MemSame DEF SameLedger
<1>4. NPub' = NPub /\ NSub' = NSub + 1 /\ Key = <<em.seq, NSub>> /\ NSub = Len(parts)
  BY <1>1, SubmitOrder
<1>5. PubInv'
  <2>1. NPub # 0 => cur'.chunks = cur.chunks
    BY <1>2 DEF cur
  <2> QED BY <1>2, <1>3, <1>4, <2>1, ChunksKept
<1>6. /\ NPub \in Nat /\ NSub \in Nat /\ Len(Given) = NSub + 1 /\ got.msg = Whole(Given[NSub + 1])
  BY <1>1, <1>2, <1>4, Counts, GivenFacts DEF Handed
<1> DEFINE j == [msg |-> got.msg, out |-> got.msg, done |-> FALSE]
<1>7. jobs'[Key] = j /\ \A x \in DOMAIN jobs : x # Key => jobs'[x] = jobs[x]
  BY <1>2 DEF With
<1>8. j.msg = got.msg /\ j.out = got.msg /\ j.done = FALSE
  OBVIOUS
<1> HIDE DEF j
<1>9. ASSUME NEW i \in NPub..NSub PROVE JobOK(i)'
  <2>1. CASE i = NSub
    <3>1. (jobs[<<em.seq, i>>])' = j /\ (Whole(Given[i + 1]))' = Whole(Given[NSub + 1])
      BY <1>3, <1>4, <1>7, <2>1 DEF Whole
    <3> QED BY <1>6, <1>8, <3>1 DEF JobOK
  <2>2. CASE i # NSub
    <3>1. i \in NPub..NSub - 1 /\ i + 1 # 0
      BY <1>6, <2>2
    <3>2. <<em.seq, i>> \in DOMAIN jobs /\ (jobs'[<<em.seq, i>>] = jobs[<<em.seq, i>>] => JobOK(i)')
      BY <1>2, <1>3, <3>1, JobsKept
    <3>3. <<em.seq, i>> # Key
      BY <1>4, <2>2
    <3> QED BY <1>7, <3>2, <3>3
  <2> QED BY <2>1, <2>2
<1>10. JobsInv'
  <2>1. \A i \in NPub'..NSub' - 1 : i \in NPub..NSub
    BY <1>4, <1>6
  <2> QED BY <1>9, <2>1 DEF JobsInv
<1> QED BY <1>3, <1>5, <1>10 DEF Effect

\* The effect of a publication: the job leaves, its slice joins the flow.
LEMMA PublishEffect ==
    ASSUME PipeInv, SameLedger, Publish
    PROVE  Effect(0)
<1>1. FlowsTypeOK /\ MemTypeOK /\ RunTypeOK /\ JobsTypeOK /\ ControlInv /\ GivenInv /\ OrderInv /\ WorkInv
  BY Parts
<1>2. /\ pubHand = <<em.seq, NPub>> /\ pubHand \in DOMAIN jobs /\ jobs[pubHand].done /\ jobs[pubHand].out \in Slice
      /\ NPub \in Nat /\ NPub < NSub /\ NPub' = NPub + 1 /\ NSub' = NSub
      /\ DOMAIN jobs' = DOMAIN jobs \ {pubHand} /\ \A x \in DOMAIN jobs' : jobs'[x] = jobs[x]
      /\ cur.chunks \in Seq(Slice) /\ cur'.chunks = Append(cur.chunks, jobs[pubHand].out) /\ OpenFlow
  BY <1>1, PublishOrder
<1>3. mem' = mem /\ compress' = compress
  BY DEF Publish, srcVars, readVars
<1>4. MemTypeOK' /\ MemInv' /\ GivenInv' /\ Safe(0) /\ em' = em
  BY <1>3, MemSame DEF SameLedger
<1>5. NSub \in Nat /\ NSub <= Len(Given) /\ Len(Given) \in Nat
  BY <1>1, Counts
<1>6. PubInv'
  <2> DEFINE c == jobs[pubHand].out
             m == NPub
  <2>1. m \in NPub..NSub - 1 /\ m \in Nat /\ m + 1 \in 1..Len(Given) /\ m + 1 # 0
    BY <1>2, <1>5
  <2>2. Out(c, m, Given[m + 1])
    BY <1>2, <2>1, JobsKept, <1>3, <1>4 DEF JobOK
  <2>3. \A d, i : d = c /\ i = m => Out(d, i, Given[i + 1])'
    <3> SUFFICES ASSUME NEW d, NEW i, d = c, i = m PROVE Out(d, i, Given[i + 1])'
      OBVIOUS
    <3>1. i \in Nat /\ i + 1 \in 1..Len(Given) /\ i + 1 # 0 /\ Out(d, i, Given[i + 1])
      BY <2>1, <2>2
    <3> QED BY <1>1, <1>3, <1>4, <3>1, OutKept
  <2>4. flows # <<>> /\ c \in Slice /\ 0 \in Nat
    BY <1>2 DEF OpenFlow
  <2>5. \A d \in Slice, i \in Nat : i = NPub /\ NPub' = i + 1 /\ cur'.chunks = Append(cur.chunks, d) /\ Out(d, i, Given[i + 1])'
          => PubInv'
    BY <1>2, <1>3, <1>4, <2>4, ChunkAdded
  <2> QED BY <1>2, <2>1, <2>3, <2>4, <2>5
<1>7. ASSUME NEW i \in NPub'..NSub' - 1 PROVE JobOK(i)'
  <2>1. i \in NPub..NSub - 1 /\ i + 1 # 0 /\ i # NPub
    BY <1>2, <1>5
  <2>2. <<em.seq, i>> \in DOMAIN jobs /\ (jobs'[<<em.seq, i>>] = jobs[<<em.seq, i>>] => JobOK(i)')
    BY <1>3, <1>4, <2>1, JobsKept
  <2>3. <<em.seq, i>> # pubHand
    BY <1>2, <2>1
  <2> QED BY <1>2, <2>2, <2>3
<1>8. JobsInv'
  BY <1>7 DEF JobsInv
<1> QED BY <1>4, <1>6, <1>8 DEF Effect

\* A header is written in front of slice n.
LEMMA HeaderStep ==
    ASSUME PipeInv, SameLedger, NEW n \in 1..Len(Given), mem' = PutChunkHeader(Whole(Given[n]), em.seq, n - 1)
    PROVE  n \in Nat /\ MemTypeOK' /\ MemInv' /\ GivenInv' /\ Safe(n) /\ RawOut(Whole(Given[n]), n - 1, Given[n])'
<1>1. MemTypeOK /\ RunTypeOK /\ MemInv /\ GivenInv /\ LedgerInv
  BY Parts
<1>2. n \in Nat /\ Writes(n) /\ RawOut(Whole(Given[n]), n - 1, Given[n])'
  BY <1>1, HeaderMakes
<1>3. Cells(Given[n]) \in Body
  BY <1>1, GivenBody
<1>4. MemTypeOK' /\ Safe(n) /\ MemInv' /\ GivenInv'
  BY <1>1, <1>2, <1>3, WritesSafe
<1> QED BY <1>2, <1>4

\* Or its frame to a copy.
LEMMA CloneStep ==
    ASSUME PipeInv, SameLedger, compress', NEW n \in 1..Len(Given), Smaller(Cells(Given[n])),
           mem' = With(mem, Clone(n), <<Header(em.seq, n - 1, "zstd")>> \o EncodeAll(Cells(Given[n])))
    PROVE  /\ n \in Nat /\ MemTypeOK' /\ MemInv' /\ GivenInv' /\ Safe(n)
           /\ ZstdOut([buf |-> Clone(n), lo |-> 1, len |-> 2], n - 1, Given[n])'
<1>1. MemTypeOK /\ RunTypeOK /\ MemInv /\ GivenInv /\ LedgerInv
  BY Parts
<1>2. n \in Nat
  BY <1>1, GivenFacts
<1>3. Writes(n)
  BY DEF Writes
<1>4. Cells(Given[n]) \in Body
  BY <1>1, GivenBody
<1>5. MemTypeOK' /\ Safe(n) /\ MemInv' /\ GivenInv'
  BY <1>1, <1>2, <1>3, <1>4, WritesSafe
<1>6. ZstdOut([buf |-> Clone(n), lo |-> 1, len |-> 2], n - 1, Given[n])'
  BY <1>1, <1>5, CloneMakes
<1> QED BY <1>2, <1>5, <1>6

\* The effect of submit without a pool: a header is written and the chunk published.
LEMMA InlineEffect ==
    ASSUME PipeInv, SameLedger, SubmitInline
    PROVE  \E n \in Nat : Effect(n)
<1>1. FlowsTypeOK /\ RunTypeOK /\ JobsTypeOK /\ ControlInv /\ GivenInv /\ OrderInv /\ WorkInv
  BY Parts
<1>2. pc = "submit" /\ mem' = PutChunkHeader(got.msg, em.seq, chunkIdx) /\ compress' = compress
  BY DEF SubmitInline, readVars
<1>3. /\ NPub' = NPub + 1 /\ NSub' = NSub + 1 /\ NPub = NSub /\ NSub = Len(parts)
      /\ cur.chunks \in Seq(Slice) /\ cur'.chunks = Append(cur.chunks, got.msg)
  BY <1>1, InlineOrder
<1>4. /\ NPub \in Nat /\ Len(parts) \in Nat /\ chunkIdx = Len(parts) /\ Len(Given) = Len(parts) + 1
      /\ got.msg = Whole(Given[Len(Given)]) /\ got.msg \in Slice
  BY <1>1, <1>2, Counts, GivenFacts DEF Handed
<1> DEFINE n == Len(parts) + 1
<1>5. n \in 1..Len(Given) /\ n \in Nat /\ n \in NPub + 1..Len(Given) /\ n - 1 = Len(parts)
  BY <1>3, <1>4
<1>6. mem' = PutChunkHeader(Whole(Given[n]), em.seq, n - 1)
  BY <1>2, <1>4, <1>5
<1>7. MemTypeOK' /\ MemInv' /\ GivenInv' /\ Safe(n)
      /\ \A c, i : c = Whole(Given[n]) /\ i = n - 1 => RawOut(c, i, Given[i + 1])'
  <2>1. \A k \in 1..Len(Given) : mem' = PutChunkHeader(Whole(Given[k]), em.seq, k - 1) =>
          MemTypeOK' /\ MemInv' /\ GivenInv' /\ Safe(k) /\ RawOut(Whole(Given[k]), k - 1, Given[k])'
    BY HeaderStep
  <2>2. ASSUME NEW k \in 1..Len(Given), NEW c, NEW i, k = n, c = Whole(Given[k]), i = k - 1,
               RawOut(Whole(Given[k]), k - 1, Given[k])'
        PROVE  RawOut(c, i, Given[i + 1])'
    <3>1. k - 1 + 1 = k
      BY <1>4
    <3>2. (Whole(Given[k]))' = c
      BY <2>2 DEF SameLedger, Whole
    <3> QED BY <2>2, <3>1, <3>2
  <2> HIDE DEF n
  <2> QED BY <1>5, <1>6, <2>1, <2>2
<1> HIDE DEF n
<1>8. PubInv'
  <2>1. flows # <<>>
    BY <1>1, <1>2 DEF ControlInv, OpenFlow
  <2>2. \A d \in Slice, i \in Nat : i = NPub /\ NPub' = i + 1 /\ cur'.chunks = Append(cur.chunks, d) /\ Out(d, i, Given[i + 1])'
          => PubInv'
    BY <1>2, <1>3, <1>5, <1>7, <2>1, ChunkAdded
  <2>3. \A c, i : c = got.msg /\ i = NPub => Out(c, i, Given[i + 1])'
    <3>1. got.msg = Whole(Given[n]) /\ NPub = n - 1
      BY <1>3, <1>4, <1>5 DEF n
    <3> QED BY <1>7, <3>1 DEF Out
  <2> QED BY <1>3, <1>4, <2>2, <2>3
<1>9. JobsInv'
  <2>1. NPub'..NSub' - 1 = {}
    BY <1>3, <1>4
  <2> QED BY <2>1 DEF JobsInv
<1> QED BY <1>5, <1>7, <1>8, <1>9 DEF Effect

\* Job i is done, and its chunk is slice i + 1's.
LEMMA JobDone ==
    ASSUME PipeInv, SameLedger, MemTypeOK', NEW i \in NPub..NSub - 1, Safe(i + 1), compress' = compress,
           NPub' = NPub, NSub' = NSub, DOMAIN jobs' = DOMAIN jobs,
           \A x \in DOMAIN jobs : x # <<em.seq, i>> => jobs'[x] = jobs[x],
           jobs'[<<em.seq, i>>].msg = jobs[<<em.seq, i>>].msg, jobs'[<<em.seq, i>>].done,
           NEW o, o = jobs'[<<em.seq, i>>].out, Out(o, i, Given[i + 1])'
    PROVE  JobsInv'
<1>1. NPub \in Nat /\ NSub \in Nat /\ i \in Nat /\ i + 1 \in Nat /\ em' = em /\ Given' = Given
  BY Counts, Parts DEF SameLedger
<1>2. \A k \in NPub..NSub - 1 :
        /\ k \in Nat /\ k + 1 \in 1..Len(Given) /\ JobOK(k) /\ <<em.seq, k>> \in DOMAIN jobs
        /\ (k + 1 # i + 1 \/ ~jobs[<<em.seq, k>>].done) /\ jobs'[<<em.seq, k>>] = jobs[<<em.seq, k>>] => JobOK(k)'
  BY <1>1, JobsKept
<1>3. ASSUME NEW k \in NPub..NSub - 1 PROVE JobOK(k)'
  <2>1. CASE k = i
    <3>1. jobs[<<em.seq, i>>].msg = Whole(Given[i + 1])
      BY <1>2 DEF JobOK
    <3>2. (Whole(Given[i + 1]))' = Whole(Given[i + 1]) /\ (jobs[<<em.seq, i>>])' = jobs'[<<em.seq, i>>]
      BY <1>1 DEF Whole
    <3>3. Out(jobs[<<em.seq, i>>].out, i, Given[i + 1])'
      BY <3>2
    <3>4. JobOK(i)'
      BY <3>1, <3>2, <3>3 DEF JobOK
    <3> QED BY <2>1, <3>4
  <2>2. CASE k # i
    <3>1. k + 1 # i + 1 /\ <<em.seq, k>> # <<em.seq, i>>
      BY <1>1, <1>2, <2>2
    <3> QED BY <1>2, <3>1
  <2> QED BY <2>1, <2>2
<1> QED BY <1>3 DEF JobsInv

\* A field of one job set.
LEMMA JobSet ==
    ASSUME JobsTypeOK, NEW key \in DOMAIN jobs, NEW o
    PROVE  /\ LET f == [jobs EXCEPT ![key].done = TRUE] IN
              /\ DOMAIN f = DOMAIN jobs /\ \A x \in DOMAIN jobs : x # key => f[x] = jobs[x]
              /\ f[key].msg = jobs[key].msg /\ f[key].out = jobs[key].out /\ f[key].done
           /\ LET f == [jobs EXCEPT ![key].out = o, ![key].done = TRUE] IN
              /\ DOMAIN f = DOMAIN jobs /\ \A x \in DOMAIN jobs : x # key => f[x] = jobs[x]
              /\ f[key].msg = jobs[key].msg /\ f[key].out = o /\ f[key].done
<1>1. jobs[key] \in [msg : Slice, out : Slice, done : BOOLEAN]
  BY DEF JobsTypeOK
<1> DEFINE u == [jobs[key] EXCEPT !.done = TRUE]
           v == [jobs[key] EXCEPT !.out = o, !.done = TRUE]
<1>2. u.msg = jobs[key].msg /\ u.out = jobs[key].out /\ u.done /\ v.msg = jobs[key].msg /\ v.out = o /\ v.done
  BY <1>1
<1> DEFINE f == [jobs EXCEPT ![key].done = TRUE]
           g == [jobs EXCEPT ![key].out = o, ![key].done = TRUE]
<1>3. f = [jobs EXCEPT ![key] = u]
  OBVIOUS
<1>4. g = [jobs EXCEPT ![key] = v]
  <2>1. [jobs EXCEPT ![key].out = o][key] = [jobs[key] EXCEPT !.out = o]
    OBVIOUS
  <2> QED BY <1>1
<1> HIDE DEF f, g, u, v
<1>5. /\ DOMAIN f = DOMAIN jobs /\ (\A x \in DOMAIN jobs : x # key => f[x] = jobs[x]) /\ f[key] = u
      /\ DOMAIN g = DOMAIN jobs /\ (\A x \in DOMAIN jobs : x # key => g[x] = jobs[x]) /\ g[key] = v
  BY <1>3, <1>4
<1> QED BY <1>2, <1>5 DEF f, g

\* The effect of an offer: with a full queue the raw header is written.
LEMMA OfferEffect ==
    ASSUME PipeInv, SameLedger, Offer
    PROVE  \E n \in Nat : Effect(n)
<1>1. FlowsTypeOK /\ RunTypeOK /\ JobsTypeOK /\ ControlInv /\ GivenInv /\ OrderInv /\ WorkInv
  BY Parts
<1>2. pc = "offer" /\ compress' = compress /\ flows' = flows
  BY DEF Offer, readVars, bVars
<1>3. NPub' = NPub /\ NSub' = NSub
  BY <1>1, OfferOrder
<1>4. CASE UNCHANGED <<mem, jobs, fallbacks>>
  BY <1>2, <1>3, <1>4, StillEffect
<1>5. CASE mem' = PutChunkHeader(got.msg, em.seq, chunkIdx) /\ jobs' = [jobs EXCEPT ![Key].done = TRUE]
  <2>1. /\ NPub \in Nat /\ NSub \in Nat /\ chunkIdx = Len(parts) /\ Len(parts) \in Nat /\ Len(Given) = Len(parts) + 1
        /\ got.msg = Whole(Given[Len(Given)]) /\ NSub = Len(Given) /\ Len(Given) \in Nat
    BY <1>1, <1>2, Counts, GivenFacts DEF Handed, NSub
  <2>2. Key \in DOMAIN jobs /\ ~jobs[Key].done /\ Key = <<em.seq, chunkIdx>>
    BY <1>1, <1>2 DEF WorkInv, Todo, Key
  <2> DEFINE i == chunkIdx
  <2>3. i \in NPub..NSub - 1
    <3>1. PICK k \in NPub..NSub - 1 : Key = <<em.seq, k>>
      BY <1>1, <2>2, Counts
    <3>2. k = chunkIdx
      BY <2>2, <3>1
    <3> QED BY <3>1, <3>2
  <2>4. i + 1 \in 1..Len(Given) /\ i + 1 = Len(Given) /\ i + 1 - 1 = i /\ i + 1 \in Nat /\ i + 1 \in NPub + 1..Len(Given)
    BY <2>1, <2>3
  <2>5. MemTypeOK' /\ MemInv' /\ GivenInv' /\ Safe(i + 1)
        /\ \A c : c = got.msg => RawOut(c, i, Given[i + 1])'
    <3>1. \A n \in 1..Len(Given) : mem' = PutChunkHeader(Whole(Given[n]), em.seq, n - 1) =>
            MemTypeOK' /\ MemInv' /\ GivenInv' /\ Safe(n) /\ RawOut(Whole(Given[n]), n - 1, Given[n])'
      BY HeaderStep
    <3>2. PICK n \in 1..Len(Given) : n = i + 1
      BY <2>4
    <3>3. mem' = PutChunkHeader(Whole(Given[n]), em.seq, n - 1) /\ n - 1 = i
      BY <1>5, <2>1, <2>4, <3>2
    <3>4. MemTypeOK' /\ MemInv' /\ GivenInv' /\ Safe(n) /\ RawOut(Whole(Given[n]), n - 1, Given[n])'
      BY <3>1, <3>3
    <3>5. ASSUME NEW c, c = got.msg PROVE RawOut(c, n - 1, Given[n])'
      <4>1. (Whole(Given[n]))' = c
        BY <2>1, <2>4, <3>2, <3>5 DEF SameLedger, Whole
      <4> QED BY <3>4, <4>1
    <3>6. PICK k : k = i
      OBVIOUS
    <3>7. \A c : c = got.msg => RawOut(c, k, Given[k + 1])'
      BY <3>2, <3>3, <3>5, <3>6
    <3>8. i' = i
      BY DEF Offer, readVars
    <3> QED BY <3>2, <3>4, <3>6, <3>7, <3>8
  <2>6. NPub # 0 => cur'.chunks = cur.chunks
    BY <1>2 DEF cur
  <2>7. PubInv'
    BY <1>2, <1>3, <2>4, <2>5, <2>6, ChunksKept
  <2>8. JobsInv'
    <3>1. PICK k \in NPub..NSub - 1 : k = i
      BY <2>3
    <3>2. \A x \in DOMAIN jobs : LET f == [jobs EXCEPT ![x].done = TRUE] IN
              /\ DOMAIN f = DOMAIN jobs /\ \A y \in DOMAIN jobs : y # x => f[y] = jobs[y]
              /\ f[x].msg = jobs[x].msg /\ f[x].out = jobs[x].out /\ f[x].done
      BY <1>1, JobSet
    <3>3. /\ DOMAIN jobs' = DOMAIN jobs /\ \A y \in DOMAIN jobs : y # Key => jobs'[y] = jobs[y]
          /\ jobs'[Key].msg = jobs[Key].msg /\ jobs'[Key].out = jobs[Key].out /\ jobs'[Key].done
      BY <1>5, <2>2, <3>2, Zenon
    <3>4. jobs[Key].out = got.msg
      <4>1. JobOK(k)
        BY Parts DEF JobsInv
      <4> QED BY <2>1, <2>2, <2>4, <3>1, <4>1 DEF JobOK
    <3>5. \A c : c = got.msg => Out(c, k, Given[k + 1])'
      <4>1. i' = i
        BY DEF Offer, readVars
      <4> QED BY <2>5, <3>1, <4>1 DEF Out
    <3>6. Key = <<em.seq, k>> /\ Safe(k + 1)
      BY <2>2, <2>5, <3>1
    <3>7. \A o : o = jobs'[<<em.seq, k>>].out /\ Out(o, k, Given[k + 1])' => JobsInv'
      BY <1>2, <1>3, <2>5, <3>3, <3>6, JobDone
    <3> QED BY <3>3, <3>4, <3>5, <3>6, <3>7
  <2> QED BY <2>4, <2>5, <2>7, <2>8 DEF Effect
<1> QED BY <1>4, <1>5 DEF Offer

\* A worker encodes: a header, or a frame in a copy.
LEMMA EncodeEffect ==
    ASSUME PipeInv, SameLedger, NEW w \in Workers, Encode(w)
    PROVE  \E n \in Nat : Effect(n)
<1>1. FlowsTypeOK /\ RunTypeOK /\ JobsTypeOK /\ ControlInv /\ GivenInv /\ OrderInv /\ WorkInv /\ JobsInv
  BY Parts
<1>2. compress' = compress /\ flows' = flows /\ hand[w] # NoJob
  BY DEF Encode, srcVars, readVars, bVars
<1>3. NPub' = NPub /\ NSub' = NSub
  BY <1>1, EncodeOrder
<1>4. hand[w] \in DOMAIN jobs /\ ~jobs[hand[w]].done
  BY <1>1, <1>2 DEF WorkInv, Todo
<1>5. PICK i \in NPub..NSub - 1 : hand[w] = <<em.seq, i>>
  BY <1>1, <1>4, Counts
<1>6. PICK n \in 1..Len(Given) : n = i + 1 /\ n - 1 = i /\ n \in Nat /\ n \in NPub + 1..Len(Given) /\ i \in Nat
  BY <1>1, <1>5, Counts
<1>7. jobs[hand[w]].msg = Whole(Given[n]) /\ jobs[hand[w]].out = Whole(Given[n])
  <2>1. JobOK(i)
    BY <1>1 DEF JobsInv
  <2> QED BY <1>4, <1>5, <1>6, <2>1 DEF JobOK
<1>8. DataOf(jobs[hand[w]].msg) = Given[n] /\ Whole(Given[n]) \in Slice
  <2>1. Given[n] \in Slice /\ Given[n].lo >= 2 /\ Given[n].lo \in Nat
    BY <1>1, GivenFacts
  <2>2. Whole(Given[n]) \in Slice /\ DataOf(Whole(Given[n])) = Given[n]
    <3>1. \A c \in Slice : c.lo >= 1 => Whole(c) \in Slice /\ DataOf(Whole(c)) = c
      BY SliceFacts
    <3>2. Given[n].lo >= 1
      BY <2>1
    <3> QED BY <2>1, <3>1, <3>2
  <2> QED BY <1>7, <2>2
<1>9. compress'
  <2>1. inflight # 0
    BY <1>1, <1>5, Counts
  <2> QED BY <1>1, <1>2, <2>1 DEF ControlInv
<1>10. hand[w][1] = em.seq /\ hand[w][2] = n - 1 /\ CloneOf(hand[w]) = Clone(n)
  BY <1>5, <1>6 DEF Clone
<1>11. NPub # 0 => cur'.chunks = cur.chunks
  BY <1>2 DEF cur
<1>12. Safe(n) /\ MemTypeOK' => PubInv'
  BY <1>2, <1>3, <1>6, <1>11, ChunksKept
<1>13. ASSUME MemTypeOK', Safe(n), DOMAIN jobs' = DOMAIN jobs,
              \A x \in DOMAIN jobs : x # hand[w] => jobs'[x] = jobs[x],
              jobs'[hand[w]].msg = jobs[hand[w]].msg, jobs'[hand[w]].done,
              \A c : c = jobs'[hand[w]].out => Out(c, i, Given[n])'
       PROVE  JobsInv'
  <2>1. \A o : o = jobs'[<<em.seq, i>>].out /\ Out(o, i, Given[i + 1])' => JobsInv'
    BY <1>2, <1>3, <1>5, <1>6, <1>13, JobDone
  <2>2. \A c : c = jobs'[<<em.seq, i>>].out => Out(c, i, Given[i + 1])'
    BY <1>5, <1>6, <1>13
  <2> QED BY <2>1, <2>2
<1>14. CASE Smaller(Cells(Given[n]))
  <2> DEFINE o == [buf |-> Clone(n), lo |-> 1, len |-> 2]
  <2>1. /\ mem' = With(mem, Clone(n), <<Header(em.seq, n - 1, "zstd")>> \o EncodeAll(Cells(Given[n])))
        /\ jobs' = [jobs EXCEPT ![hand[w]].out = o, ![hand[w]].done = TRUE]
    BY <1>8, <1>10, <1>14 DEF Encode
  <2>2. /\ MemTypeOK' /\ MemInv' /\ GivenInv' /\ Safe(n)
        /\ ZstdOut([buf |-> Clone(n), lo |-> 1, len |-> 2], n - 1, Given[n])'
    BY <1>9, <1>14, <2>1, CloneStep
  <2>3. ASSUME NEW c, c = o PROVE Out(c, i, Given[n])'
    <3>1. ([buf |-> Clone(n), lo |-> 1, len |-> 2])' = c
      BY <2>3 DEF Clone, SameLedger
    <3>2. ZstdOut(c, n - 1, Given[n])'
      BY <2>2, <3>1
    <3> QED BY <1>6, <3>2 DEF Out
  <2> HIDE DEF o
  <2>4. /\ DOMAIN jobs' = DOMAIN jobs /\ \A x \in DOMAIN jobs : x # hand[w] => jobs'[x] = jobs[x]
        /\ jobs'[hand[w]].msg = jobs[hand[w]].msg /\ jobs'[hand[w]].out = o /\ jobs'[hand[w]].done
    <3>1. \A x \in DOMAIN jobs : \A d : LET f == [jobs EXCEPT ![x].out = d, ![x].done = TRUE] IN
              /\ DOMAIN f = DOMAIN jobs /\ \A y \in DOMAIN jobs : y # x => f[y] = jobs[y]
              /\ f[x].msg = jobs[x].msg /\ f[x].out = d /\ f[x].done
      <4>1. \A x \in DOMAIN jobs : \A d :
              /\ LET f == [jobs EXCEPT ![x].done = TRUE] IN
                 /\ DOMAIN f = DOMAIN jobs /\ \A y \in DOMAIN jobs : y # x => f[y] = jobs[y]
                 /\ f[x].msg = jobs[x].msg /\ f[x].out = jobs[x].out /\ f[x].done
              /\ LET f == [jobs EXCEPT ![x].out = d, ![x].done = TRUE] IN
                 /\ DOMAIN f = DOMAIN jobs /\ \A y \in DOMAIN jobs : y # x => f[y] = jobs[y]
                 /\ f[x].msg = jobs[x].msg /\ f[x].out = d /\ f[x].done
        BY <1>1, JobSet, Zenon
      <4> QED BY <4>1
    <3> DEFINE f == [jobs EXCEPT ![hand[w]].out = o, ![hand[w]].done = TRUE]
    <3>2. /\ DOMAIN f = DOMAIN jobs /\ \A y \in DOMAIN jobs : y # hand[w] => f[y] = jobs[y]
          /\ f[hand[w]].msg = jobs[hand[w]].msg /\ f[hand[w]].out = o /\ f[hand[w]].done
      BY <1>4, <3>1
    <3>3. jobs' = f
      BY <2>1
    <3> HIDE DEF f
    <3> QED BY <3>2, <3>3
  <2> QED BY <1>6, <1>12, <1>13, <2>2, <2>3, <2>4 DEF Effect
<1>15. CASE ~Smaller(Cells(Given[n]))
  <2>1. /\ mem' = PutChunkHeader(Whole(Given[n]), em.seq, n - 1)
        /\ jobs' = [jobs EXCEPT ![hand[w]].done = TRUE]
    BY <1>7, <1>8, <1>10, <1>15 DEF Encode
  <2>2. MemTypeOK' /\ MemInv' /\ GivenInv' /\ Safe(n) /\ RawOut(Whole(Given[n]), n - 1, Given[n])'
    BY <2>1, HeaderStep
  <2>3. ASSUME NEW c, c = Whole(Given[n]) PROVE Out(c, i, Given[n])'
    <3>1. (Whole(Given[n]))' = c
      BY <2>3 DEF SameLedger, Whole
    <3>2. RawOut(c, n - 1, Given[n])'
      BY <2>2, <3>1
    <3> QED BY <1>6, <3>2 DEF Out
  <2>4. /\ DOMAIN jobs' = DOMAIN jobs /\ \A x \in DOMAIN jobs : x # hand[w] => jobs'[x] = jobs[x]
        /\ jobs'[hand[w]].msg = jobs[hand[w]].msg /\ jobs'[hand[w]].out = Whole(Given[n]) /\ jobs'[hand[w]].done
    <3>1. \A x \in DOMAIN jobs : LET f == [jobs EXCEPT ![x].done = TRUE] IN
              /\ DOMAIN f = DOMAIN jobs /\ \A y \in DOMAIN jobs : y # x => f[y] = jobs[y]
              /\ f[x].msg = jobs[x].msg /\ f[x].out = jobs[x].out /\ f[x].done
      BY <1>1, JobSet
    <3>2. /\ DOMAIN jobs' = DOMAIN jobs /\ \A x \in DOMAIN jobs : x # hand[w] => jobs'[x] = jobs[x]
          /\ jobs'[hand[w]].msg = jobs[hand[w]].msg /\ jobs'[hand[w]].out = jobs[hand[w]].out /\ jobs'[hand[w]].done
      BY <1>4, <2>1, <3>1, Zenon
    <3> QED BY <1>7, <3>2
  <2> QED BY <1>6, <1>12, <1>13, <2>2, <2>3, <2>4 DEF Effect
<1> QED BY <1>14, <1>15

\* Every step but Begin and Read.
LEMMA CalmEffect ==
    ASSUME PipeInv, SameLedger, Calm
    PROVE  \E n \in Nat : Effect(n)
<1>1. Quiet \/ Submit \/ TakeOrdered \/ Publish \/ (\E w \in Workers : Take(w)) => Effect(0)
  BY QuietEffect, TakeEffect, SubmitEffect, PublishEffect
<1> QED BY <1>1, CalmCases, InlineEffect, OfferEffect, EncodeEffect

\* A read.
LEMMA ReadEffect ==
    ASSUME PipeInv, Read
    PROVE  Effect(0)
<1>1. /\ FlowsTypeOK /\ MemTypeOK /\ RunTypeOK /\ JobsTypeOK /\ ControlInv /\ MemInv /\ GivenInv /\ OrderInv
      /\ WorkInv
  BY Parts
<1>2. MemTypeOK' /\ \E r \in Slice, n \in Nat : ReadOf(r, n)
  BY <1>1, ReadFacts
<1>3. Safe(0) /\ MemInv' /\ GivenInv'
  BY <1>1, <1>2, ReadSafe
<1>4. NPub' = NPub /\ NSub' = NSub /\ jobs' = jobs
  BY <1>1, ReadOrder
<1>5. compress' = compress /\ flows' = flows
  BY DEF Read, bVars
<1>6. cur' = cur
  BY <1>5 DEF cur
<1>7. PubInv'
  <2>1. \A n \in Nat : Safe(n) /\ (n = 0 \/ n \in NPub + 1..Len(Given)) => PubInv'
    BY <1>2, <1>4, <1>5, <1>6, ChunksKept
  <2> QED BY <1>3, <2>1
<1>8. JobsInv'
  <2>1. \A n \in Nat : Safe(n) => \A i \in NPub..NSub - 1 :
             (i + 1 # n \/ ~jobs[<<em.seq, i>>].done) /\ jobs'[<<em.seq, i>>] = jobs[<<em.seq, i>>] => JobOK(i)'
    BY <1>2, <1>5, JobsKept
  <2>2. \A i \in NPub..NSub - 1 : i + 1 # 0 /\ jobs'[<<em.seq, i>>] = jobs[<<em.seq, i>>]
    <3>1. \A i \in NPub..NSub - 1 : i \in Nat
      BY <1>1, Counts
    <3> QED BY <1>4, <3>1
  <2>3. \A i \in NPub..NSub - 1 : JobOK(i)'
    <3>1. \A i \in NPub..NSub - 1 :
            (i + 1 # 0 \/ ~jobs[<<em.seq, i>>].done) /\ jobs'[<<em.seq, i>>] = jobs[<<em.seq, i>>] => JobOK(i)'
      BY <1>3, <2>1
    <3> QED BY <2>2, <3>1
  <2> QED BY <1>4, <2>3 DEF JobsInv
<1> QED BY <1>2, <1>3, <1>7, <1>8 DEF Effect

-----------------------------------------------------------------------------
\* What a subscriber sees of the chunks.

\* A slice of an unwritten buffer.
LEMMA MsgSame ==
    ASSUME NEW c, mem'[c.buf] = mem[c.buf]
    PROVE  Msg(c)' = Msg(c)
<1>1. Cells(c)' = Cells(c)
  BY DEF Cells
<1> QED BY <1>1 DEF Msg

\* A chunk as a message, in a state or the next.
OutMsgs ==
    MemTypeOK /\ RunTypeOK /\ GivenInv =>
      \A i \in Nat : \A c : i + 1 \in 1..Len(Given) =>
        /\ RawOut(c, i, Given[i + 1]) => Msg(c) = RawChunk(em.seq, i, Cells(Given[i + 1]))
        /\ ZstdOut(c, i, Given[i + 1]) => Msg(c) = compressChunk(em.seq, i, Cells(Given[i + 1]))
\* The same of this state and of the next.
LEMMA OutMsgAlways == OutMsgs /\ OutMsgs'
<1>1. OutMsgs
  BY OutMsg DEF OutMsgs
<1> QED BY <1>1, PTL

\* A chunk made of a slice stays the same message.
LEMMA OutMsgKept ==
    ASSUME PipeInv, NEW n \in Nat, Effect(n), compress' = compress, RunTypeOK', NEW i \in Nat,
           i + 1 \in 1..Len(Given), i + 1 # n, NEW c, Out(c, i, Given[i + 1])
    PROVE  Msg(c)' = Msg(c)
<1>1. MemTypeOK /\ RunTypeOK /\ GivenInv
  BY Parts
<1>2. /\ MemTypeOK' /\ GivenInv' /\ Safe(n) /\ em' = em /\ Given'[i + 1] = Given[i + 1]
      /\ Len(Given') >= Len(Given) /\ Len(Given) \in Nat
  BY <1>1, GivenFacts DEF Effect, Safe
<1>3. Cells(Given[i + 1])' = Cells(Given[i + 1])
  <2>1. \A k \in 1..Len(Given) : Cells(Given[k])' = Cells(Given[k])
    BY <1>1, <1>2, CellsKept
  <2> QED BY <2>1
<1>4. /\ RawOut(c, i, Given[i + 1]) => RawOut(c, i, Given[i + 1])'
      /\ ZstdOut(c, i, Given[i + 1]) => ZstdOut(c, i, Given[i + 1])'
  BY <1>1, <1>2, FormKept
<1>5. /\ RawOut(c, i, Given[i + 1]) => Msg(c) = RawChunk(em.seq, i, Cells(Given[i + 1]))
      /\ ZstdOut(c, i, Given[i + 1]) => Msg(c) = compressChunk(em.seq, i, Cells(Given[i + 1]))
  BY <1>1, OutMsg
<1>6. /\ RawOut(c, i, Given[i + 1])' => Msg(c)' = RawChunk(em.seq, i, Cells(Given[i + 1]))'
      /\ ZstdOut(c, i, Given[i + 1])' => Msg(c)' = compressChunk(em.seq, i, Cells(Given[i + 1]))'
  <2>1. (i + 1 \in 1..Len(Given))'
    <3>1. Len(Given') \in Nat
      BY <1>2, GivenFacts
    <3>2. i + 1 \in 1..Len(Given')
      BY <1>2, <3>1
    <3> QED BY <3>2
  <2>2. /\ RawOut(c, i, Given[i + 1])' => (Msg(c) = RawChunk(em.seq, i, Cells(Given[i + 1])))'
        /\ ZstdOut(c, i, Given[i + 1])' => (Msg(c) = compressChunk(em.seq, i, Cells(Given[i + 1])))'
    BY <1>2, <2>1, OutMsgAlways DEF OutMsgs
  <2> QED BY <2>2
<1>7. /\ RawChunk(em.seq, i, Cells(Given[i + 1]))' = RawChunk(em.seq, i, Cells(Given[i + 1]))
      /\ compressChunk(em.seq, i, Cells(Given[i + 1]))' = compressChunk(em.seq, i, Cells(Given[i + 1]))
  BY <1>2, <1>3 DEF RawChunk, compressChunk, AppendChunk, EncodeAll
<1> QED BY <1>4, <1>5, <1>6, <1>7 DEF Out

\* So every chunk published stays the message it was.
LEMMA ChunkMsgKept ==
    ASSUME PipeInv, RunTypeOK', NEW n \in Nat, Effect(n), compress' = compress,
           NEW i \in 1..Len(flows), NEW k \in 1..Len(flows[i].chunks), NEW c, c = flows[i].chunks[k]
    PROVE  Msg(c)' = Msg(c)
<1>1. /\ FlowsTypeOK /\ RunTypeOK /\ JobsTypeOK /\ ControlInv /\ GivenInv /\ OrderInv /\ PubInv /\ OldInv
  BY Parts
<1>2. flows \in Seq(PipeFlow) /\ Len(flows) \in Nat
  BY <1>1 DEF FlowsTypeOK
<1>3. CASE i < Len(flows)
  <2>1. i \in 1..Len(flows) - 1
    BY <1>2, <1>3
  <2>2. Old(c.buf)
    BY <1>1, <2>1 DEF OldInv
  <2>3. mem'[c.buf] = mem[c.buf]
    BY <2>2 DEF Effect, Safe, Old
  <2> QED BY <2>3, MsgSame
<1>4. CASE i = Len(flows)
  <2>1. k \in 1..NPub /\ c = cur.chunks[k] /\ NPub \in Nat /\ NPub <= Len(Given) /\ Len(Given) \in Nat
    BY <1>1, <1>2, <1>4, Counts DEF NPub, cur
  <2>2. k - 1 \in Nat /\ k - 1 + 1 = k /\ k - 1 + 1 \in 1..Len(Given) /\ k - 1 + 1 # n /\ k \in Nat
    BY <2>1 DEF Effect
  <2>3. Out(c, k - 1, Given[k - 1 + 1])
    BY <1>1, <2>1, <2>2 DEF PubInv
  <2> QED BY <2>2, <2>3, OutMsgKept
<1> QED BY <1>2, <1>3, <1>4

-----------------------------------------------------------------------------
\* The next ledger.

\* Its arena is new.
LEMMA BeginMem ==
    ASSUME PipeInv, Begin
    PROVE  /\ MemTypeOK' /\ MemInv' /\ GivenInv'
           /\ DOMAIN mem \subseteq DOMAIN mem' /\ \A b \in DOMAIN mem : mem'[b] = mem[b]
<1>1. /\ FlowsTypeOK /\ MemTypeOK /\ RunTypeOK /\ JobsTypeOK /\ ControlInv /\ MemInv /\ GivenInv /\ OrderInv /\ WorkInv
  BY Parts
<1>2. /\ Given' = <<>> /\ SpareNow' = SpareNow /\ em'.seq = em.seq + 1
  BY <1>1, BeginOrder
<1> DEFINE q == em.seq + 1
<1>3. em.seq \in Nat /\ q \in Nat /\ q = em'.seq /\ em.seq < q
  BY <1>1, <1>2, GivenFacts
<1>4. PICK size \in DeclaredSizes : /\ em' = [seq |-> q, size |-> size]
                                   /\ mem' = IF size > 0 THEN Alloc(Arena(q), ArenaSize(size)) ELSE mem
  BY DEF Begin
<1> HIDE DEF q
<1>5. size \in Nat /\ em'.size = size /\ ArenaSize(size) \in Nat
  <2>1. size \in Nat /\ ChunkSize \in Nat /\ ChunkSize >= 1
    BY Consts
  <2>2. size \div ChunkSize \in Nat
    BY <2>1
  <2> QED BY <1>4, <2>1, <2>2 DEF ArenaSize
<1>6. Arena(q) \in BufName /\ Arena(q)[1] = "arena" /\ Arena(q)[2] = q
  BY <1>3, NameFacts
<1>7. Arena(q) \notin DOMAIN mem
  <2>1. SUFFICES ASSUME Arena(q) \in DOMAIN mem PROVE FALSE
    OBVIOUS
  <2>2. Arena(q)[2] <= em.seq
    BY <1>1, <1>6, <2>1 DEF MemInv
  <2> QED BY <1>3, <1>6, <2>2
<1>8. /\ mem' \in [DOMAIN mem' -> Seq(Cell)] /\ DOMAIN mem' \subseteq BufName
      /\ \A x \in DOMAIN mem : x \in DOMAIN mem' /\ mem'[x] = mem[x]
      /\ \A x \in DOMAIN mem' : x \in DOMAIN mem \/ x = Arena(q)
      /\ size > 0 => Arena(q) \in DOMAIN mem' /\ Len(mem'[Arena(q)]) = ArenaSize(size)
  <2>1. CASE size > 0
    <3> DEFINE v == [i \in 1..ArenaSize(size) |-> Junk]
    <3>1. v \in Seq(Cell) /\ Len(v) = ArenaSize(size)
      BY <1>5, JunkType
    <3>2. mem' = With(mem, Arena(q), v)
      BY <1>4, <2>1 DEF Alloc
    <3> HIDE DEF v
    <3>3. /\ DOMAIN With(mem, Arena(q), v) = DOMAIN mem \cup {Arena(q)} /\ With(mem, Arena(q), v)[Arena(q)] = v
          /\ \A x \in DOMAIN mem : x # Arena(q) => With(mem, Arena(q), v)[x] = mem[x]
          /\ With(mem, Arena(q), v) \in [DOMAIN mem \cup {Arena(q)} -> Seq(Cell)]
          /\ DOMAIN With(mem, Arena(q), v) \subseteq BufName
      <4>1. \A b \in BufName, u \in Seq(Cell) :
              /\ DOMAIN With(mem, b, u) = DOMAIN mem \cup {b} /\ With(mem, b, u)[b] = u
              /\ \A x \in DOMAIN mem : x # b => With(mem, b, u)[x] = mem[x]
              /\ With(mem, b, u) \in [DOMAIN mem \cup {b} -> Seq(Cell)]
              /\ DOMAIN With(mem, b, u) \subseteq BufName
        BY <1>1, MemWith
      <4> QED BY <1>6, <3>1, <4>1
    <3>4. /\ DOMAIN mem' = DOMAIN mem \cup {Arena(q)} /\ mem'[Arena(q)] = v
          /\ mem' \in [DOMAIN mem' -> Seq(Cell)] /\ DOMAIN mem' \subseteq BufName
      BY <3>2, <3>3
    <3>5. \A x \in DOMAIN mem : x \in DOMAIN mem' /\ mem'[x] = mem[x]
      BY <1>7, <3>2, <3>3
    <3>6. \A x \in DOMAIN mem' : x \in DOMAIN mem \/ x = Arena(q)
      BY <3>4
    <3> QED BY <3>1, <3>4, <3>5, <3>6
  <2>2. CASE ~(size > 0)
    BY <1>1, <1>4, <2>2 DEF MemTypeOK
  <2> QED BY <2>1, <2>2
<1>9. MemInv'
  <2>1. \A b \in DOMAIN mem' : b[1] = "arena" => b[2] <= q
    <3>1. SUFFICES ASSUME NEW b \in DOMAIN mem', b[1] = "arena" PROVE b[2] <= q
      OBVIOUS
    <3>2. CASE b \in DOMAIN mem
      <4>1. b[2] \in Nat /\ b[2] <= em.seq
        <5>1. b \in BufName
          BY <1>8
        <5> QED BY <1>1, <3>1, <3>2, <5>1 DEF MemInv, BufName
      <4> QED BY <1>3, <4>1
    <3>3. CASE b = Arena(q)
      BY <1>3, <1>6, <3>3
    <3> QED BY <1>8, <3>2, <3>3
  <2>2. em'.size > 0 => /\ Arena(em'.seq) \in DOMAIN mem'
                        /\ Len(mem'[Arena(em'.seq)]) = ArenaSize(em'.size)
    BY <1>3, <1>5, <1>8
  <2>3. SpareNow' = NoBuf \/ /\ SpareNow' \in DOMAIN mem' /\ SpareNow'[1] = "spare"
                             /\ Len(mem'[SpareNow']) = ChunkSize + 1
    BY <1>1, <1>2, <1>8 DEF MemInv
  <2>4. \A b \in DOMAIN mem' : b[1] = "spare" => b[2] < em'.seq
    <3>1. SUFFICES ASSUME NEW b \in DOMAIN mem', b[1] = "spare" PROVE b[2] < em'.seq
      OBVIOUS
    <3>2. b \in DOMAIN mem
      BY <1>6, <1>8, <3>1
    <3>3. b[2] < em.seq \/ b[2] = em.seq
      BY <1>1, <3>1, <3>2 DEF MemInv
    <3>4. b[2] \in Nat
      <4>1. b \in BufName
        BY <1>8
      <4> QED BY <4>1 DEF BufName
    <3> QED BY <1>3, <3>3, <3>4
  <2>5. \A b \in DOMAIN mem' : b[1] = "spare" =>
         \/ b[2] < em'.seq
         \/ b[2] = em'.seq /\ b[3] < Len(Given')
         \/ b[2] = em'.seq /\ b[3] = Len(Given') /\ b = SpareNow'
    BY <2>4
  <2>6. Arena(em.seq)' = Arena(em'.seq) /\ ArenaSize(em.size)' = ArenaSize(em'.size)
    BY DEF Arena, ArenaSize
  <2> QED BY <1>3, <2>1, <2>2, <2>3, <2>5, <2>6 DEF MemInv
<1>10. GivenInv'
  BY <1>2 DEF GivenInv
<1> QED BY <1>8, <1>9, <1>10 DEF MemTypeOK

\* What was published of the last ledger is now nobody's to write.
LEMMA BeginLedger ==
    ASSUME PipeInv, Begin
    PROVE  /\ MemTypeOK' /\ MemInv' /\ GivenInv' /\ JobsInv' /\ PubInv' /\ OldInv'
           /\ \A i \in 1..Len(flows), k \in Nat : k \in 1..Len(flows[i].chunks) =>
                \A c : c = flows[i].chunks[k] => Msg(c)' = Msg(c)
<1>1. /\ FlowsTypeOK /\ MemTypeOK /\ RunTypeOK /\ JobsTypeOK /\ ControlInv /\ MemInv /\ GivenInv /\ OrderInv /\ WorkInv
      /\ PubInv /\ OldInv
  BY Parts
<1>2. /\ MemTypeOK' /\ MemInv' /\ GivenInv'
      /\ DOMAIN mem \subseteq DOMAIN mem' /\ \A b \in DOMAIN mem : mem'[b] = mem[b]
  BY BeginMem
<1>3. /\ NPub' = 0 /\ NSub' = 0
      /\ Given' = <<>> /\ SpareNow' = SpareNow
      /\ em'.seq = em.seq + 1 /\ em.seq = Len(flows) /\ Len(flows') = Len(flows) + 1
      /\ \A i \in 1..Len(flows) : flows'[i] = flows[i]
  BY <1>1, BeginOrder
<1>4. Len(flows) \in Nat /\ em.seq \in Nat /\ em.seq < em'.seq /\ NPub \in Nat /\ NPub <= Len(Given) /\ Len(Given) \in Nat
  BY <1>1, <1>3, Counts DEF FlowsTypeOK
<1>5. ASSUME NEW i \in 1..Len(flows), NEW k \in 1..Len(flows[i].chunks), NEW b, b = flows[i].chunks[k].buf
      PROVE  b \in DOMAIN mem /\ (\/ b[1] \in {"arena", "clone"} /\ b[2] \in Nat /\ b[2] < em'.seq
                                  \/ b[1] = "spare" /\ b # SpareNow)
  <2>1. CASE i \in 1..Len(flows) - 1
    <3>1. Old(b)
      BY <1>1, <1>5, <2>1 DEF OldInv
    <3>2. b[1] \in {"arena", "clone"} => b[2] \in Nat
      BY <1>1, <3>1 DEF Old, MemTypeOK, BufName
    <3>3. b[1] \in {"arena", "clone"} /\ b[2] < em.seq => b[2] < em'.seq
      BY <1>3, <1>4, <3>2
    <3> QED BY <3>1, <3>2, <3>3 DEF Old
  <2>2. CASE i = Len(flows)
    <3> DEFINE g == Given[k]
               c == cur.chunks[k]
    <3>1. k \in 1..NPub /\ b = c.buf /\ k \in 1..Len(Given) /\ k - 1 \in Nat
      BY <1>4, <1>5, <2>2 DEF NPub, cur
    <3>2. Out(c, k - 1, g)
      BY <1>1, <3>1 DEF PubInv
    <3>3. Placed(g) /\ g \in Slice
      BY <1>1, <3>1, GivenFacts DEF GivenInv
    <3> HIDE DEF g, c
    <3>4. CASE RawOut(c, k - 1, g)
      <4>1. c.buf = g.buf
        BY <3>3, <3>4, SliceFacts DEF RawOut
      <4>2. Arena(em.seq)[1] = "arena" /\ Arena(em.seq)[2] = em.seq
        BY <1>4, NameFacts
      <4> QED BY <1>4, <3>1, <3>3, <4>1, <4>2 DEF Placed
    <3>5. CASE ZstdOut(c, k - 1, g)
      <4> DEFINE z == CloneOf(<<em.seq, k - 1>>)
      <4>1. z[1] = "clone" /\ z[2] = em.seq
        <5>1. \A q, j \in Nat : CloneOf(<<q, j>>)[1] = "clone" /\ CloneOf(<<q, j>>)[2] = q
          BY DEF CloneOf
        <5> QED BY <1>4, <3>1, <5>1, Zenon
      <4> HIDE DEF z
      <4>2. c.buf = z /\ c.buf \in DOMAIN mem
        BY <3>5 DEF ZstdOut, z
      <4> QED BY <1>4, <3>1, <4>1, <4>2
    <3> QED BY <3>2, <3>4, <3>5 DEF Out
  <2> QED BY <1>4, <2>1, <2>2
<1>6. \A i \in 1..Len(flows), k \in Nat : k \in 1..Len(flows[i].chunks) =>
        \A c : c = flows[i].chunks[k] => Msg(c)' = Msg(c)
  <2> TAKE i \in 1..Len(flows), k \in Nat
  <2> HAVE k \in 1..Len(flows[i].chunks)
  <2> TAKE c
  <2> HAVE c = flows[i].chunks[k]
  <2>1. c.buf \in DOMAIN mem
    BY <1>5
  <2> QED BY <1>2, <2>1, MsgSame
<1>7. OldInv'
  <2>1. ASSUME NEW i \in 1..Len(flows') - 1, NEW k \in 1..Len(flows'[i].chunks), NEW b, b = flows'[i].chunks[k].buf
        PROVE  Old(b)'
    <3>1. i \in 1..Len(flows) /\ flows'[i] = flows[i]
      BY <1>3, <1>4
    <3>2. b \in DOMAIN mem /\ (\/ b[1] \in {"arena", "clone"} /\ b[2] < em'.seq
                               \/ b[1] = "spare" /\ b # SpareNow)
      BY <1>5, <2>1, <3>1
    <3>3. b \in DOMAIN mem' /\ 1..Len(Given') = {}
      BY <1>2, <1>3, <3>2
    <3> QED BY <1>3, <3>2, <3>3 DEF Old
  <2> QED BY <2>1 DEF OldInv
<1>8. JobsInv' /\ PubInv'
  BY <1>3 DEF JobsInv, PubInv
<1> QED BY <1>2, <1>6, <1>7, <1>8

-----------------------------------------------------------------------------
\* The story of the ledger in progress, step by step.

\* It needs no more than the hasher's and END's part of it.
LEMMA StoryGiven ==
    ASSUME RunTypeOK, GivenInv, Given' = Given, NEW n \in Nat, Safe(n),
           NEW off \in [0..Len(Given) -> Nat], Story(off),
           total' = off[Len(parts')], HashInv(off)',
           pc' = "put" => cur'.end.sum = Units("live", em.seq, 0, off[Len(parts')])
    PROVE  LedgerInv'
<1>1. Given' = Given /\ em' = em /\ Len(Given) \in Nat
  BY GivenFacts DEF Safe
<1>2. off[0] = 0 /\ \A k \in 1..Len(Given) : off[k] = off[k - 1] + Given[k].len /\ Holds(Given[k], off[k - 1])
  BY DEF Story
<1>3. ASSUME NEW k \in 1..Len(Given) PROVE Holds(Given[k], off[k - 1])'
  <2>1. off[k - 1] \in Nat
    BY <1>1
  <2>2. \A lo \in Nat : Holds(Given[k], lo) => Holds(Given[k], lo)'
    BY HoldsKept
  <2> QED BY <1>2, <2>1, <2>2
<1>4. (\A k \in 1..Len(Given) : off[k] = off[k - 1] + Given[k].len /\ Holds(Given[k], off[k - 1]))'
  BY <1>1, <1>2, <1>3
<1>5. Story(off)'
  BY <1>1, <1>2, <1>4 DEF Story
<1>6. off \in [0..Len(Given') -> Nat]
  BY <1>1
<1> QED BY <1>5, <1>6 DEF LedgerInv

\* Above all when the ledger is the same.
LEMMA StoryKept ==
    ASSUME RunTypeOK, GivenInv, SameLedger, NEW n \in Nat, Safe(n),
           NEW off \in [0..Len(Given) -> Nat], Story(off),
           total' = off[Len(parts')], HashInv(off)',
           pc' = "put" => cur'.end.sum = Units("live", em.seq, 0, off[Len(parts')])
    PROVE  LedgerInv'
BY StoryGiven DEF SameLedger

\* Steps that have nothing to do with the hasher.
Unhashed ==
    \/ Stop \/ SubmitInline \/ Submit \/ Offer \/ Flush \/ PutParts
    \/ CloseQueues \/ CloseOrdered \/ Finish
    \/ \E w \in Workers : Worker(w)
    \/ TakeOrdered \/ Publish \/ PublisherReturns \/ HasherReturns
    \/ UNCHANGED vars

\* Every other is one of four.
LEMMA HashCases == Calm => Unhashed \/ Hash \/ AskSum \/ End \/ HashNext
BY DEF Calm, Unhashed, Publisher, Hasher

\* What they leave alone.
LEMMA UnhashedFrame ==
    ASSUME FlowsTypeOK, RunTypeOK, JobsTypeOK, ControlInv, GivenInv, OrderInv, WorkInv, SameLedger, Unhashed
    PROVE  /\ UNCHANGED <<hin, hashed, hashPc, parts, total>>
           /\ pc' = "end" <=> pc = "end"
           /\ OpenFlow' <=> OpenFlow
           /\ pc' = "put" => pc = "put" /\ cur' = cur
<1>1. UNCHANGED bVars => (OpenFlow' <=> OpenFlow) /\ cur' = cur
  BY FlowsFrame
<1>2. CASE Stop
  BY <1>1, <1>2 DEF Stop, Return, readVars, restVars, hashVars
<1>3. CASE SubmitInline
  <2>1. pc = "submit" /\ pc' = "hash" /\ UNCHANGED <<hin, hashed, hashPc, parts, total>> /\ chunk(got.msg)
    BY <1>3 DEF SubmitInline, readVars, restVars, hashVars
  <2>2. OpenFlow /\ ~ended /\ got.msg \in Slice
    BY <2>1 DEF ControlInv, RunTypeOK
  <2>3. OpenFlow'
    BY <2>1, <2>2, ChunkEffect
  <2> QED BY <2>1, <2>2, <2>3
<1>4. CASE Submit
  BY <1>1, <1>4 DEF Submit, readVars, restVars, hashVars
<1>5. CASE Offer
  BY <1>1, <1>5 DEF Offer, readVars, restVars, hashVars
<1>6. CASE Flush
  BY <1>1, <1>6 DEF Flush, Return, readVars, restVars, hashVars
<1>7. CASE PutParts
  BY <1>1, <1>7 DEF PutParts, Return, readVars, hashVars
<1>8. CASE CloseQueues
  BY <1>1, <1>8 DEF CloseQueues, readVars, restVars, hashVars
<1>9. CASE CloseOrdered
  BY <1>1, <1>9 DEF CloseOrdered, readVars, restVars, hashVars
<1>10. CASE Finish
  <2>1. flows' = flows
    BY <1>10 DEF Finish, finish
  <2>2. OpenFlow' <=> OpenFlow
    BY <2>1 DEF OpenFlow, cur, complete
  <2> QED BY <1>10, <2>2 DEF Finish, readVars, restVars, hashVars
<1>11. CASE \E w \in Workers : Worker(w)
  BY <1>1, <1>11 DEF Worker, Take, Encode, WorkerReturns, srcVars, readVars, restVars, hashVars
<1>12. CASE TakeOrdered
  BY <1>1, <1>12 DEF TakeOrdered, srcVars, readVars, restVars, hashVars
<1>13. CASE Publish
  <2>1. OpenFlow /\ OpenFlow'
    BY <1>13, PublishOrder
  <2>2. pc' = pc /\ UNCHANGED <<hin, hashed, hashPc, parts, total>>
    BY <1>13 DEF Publish, srcVars, readVars, restVars, hashVars
  <2>3. pc # "put"
    BY <2>1 DEF ControlInv, OpenFlow
  <2> QED BY <2>1, <2>2, <2>3
<1>14. CASE PublisherReturns
  BY <1>1, <1>14 DEF PublisherReturns, srcVars, readVars, hashVars
<1>15. CASE HasherReturns
  BY <1>1, <1>15 DEF HasherReturns, srcVars, readVars, hashVars
<1>16. CASE UNCHANGED vars
  BY <1>1, <1>16 DEF vars, srcVars, readVars, restVars, hashVars
<1> QED BY <1>2, <1>3, <1>4, <1>5, <1>6, <1>7, <1>8, <1>9, <1>10, <1>11, <1>12, <1>13, <1>14, <1>15, <1>16
        DEF Unhashed

\* Nor do they change the story.
LEMMA UnhashedLedger ==
    ASSUME PipeInv, SameLedger, Unhashed, NEW n \in Nat, Safe(n)
    PROVE  LedgerInv' /\ UNCHANGED <<hin, hashed, hashPc>>
<1>1. /\ FlowsTypeOK /\ RunTypeOK /\ JobsTypeOK /\ ControlInv /\ GivenInv /\ OrderInv /\ WorkInv /\ LedgerInv
  BY Parts
<1>2. /\ UNCHANGED <<hin, hashed, hashPc, parts, total>>
      /\ pc' = "end" <=> pc = "end"
      /\ OpenFlow' <=> OpenFlow
      /\ pc' = "put" => pc = "put" /\ cur' = cur
  BY <1>1, UnhashedFrame
<1>3. PICK off \in [0..Len(Given) -> Nat] : Story(off)
  BY <1>1 DEF LedgerInv
<1>4. total' = off[Len(parts')]
  BY <1>2, <1>3 DEF Story
<1>5. HashInv(off)'
  <2>1. HashInv(off)
    BY <1>3 DEF Story
  <2>2. Digested' = Digested /\ em' = em
    BY <1>2 DEF Digested, SameLedger
  <2>3. (IF OpenFlow'
         THEN /\ Digested' \in 0..Len(parts')
              /\ hashed' = Units("live", em'.seq, 0, off[Digested'])
              /\ \A j \in 1..Len(parts') - Digested' : hin'[j] = parts'[Digested' + j]
              /\ pc' = "end" /\ hashPc' = "idle" => hin' # <<>> /\ hin'[Len(hin')] = EndOfLedger
              /\ hashPc' = "report" => pc' = "end" /\ hin' = <<>>
         ELSE hin' = <<>> /\ hashed' = <<>> /\ hashPc' = "idle")
    BY <1>2, <2>1, <2>2 DEF HashInv
  <2>4. EndOfLedger' = EndOfLedger /\ \A hi : Units("live", em.seq, 0, hi)' = Units("live", em'.seq, 0, hi)
    BY DEF EndOfLedger, Units, NoBuf
  <2> QED BY <2>3, <2>4 DEF HashInv
<1>6. pc' = "put" => cur'.end.sum = Units("live", em.seq, 0, off[Len(parts')])
  BY <1>2, <1>3 DEF Story
<1> QED BY <1>1, <1>2, <1>3, <1>4, <1>5, <1>6, StoryKept

\* The payload is queued.
LEMMA HashLedger ==
    ASSUME PipeInv, SameLedger, Hash, NEW n \in Nat, Safe(n)
    PROVE  LedgerInv' /\ HashTypeOK' /\ stored' = stored
<1>1. /\ RunTypeOK /\ ControlInv /\ GivenInv /\ LedgerInv /\ HashTypeOK
  BY Parts
<1>2. /\ pc = "hash" /\ pc' \in {"read", "flush", "return"} /\ hashPc' = hashPc /\ hashed' = hashed /\ stored' = stored
      /\ hin' = Append(hin, DataOf(got.msg)) /\ parts' = Append(parts, DataOf(got.msg))
      /\ total' = total + got.msg.len - 1 /\ UNCHANGED bVars
  <2>1. got.rerr \in {"nil", "eof", "cancel", "fail"}
    BY <1>1 DEF RunTypeOK
  <2>2. AfterRead(got.rerr) => pc' \in {"read", "flush", "return"}
    BY <2>1 DEF AfterRead, Return
  <2> QED BY <2>2 DEF Hash
<1>3. OpenFlow /\ OpenFlow'
  BY <1>1, <1>2, FlowsFrame DEF ControlInv
<1>4. PICK off \in [0..Len(Given) -> Nat] : Story(off)
  BY <1>1 DEF LedgerInv
<1> DEFINE d == DataOf(got.msg)
           D == Digested
           m == Len(hin)
           L == Len(parts)
<1>5. /\ Given = Append(parts, d) /\ Len(Given) = L + 1 /\ L \in Nat /\ d = Given[L + 1] /\ d \in Slice
      /\ got.msg.len = d.len + 1 /\ d.len \in Nat /\ parts \in Seq(Slice) /\ L + 1 \in 1..Len(Given)
  <2>1. Handed
    BY <1>2 DEF Handed
  <2>2. Given = Append(parts, d)
    BY <2>1 DEF Given
  <2>3. L \in Nat /\ Len(Given) = L + 1 /\ Given[L + 1] = d /\ got.msg.len = d.len + 1 /\ parts \in Seq(Slice)
    BY <1>1, <2>1, GivenFacts
  <2>4. L + 1 \in 1..Len(Given)
    BY <2>3
  <2>5. d \in Slice /\ d.len \in Nat
    BY <1>1, <2>3, <2>4, GivenFacts
  <2> QED BY <2>2, <2>3, <2>4, <2>5
<1>6. /\ D \in 0..L /\ hashed = Units("live", em.seq, 0, off[D]) /\ hashPc = "idle"
      /\ \A j \in 1..L - D : hin[j] = parts[D + j]
  <2>1. HashInv(off) /\ hashPc \in {"idle", "report"}
    BY <1>1, <1>4 DEF Story, HashTypeOK
  <2> QED BY <1>2, <1>3, <2>1 DEF HashInv
<1>7. hin \in Seq(Slice) /\ m \in Nat /\ D = L - m
  BY <1>1, <1>2 DEF HashTypeOK, Digested
<1> HIDE DEF d
<1>8. /\ hin' \in Seq(Slice) /\ Len(hin') = m + 1 /\ hin'[m + 1] = d /\ \A j \in 1..m : hin'[j] = hin[j]
      /\ parts' = Given /\ Len(parts') = L + 1 /\ parts'[L + 1] = d /\ \A j \in 1..L : parts'[j] = parts[j]
  BY <1>2, <1>5, <1>7 DEF d
<1>9. total' = off[Len(parts')]
  <2>1. total = off[L] /\ off[L + 1] = off[L + 1 - 1] + Given[L + 1].len
    BY <1>4, <1>5 DEF Story
  <2>2. off[L] \in Nat /\ L + 1 - 1 = L
    BY <1>5
  <2> QED BY <1>2, <1>5, <1>8, <2>1, <2>2
<1>10. HashInv(off)'
  <2>1. Digested' = D
    <3>1. Digested' = Len(parts') - Len(hin')
      BY <1>2 DEF Digested
    <3> HIDE DEF D
    <3> QED BY <1>5, <1>7, <1>8, <3>1
  <2> HIDE DEF D, L, m
  <2>2. \A j \in 1..Len(parts') - D : hin'[j] = parts'[D + j]
    <3>1. SUFFICES ASSUME NEW j \in 1..Len(parts') - D PROVE hin'[j] = parts'[D + j]
      OBVIOUS
    <3>2. CASE j \in 1..m
      <4>1. j \in 1..L - D /\ D + j \in 1..L
        BY <1>5, <1>6, <1>7, <3>2
      <4> QED BY <1>6, <1>8, <3>2, <4>1
    <3>3. CASE j \notin 1..m
      <4>1. j = m + 1 /\ D + j = L + 1
        BY <1>5, <1>6, <1>7, <1>8, <3>3
      <4> QED BY <1>8, <4>1
    <3> QED BY <3>2, <3>3
  <2>3. D \in 0..Len(parts')
    BY <1>5, <1>6, <1>8
  <2>4. hashed' = Units("live", em.seq, 0, off[D]) /\ em' = em /\ hashPc' = "idle"
    BY <1>2, <1>6 DEF SameLedger
  <2>5. Units("live", em.seq, 0, off[D])' = Units("live", em.seq, 0, off[D]')
    BY <2>4 DEF Units
  <2> QED BY <1>2, <1>3, <2>1, <2>2, <2>3, <2>4 DEF HashInv
<1>11. LedgerInv'
  BY <1>1, <1>2, <1>4, <1>9, <1>10, StoryKept
<1> QED BY <1>1, <1>2, <1>8, <1>11 DEF HashTypeOK

\* The end of the ledger is queued.
LEMMA AskSumLedger ==
    ASSUME PipeInv, SameLedger, AskSum, NEW n \in Nat, Safe(n)
    PROVE  LedgerInv' /\ HashTypeOK' /\ stored' = stored
<1>1. /\ RunTypeOK /\ ControlInv /\ GivenInv /\ LedgerInv /\ HashTypeOK
  BY Parts
<1>2. /\ pc = "sum" /\ pc' = "end" /\ hashPc' = hashPc /\ hashed' = hashed /\ stored' = stored
      /\ hin' = Append(hin, EndOfLedger) /\ parts' = parts /\ total' = total /\ UNCHANGED bVars
  BY DEF AskSum, readVars
<1>3. OpenFlow /\ OpenFlow'
  BY <1>1, <1>2, FlowsFrame DEF ControlInv
<1>4. PICK off \in [0..Len(Given) -> Nat] : Story(off)
  BY <1>1 DEF LedgerInv
<1> DEFINE D == Digested
           m == Len(hin)
           L == Len(parts)
<1>5. /\ D \in 0..L /\ hashed = Units("live", em.seq, 0, off[D]) /\ hashPc = "idle"
      /\ \A j \in 1..L - D : hin[j] = parts[D + j]
  <2>1. HashInv(off) /\ hashPc \in {"idle", "report"}
    BY <1>1, <1>4 DEF Story, HashTypeOK
  <2> QED BY <1>2, <1>3, <2>1 DEF HashInv
<1>6. hin \in Seq(Slice) /\ m \in Nat /\ D = L - m /\ L \in Nat /\ EndOfLedger \in Slice
  BY <1>1, <1>2 DEF HashTypeOK, Digested, RunTypeOK, EndOfLedger, Slice, NoBuf, BufName
<1>7. /\ hin' \in Seq(Slice) /\ Len(hin') = m + 1 /\ hin'[m + 1] = EndOfLedger /\ \A j \in 1..m : hin'[j] = hin[j]
  <2> DEFINE e == EndOfLedger
  <2> HIDE DEF e
  <2>1. e \in Slice /\ hin' = Append(hin, e)
    BY <1>2, <1>6 DEF e
  <2>2. hin' \in Seq(Slice) /\ Len(hin') = m + 1 /\ hin'[m + 1] = e /\ \A j \in 1..m : hin'[j] = hin[j]
    BY <1>6, <2>1
  <2> QED BY <2>2 DEF e
<1>8. total' = off[Len(parts')]
  BY <1>2, <1>4 DEF Story
<1>9. HashInv(off)'
  <2>1. Digested' = D
    <3>1. Digested' = Len(parts') - (Len(hin') - 1)
      BY <1>2, <1>5 DEF Digested
    <3> HIDE DEF D
    <3> QED BY <1>2, <1>6, <1>7, <3>1
  <2> HIDE DEF D, m
  <2>2. \A j \in 1..L - D : hin'[j] = parts'[D + j]
    <3>1. \A j \in 1..L - D : j \in 1..m
      BY <1>6
    <3> QED BY <1>2, <1>5, <1>7, <3>1
  <2>3. hin' # <<>> /\ hin'[Len(hin')] = EndOfLedger
    BY <1>6, <1>7
  <2>4. hashed' = Units("live", em.seq, 0, off[D]) /\ em' = em /\ hashPc' = "idle" /\ EndOfLedger' = EndOfLedger
    BY <1>2, <1>5 DEF SameLedger, EndOfLedger, NoBuf
  <2> QED BY <1>2, <1>3, <1>5, <2>1, <2>2, <2>3, <2>4 DEF HashInv
<1>10. LedgerInv'
  BY <1>1, <1>2, <1>4, <1>8, <1>9, StoryKept
<1> QED BY <1>1, <1>2, <1>7, <1>10 DEF HashTypeOK

\* The checksum is the body's.
LEMMA EndLedger ==
    ASSUME PipeInv, SameLedger, End, NEW n \in Nat, Safe(n)
    PROVE  LedgerInv' /\ HashTypeOK' /\ stored' = stored /\ ~OpenFlow'
<1>1. /\ FlowsTypeOK /\ RunTypeOK /\ ControlInv /\ GivenInv /\ LedgerInv /\ HashTypeOK
  BY Parts
<1> DEFINE msg == AppendEnd(em.seq, chunkIdx, total, Len(flows), Sum64(hashed))
<1>2. /\ pc = "end" /\ pc' = "put" /\ hashPc = "report" /\ hashPc' = "idle" /\ hashed' = <<>> /\ stored' = stored
      /\ hin' = hin /\ parts' = parts /\ total' = total /\ end(msg)
  BY DEF End, readVars
<1>3. OpenFlow /\ ~ended
  BY <1>1, <1>2 DEF ControlInv
<1>4. msg \in EndMsg /\ msg.sum = hashed
  BY <1>1 DEF EndMsg, AppendEnd, Sum64, RunTypeOK, HashTypeOK, FlowsTypeOK
<1>5. ~OpenFlow' /\ cur'.end = msg
  <2> HIDE DEF msg
  <2> QED BY <1>1, <1>2, <1>3, <1>4, EndEffect
<1> HIDE DEF msg
<1>6. PICK off \in [0..Len(Given) -> Nat] : Story(off)
  BY <1>1 DEF LedgerInv
<1>7. hin = <<>> /\ Digested = Len(parts) /\ hashed = Units("live", em.seq, 0, off[Len(parts)])
  <2>1. HashInv(off)
    BY <1>6 DEF Story
  <2>2. hin = <<>> /\ hashed = Units("live", em.seq, 0, off[Digested])
    BY <1>2, <1>3, <2>1 DEF HashInv
  <2>3. Len(parts) \in Nat /\ Len(hin) = 0
    BY <1>1, <2>2, GivenFacts
  <2>4. Digested = Len(parts)
    BY <1>2, <2>3 DEF Digested
  <2> QED BY <2>2, <2>4
<1>8. total' = off[Len(parts')]
  BY <1>2, <1>6 DEF Story
<1>9. HashInv(off)'
  BY <1>2, <1>5, <1>7 DEF HashInv
<1>10. pc' = "put" => cur'.end.sum = Units("live", em.seq, 0, off[Len(parts')])
  BY <1>2, <1>4, <1>5, <1>7
<1>11. LedgerInv'
  BY <1>1, <1>6, <1>8, <1>9, <1>10, StoryKept
<1>12. <<>> \in Body
  BY DEF Body
<1> QED BY <1>1, <1>2, <1>5, <1>11, <1>12 DEF HashTypeOK

\* The hasher takes a part in, or finds the end.
LEMMA HashNextLedger ==
    ASSUME PipeInv, SameLedger, HashNext, NEW n \in Nat, Safe(n)
    PROVE  LedgerInv' /\ HashTypeOK' /\ stored' = stored
<1>1. /\ FlowsTypeOK /\ MemTypeOK /\ RunTypeOK /\ ControlInv /\ GivenInv /\ LedgerInv /\ HashTypeOK
  BY Parts
<1>2. /\ hashPc = "idle" /\ hin # <<>> /\ hin' = Tail(hin) /\ stored' = stored /\ UNCHANGED bVars
      /\ pc' = pc /\ parts' = parts /\ total' = total
  BY DEF HashNext, srcVars, readVars
<1>3. PICK off \in [0..Len(Given) -> Nat] : Story(off)
  BY <1>1 DEF LedgerInv
<1>4. HashInv(off)
  BY <1>3 DEF Story
<1>5. OpenFlow /\ OpenFlow' /\ cur' = cur
  <2>1. OpenFlow
    BY <1>2, <1>4 DEF HashInv
  <2> QED BY <1>2, <2>1, FlowsFrame
<1> DEFINE D == Digested
           m == Len(hin)
           L == Len(parts)
<1>6. /\ D \in 0..L /\ hashed = Units("live", em.seq, 0, off[D])
      /\ \A j \in 1..L - D : hin[j] = parts[D + j]
      /\ pc = "end" => hin[m] = EndOfLedger
  BY <1>2, <1>4, <1>5 DEF HashInv
<1>7. hin \in Seq(Slice) /\ m \in Nat /\ m >= 1 /\ L \in Nat /\ D = L - (IF pc = "end" THEN m - 1 ELSE m)
      /\ em.seq \in Seqs
  BY <1>1, <1>2, GivenFacts DEF HashTypeOK, Digested
<1> HIDE DEF D, m, L
<1>14. D \in Nat /\ D <= L /\ L \in Nat /\ m \in Nat
  <2>1. D \in 0..L /\ L \in Nat /\ m \in Nat
    BY <1>6, <1>7
  <2> QED BY <2>1
<1>15. /\ pc = "end" => D = L - (m - 1)
       /\ pc # "end" => D = L - m
  BY <1>7
<1>8. hin' \in Seq(Slice) /\ Len(hin') = m - 1 /\ \A j \in 1..m - 1 : hin'[j] = hin[j + 1]
  BY <1>2, <1>7 DEF m
<1>9. total' = off[Len(parts')]
  BY <1>2, <1>3 DEF Story
<1>10. em' = em /\ EndOfLedger' = EndOfLedger /\ Head(hin) = hin[1] /\ Len(parts') = L /\ Len(hin) = m /\ Len(parts) = L
  BY <1>2, <1>7 DEF SameLedger, EndOfLedger, NoBuf, L, m
<1>11. pc = "put" => cur'.end.sum = Units("live", em.seq, 0, off[Len(parts')])
  BY <1>2, <1>3, <1>5 DEF Story
<1>12. CASE D < L
  <2> DEFINE g == parts[D + 1]
  <2>1. D + 1 \in 1..L /\ 1 \in 1..L - D /\ D \in Nat
    BY <1>12, <1>14
  <2>2. hin[1] = g /\ g = Given[D + 1] /\ D + 1 \in 1..Len(Given)
    <3>1. Len(Given) >= L /\ Len(Given) \in Nat /\ \A k \in 1..L : Given[k] = parts[k]
      BY <1>1, GivenFacts DEF L
    <3> QED BY <1>6, <1>7, <2>1, <3>1
  <2>3. g.len \in 1..ChunkSize
    BY <1>1, <2>2 DEF GivenInv, Placed
  <2>4. g # EndOfLedger
    BY <2>3 DEF EndOfLedger
  <2>5. hashed' = hashed \o Cells(g) /\ hashPc' = "idle"
    BY <1>2, <1>10, <2>2, <2>4 DEF HashNext
  <2>6. /\ Cells(g) = Units("live", em.seq, off[D], off[D + 1]) /\ off[D] \in Nat /\ off[D + 1] \in Nat
        /\ off[D] <= off[D + 1]
    <3>1. \A k \in 1..Len(Given) : /\ Cells(Given[k]) = Units("live", em.seq, off[k - 1], off[k])
                                   /\ off[k - 1] \in Nat /\ off[k] \in Nat /\ off[k - 1] < off[k]
      BY <1>1, <1>3, StoryCells
    <3>2. \A e \in Nat : e + 1 \in 1..Len(Given) =>
            /\ Cells(Given[e + 1]) = Units("live", em.seq, off[e], off[e + 1])
            /\ off[e] \in Nat /\ off[e + 1] \in Nat /\ off[e] < off[e + 1]
      <4> TAKE e \in Nat
      <4> HAVE e + 1 \in 1..Len(Given)
      <4>1. e + 1 - 1 = e
        OBVIOUS
      <4>2. PICK k \in 1..Len(Given) : k = e + 1
        OBVIOUS
      <4>3. k - 1 = e
        BY <4>1, <4>2
      <4>4. /\ Cells(Given[k]) = Units("live", em.seq, off[k - 1], off[k])
            /\ off[k - 1] \in Nat /\ off[k] \in Nat /\ off[k - 1] < off[k]
        BY <3>1
      <4> QED BY <4>2, <4>3, <4>4
    <3>4. /\ Cells(Given[D + 1]) = Units("live", em.seq, off[D], off[D + 1])
          /\ off[D] \in Nat /\ off[D + 1] \in Nat /\ off[D] < off[D + 1]
      BY <2>1, <2>2, <3>2
    <3>5. \A a, b \in Nat : a < b => a <= b
      OBVIOUS
    <3> QED BY <2>2, <3>4, <3>5
  <2>7. hashed' = Units("live", em.seq, 0, off[D + 1]) /\ hashed' \in Body
    <3> DEFINE a == off[D]
               b == off[D + 1]
    <3>1. a \in Nat /\ b \in Nat /\ a <= b
      BY <2>6
    <3> HIDE DEF a, b
    <3>2. Units("live", em.seq, 0, a) \o Units("live", em.seq, a, b) = Units("live", em.seq, 0, b)
          /\ Units("live", em.seq, 0, b) \in Body
      <4>1. \A q \in Seqs, x, y \in Nat : x <= y =>
              Units("live", q, 0, x) \o Units("live", q, x, y) = Units("live", q, 0, y)
        BY UnitsFacts
      <4>2. \A q \in Seqs, x, y \in Nat : x <= y => Units("live", q, x, y) \in Body
        BY UnitsFacts
      <4>3. 0 \in Nat /\ 0 <= b
        BY <3>1
      <4> QED BY <1>7, <3>1, <4>1, <4>2, <4>3
    <3> QED BY <1>6, <2>5, <2>6, <3>2 DEF a, b
  <2>8. Digested' = D + 1
    <3>1. Digested' = L - (IF pc = "end" THEN m - 1 - 1 ELSE m - 1)
      BY <1>2, <1>8, <1>10, <2>5 DEF Digested
    <3> QED BY <1>7, <3>1
  <2>9. \A j \in 1..L - (D + 1) : hin'[j] = parts'[D + 1 + j]
    <3>1. SUFFICES ASSUME NEW j \in 1..L - (D + 1) PROVE hin'[j] = parts[D + 1 + j]
      BY <1>2
    <3>2. j \in 1..m - 1 /\ j + 1 \in 1..L - D /\ D + (j + 1) = D + 1 + j
      BY <1>14, <1>15, <2>1
    <3>3. hin'[j] = hin[j + 1] /\ hin[j + 1] = parts[D + (j + 1)]
      BY <1>6, <1>8, <3>2
    <3> QED BY <3>2, <3>3
  <2>10. pc = "end" => hin' # <<>> /\ hin'[Len(hin')] = EndOfLedger
    <3>1. SUFFICES ASSUME pc = "end" PROVE hin' # <<>> /\ hin'[Len(hin')] = EndOfLedger
      OBVIOUS
    <3>2. m >= 2 /\ m - 1 \in 1..m - 1 /\ m - 1 + 1 = m
      BY <1>6, <1>7, <1>12, <3>1
    <3>3. hin'[m - 1] = hin[m - 1 + 1]
      BY <1>8, <3>2
    <3>4. hin' # <<>>
      BY <1>8, <3>2
    <3> QED BY <1>6, <1>8, <3>1, <3>2, <3>3, <3>4
  <2>11. HashInv(off)'
    <3>1. D + 1 \in 0..L
      BY <2>1
    <3> QED BY <1>2, <1>5, <1>10, <2>5, <2>7, <2>8, <2>9, <2>10, <3>1 DEF HashInv
  <2>12. LedgerInv'
    BY <1>1, <1>2, <1>3, <1>9, <1>11, <2>11, StoryKept
  <2> QED BY <1>1, <1>2, <1>8, <2>5, <2>7, <2>12 DEF HashTypeOK
<1>13. CASE D = L
  <2>1. pc = "end" /\ m = 1
    BY <1>7, <1>13
  <2>2. hin[1] = EndOfLedger
    BY <1>6, <2>1
  <2>3. hashPc' = "report" /\ hashed' = hashed
    BY <1>2, <1>10, <2>2 DEF HashNext
  <2>4. hin' = <<>> /\ Len(hin') = 0
    BY <1>8, <2>1
  <2>5. Digested' = L
    <3>1. Digested' = L - 0
      BY <1>2, <1>10, <2>3, <2>4 DEF Digested
    <3> QED BY <1>14, <3>1
  <2>6. L \in 0..L /\ 1..L - L = {}
    BY <1>7
  <2>7. HashInv(off)'
    BY <1>2, <1>5, <1>6, <1>10, <1>13, <2>1, <2>3, <2>4, <2>5, <2>6 DEF HashInv
  <2>8. LedgerInv'
    BY <1>1, <1>2, <1>3, <1>9, <1>11, <2>7, StoryKept
  <2> QED BY <1>1, <1>2, <1>8, <2>3, <2>8 DEF HashTypeOK
<1> QED BY <1>6, <1>7, <1>12, <1>13

\* The region read is the next piece of the body.
LEMMA ReadStory ==
    ASSUME PipeInv, Read
    PROVE  LedgerInv' /\ HashTypeOK' /\ stored' = stored
<1>1. /\ FlowsTypeOK /\ MemTypeOK /\ RunTypeOK /\ JobsTypeOK /\ ControlInv /\ MemInv /\ GivenInv /\ LedgerInv /\ HashTypeOK
  BY Parts
<1>2. PICK r \in Slice, n \in Nat : ReadOf(r, n)
  BY <1>1, ReadFacts
<1>3. Safe(0)
  BY <1>1, <1>2, ReadSafe
<1>4. /\ em' = em /\ parts' = parts /\ total' = total /\ used' = used /\ chunkIdx' = chunkIdx
      /\ pc = "read" /\ Given = parts
      /\ \/ pc' = "submit" /\ n >= 1 /\ Given' = Append(Given, ReadSlice(r, n))
         \/ pc' \in {"read", "flush", "return"} /\ Given' = Given
  BY <1>1, <1>2, ReadLedger
<1>5. UNCHANGED <<bVars, hin, hashed, hashPc, stored>>
  BY DEF Read, restVars, hashVars
<1>6. OpenFlow /\ OpenFlow'
  BY <1>1, <1>4, <1>5, FlowsFrame DEF ControlInv
<1>7. PICK off \in [0..Len(Given) -> Nat] : Story(off)
  BY <1>1 DEF LedgerInv
<1> DEFINE L == Len(parts)
<1>8. L \in Nat /\ Len(Given) = L /\ parts \in Seq(Slice) /\ Given \in Seq(Slice)
  BY <1>1, <1>4, GivenFacts
<1>9. /\ Digested \in 0..L /\ hashed = Units("live", em.seq, 0, off[Digested]) /\ hashPc # "report"
      /\ \A j \in 1..L - Digested : hin[j] = parts[Digested + j]
  <2>1. HashInv(off)
    BY <1>7 DEF Story
  <2> QED BY <1>4, <1>6, <2>1 DEF HashInv
<1>10. Digested' = Digested /\ total = off[L]
  BY <1>4, <1>5, <1>7 DEF Digested, Story
<1>11. ASSUME NEW f, \A i \in 0..L : f[i] = off[i] PROVE HashInv(f)'
  <2>1. f[Digested] = off[Digested]
    BY <1>9, <1>11
  <2>2. hashed' = Units("live", em'.seq, 0, f[Digested'])
    BY <1>4, <1>5, <1>9, <1>10, <2>1
  <2>3. /\ Digested' \in 0..Len(parts') /\ \A j \in 1..Len(parts') - Digested' : hin'[j] = parts'[Digested' + j]
        /\ hashPc' # "report" /\ pc' # "end"
    BY <1>4, <1>5, <1>9, <1>10
  <2> QED BY <1>6, <2>2, <2>3 DEF HashInv
<1>12. HashTypeOK' /\ stored' = stored
  BY <1>1, <1>5 DEF HashTypeOK
<1>13. CASE Given' = Given
  <2>1. HashInv(off)'
    BY <1>11
  <2>2. total' = off[Len(parts')] /\ pc' # "put"
    BY <1>4, <1>10
  <2>3. \A m \in Nat : Safe(m) => LedgerInv'
    BY <1>1, <1>7, <1>13, <2>1, <2>2, StoryGiven
  <2> QED BY <1>3, <1>12, <2>3
<1>14. CASE pc' = "submit" /\ n >= 1 /\ Given' = Append(Given, ReadSlice(r, n))
  <2> DEFINE g == ReadSlice(r, n)
  <2>1. g \in Slice /\ g.buf = r.buf /\ g.lo = r.lo + 1 /\ g.len = n /\ r.lo \in Nat
    <3>1. r.buf \in BufName /\ r.lo \in Nat
      BY DEF Slice
    <3> QED BY <3>1 DEF ReadSlice, Slice
  <2>2. /\ Len(Given') = L + 1 /\ Given'[L + 1] = g /\ \A k \in 1..L : Given'[k] = Given[k]
    <3> HIDE DEF g
    <3> QED BY <1>8, <1>14, <2>1 DEF g
  <2>3. off \in [0..L -> Nat] /\ off[0] = 0
    BY <1>7, <1>8 DEF Story
  <2>4. PICK f \in [0..L + 1 -> Nat] : f[L + 1] = off[L] + n /\ \A i \in 0..L : f[i] = off[i]
    <3> DEFINE h == [i \in 0..L + 1 |-> IF i = L + 1 THEN off[L] + n ELSE off[i]]
    <3>1. h \in [0..L + 1 -> Nat] /\ h[L + 1] = off[L] + n /\ \A i \in 0..L : h[i] = off[i]
      BY <1>8, <2>3
    <3> HIDE DEF h
    <3> QED BY <3>1
  <2> HIDE DEF g, L
  <2>5. ASSUME NEW k \in 1..L + 1 PROVE f[k] = f[k - 1] + Given'[k].len /\ Holds(Given[k], f[k - 1])'
    <3>1. CASE k = L + 1
      <4>1. k - 1 = L /\ f[k - 1] = total /\ f[k] = total + n /\ f[k - 1] = off[L]
        BY <1>8, <1>10, <2>4, <3>1
      <4>2. \A p \in 1..n : mem'[r.buf][r.lo + p] = <<"live", em.seq, total + p>>
        BY <1>2 DEF ReadOf
      <4>3. \A p \in 1..n : mem'[g.buf][g.lo + p - 1] = <<"live", em'.seq, f[k - 1] + p>>
        <5>1. \A p \in 1..n : g.lo + p - 1 = r.lo + p
          BY <2>1
        <5> QED BY <1>4, <2>1, <4>1, <4>2, <5>1
      <4>4. Given'[k] = g
        BY <2>2, <3>1
      <4>5. Holds(Given[k], f[k - 1])'
        BY <2>1, <4>3, <4>4, Zenon DEF Holds
      <4> QED BY <2>1, <4>1, <4>4, <4>5
    <3>2. CASE k # L + 1
      <4>1. k \in 1..L /\ k - 1 \in 0..L /\ k \in 0..L
        BY <1>8, <3>2
      <4>2. f[k] = off[k] /\ f[k - 1] = off[k - 1] /\ off[k - 1] \in Nat /\ Given'[k] = Given[k] /\ k \in 1..Len(Given)
        BY <1>8, <2>2, <2>3, <2>4, <4>1
      <4>3. off[k] = off[k - 1] + Given[k].len /\ Holds(Given[k], off[k - 1])
        BY <1>7, <4>2 DEF Story
      <4>4. \A m \in Nat, j \in 1..Len(Given), lo \in Nat : Safe(m) /\ Holds(Given[j], lo) => Holds(Given[j], lo)'
        BY HoldsKept
      <4>5. Holds(Given[k], off[k - 1])'
        BY <1>3, <4>2, <4>3, <4>4
      <4> QED BY <4>2, <4>3, <4>5
    <3> QED BY <3>1, <3>2
  <2>6. (\A k \in 1..Len(Given) : f[k] = f[k - 1] + Given[k].len /\ Holds(Given[k], f[k - 1]))'
    BY <2>2, <2>5
  <2>7. f[0] = 0 /\ total' = f[Len(parts')] /\ pc' # "put"
    <3>1. 0 \in 0..L /\ L \in 0..L
      BY <1>8
    <3>2. Len(parts') = L
      BY <1>4 DEF L
    <3> QED BY <1>4, <1>10, <1>14, <2>3, <2>4, <3>1, <3>2
  <2>8. HashInv(f)'
    BY <1>11, <2>4
  <2>9. Story(f)'
    BY <2>6, <2>7, <2>8 DEF Story
  <2>10. f \in [0..Len(Given') -> Nat]
    BY <2>2, <2>4
  <2> QED BY <1>12, <2>9, <2>10 DEF LedgerInv
<1> QED BY <1>4, <1>13, <1>14

\* A new ledger has no story yet.
LEMMA BeginStory ==
    ASSUME PipeInv, Begin
    PROVE  LedgerInv' /\ HashTypeOK' /\ stored' = stored
<1>1. /\ FlowsTypeOK /\ MemTypeOK /\ RunTypeOK /\ JobsTypeOK /\ ControlInv /\ MemInv /\ GivenInv /\ LedgerInv /\ HashTypeOK
      /\ OrderInv /\ WorkInv
  BY Parts
<1>2. Given' = <<>> /\ OpenFlow' /\ ~OpenFlow
  BY <1>1, BeginOrder
<1>3. parts' = <<>> /\ total' = 0 /\ pc' = "read" /\ UNCHANGED <<hin, hashed, hashPc, stored>>
  BY DEF Begin, restVars, hashVars
<1>4. hin = <<>> /\ hashed = <<>> /\ hashPc = "idle"
  <2>1. \E off : HashInv(off)
    BY <1>1 DEF LedgerInv, Story
  <2> QED BY <1>2, <2>1 DEF HashInv
<1> DEFINE f == [i \in 0..0 |-> 0]
<1>5. f \in [0..0 -> Nat] /\ f[0] = 0
  OBVIOUS
<1> HIDE DEF f
<1>6. \A q : Units("live", q, 0, 0) = <<>>
  BY DEF Units
<1>7. Digested' = 0
  BY <1>3, <1>4 DEF Digested
<1>8. HashInv(f)'
  <2>1. Len(parts') = 0 /\ 0 \in 0..0 /\ 1..0 - 0 = {}
    BY <1>3
  <2>2. hashed' = Units("live", em'.seq, 0, f[Digested'])
    BY <1>3, <1>4, <1>5, <1>6, <1>7
  <2>3. \A j \in 1..Len(parts') - Digested' : hin'[j] = parts'[Digested' + j]
    BY <1>7, <2>1
  <2> QED BY <1>2, <1>3, <1>4, <1>7, <2>1, <2>2, <2>3 DEF HashInv
<1>9. Len(Given') = 0 /\ Len(parts') = 0 /\ 1..0 = {}
  BY <1>2, <1>3
<1>10. (\A k \in 1..Len(Given) : f[k] = f[k - 1] + Given[k].len /\ Holds(Given[k], f[k - 1]))'
  BY <1>9
<1>11. Story(f)'
  BY <1>3, <1>5, <1>8, <1>9, <1>10 DEF Story
<1>12. f \in [0..Len(Given') -> Nat]
  BY <1>5, <1>9
<1>13. LedgerInv'
  BY <1>11, <1>12 DEF LedgerInv
<1> QED BY <1>1, <1>3, <1>13 DEF HashTypeOK

-----------------------------------------------------------------------------
\* What the ring retains.

\* Steps that append nothing to the current flow leave the flows alone.
LEMMA FlowsCases ==
    ASSUME RunTypeOK, Calm
    PROVE  /\ flows' = flows \/ SubmitInline \/ Publish \/ End
           /\ stored' = stored \/ PutParts
           /\ pc' = "pull" => pc = "pull" \/ PutParts
           /\ pc' \in Reading => pc \in Reading
<1>1. CASE Stop
  BY <1>1 DEF Reading, Stop, Return, bVars, restVars
<1>2. CASE SubmitInline
  BY <1>2 DEF Reading, SubmitInline, restVars
<1>3. CASE Submit \/ Offer
  BY <1>3 DEF Reading, Submit, Offer, bVars, restVars
<1>4. CASE Hash
  <2>1. got.rerr \in {"nil", "eof", "cancel", "fail"}
    BY DEF RunTypeOK
  <2>2. AfterRead(got.rerr) => pc' \in {"read", "flush", "return"}
    BY <2>1 DEF AfterRead, Return
  <2> QED BY <1>4, <2>2 DEF Reading, Hash, bVars
<1>5. CASE Flush \/ AskSum
  BY <1>5 DEF Reading, Flush, AskSum, Return, bVars, restVars
<1>6. CASE End
  BY <1>6 DEF Reading, End
<1>7. CASE PutParts
  BY <1>7 DEF Reading, PutParts, bVars
<1>8. CASE CloseQueues \/ CloseOrdered \/ Finish
  BY <1>8 DEF Reading, CloseQueues, CloseOrdered, Finish, finish, bVars, restVars
<1>9. CASE \E w \in Workers : Worker(w)
  BY <1>9 DEF Reading, Worker, Take, Encode, WorkerReturns, bVars, srcVars, restVars
<1>10. CASE TakeOrdered \/ PublisherReturns
  BY <1>10 DEF Reading, TakeOrdered, PublisherReturns, bVars, srcVars, restVars
<1>11. CASE Publish
  BY <1>11 DEF Reading, Publish, srcVars, restVars
<1>12. CASE HashNext \/ HasherReturns
  BY <1>12 DEF Reading, HashNext, HasherReturns, bVars, srcVars
<1>13. CASE UNCHANGED vars
  BY <1>13 DEF Reading, vars, bVars, srcVars, restVars
<1> QED BY <1>1, <1>2, <1>3, <1>4, <1>5, <1>6, <1>7, <1>8, <1>9, <1>10, <1>11, <1>12, <1>13
        DEF Calm, Publisher, Hasher

\* A complete flow is never touched again.
LEMMA FlowsKept ==
    ASSUME PipeInv, SameLedger, Calm
    PROVE  Len(flows') = Len(flows) /\ Len(flows) \in Nat /\ \A i \in 1..Len(flows) : complete(flows[i]) => flows'[i] = flows[i]
<1>1. /\ FlowsTypeOK /\ RunTypeOK /\ JobsTypeOK /\ ControlInv /\ GivenInv /\ OrderInv /\ WorkInv /\ HashTypeOK
  BY Parts
<1>2. Len(flows) \in Nat
  BY <1>1 DEF FlowsTypeOK
<1>3. ASSUME OpenFlow, Len(flows') = Len(flows), \A i \in 1..Len(flows) - 1 : flows'[i] = flows[i]
      PROVE  \A i \in 1..Len(flows) : complete(flows[i]) => flows'[i] = flows[i]
  BY <1>2, <1>3 DEF OpenFlow, cur
<1>4. CASE flows' = flows
  BY <1>2, <1>4
<1>5. CASE SubmitInline
  <2>1. OpenFlow
    BY <1>1, <1>5 DEF SubmitInline, ControlInv
  <2>2. Len(flows') = Len(flows) /\ \A i \in 1..Len(flows) - 1 : flows'[i] = flows[i]
    BY <1>1, <1>5, InlineOrder
  <2> QED BY <1>2, <1>3, <2>1, <2>2
<1>6. CASE Publish
  <2>1. OpenFlow /\ Len(flows') = Len(flows) /\ \A i \in 1..Len(flows) - 1 : flows'[i] = flows[i]
    BY <1>1, <1>6, PublishOrder
  <2> QED BY <1>2, <1>3, <2>1
<1>7. CASE End
  <2> DEFINE msg == AppendEnd(em.seq, chunkIdx, total, Len(flows), Sum64(hashed))
  <2>1. OpenFlow /\ ~ended
    BY <1>1, <1>7 DEF End, ControlInv
  <2>2. msg \in EndMsg
    BY <1>1 DEF EndMsg, AppendEnd, Sum64, RunTypeOK, HashTypeOK, FlowsTypeOK
  <2>3. end(msg)
    BY <1>7 DEF End
  <2> HIDE DEF msg
  <2>4. Len(flows') = Len(flows) /\ \A i \in 1..Len(flows) - 1 : flows'[i] = flows[i]
    BY <1>1, <2>1, <2>2, <2>3, EndEffect
  <2> QED BY <1>2, <1>3, <2>1, <2>4
<1> QED BY <1>1, <1>4, <1>5, <1>6, <1>7, FlowsCases

\* So the bodies retained are still the ones published.
LEMMA RetainedKept ==
    ASSUME RetainedInv, Len(flows) \in Nat, stored' = stored, Len(flows') = Len(flows),
           \A i \in 1..Len(flows) : complete(flows[i]) => flows'[i] = flows[i],
           pc' = "pull" => pc = "pull", pc' \in Reading => pc \in Reading, stored \in Seq(Body)
    PROVE  RetainedInv'
<1>1. \A i \in 1..Len(stored) : i \in 1..Len(flows)
  BY DEF RetainedInv
<1>2. \A i \in 1..Len(stored') : complete(flows'[i]) /\ stored'[i] = flows'[i].end.sum
  BY <1>1 DEF RetainedInv
<1> QED BY <1>2 DEF RetainedInv

\* The parts read back are the body END describes.
LEMMA PutPartsIs ==
    ASSUME PipeInv, pc = "put"
    PROVE  FlattenSeq([k \in 1..Len(parts) |-> Cells(parts[k])]) = cur.end.sum /\ cur.end.sum \in Body
<1>1. /\ MemTypeOK /\ RunTypeOK /\ GivenInv /\ LedgerInv
  BY Parts
<1>2. PICK off \in [0..Len(Given) -> Nat] : Story(off)
  BY <1>1 DEF LedgerInv
<1>3. Given = parts /\ Len(parts) \in Nat /\ em.seq \in Seqs
  BY <1>1, GivenFacts DEF Handed
<1> DEFINE s == [k \in 1..Len(parts) |-> Cells(parts[k])]
<1>4. Len(s) = Len(parts) /\ \A k \in 1..Len(s) : s[k] = Cells(Given[k]) /\ k \in 1..Len(Given)
  BY <1>3
<1>5. \A k \in 1..Len(Given) : /\ Cells(Given[k]) = Units("live", em.seq, off[k - 1], off[k])
                               /\ off[k - 1] \in Nat /\ off[k] \in Nat /\ off[k - 1] < off[k]
  BY <1>1, <1>2, StoryCells
<1> HIDE DEF s
<1>6. Cuts(em.seq, s, off)
  BY <1>4, <1>5 DEF Cuts
<1>7. off[0] = 0 /\ cur.end.sum = Units("live", em.seq, 0, off[Len(parts)]) /\ off[Len(parts)] \in Nat
  <2>1. Len(parts) \in 0..Len(Given)
    BY <1>3
  <2> QED BY <1>2, <2>1 DEF Story
<1>8. SeqOps!FlattenSeq(s) = Units("live", em.seq, 0, off[Len(parts)])
  <2>1. CASE Len(s) # 0
    <3>1. SeqOps!FlattenSeq(s) = Units("live", em.seq, off[0], off[Len(s)])
      BY <1>3, <1>4, <1>6, <2>1, FlattenUnits
    <3> QED BY <1>4, <1>7, <3>1
  <2>2. CASE Len(s) = 0
    <3>1. SeqOps!FlattenSeq(s) = s
      BY <2>2, FlattenNone
    <3>2. s = <<>>
      BY <1>3, <1>4, <2>2 DEF s
    <3>3. Units("live", em.seq, 0, 0) = <<>>
      BY DEF Units
    <3> QED BY <1>4, <1>7, <2>2, <3>1, <3>2, <3>3
  <2> QED BY <2>1, <2>2
<1>9. FlattenSeq(s) = SeqOps!FlattenSeq(s)
  BY DEF FlattenSeq, SeqOps!FlattenSeq
<1>10. Units("live", em.seq, 0, off[Len(parts)]) \in Body
  <2>1. \A q \in Seqs, x, y \in Nat : x <= y => Units("live", q, x, y) \in Body
    BY UnitsFacts
  <2>2. 0 <= off[Len(parts)]
    BY <1>7
  <2> QED BY <1>3, <1>7, <2>1, <2>2
<1> QED BY <1>7, <1>8, <1>9, <1>10 DEF s

\* The ledger, its hasher and the ring, after every step.
LEMMA LedgerStep ==
    ASSUME PipeInv, SameLedger, Calm, NEW n \in Nat, Safe(n)
    PROVE  LedgerInv' /\ HashTypeOK' /\ RetainedInv'
<1>1. /\ FlowsTypeOK /\ RunTypeOK /\ ControlInv /\ HashTypeOK /\ RetainedInv
  BY Parts
<1>2. Len(flows') = Len(flows) /\ Len(flows) \in Nat /\ \A i \in 1..Len(flows) : complete(flows[i]) => flows'[i] = flows[i]
  BY FlowsKept
<1>3. /\ stored' = stored \/ PutParts
      /\ pc' = "pull" => pc = "pull" \/ PutParts
      /\ pc' \in Reading => pc \in Reading
  BY <1>1, FlowsCases
<1>4. CASE PutParts
  <2>1. LedgerInv' /\ UNCHANGED <<hin, hashed, hashPc>>
    BY <1>4, UnhashedLedger DEF Unhashed
  <2>2. pc = "put" /\ flows' = flows
    BY <1>4 DEF PutParts, bVars
  <2> DEFINE body == FlattenSeq([k \in 1..Len(parts) |-> Cells(parts[k])])
  <2>3. body = cur.end.sum /\ body \in Body
    BY <2>2, PutPartsIs
  <2>4. flows # <<>> /\ complete(cur) /\ Len(stored) = Len(flows) - 1
    BY <1>1, <2>2 DEF ControlInv, RetainedInv, Reading
  <2>5. CASE stored' = Append(stored, body) /\ pc' = "pull"
    <3> HIDE DEF body
    <3>1. stored \in Seq(Body) /\ Len(stored) \in Nat
      BY <1>1 DEF HashTypeOK
    <3>2. stored' \in Seq(Body) /\ Len(stored') = Len(flows) /\ stored'[Len(flows)] = body
          /\ \A i \in 1..Len(flows) - 1 : stored'[i] = stored[i]
      <4>1. \A i \in 1..Len(stored) : Append(stored, body)[i] = stored[i]
        BY <3>1
      <4>2. Len(flows) = Len(stored) + 1
        BY <1>2, <2>4
      <4>3. Append(stored, body) \in Seq(Body) /\ Len(Append(stored, body)) = Len(stored) + 1
            /\ Append(stored, body)[Len(stored) + 1] = body
        BY <2>3, <3>1
      <4> QED BY <2>4, <2>5, <4>1, <4>2, <4>3
    <3>3. ASSUME NEW i \in 1..Len(stored') PROVE complete(flows'[i]) /\ stored'[i] = flows'[i].end.sum
      <4>1. CASE i = Len(flows)
        BY <2>2, <2>3, <2>4, <3>2, <4>1 DEF cur
      <4>2. CASE i # Len(flows)
        <5>1. i \in 1..Len(stored) /\ i \in 1..Len(flows) - 1
          BY <1>2, <2>4, <3>1, <3>2, <4>2
        <5> QED BY <1>1, <2>2, <3>2, <5>1 DEF RetainedInv
      <4> QED BY <4>1, <4>2
    <3>4. RetainedInv'
      BY <1>2, <2>2, <2>5, <3>2, <3>3 DEF RetainedInv, Reading
    <3> QED BY <1>1, <2>1, <3>2, <3>4 DEF HashTypeOK
  <2>6. CASE stored' = stored /\ pc' = "return"
    <3>1. RetainedInv'
      BY <1>1, <1>2, <2>6, RetainedKept DEF HashTypeOK, Reading
    <3> QED BY <1>1, <2>1, <2>6, <3>1 DEF HashTypeOK
  <2> QED BY <1>4, <2>5, <2>6 DEF PutParts, Return
<1>5. CASE ~PutParts
  <2>1. stored' = stored /\ (pc' = "pull" => pc = "pull") /\ (pc' \in Reading => pc \in Reading)
    BY <1>3, <1>5
  <2>2. RetainedInv'
    BY <1>1, <1>2, <2>1, RetainedKept DEF HashTypeOK
  <2>3. LedgerInv' /\ HashTypeOK'
    <3>1. CASE Unhashed
      BY <1>1, <2>1, <3>1, UnhashedLedger DEF HashTypeOK
    <3>2. CASE Hash
      BY <3>2, HashLedger
    <3>3. CASE AskSum
      BY <3>3, AskSumLedger
    <3>4. CASE End
      BY <3>4, EndLedger
    <3>5. CASE HashNext
      BY <3>5, HashNextLedger
    <3> QED BY <3>1, <3>2, <3>3, <3>4, <3>5, HashCases
  <2> QED BY <2>2, <2>3
<1> QED BY <1>4, <1>5

\* A read and a new ledger retain nothing.
LEMMA SourceRetains ==
    ASSUME PipeInv, Begin \/ Read
    PROVE  RetainedInv'
<1>1. /\ FlowsTypeOK /\ MemTypeOK /\ RunTypeOK /\ JobsTypeOK /\ ControlInv /\ MemInv /\ GivenInv /\ OrderInv /\ WorkInv
      /\ HashTypeOK /\ RetainedInv
  BY Parts
<1>2. Len(flows) \in Nat /\ Len(stored) \in Nat
  BY <1>1 DEF FlowsTypeOK, HashTypeOK
<1>3. CASE Read
  <2>1. PICK r \in Slice, n \in Nat : ReadOf(r, n)
    BY <1>1, <1>3, ReadFacts
  <2>2. pc = "read" /\ pc' # "pull" /\ stored' = stored /\ flows' = flows
    BY <1>3, <2>1 DEF Read, ReadOf, bVars, restVars
  <2> QED BY <1>1, <1>2, <2>2, RetainedKept DEF HashTypeOK, Reading
<1>4. CASE Begin
  <2>1. Len(flows') = Len(flows) + 1 /\ \A i \in 1..Len(flows) : flows'[i] = flows[i]
    BY <1>1, <1>4, BeginOrder
  <2>2. pc = "pull" /\ pc' = "read" /\ stored' = stored
    BY <1>4 DEF Begin, restVars
  <2>3. Len(stored) = Len(flows) /\ Len(stored') = Len(flows') - 1
    BY <1>1, <1>2, <2>1, <2>2 DEF RetainedInv
  <2>4. \A i \in 1..Len(stored') : complete(flows'[i]) /\ stored'[i] = flows'[i].end.sum
    BY <1>1, <2>1, <2>2, <2>3 DEF RetainedInv
  <2> QED BY <1>2, <2>1, <2>2, <2>3, <2>4 DEF RetainedInv, Reading
<1> QED BY <1>3, <1>4

-----------------------------------------------------------------------------
\* Chunks of earlier ledgers.

\* A step that leaves the earlier flows alone leaves their buffers too.
LEMMA OldStep ==
    ASSUME PipeInv, NEW n \in Nat, Safe(n), Len(flows') = Len(flows),
           \A i \in 1..Len(flows) : complete(flows[i]) => flows'[i] = flows[i]
    PROVE  OldInv'
<1>1. ControlInv /\ OldInv /\ Len(flows) \in Nat
  BY Parts DEF FlowsTypeOK
<1>2. ASSUME NEW i \in 1..Len(flows') - 1, NEW k \in 1..Len(flows'[i].chunks), NEW b, b = flows'[i].chunks[k].buf
      PROVE  Old(b)'
  <2>1. i \in 1..Len(flows) - 1 /\ i \in 1..Len(flows)
    BY <1>1
  <2>2. flows'[i] = flows[i]
    BY <1>1, <2>1 DEF ControlInv
  <2>3. Old(b)
    BY <1>1, <1>2, <2>1, <2>2 DEF OldInv
  <2>4. \A c \in DOMAIN mem : Old(c) => Old(c)'
    BY DEF Safe
  <2> QED BY <2>3, <2>4 DEF Old
<1> QED BY <1>2 DEF OldInv

-----------------------------------------------------------------------------
\* The chunks that fell back to raw.

\* What a job's message holds.
LEMMA JobCells ==
    ASSUME PipeInv, NEW i \in NPub..NSub - 1
    PROVE  /\ i \in Nat /\ i + 1 \in 1..Len(Given) /\ <<em.seq, i>> \in DOMAIN jobs
           /\ jobs[<<em.seq, i>>].msg = Whole(Given[i + 1])
           /\ DataOf(jobs[<<em.seq, i>>].msg) = Given[i + 1] /\ JobOK(i)
<1>1. /\ FlowsTypeOK /\ RunTypeOK /\ JobsTypeOK /\ ControlInv /\ GivenInv /\ OrderInv /\ JobsInv
  BY Parts
<1>2. i \in Nat /\ i + 1 \in 1..Len(Given) /\ <<em.seq, i>> \in DOMAIN jobs
  BY <1>1, Counts
<1>3. JobOK(i)
  BY <1>1 DEF JobsInv
<1>4. jobs[<<em.seq, i>>].msg = Whole(Given[i + 1])
  BY <1>3 DEF JobOK
<1>5. DataOf(Whole(Given[i + 1])) = Given[i + 1]
  <2>1. Given[i + 1] \in Slice /\ Given[i + 1].lo >= 2 /\ Given[i + 1].lo \in Nat
    BY <1>1, <1>2, GivenFacts
  <2>2. \A c \in Slice : c.lo >= 1 => DataOf(Whole(c)) = c
    BY SliceFacts
  <2>3. Given[i + 1].lo >= 1
    BY <2>1
  <2> QED BY <2>1, <2>2, <2>3
<1> QED BY <1>2, <1>3, <1>4, <1>5

\* A chunk published now was published, or fell when it was framed.
LEMMA PubFell ==
    ASSUME PipeInv, RunTypeOK', NEW n \in Nat, Effect(n), compress' = compress, Len(flows') = Len(flows),
           \A i \in 1..Len(flows) : \A k \in 1..Len(flows'[i].chunks) :
             \/ k \in 1..Len(flows[i].chunks) /\ flows'[i].chunks[k] = flows[i].chunks[k]
             \/ <<i, k>> \in Falling
             \/ \A c : c = flows'[i].chunks[k] => ~IsRaw(Msg(c))'
    PROVE  Fell' \subseteq Fell \cup Falling
<1> SUFFICES ASSUME NEW x \in Fell' PROVE x \in Fell \cup Falling
  OBVIOUS
<1>1. PICK i \in Nat, k \in Nat : x = <<i, k>>
  BY DEF Fell
<1>2. i \in 1..Len(flows) /\ k \in 1..Len(flows'[i].chunks) /\ IsRaw(Msg(flows[i].chunks[k]))'
  BY <1>1 DEF Fell
<1>3. CASE k \in 1..Len(flows[i].chunks) /\ flows'[i].chunks[k] = flows[i].chunks[k]
  <2>1. PICK c : c = flows[i].chunks[k]
    OBVIOUS
  <2>2. Msg(c)' = Msg(c)
    BY <1>2, <1>3, <2>1, ChunkMsgKept
  <2>3. Msg(flows[i].chunks[k])' = Msg(c)' /\ Msg(flows[i].chunks[k]) = Msg(c)
    BY <1>3, <2>1 DEF Msg, Cells
  <2>4. IsRaw(Msg(flows[i].chunks[k]))
    BY <1>2, <2>2, <2>3 DEF IsRaw
  <2> QED BY <1>1, <1>2, <1>3, <2>4 DEF Fell
<1>4. CASE \A c : c = flows'[i].chunks[k] => ~IsRaw(Msg(c))'
  <2>1. PICK c : c = flows'[i].chunks[k]
    OBVIOUS
  <2>2. Msg(flows[i].chunks[k])' = Msg(c)'
    BY <2>1 DEF Msg, Cells
  <2> QED BY <1>2, <1>4, <2>1, <2>2 DEF IsRaw
<1>5. CASE <<i, k>> \in Falling
  BY <1>1, <1>5
<1> QED BY <1>2, <1>3, <1>4, <1>5

\* A chunk framed raw and waiting was so before, or is new.
LEMMA JobFell ==
    ASSUME PipeInv, NEW n \in Nat, Effect(n), NEW E,
           \A key \in DOMAIN jobs' :
             \/ key \in DOMAIN jobs /\ jobs'[key] = jobs[key]
             \/ ~jobs'[key].done
             \/ jobs'[key].out # jobs'[key].msg
             \/ \A c : c = jobs'[key].msg => ~Smaller(Cells(DataOf(c)))'
             \/ \A x \in Nat \X Nat : key = <<x[1], x[2] - 1>> => x \in E
    PROVE  Falling' \subseteq Falling \cup E
<1> SUFFICES ASSUME NEW x \in Falling' PROVE x \in Falling \cup E
  OBVIOUS
<1>1. MemTypeOK /\ RunTypeOK /\ FlowsTypeOK /\ JobsTypeOK /\ ControlInv /\ GivenInv /\ OrderInv
  BY Parts
<1>2. MemTypeOK' /\ Safe(n) /\ em' = em
  BY DEF Effect, Safe
<1> DEFINE key == <<x[1], x[2] - 1>>
<1>3. /\ x \in Nat \X Nat /\ x[1] = em.seq /\ x[2] > 0 /\ key \in DOMAIN jobs' /\ jobs'[key].done
      /\ jobs'[key].out = jobs'[key].msg
  BY <1>2 DEF Falling
<1>4. Smaller(Cells(DataOf(jobs[key].msg)))'
  BY DEF Falling
<1>5. PICK c : c = jobs'[key].msg
  OBVIOUS
<1>6. Smaller(Cells(DataOf(c)))'
  BY <1>4, <1>5
<1>7. CASE key \in DOMAIN jobs /\ jobs'[key] = jobs[key]
  <2>1. PICK i \in NPub..NSub - 1 : key = <<em.seq, i>>
    BY <1>1, <1>7, Counts
  <2>2. i + 1 \in 1..Len(Given) /\ DataOf(jobs[key].msg) = Given[i + 1]
    BY <2>1, JobCells
  <2>3. PICK g : g = DataOf(c)
    OBVIOUS
  <2>4. g = Given[i + 1] /\ Smaller(Cells(g))'
    <3>1. DataOf(c)' = DataOf(c)
      BY DEF DataOf
    <3> QED BY <1>5, <1>6, <1>7, <2>2, <2>3, <3>1 DEF Cells
  <2>5. Cells(g)' = Cells(g)
    <3>1. \A k \in 1..Len(Given) : Cells(Given[k])' = Cells(Given[k]) /\ Given'[k] = Given[k]
      BY <1>1, <1>2, CellsKept
    <3>2. Cells(Given[i + 1])' = Cells(Given[i + 1]) /\ Given'[i + 1] = Given[i + 1]
      BY <2>2, <3>1
    <3> QED BY <2>4, <3>2 DEF Cells
  <2>6. Smaller(Cells(DataOf(jobs[key].msg)))
    BY <2>2, <2>4, <2>5 DEF Smaller
  <2> QED BY <1>3, <1>7, <2>6 DEF Falling
<1>8. CASE \A y \in Nat \X Nat : key = <<y[1], y[2] - 1>> => y \in E
  BY <1>3, <1>8
<1> QED BY <1>3, <1>5, <1>6, <1>7, <1>8

\* Nothing more fell, or one chunk did and was counted.
LEMMA FellGrows ==
    ASSUME FellInv, JobsTypeOK, compress' = compress,
           \/ (Fell' \cup Falling') \subseteq (Fell \cup Falling) /\ fallbacks' = fallbacks
           \/ \E e : (Fell' \cup Falling') \subseteq (Fell \cup Falling \cup {e}) /\ fallbacks' = fallbacks + 1
    PROVE  FellInv'
<1> SUFFICES ASSUME compress
             PROVE  IsFiniteSet(Fell' \cup Falling') /\ Cardinality(Fell' \cup Falling') <= fallbacks'
  BY DEF FellInv
<1> DEFINE X == Fell \cup Falling
           Y == Fell' \cup Falling'
<1>1. IsFiniteSet(X) /\ Cardinality(X) <= fallbacks /\ Cardinality(X) \in Nat /\ fallbacks \in Nat
  BY FS_CardinalityType DEF FellInv, JobsTypeOK
<1> HIDE DEF X, Y
<1>2. CASE Y \subseteq X /\ fallbacks' = fallbacks
  <2>1. IsFiniteSet(Y) /\ Cardinality(Y) <= Cardinality(X)
    BY <1>1, <1>2, FS_Subset
  <2>2. Cardinality(Y) \in Nat
    BY <2>1, FS_CardinalityType
  <2> QED BY <1>1, <1>2, <2>1, <2>2 DEF Y
<1>3. ASSUME NEW e, Y \subseteq X \cup {e}, fallbacks' = fallbacks + 1
      PROVE  IsFiniteSet(Y) /\ Cardinality(Y) <= fallbacks'
  <2>1. IsFiniteSet(X \cup {e}) /\ Cardinality(X \cup {e}) <= Cardinality(X) + 1
    <3>1. /\ IsFiniteSet(X \cup {e})
          /\ Cardinality(X \cup {e}) = Cardinality(X) \/ Cardinality(X \cup {e}) = Cardinality(X) + 1
      BY <1>1, FS_AddElement, Zenon
    <3> QED BY <1>1, <3>1
  <2>2. IsFiniteSet(Y) /\ Cardinality(Y) <= Cardinality(X \cup {e})
    BY <1>3, <2>1, FS_Subset
  <2>3. Cardinality(Y) \in Nat /\ Cardinality(X \cup {e}) \in Nat
    BY <2>1, <2>2, FS_CardinalityType
  <2> QED BY <1>1, <1>3, <2>1, <2>2, <2>3
<1> QED BY <1>2, <1>3 DEF X, Y

\* Neither jobs nor chunks change.
LEMMA FellStays ==
    ASSUME PipeInv, RunTypeOK', NEW n \in Nat, Effect(n), compress' = compress, jobs' = jobs, fallbacks' = fallbacks,
           Len(flows') = Len(flows), \A i \in 1..Len(flows) : flows'[i].chunks = flows[i].chunks
    PROVE  FellInv'
<1>1. Fell' \subseteq Fell \cup Falling
  BY PubFell
<1>2. Falling' \subseteq Falling \cup {}
  <2>1. \A E : (\A key \in DOMAIN jobs' : key \in DOMAIN jobs /\ jobs'[key] = jobs[key]) => Falling' \subseteq Falling \cup E
    BY JobFell
  <2> QED BY <2>1
<1> QED BY <1>1, <1>2, FellGrows, Parts

\* A chunk is queued.
LEMMA SubmitFell ==
    ASSUME PipeInv, RunTypeOK', SameLedger, Submit, NEW n \in Nat, Effect(n)
    PROVE  FellInv'
<1>1. /\ JobsTypeOK /\ compress' = compress /\ flows' = flows /\ fallbacks' = fallbacks
      /\ jobs' = With(jobs, Key, [msg |-> got.msg, out |-> got.msg, done |-> FALSE])
  BY Parts DEF Submit, readVars, bVars
<1>2. Fell' \subseteq Fell \cup Falling
  BY <1>1, PubFell
<1>3. \A key \in DOMAIN jobs' : (key \in DOMAIN jobs /\ jobs'[key] = jobs[key]) \/ ~jobs'[key].done
  <2> DEFINE v == [msg |-> got.msg, out |-> got.msg, done |-> FALSE]
  <2>1. ~v.done
    OBVIOUS
  <2> HIDE DEF v
  <2>2. \A key \in DOMAIN jobs' : (key \in DOMAIN jobs /\ jobs'[key] = jobs[key]) \/ jobs'[key] = v
    BY <1>1 DEF With, v
  <2> QED BY <2>1, <2>2
<1>4. Falling' \subseteq Falling \cup {}
  <2>1. \A E : Falling' \subseteq Falling \cup E
    BY <1>3, JobFell
  <2> QED BY <2>1
<1> QED BY <1>1, <1>2, <1>4, FellGrows, Parts

\* A chunk falls back, and is counted.
LEMMA OfferFell ==
    ASSUME PipeInv, RunTypeOK', SameLedger, Offer, NEW n \in Nat, Effect(n)
    PROVE  FellInv'
<1>1. /\ JobsTypeOK /\ compress' = compress /\ flows' = flows /\ em.seq \in Nat /\ chunkIdx \in Nat
  BY Parts, GivenFacts DEF Offer, readVars, bVars, RunTypeOK
<1>2. CASE UNCHANGED <<mem, jobs, fallbacks>>
  BY <1>1, <1>2, FellStays
<1>3. CASE jobs' = [jobs EXCEPT ![Key].done = TRUE] /\ fallbacks' = fallbacks + 1
  <2>1. Fell' \subseteq Fell \cup Falling
    BY <1>1, PubFell
  <2> DEFINE e == <<em.seq, chunkIdx + 1>>
  <2>2. \A key \in DOMAIN jobs' : \/ key \in DOMAIN jobs /\ jobs'[key] = jobs[key]
                                  \/ \A x \in Nat \X Nat : key = <<x[1], x[2] - 1>> => x \in {e}
    <3>1. SUFFICES ASSUME NEW key \in DOMAIN jobs', key = Key, NEW x \in Nat \X Nat, key = <<x[1], x[2] - 1>>
                   PROVE  x \in {e}
      BY <1>3
    <3>2. PICK a \in Nat, b \in Nat : x = <<a, b>>
      OBVIOUS
    <3>3. a = em.seq /\ b - 1 = chunkIdx
      BY <3>1, <3>2 DEF Key
    <3>4. b = chunkIdx + 1
      BY <1>1, <3>2, <3>3
    <3> QED BY <3>2, <3>3, <3>4
  <2>3. Falling' \subseteq Falling \cup {e}
    <3>1. PICK E : E = {e}
      OBVIOUS
    <3>2. \A key \in DOMAIN jobs' : \/ key \in DOMAIN jobs /\ jobs'[key] = jobs[key]
                                    \/ \A x \in Nat \X Nat : key = <<x[1], x[2] - 1>> => x \in E
      BY <2>2, <3>1
    <3> HIDE DEF e
    <3>3. Falling' \subseteq Falling \cup E
      BY <3>2, JobFell
    <3> QED BY <3>1, <3>3
  <2> HIDE DEF e
  <2>4. \E x : (Fell' \cup Falling') \subseteq (Fell \cup Falling \cup {x}) /\ fallbacks' = fallbacks + 1
    BY <1>3, <2>1, <2>3
  <2> QED BY <1>1, <2>4, FellGrows, Parts
<1> QED BY <1>2, <1>3 DEF Offer

\* A worker falls back only where the frame is no smaller.
LEMMA EncodeFell ==
    ASSUME PipeInv, RunTypeOK', SameLedger, NEW w \in Workers, Encode(w), NEW n \in Nat, Effect(n)
    PROVE  FellInv'
<1>1. /\ FlowsTypeOK /\ MemTypeOK /\ RunTypeOK /\ JobsTypeOK /\ ControlInv /\ GivenInv /\ OrderInv /\ WorkInv
  BY Parts
<1>2. compress' = compress /\ flows' = flows /\ fallbacks' = fallbacks /\ hand[w] # NoJob
  BY DEF Encode, srcVars, readVars, bVars
<1>3. hand[w] \in DOMAIN jobs
  BY <1>1, <1>2 DEF WorkInv, Todo
<1>4. PICK i \in NPub..NSub - 1 : hand[w] = <<em.seq, i>>
  BY <1>1, <1>3, Counts
<1>5. /\ i \in Nat /\ i + 1 \in 1..Len(Given) /\ jobs[hand[w]].msg = Whole(Given[i + 1])
      /\ DataOf(jobs[hand[w]].msg) = Given[i + 1]
  BY <1>4, JobCells
<1>6. MemTypeOK' /\ Safe(n)
  BY DEF Effect
<1>7. Fell' \subseteq Fell \cup Falling
  BY <1>2, PubFell
<1> DEFINE key == hand[w]
<1>8. CASE Smaller(Cells(Given[i + 1]))
  <2> DEFINE o == [buf |-> CloneOf(key), lo |-> 1, len |-> 2]
  <2>1. jobs' = [jobs EXCEPT ![key].out = o, ![key].done = TRUE]
    BY <1>5, <1>8 DEF Encode
  <2>2. o # jobs[key].msg
    <3>1. o.buf[1] = "clone"
      BY DEF CloneOf
    <3>2. (Whole(Given[i + 1])).buf = Given[i + 1].buf
      <4>1. Given[i + 1] \in Slice
        BY <1>1, <1>5, GivenFacts
      <4>2. \A c \in Slice : Whole(c) = [buf |-> c.buf, lo |-> c.lo - 1, len |-> c.len + 1]
        BY SliceFacts
      <4> QED BY <4>1, <4>2
    <3>3. Given[i + 1].buf[1] # "clone"
      <4>1. Placed(Given[i + 1])
        BY <1>1, <1>5 DEF GivenInv
      <4> QED BY <4>1 DEF Placed, Arena
    <3> HIDE DEF o
    <3> QED BY <1>5, <3>1, <3>2, <3>3
  <2> HIDE DEF o
  <2>3. /\ DOMAIN jobs' = DOMAIN jobs /\ \A x \in DOMAIN jobs : x # key => jobs'[x] = jobs[x]
        /\ jobs'[key].msg = jobs[key].msg /\ jobs'[key].out = o
    <3>1. \A x \in DOMAIN jobs : \A d : LET f == [jobs EXCEPT ![x].out = d, ![x].done = TRUE] IN
              /\ DOMAIN f = DOMAIN jobs /\ \A y \in DOMAIN jobs : y # x => f[y] = jobs[y]
              /\ f[x].msg = jobs[x].msg /\ f[x].out = d /\ f[x].done
      <4>1. \A x \in DOMAIN jobs : \A d :
              /\ LET f == [jobs EXCEPT ![x].done = TRUE] IN
                 /\ DOMAIN f = DOMAIN jobs /\ \A y \in DOMAIN jobs : y # x => f[y] = jobs[y]
                 /\ f[x].msg = jobs[x].msg /\ f[x].out = jobs[x].out /\ f[x].done
              /\ LET f == [jobs EXCEPT ![x].out = d, ![x].done = TRUE] IN
                 /\ DOMAIN f = DOMAIN jobs /\ \A y \in DOMAIN jobs : y # x => f[y] = jobs[y]
                 /\ f[x].msg = jobs[x].msg /\ f[x].out = d /\ f[x].done
        BY <1>1, JobSet, Zenon
      <4> QED BY <4>1
    <3> DEFINE f == [jobs EXCEPT ![hand[w]].out = o, ![hand[w]].done = TRUE]
    <3>2. /\ DOMAIN f = DOMAIN jobs /\ \A y \in DOMAIN jobs : y # hand[w] => f[y] = jobs[y]
          /\ f[hand[w]].msg = jobs[hand[w]].msg /\ f[hand[w]].out = o /\ f[hand[w]].done
      BY <1>3, <3>1
    <3>3. jobs' = f
      BY <2>1
    <3> HIDE DEF f
    <3> QED BY <3>2, <3>3
  <2>4. \A x \in DOMAIN jobs' : (x \in DOMAIN jobs /\ jobs'[x] = jobs[x]) \/ jobs'[x].out # jobs'[x].msg
    BY <2>2, <2>3
  <2>5. Falling' \subseteq Falling \cup {}
    <3>1. \A E : Falling' \subseteq Falling \cup E
      BY <2>4, JobFell
    <3> QED BY <3>1
  <2> QED BY <1>1, <1>2, <1>7, <2>5, FellGrows, Parts
<1>9. CASE ~Smaller(Cells(Given[i + 1]))
  <2>1. jobs' = [jobs EXCEPT ![key].done = TRUE]
    BY <1>5, <1>9 DEF Encode
  <2>2. /\ DOMAIN jobs' = DOMAIN jobs /\ \A x \in DOMAIN jobs : x # key => jobs'[x] = jobs[x]
        /\ jobs'[key].msg = jobs[key].msg
    <3>1. \A x \in DOMAIN jobs : LET f == [jobs EXCEPT ![x].done = TRUE] IN
              /\ DOMAIN f = DOMAIN jobs /\ \A y \in DOMAIN jobs : y # x => f[y] = jobs[y]
              /\ f[x].msg = jobs[x].msg /\ f[x].out = jobs[x].out /\ f[x].done
      BY <1>1, JobSet
    <3> QED BY <1>3, <2>1, <3>1, Zenon
  <2>3. ASSUME NEW c, c = jobs[key].msg PROVE ~Smaller(Cells(DataOf(c)))'
    <3>1. PICK g : g = DataOf(c)
      OBVIOUS
    <3>2. g = Given[i + 1] /\ DataOf(c)' = g
      BY <1>5, <2>3, <3>1 DEF DataOf
    <3>3. \A k \in 1..Len(Given) : Cells(Given[k])' = Cells(Given[k]) /\ Given'[k] = Given[k]
      BY <1>1, <1>6, CellsKept
    <3>4. Cells(Given[i + 1])' = Cells(Given[i + 1]) /\ Given'[i + 1] = Given[i + 1]
      BY <1>5, <3>3
    <3>5. Cells(g)' = Cells(g)
      BY <3>2, <3>4 DEF Cells
    <3>6. Cells(DataOf(c))' = Cells(g)
      BY <3>2, <3>5 DEF Cells
    <3> QED BY <1>9, <3>2, <3>6 DEF Smaller, EncodeAll
  <2>4. \A x \in DOMAIN jobs' : \/ x \in DOMAIN jobs /\ jobs'[x] = jobs[x]
                                \/ \A c : c = jobs'[x].msg => ~Smaller(Cells(DataOf(c)))'
    BY <2>2, <2>3
  <2>5. Falling' \subseteq Falling \cup {}
    <3>1. \A E : Falling' \subseteq Falling \cup E
      BY <2>4, JobFell
    <3> QED BY <3>1
  <2> QED BY <1>1, <1>2, <1>7, <2>5, FellGrows, Parts
<1> QED BY <1>8, <1>9

\* A chunk that fell is published.
LEMMA PublishFell ==
    ASSUME PipeInv, RunTypeOK', SameLedger, Publish, NEW n \in Nat, Effect(n)
    PROVE  FellInv'
<1>1. /\ FlowsTypeOK /\ MemTypeOK /\ RunTypeOK /\ JobsTypeOK /\ ControlInv /\ GivenInv /\ OrderInv /\ WorkInv
  BY Parts
<1>2. /\ pubHand = <<em.seq, NPub>> /\ pubHand \in DOMAIN jobs /\ jobs[pubHand].done /\ jobs[pubHand].out \in Slice
      /\ NPub \in Nat /\ NPub < NSub
      /\ DOMAIN jobs' = DOMAIN jobs \ {pubHand} /\ \A x \in DOMAIN jobs' : jobs'[x] = jobs[x]
      /\ cur.chunks \in Seq(Slice) /\ cur'.chunks = Append(cur.chunks, jobs[pubHand].out)
      /\ OpenFlow /\ Len(flows') = Len(flows) /\ \A i \in 1..Len(flows) - 1 : flows'[i] = flows[i]
  BY <1>1, PublishOrder
<1>3. compress' = compress /\ mem' = mem /\ fallbacks' = fallbacks
  BY DEF Publish, srcVars, readVars
<1>4. Falling' \subseteq Falling \cup {}
  <2>1. \A key \in DOMAIN jobs' : key \in DOMAIN jobs /\ jobs'[key] = jobs[key]
    BY <1>2
  <2>2. \A E : Falling' \subseteq Falling \cup E
    BY <2>1, JobFell
  <2> QED BY <2>2
<1>5. NPub \in NPub..NSub - 1 /\ NSub \in Nat
  <2>1. NSub \in Nat
    BY <1>1, Counts
  <2> QED BY <1>2, <2>1
<1> DEFINE o == jobs[pubHand].out
           g == Given[NPub + 1]
<1>6. /\ NPub + 1 \in 1..Len(Given) /\ DataOf(jobs[pubHand].msg) = g /\ jobs[pubHand].msg = Whole(g)
      /\ Out(o, NPub, g)
  <2>1. \A i \in NPub..NSub - 1 :
          /\ i + 1 \in 1..Len(Given) /\ jobs[<<em.seq, i>>].msg = Whole(Given[i + 1])
          /\ DataOf(jobs[<<em.seq, i>>].msg) = Given[i + 1] /\ JobOK(i)
    BY JobCells
  <2>2. JobOK(NPub)
    BY <1>5, <2>1
  <2>3. Out(o, NPub, g)
    BY <1>2, <2>2 DEF JobOK
  <2> QED BY <1>2, <1>5, <2>1, <2>3
<1>7. /\ RawOut(o, NPub, g) => Msg(o) = RawChunk(em.seq, NPub, Cells(g))
      /\ ZstdOut(o, NPub, g) => Msg(o) = compressChunk(em.seq, NPub, Cells(g))
  <2>1. \A i \in Nat : \A c : i + 1 \in 1..Len(Given) =>
        /\ RawOut(c, i, Given[i + 1]) => Msg(c) = RawChunk(em.seq, i, Cells(Given[i + 1]))
        /\ ZstdOut(c, i, Given[i + 1]) => Msg(c) = compressChunk(em.seq, i, Cells(Given[i + 1]))
    BY <1>1, OutMsgAlways DEF OutMsgs
  <2> QED BY <1>2, <1>6, <2>1
<1>8. IsRaw(Msg(o)) => <<em.seq, NPub + 1>> \in Falling
  <2> HIDE DEF o, g
  <2>1. SUFFICES ASSUME IsRaw(Msg(o)) PROVE <<em.seq, NPub + 1>> \in Falling
    OBVIOUS
  <2>2. Msg(o).codec = "raw"
    BY <2>1 DEF IsRaw
  <2>3. RawOut(o, NPub, g)
    <3>1. ~ZstdOut(o, NPub, g)
      BY <1>7, <2>2 DEF compressChunk, AppendChunk
    <3> QED BY <1>6, <3>1 DEF Out
  <2>4. Msg(o) = RawChunk(em.seq, NPub, Cells(g)) /\ Smaller(Cells(g))
    BY <1>7, <2>1, <2>3 DEF IsRaw, RawChunk, AppendChunk
  <2>5. o = jobs[pubHand].msg
    BY <1>6, <2>3 DEF RawOut
  <2>6. em.seq \in Nat /\ NPub + 1 \in Nat /\ NPub + 1 > 0 /\ NPub + 1 - 1 = NPub
    BY <1>1, <1>2, GivenFacts
  <2>7. <<em.seq, NPub + 1 - 1>> = pubHand
    BY <1>2, <2>6
  <2>8. Smaller(Cells(DataOf(jobs[pubHand].msg)))
    BY <1>6, <2>4
  <2> DEFINE x == <<em.seq, NPub + 1>>
  <2>9. x \in Nat \X Nat /\ x[1] = em.seq /\ x[2] > 0 /\ <<x[1], x[2] - 1>> = pubHand
    <3>1. x[1] = em.seq /\ x[2] = NPub + 1 /\ x \in Nat \X Nat
      BY <2>6
    <3> HIDE DEF x
    <3>2. x[2] - 1 = NPub + 1 - 1
      BY <1>2, <2>6, <3>1
    <3>3. <<x[1], x[2] - 1>> = pubHand
      BY <2>7, <3>1, <3>2, Zenon
    <3>4. x[2] > 0
      BY <2>6, <3>1
    <3> QED BY <3>1, <3>3, <3>4
  <2> HIDE DEF x
  <2>10. /\ <<x[1], x[2] - 1>> \in DOMAIN jobs /\ jobs[<<x[1], x[2] - 1>>].done
         /\ jobs[<<x[1], x[2] - 1>>].out = jobs[<<x[1], x[2] - 1>>].msg
         /\ Smaller(Cells(DataOf(jobs[<<x[1], x[2] - 1>>].msg)))
    BY <1>2, <2>5, <2>8, <2>9 DEF o
  <2>11. x \in Falling
    BY <2>9, <2>10, Zenon DEF Falling
  <2> QED BY <2>11 DEF x
<1>9. ASSUME NEW i \in 1..Len(flows), NEW k \in 1..Len(flows'[i].chunks)
      PROVE  \/ k \in 1..Len(flows[i].chunks) /\ flows'[i].chunks[k] = flows[i].chunks[k]
             \/ <<i, k>> \in Falling
             \/ \A c : c = flows'[i].chunks[k] => ~IsRaw(Msg(c))'
  <2>1. Len(flows) \in Nat /\ flows # <<>> /\ em.seq = Len(flows)
    BY <1>1, <1>2 DEF FlowsTypeOK, OpenFlow, ControlInv
  <2>2. CASE i # Len(flows)
    BY <1>2, <2>1, <2>2
  <2>3. CASE i = Len(flows)
    <3>1. flows'[i].chunks = Append(flows[i].chunks, o) /\ flows[i].chunks \in Seq(Slice) /\ NPub = Len(flows[i].chunks)
      BY <1>2, <2>1, <2>3 DEF cur, NPub
    <3> HIDE DEF o
    <3>2. CASE k \in 1..NPub
      BY <3>1, <3>2
    <3>3. CASE k = NPub + 1
      <4>1. flows'[i].chunks[k] = o
        BY <3>1, <3>3
      <4>2. CASE IsRaw(Msg(o))
        BY <1>8, <2>1, <2>3, <3>3, <4>2
      <4>3. CASE ~IsRaw(Msg(o))
        <5>1. ASSUME NEW c, c = o PROVE ~IsRaw(Msg(c))'
          <6>1. Msg(c)' = Msg(c)
            BY <1>3, MsgSame
          <6> QED BY <4>3, <5>1, <6>1 DEF IsRaw
        <5> QED BY <4>1, <5>1
      <4> QED BY <4>2, <4>3
    <3>4. k \in 1..NPub + 1
      <4>1. Len(Append(flows[i].chunks, o)) = NPub + 1
        BY <3>1
      <4> QED BY <3>1, <4>1
    <3> QED BY <1>2, <3>2, <3>3, <3>4
  <2> QED BY <2>2, <2>3
<1>10. Fell' \subseteq Fell \cup Falling
  BY <1>2, <1>3, <1>9, PubFell
<1> QED BY <1>1, <1>3, <1>4, <1>10, FellGrows, Parts

\* Every step but Begin and Read.
LEMMA CalmFell ==
    ASSUME PipeInv, RunTypeOK', SameLedger, Calm, NEW n \in Nat, Effect(n)
    PROVE  FellInv'
<1>1. FlowsTypeOK /\ RunTypeOK /\ ControlInv /\ hashed \in Body
  BY Parts
<1>2. CASE Quiet
  <2>1. /\ UNCHANGED <<jobs, fallbacks, compress>> /\ Len(flows') = Len(flows)
        /\ \A i \in 1..Len(flows) : flows'[i].chunks = flows[i].chunks
    BY <1>1, <1>2, QuietFrame
  <2> QED BY <2>1, FellStays
<1>3. CASE SubmitInline
  BY <1>3 DEF SubmitInline, readVars, FellInv
<1>4. CASE (\E w \in Workers : Take(w)) \/ TakeOrdered
  <2>1. jobs' = jobs /\ fallbacks' = fallbacks /\ compress' = compress /\ flows' = flows
    BY <1>4 DEF Take, TakeOrdered, srcVars, readVars, bVars
  <2> QED BY <2>1, FellStays
<1> QED BY <1>2, <1>3, <1>4, SubmitFell, OfferFell, EncodeFell, PublishFell, CalmCases

\* A read and a new ledger publish nothing.
LEMMA SourceFell ==
    ASSUME PipeInv, RunTypeOK', Begin \/ Read
    PROVE  FellInv'
<1>1. /\ FlowsTypeOK /\ MemTypeOK /\ RunTypeOK /\ JobsTypeOK /\ ControlInv /\ MemInv /\ GivenInv /\ OrderInv /\ WorkInv
  BY Parts
<1>2. CASE Read
  <2>1. jobs' = jobs /\ fallbacks' = fallbacks /\ compress' = compress /\ flows' = flows
    BY <1>2 DEF Read, pipeVars, bVars
  <2>2. Effect(0)
    BY <1>2, ReadEffect
  <2>3. \A n \in Nat : Effect(n) => FellInv'
    BY <2>1, FellStays
  <2> QED BY <2>2, <2>3
<1>3. CASE Begin
  <2>1. /\ DOMAIN jobs = {} /\ jobs' = jobs /\ Len(flows') = Len(flows) + 1 /\ cur'.chunks = <<>>
        /\ \A i \in 1..Len(flows) : flows'[i] = flows[i]
    BY <1>1, <1>3, BeginOrder
  <2>2. fallbacks' = fallbacks /\ compress' = compress
    BY <1>3 DEF Begin, pipeVars
  <2>3. \A i \in 1..Len(flows), k \in Nat : k \in 1..Len(flows[i].chunks) =>
           \A c : c = flows[i].chunks[k] => Msg(c)' = Msg(c)
    BY <1>3, BeginLedger
  <2>4. Falling' = {}
    BY <2>1 DEF Falling
  <2>5. ASSUME NEW x \in Fell' PROVE x \in Fell
    <3>1. PICK i \in Nat, k \in Nat : x = <<i, k>>
      BY <2>5 DEF Fell
    <3>2. i \in 1..Len(flows') /\ k \in 1..Len(flows'[i].chunks) /\ IsRaw(Msg(flows[i].chunks[k]))'
      BY <2>5, <3>1 DEF Fell
    <3>3. i \in 1..Len(flows)
      <4>1. CASE i = Len(flows')
        <5>1. flows'[i].chunks = <<>>
          BY <2>1, <4>1 DEF cur
        <5>2. k \in 1..0
          BY <3>2, <5>1
        <5> QED BY <5>2
      <4>2. Len(flows) \in Nat
        BY <1>1 DEF FlowsTypeOK
      <4> QED BY <2>1, <3>2, <4>1, <4>2
    <3>4. flows'[i] = flows[i]
      BY <2>1, <3>3
    <3>5. PICK c : c = flows[i].chunks[k]
      OBVIOUS
    <3>6. Msg(c)' = Msg(c)
      BY <2>3, <3>2, <3>3, <3>4, <3>5
    <3>7. Msg(flows[i].chunks[k])' = Msg(c)' /\ Msg(flows[i].chunks[k]) = Msg(c)
      BY <3>4, <3>5 DEF Msg, Cells
    <3>8. IsRaw(Msg(flows[i].chunks[k]))
      BY <3>2, <3>6, <3>7 DEF IsRaw
    <3> QED BY <3>1, <3>2, <3>3, <3>4, <3>8 DEF Fell
  <2> QED BY <1>1, <2>2, <2>4, <2>5, FellGrows, Parts
<1> QED BY <1>2, <1>3

-----------------------------------------------------------------------------
\* The invariant.

\* The invariant holds at the start.
LEMMA InvInit == Init => PipeInv
<1> SUFFICES ASSUME Init PROVE PipeInv
  OBVIOUS
<1>1. /\ flows = <<>> /\ notify = 0 /\ ended = FALSE /\ srcErr = FALSE /\ panicked = FALSE
      /\ mem = [b \in {NoBuf} |-> <<>>] /\ pc = "pull" /\ em = [seq |-> 0, size |-> 0] /\ used = 0 /\ spare = NoBuf
      /\ got = [msg |-> EndOfLedger, arena |-> FALSE, rerr |-> "nil"]
      /\ chunkIdx = 0 /\ total = 0 /\ parts = <<>> /\ runErr = FALSE
      /\ jobs = << >> /\ ordered = <<>> /\ work = <<>> /\ closed = {}
      /\ hand = [w \in Workers |-> NoJob] /\ pubHand = NoJob
      /\ compress \in {Compress, FALSE}
      /\ exited = IF compress THEN {} ELSE Workers \cup {"publisher"}
      /\ inflight = 0 /\ fallbacks = 0
      /\ hin = <<>> /\ hashed = <<>> /\ hashPc = "idle" /\ stored = <<>>
  BY DEF Init, newBroadcaster
<1>2. Given = <<>> /\ SpareNow = NoBuf /\ NSub = 0 /\ NPub = 0 /\ ~OpenFlow /\ Len(Given) = 0 /\ Len(flows) = 0
  BY <1>1 DEF Given, SpareNow, Handed, NSub, NPub, OpenFlow
<1>3. NoBuf \in BufName /\ NoBuf[1] = "nil" /\ EndOfLedger \in Slice
  BY DEF NoBuf, BufName, EndOfLedger, Slice
<1>4. PipeTypeOK
  <2>1. FlowsTypeOK
    <3>1. <<>> \in Seq(PipeFlow) /\ 0 \in Nat
      OBVIOUS
    <3>2. flows \in Seq(PipeFlow) /\ notify \in Nat
      BY <1>1, <3>1, Zenon
    <3>3. ended \in BOOLEAN /\ srcErr \in BOOLEAN /\ panicked \in BOOLEAN
      BY <1>1, Zenon
    <3> QED BY <3>2, <3>3 DEF FlowsTypeOK
  <2>2. MemTypeOK
    BY <1>1, <1>3 DEF MemTypeOK
  <2>3. RunTypeOK
    <3>1. compress \in BOOLEAN
      BY <1>1, Consts
    <3>2. em \in [seq : Seqs, size : Nat]
      BY <1>1, Consts DEF Seqs
    <3>3. got \in [msg : Slice, arena : BOOLEAN, rerr : {"nil", "eof", "cancel", "fail"}]
      <4>1. \A e \in Slice : [msg |-> e, arena |-> FALSE, rerr |-> "nil"]
                               \in [msg : Slice, arena : BOOLEAN, rerr : {"nil", "eof", "cancel", "fail"}]
        <5> HIDE DEF Slice
        <5> QED BY Zenon
      <4> QED BY <1>1, <1>3, <4>1, Zenon
    <3>4. pc \in RunPc
      BY <1>1 DEF RunPc
    <3>5. used \in Nat /\ chunkIdx \in Nat /\ total \in Nat /\ parts \in Seq(Slice)
      BY <1>1
    <3>6. spare \in BufName
      BY <1>1, <1>3
    <3>7. runErr \in BOOLEAN
      BY <1>1, Zenon
    <3> QED BY <3>1, <3>2, <3>3, <3>4, <3>5, <3>6, <3>7 DEF RunTypeOK
  <2>4. JobsTypeOK
    BY <1>1 DEF JobsTypeOK, KeyType, NoJob
  <2>5. HashTypeOK
    BY <1>1 DEF HashTypeOK, Body
  <2> QED BY <2>1, <2>2, <2>3, <2>4, <2>5 DEF PipeTypeOK
<1>5. ControlInv
  <2>1. 1..Len(flows) = {} /\ 1..Len(flows) - 1 = {} /\ Len(parts) = 0
    BY <1>1, <1>2
  <2>2. compress => "publisher" \notin exited
    BY <1>1
  <2>3. em.seq = 0 /\ em.seq <= MaxLedgers
    BY <1>1, Consts
  <2> QED BY <1>1, <1>2, <2>1, <2>2, <2>3 DEF ControlInv
<1>6. MemInv
  BY <1>1, <1>2, <1>3 DEF MemInv
<1>7. GivenInv
  BY <1>2 DEF GivenInv
<1>8. LedgerInv
  <2> DEFINE f == [i \in 0..0 |-> 0]
  <2>1. f \in [0..Len(Given) -> Nat] /\ f[0] = 0 /\ Len(parts) = 0 /\ 1..Len(Given) = {}
    BY <1>1, <1>2
  <2> HIDE DEF f
  <2>2. HashInv(f)
    BY <1>1, <1>2 DEF HashInv
  <2>3. Story(f)
    BY <1>1, <2>1, <2>2 DEF Story
  <2> QED BY <2>1, <2>3 DEF LedgerInv
<1>9. OrderInv
  <2>1. {<<em.seq, i>> : i \in 0..0 - 1} = {}
    OBVIOUS
  <2> QED BY <1>1, <1>2, <2>1 DEF OrderInv
<1>10. JobsInv /\ PubInv
  BY <1>2 DEF JobsInv, PubInv
<1>11. WorkInv
  BY <1>1 DEF WorkInv
<1>12. OldInv /\ RetainedInv
  BY <1>1 DEF OldInv, RetainedInv, Reading
<1>13. FellInv
  <2>1. Fell = {}
    BY <1>2 DEF Fell
  <2>2. Falling = {}
    BY <1>1 DEF Falling
  <2> QED BY <1>1, <2>1, <2>2, FS_EmptySet DEF FellInv
<1> QED BY <1>4, <1>5, <1>6, <1>7, <1>8, <1>9, <1>10, <1>11, <1>12, <1>13 DEF PipeInv

\* The jobs after every step but Begin and Read.
LEMMA CalmOrder ==
    ASSUME PipeInv, SameLedger, Calm
    PROVE  JobsTypeOK' /\ OrderInv' /\ WorkInv'
<1>1. /\ FlowsTypeOK /\ RunTypeOK /\ JobsTypeOK /\ ControlInv /\ GivenInv /\ OrderInv /\ WorkInv /\ hashed \in Body
  BY Parts
<1> QED BY <1>1, CalmCases, QuietOrder, InlineOrder, SubmitOrder, OfferOrder, TakeOrder, EncodeOrder, TakeOrderedOrder,
           PublishOrder

\* The inductive step.
LEMMA InvStep == PipeInv /\ [Next \/ (Stopped /\ UNCHANGED vars)]_vars => PipeInv'
<1> SUFFICES ASSUME PipeInv, [Next \/ (Stopped /\ UNCHANGED vars)]_vars
             PROVE  PipeInv'
  OBVIOUS
<1>1. /\ FlowsTypeOK /\ MemTypeOK /\ RunTypeOK /\ JobsTypeOK /\ HashTypeOK /\ ControlInv /\ MemInv /\ GivenInv
      /\ OrderInv /\ WorkInv /\ hashed \in Body
  BY Parts
<1>2. Calm \/ Begin \/ Read
  BY NextCases
<1>3. RunTypeOK' /\ ControlInv' /\ FlowsTypeOK'
  BY <1>1, <1>2, RunTypeStep, ControlStep
<1>4. CASE Calm
  <2>1. SameLedger
    BY <1>1, <1>4, SameLedgerStep
  <2>2. PICK n \in Nat : Effect(n)
    BY <1>4, <2>1, CalmEffect
  <2>3. MemTypeOK' /\ MemInv' /\ GivenInv' /\ JobsInv' /\ PubInv' /\ Safe(n)
    BY <2>2 DEF Effect
  <2>4. JobsTypeOK' /\ OrderInv' /\ WorkInv'
    BY <1>4, <2>1, CalmOrder
  <2>5. LedgerInv' /\ HashTypeOK' /\ RetainedInv'
    BY <1>4, <2>1, <2>3, LedgerStep
  <2>6. OldInv'
    BY <1>4, <2>1, <2>3, FlowsKept, OldStep
  <2>7. FellInv'
    BY <1>3, <1>4, <2>1, <2>2, CalmFell
  <2> QED BY <1>3, <2>3, <2>4, <2>5, <2>6, <2>7 DEF PipeInv, PipeTypeOK
<1>5. CASE Read
  <2>1. MemTypeOK' /\ MemInv' /\ GivenInv' /\ JobsInv' /\ PubInv' /\ Safe(0)
    BY <1>5, ReadEffect DEF Effect
  <2>2. JobsTypeOK' /\ OrderInv' /\ WorkInv'
    BY <1>1, <1>5, ReadOrder
  <2>3. LedgerInv' /\ HashTypeOK' /\ RetainedInv'
    BY <1>5, ReadStory, SourceRetains
  <2>4. OldInv'
    <3>1. flows' = flows
      BY <1>5 DEF Read, bVars
    <3>2. \A n \in Nat : Safe(n) => OldInv'
      BY <3>1, OldStep
    <3> QED BY <2>1, <3>2
  <2>5. FellInv'
    BY <1>3, <1>5, SourceFell
  <2> QED BY <1>3, <2>1, <2>2, <2>3, <2>4, <2>5 DEF PipeInv, PipeTypeOK
<1>6. CASE Begin
  <2>1. MemTypeOK' /\ MemInv' /\ GivenInv' /\ JobsInv' /\ PubInv' /\ OldInv'
    BY <1>6, BeginLedger
  <2>2. JobsTypeOK' /\ OrderInv' /\ WorkInv'
    BY <1>1, <1>6, BeginOrder
  <2>3. LedgerInv' /\ HashTypeOK' /\ RetainedInv'
    BY <1>6, BeginStory, SourceRetains
  <2>4. FellInv'
    BY <1>3, <1>6, SourceFell
  <2> QED BY <1>3, <2>1, <2>2, <2>3, <2>4 DEF PipeInv, PipeTypeOK
<1> QED BY <1>2, <1>4, <1>5, <1>6

\* The pipeline's inductive invariant: who may still write which cell, and what
\* everybody else has been promised it holds (server.go:284, compress.go:121).
THEOREM PipelineInvariant == Spec => []PipeInv
<1> QED BY InvInit, InvStep, PTL DEF Spec

\* The ring is handed the bytes END described (server.go:334).
THEOREM RingGetsWhatWasPublished == Spec => []RetainedIsPublished
<1>1. PipeInv => RetainedIsPublished
  BY Parts DEF RetainedInv, RetainedIsPublished
<1> QED BY <1>1, PipelineInvariant, PTL

\* No flow stops compressing unnoticed (compress.go:128).
THEOREM FallbacksAreCounted == Spec => []DegradationIsCounted
<1>1. PipeInv => DegradationIsCounted
  <2> SUFFICES ASSUME PipeInv, compress PROVE DegradationIsCounted
    BY DEF DegradationIsCounted
  <2> DEFINE raw == {x \in (1..Len(flows)) \X (1..MaxPayload) :
                  /\ x[2] <= Len(flows[x[1]].chunks)
                  /\ LET m == Msg(flows[x[1]].chunks[x[2]]) IN m.codec = "raw" /\ Smaller(m.payload)}
             X == Fell \cup Falling
  <2>1. IsFiniteSet(X) /\ Cardinality(X) <= fallbacks /\ fallbacks \in Nat
    BY Parts DEF FellInv, JobsTypeOK
  <2>2. raw \subseteq X
    <3>1. SUFFICES ASSUME NEW x \in raw PROVE x \in Fell
      OBVIOUS
    <3>2. flows \in Seq(PipeFlow) /\ Len(flows) \in Nat /\ MaxPayload \in Nat
      BY Parts, Consts DEF FlowsTypeOK
    <3>3. PICK i \in 1..Len(flows), k \in 1..MaxPayload : x = <<i, k>>
      OBVIOUS
    <3>4. k <= Len(flows[i].chunks) /\ IsRaw(Msg(flows[i].chunks[k]))
      BY <3>3 DEF IsRaw
    <3>5. Len(flows[i].chunks) \in Nat /\ i \in Nat /\ k \in Nat /\ k >= 1
      BY <3>2 DEF PipeFlow
    <3>6. k \in 1..Len(flows[i].chunks)
      BY <3>4, <3>5
    <3> QED BY <3>3, <3>4, <3>5, <3>6 DEF Fell
  <2> HIDE DEF raw, X
  <2>3. IsFiniteSet(raw) /\ Cardinality(raw) <= Cardinality(X)
    BY <2>1, <2>2, FS_Subset
  <2>4. Cardinality(raw) \in Nat /\ Cardinality(X) \in Nat
    BY <2>1, <2>3, FS_CardinalityType
  <2>5. Cardinality(raw) <= fallbacks
    BY <2>1, <2>3, <2>4
  <2> QED BY <2>5 DEF DegradationIsCounted, raw
<1> QED BY <1>1, PipelineInvariant, PTL
-----------------------------------------------------------------------------
\* What the pipeline promises: PublishInOrder, with the flows seen as messages
\* and the jobs in flight as the queue.

View(i) == [seq |-> flows[i].seq, begin |-> flows[i].begin,
            chunks |-> [k \in 1..Len(flows[i].chunks) |-> Msg(flows[i].chunks[k])], end |-> flows[i].end]
ViewForm == FlowsTypeOK => Messages = [i \in 1..Len(flows) |-> View(i)]

\* The flows seen as messages, field by field, in this state and the next.
LEMMA ViewAlways == ViewForm /\ ViewForm'
<1>1. ViewForm
  <2> SUFFICES ASSUME FlowsTypeOK PROVE Messages = [i \in 1..Len(flows) |-> View(i)]
    BY DEF ViewForm
  <2>1. ASSUME NEW i \in 1..Len(flows)
        PROVE  [flows[i] EXCEPT !.chunks = [k \in 1..Len(@) |-> Msg(@[k])]] = View(i)
    <3>1. flows[i] \in PipeFlow
      BY DEF FlowsTypeOK
    <3> DEFINE c == [k \in 1..Len(flows[i].chunks) |-> Msg(flows[i].chunks[k])]
    <3>2. \A x : [flows[i] EXCEPT !.chunks = x]
                   = [seq |-> flows[i].seq, begin |-> flows[i].begin, chunks |-> x, end |-> flows[i].end]
      <4> HIDE DEF PipeFlow
      <4> SUFFICES ASSUME NEW x
                   PROVE  [flows[i] EXCEPT !.chunks = x]
                             = [seq |-> flows[i].seq, begin |-> flows[i].begin, chunks |-> x, end |-> flows[i].end]
        OBVIOUS
      <4> QED BY <3>1 DEF PipeFlow
    <3>3. [flows[i] EXCEPT !.chunks = [k \in 1..Len(@) |-> Msg(@[k])]] = [flows[i] EXCEPT !.chunks = c]
      OBVIOUS
    <3> QED BY <3>2, <3>3 DEF View
  <2> QED BY <2>1 DEF Messages
<1> QED BY <1>1, PTL

\* No chunk that was published changes as a message.
MsgsKept ==
    \A i \in 1..Len(flows), k \in Nat : k \in 1..Len(flows[i].chunks) =>
        \A c : c = flows[i].chunks[k] => Msg(c)' = Msg(c)

\* A chunk of the next state, by its slice.
LEMMA MsgAt ==
    ASSUME NEW c, NEW i, NEW k, flows'[i].chunks[k] = c
    PROVE  Msg(flows[i].chunks[k])' = Msg(c)'
BY DEF Msg, Cells

\* Then a flow that stays the same slices stays the same messages.
LEMMA ViewKept ==
    ASSUME FlowsTypeOK, MsgsKept, NEW i \in 1..Len(flows), flows'[i] = flows[i]
    PROVE  View(i)' = View(i)
<1>1. flows[i].chunks \in Seq(Slice) /\ Len(flows[i].chunks) \in Nat
  <2>1. flows[i] \in PipeFlow
    BY DEF FlowsTypeOK
  <2> QED BY <2>1 DEF PipeFlow
<1>2. \A k \in 1..Len(flows[i].chunks) : Msg(flows[i].chunks[k])' = Msg(flows[i].chunks[k])
  <2> TAKE k \in 1..Len(flows[i].chunks)
  <2>1. PICK c : c = flows[i].chunks[k]
    OBVIOUS
  <2>2. Msg(c)' = Msg(c)
    BY <1>1, <2>1 DEF MsgsKept
  <2>3. Msg(flows[i].chunks[k])' = Msg(c)'
    <3>1. flows'[i].chunks[k] = c
      BY <2>1
    <3> QED BY <3>1, MsgAt
  <2> QED BY <2>1, <2>2, <2>3
<1>3. [k \in 1..Len(flows[i].chunks) |-> Msg(flows[i].chunks[k])]' = [k \in 1..Len(flows[i].chunks) |-> Msg(flows[i].chunks[k])]
  BY <1>2
<1> QED BY <1>3 DEF View

\* The messages before and after a step.
LEMMA MessagesAre ==
    ASSUME FlowsTypeOK, FlowsTypeOK'
    PROVE  /\ Messages = [i \in 1..Len(flows) |-> View(i)]
           /\ Messages' = [i \in 1..Len(flows') |-> View(i)']
           /\ Len(flows) \in Nat /\ Len(flows') \in Nat /\ Len(Messages) = Len(flows) /\ Len(Messages') = Len(flows')
           /\ flows = <<>> <=> Len(flows) = 0
<1>1. Messages = [i \in 1..Len(flows) |-> View(i)]
  BY ViewAlways DEF ViewForm
<1>2. Messages' = [i \in 1..Len(flows') |-> View(i)']
  <2>1. (FlowsTypeOK => Messages = [i \in 1..Len(flows) |-> View(i)])'
    BY ViewAlways DEF ViewForm
  <2> QED BY <2>1
<1>3. Len(flows) \in Nat /\ Len(flows') \in Nat /\ (flows = <<>> <=> Len(flows) = 0)
  BY DEF FlowsTypeOK
<1> QED BY <1>1, <1>2, <1>3

\* The flows the same.
LEMMA MessagesSame ==
    ASSUME FlowsTypeOK, FlowsTypeOK', MsgsKept, flows' = flows
    PROVE  Messages' = Messages
<1>1. \A i \in 1..Len(flows) : View(i)' = View(i)
  BY ViewKept
<1> QED BY <1>1, MessagesAre

\* A flow begun.
LEMMA MessagesBegin ==
    ASSUME FlowsTypeOK, FlowsTypeOK', MsgsKept, NEW seq, NEW m,
           flows' = Append(flows, [seq |-> seq, begin |-> m, chunks |-> <<>>, end |-> NoMsg])
    PROVE  Messages' = Append(Messages, [seq |-> seq, begin |-> m, chunks |-> <<>>, end |-> NoMsg])
<1> DEFINE f == [seq |-> seq, begin |-> m, chunks |-> <<>>, end |-> NoMsg]
<1>0. PICK n \in Nat : n = Len(flows)
  BY DEF FlowsTypeOK
<1>1. /\ Len(flows') = n + 1 /\ flows'[n + 1] = f /\ \A i \in 1..n : flows'[i] = flows[i]
  BY <1>0 DEF FlowsTypeOK
<1>2. \A i \in 1..n : View(i)' = View(i)
  BY <1>0, <1>1, ViewKept
<1>3. View(n + 1)' = f
  <2>1. PICK k : k = n + 1
    OBVIOUS
  <2>2. flows'[k] = f
    BY <1>1, <2>1
  <2>3. View(k)' = f
    <3>1. f.seq = seq /\ f.begin = m /\ f.chunks = <<>> /\ f.end = NoMsg
      OBVIOUS
    <3> HIDE DEF f
    <3>2. [j \in 1..Len(flows[k].chunks) |-> Msg(flows[k].chunks[j])]' = <<>>
      <4>1. flows'[k].chunks = <<>>
        BY <2>2, <3>1
      <4>2. Len(flows'[k].chunks) = 0
        BY <4>1
      <4>3. PICK e : e = [j \in 1..Len(flows[k].chunks) |-> Msg(flows[k].chunks[j])]'
        OBVIOUS
      <4>4. e = [j \in 1..0 |-> e[j]]
        BY <4>2, <4>3
      <4>5. \A x : [j \in 1..0 |-> x[j]] = <<>>
        OBVIOUS
      <4>6. e = <<>>
        BY <4>4, <4>5, Zenon
      <4> QED BY <4>3, <4>6
    <3>3. View(k)' = [seq |-> f.seq, begin |-> f.begin, chunks |-> <<>>, end |-> f.end]
      BY <2>2, <3>2 DEF View
    <3>4. [seq |-> f.seq, begin |-> f.begin, chunks |-> <<>>, end |-> f.end] = f
      BY <3>1 DEF f
    <3> QED BY <3>3, <3>4
  <2> QED BY <2>1, <2>3
<1> HIDE DEF f
<1>4. /\ Messages = [i \in 1..n |-> View(i)] /\ Messages' = [i \in 1..n + 1 |-> View(i)'] /\ Len(Messages) = n
  BY <1>0, <1>1, MessagesAre
<1>5. Append(Messages, f) = [i \in 1..n + 1 |-> IF i <= n THEN Messages[i] ELSE f]
  BY <1>1, <1>4
<1>6. \A i \in 1..n + 1 : View(i)' = IF i <= n THEN Messages[i] ELSE f
  <2> TAKE i \in 1..n + 1
  <2>1. CASE i <= n
    <3>1. i \in 1..n
      BY <1>1, <2>1
    <3> QED BY <1>2, <1>4, <2>1, <3>1
  <2>2. CASE ~(i <= n)
    <3>1. i = n + 1
      BY <1>1, <2>2
    <3> QED BY <1>3, <2>2, <3>1
  <2> QED BY <2>1, <2>2
<1>7. Messages' = Append(Messages, f)
  BY <1>4, <1>5, <1>6
<1> QED BY <1>7 DEF f

\* A flow with other chunks, or with an END.
LEMMA FlowSet ==
    ASSUME NEW v, NEW a, NEW b, NEW s, NEW e, v = [seq |-> a, begin |-> b, chunks |-> s, end |-> e], NEW y
    PROVE  /\ [v EXCEPT !.chunks = y] = [seq |-> a, begin |-> b, chunks |-> y, end |-> e]
           /\ [v EXCEPT !.end = y] = [seq |-> a, begin |-> b, chunks |-> s, end |-> y]
OBVIOUS

WithChunk(f, n, c) == [f EXCEPT ![n].chunks = Append(@, c)]

\* A chunk published.
LEMMA MessagesChunk ==
    ASSUME FlowsTypeOK, FlowsTypeOK', MsgsKept, OpenFlow, NEW c, NEW m, m = Msg(c)', NEW n, n = Len(flows),
           flows' = WithChunk(flows, n, c)
    PROVE  Messages' = WithChunk(Messages, n, m)
<1>0. flows' = [flows EXCEPT ![n].chunks = Append(@, c)]
  BY DEF WithChunk
<1>1. /\ n \in 1..Len(flows) /\ n \in Nat /\ Len(flows') = n /\ \A i \in 1..n : i # n => flows'[i] = flows[i]
      /\ flows[n] \in PipeFlow /\ flows'[n] = [flows[n] EXCEPT !.chunks = Append(flows[n].chunks, c)]
  <2>1. flows \in Seq(PipeFlow) /\ flows # <<>>
    BY DEF FlowsTypeOK, OpenFlow
  <2> DEFINE g == [flows[n] EXCEPT !.chunks = Append(flows[n].chunks, c)]
  <2>2. flows' = [flows EXCEPT ![n] = g]
    BY <1>0
  <2> HIDE DEF g
  <2>3. /\ n \in 1..Len(flows) /\ n \in Nat /\ Len(flows') = n /\ \A i \in 1..n : i # n => flows'[i] = flows[i]
        /\ flows[n] \in PipeFlow /\ flows'[n] = g
    BY <2>1, <2>2
  <2> QED BY <2>3 DEF g
<1>2. /\ flows'[n].seq = flows[n].seq /\ flows'[n].begin = flows[n].begin /\ flows'[n].end = flows[n].end
      /\ flows'[n].chunks = Append(flows[n].chunks, c) /\ flows[n].chunks \in Seq(Slice)
  BY <1>1 DEF PipeFlow
<1> DEFINE s == [k \in 1..Len(flows[n].chunks) |-> Msg(flows[n].chunks[k])]
<1>3. PICK l \in Nat : l = Len(flows[n].chunks)
  BY <1>2
<1>4. [k \in 1..Len(flows[n].chunks) |-> Msg(flows[n].chunks[k])]' = Append(s, m)
  <2>1. \A k \in 1..l : Msg(flows[n].chunks[k])' = s[k]
    <3> TAKE k \in 1..l
    <3>1. PICK d : d = flows[n].chunks[k]
      OBVIOUS
    <3>2. Msg(d)' = Msg(d)
      BY <1>1, <1>3, <3>1 DEF MsgsKept
    <3>3. flows'[n].chunks[k] = d
      BY <1>2, <1>3, <3>1
    <3>4. Msg(flows[n].chunks[k])' = Msg(d)'
      BY <3>3, MsgAt
    <3>5. s[k] = Msg(d)
      BY <1>3, <3>1
    <3> QED BY <3>2, <3>4, <3>5
  <2>2. Msg(flows[n].chunks[l + 1])' = m
    <3>1. flows'[n].chunks[l + 1] = c
      BY <1>2, <1>3
    <3>2. Msg(flows[n].chunks[l + 1])' = Msg(c)'
      BY <3>1, MsgAt
    <3> QED BY <3>2
  <2>3. Len(flows'[n].chunks) = l + 1
    BY <1>2, <1>3
  <2>4. Len(s) = l /\ Append(s, m) = [k \in 1..l + 1 |-> IF k <= l THEN s[k] ELSE m]
    <3>1. \A e : l \in Nat => /\ Len([k \in 1..l |-> e[k]]) = l
                               /\ Append([k \in 1..l |-> e[k]], m) = [k \in 1..l + 1 |-> IF k <= l THEN e[k] ELSE m]
      OBVIOUS
    <3>2. s = [k \in 1..l |-> s[k]]
      BY <1>3
    <3>3. \A k \in 1..l + 1 : (IF k <= l THEN [j \in 1..l |-> s[j]][k] ELSE m) = IF k <= l THEN s[k] ELSE m
      BY <1>3
    <3> HIDE DEF s
    <3> QED BY <1>3, <3>1, <3>2
  <2>5. l \in Nat
    BY <1>3
  <2> HIDE DEF s
  <2>6. \A k \in 1..l + 1 : Msg(flows[n].chunks[k])' = IF k <= l THEN s[k] ELSE m
    <3> TAKE k \in 1..l + 1
    <3>1. CASE k <= l
      <4>1. k \in 1..l
        BY <2>5, <3>1
      <4> QED BY <2>1, <3>1, <4>1
    <3>2. CASE ~(k <= l)
      <4>1. k = l + 1
        BY <2>5, <3>2
      <4> QED BY <2>2, <3>2, <4>1
    <3> QED BY <3>1, <3>2
  <2> QED BY <2>3, <2>4, <2>6
<1>5. \A i \in 1..n : i # n => View(i)' = View(i)
  BY <1>1, ViewKept
<1>6. View(n)' = [View(n) EXCEPT !.chunks = Append(@, m)]
  <2>1. View(n) = [seq |-> flows[n].seq, begin |-> flows[n].begin, chunks |-> s, end |-> flows[n].end]
    BY DEF View
  <2>2. View(n)' = [seq |-> flows[n].seq, begin |-> flows[n].begin, chunks |-> Append(s, m), end |-> flows[n].end]
    <3>1. View(n)' = [seq |-> flows'[n].seq, begin |-> flows'[n].begin,
                      chunks |-> [k \in 1..Len(flows[n].chunks) |-> Msg(flows[n].chunks[k])]', end |-> flows'[n].end]
      BY DEF View
    <3> HIDE DEF s
    <3> QED BY <1>2, <1>4, <3>1
  <2>4. View(n).chunks = s
    BY <2>1
  <2> HIDE DEF s
  <2>5. [View(n) EXCEPT !.chunks = Append(@, m)] = [View(n) EXCEPT !.chunks = Append(s, m)]
    BY <2>4
  <2>6. [View(n) EXCEPT !.chunks = Append(s, m)]
          = [seq |-> flows[n].seq, begin |-> flows[n].begin, chunks |-> Append(s, m), end |-> flows[n].end]
    <3>1. PICK v, a, b, t, e, y : /\ v = View(n) /\ a = flows[n].seq /\ b = flows[n].begin /\ t = s
                                  /\ e = flows[n].end /\ y = Append(s, m)
      OBVIOUS
    <3>2. v = [seq |-> a, begin |-> b, chunks |-> t, end |-> e]
      BY <2>1, <3>1
    <3>3. [v EXCEPT !.chunks = y] = [seq |-> a, begin |-> b, chunks |-> y, end |-> e]
      BY <3>2, FlowSet
    <3> QED BY <3>1, <3>3
  <2> QED BY <2>2, <2>5, <2>6, Zenon
<1>7. Messages = [i \in 1..n |-> View(i)] /\ Messages' = [i \in 1..n |-> View(i)'] /\ Len(Messages) = n
  BY <1>1, MessagesAre
<1> HIDE DEF s
<1>8. Messages' = [Messages EXCEPT ![n].chunks = Append(@, m)]
  BY <1>1, <1>5, <1>6, <1>7
<1> QED BY <1>8 DEF WithChunk

\* END published.
LEMMA MessagesEnd ==
    ASSUME FlowsTypeOK, FlowsTypeOK', MsgsKept, OpenFlow, NEW m, NEW n, n = Len(flows),
           flows' = [flows EXCEPT ![n].end = m]
    PROVE  Messages' = [Messages EXCEPT ![n].end = m]
<1>1. /\ n \in 1..Len(flows) /\ n \in Nat /\ Len(flows') = n /\ \A i \in 1..n : i # n => flows'[i] = flows[i]
      /\ flows[n] \in PipeFlow /\ flows'[n] = [flows[n] EXCEPT !.end = m]
  BY DEF FlowsTypeOK, OpenFlow
<1>2. /\ flows'[n].seq = flows[n].seq /\ flows'[n].begin = flows[n].begin /\ flows'[n].end = m
      /\ flows'[n].chunks = flows[n].chunks /\ flows[n].chunks \in Seq(Slice)
  BY <1>1 DEF PipeFlow
<1> DEFINE s == [k \in 1..Len(flows[n].chunks) |-> Msg(flows[n].chunks[k])]
<1>3. [k \in 1..Len(flows[n].chunks) |-> Msg(flows[n].chunks[k])]' = s
  <2>1. \A k \in 1..Len(flows[n].chunks) : Msg(flows[n].chunks[k])' = Msg(flows[n].chunks[k])
    <3> TAKE k \in 1..Len(flows[n].chunks)
    <3>1. PICK d : d = flows[n].chunks[k]
      OBVIOUS
    <3>2. Msg(d)' = Msg(d)
      <4>1. Len(flows[n].chunks) \in Nat /\ k \in Nat
        BY <1>2
      <4> QED BY <1>1, <3>1, <4>1 DEF MsgsKept
    <3>3. flows'[n].chunks[k] = d
      BY <1>2, <3>1
    <3>4. Msg(flows[n].chunks[k])' = Msg(d)'
      BY <3>3, MsgAt
    <3> QED BY <3>1, <3>2, <3>4
  <2> QED BY <1>2, <2>1
<1>4. \A i \in 1..n : i # n => View(i)' = View(i)
  BY <1>1, ViewKept
<1>5. View(n)' = [View(n) EXCEPT !.end = m]
  <2>1. View(n) = [seq |-> flows[n].seq, begin |-> flows[n].begin, chunks |-> s, end |-> flows[n].end]
    BY DEF View
  <2>2. View(n)' = [seq |-> flows[n].seq, begin |-> flows[n].begin, chunks |-> s, end |-> m]
    <3>1. View(n)' = [seq |-> flows'[n].seq, begin |-> flows'[n].begin,
                      chunks |-> [k \in 1..Len(flows[n].chunks) |-> Msg(flows[n].chunks[k])]', end |-> flows'[n].end]
      BY DEF View
    <3> HIDE DEF s
    <3> QED BY <1>2, <1>3, <3>1
  <2> HIDE DEF s
  <2> QED BY <2>1, <2>2
<1>6. Messages = [i \in 1..n |-> View(i)] /\ Messages' = [i \in 1..n |-> View(i)'] /\ Len(Messages) = n
  BY <1>1, MessagesAre
<1> HIDE DEF s
<1> QED BY <1>1, <1>4, <1>5, <1>6

\* The jobs in flight, oldest first.
JobAt(i) == [seq |-> em.seq, idx |-> i, raw |-> Cells(Given[i + 1])]
QueueForm == PipeInv => Queue = [k \in 1..inflight |-> JobAt(NPub + k - 1)]

\* They are the chunks submitted and not published, in this state and the next.
LEMMA QueueAlways == QueueForm /\ QueueForm'
<1>1. QueueForm
  <2> SUFFICES ASSUME PipeInv PROVE Queue = [k \in 1..inflight |-> JobAt(NPub + k - 1)]
    BY DEF QueueForm
  <2> DEFINE keys == (IF pubHand = NoJob THEN <<>> ELSE <<pubHand>>) \o ordered
  <2>1. /\ NPub \in Nat /\ NSub \in Nat /\ inflight \in Nat /\ NPub + inflight = NSub
        /\ ordered \in Seq(KeyType) /\ Len(ordered) \in Nat
        /\ inflight = Len(ordered) + (IF pubHand = NoJob THEN 0 ELSE 1)
        /\ pubHand # NoJob => pubHand = <<em.seq, NPub>>
        /\ \A k \in 1..Len(ordered) : ordered[k] = <<em.seq, NSub - Len(ordered) + k - 1>>
    BY Parts, Counts DEF OrderInv, JobsTypeOK
  <2>2. Len(keys) = inflight /\ \A k \in 1..inflight : keys[k] = <<em.seq, NPub + k - 1>>
    <3>1. CASE pubHand = NoJob
      <4>1. keys = ordered /\ inflight = Len(ordered)
        BY <2>1, <3>1
      <4> HIDE DEF keys
      <4> QED BY <2>1, <4>1
    <3>2. CASE pubHand # NoJob
      <4>1. keys = <<pubHand>> \o ordered
        BY <3>2
      <4>2. Len(keys) = Len(ordered) + 1 /\ keys[1] = pubHand /\ \A k \in 2..Len(ordered) + 1 : keys[k] = ordered[k - 1]
        BY <2>1, <4>1
      <4> HIDE DEF keys
      <4>3. inflight = Len(ordered) + 1 /\ pubHand = <<em.seq, NPub>>
        BY <2>1, <3>2
      <4>4. ASSUME NEW k \in 1..inflight PROVE keys[k] = <<em.seq, NPub + k - 1>>
        <5>1. CASE k = 1
          BY <2>1, <4>2, <4>3, <5>1
        <5>2. CASE k # 1
          <6>1. k \in 2..Len(ordered) + 1 /\ k - 1 \in 1..Len(ordered)
            BY <2>1, <4>3, <5>2
          <6>2. keys[k] = <<em.seq, NSub - Len(ordered) + (k - 1) - 1>>
            BY <2>1, <4>2, <6>1
          <6>3. NSub - Len(ordered) + (k - 1) - 1 = NPub + k - 1
            <7>1. NPub \in Nat /\ inflight \in Nat /\ Len(ordered) \in Nat /\ NSub = NPub + inflight /\ inflight = Len(ordered) + 1
              BY <2>1, <4>3
            <7>2. \A a, b, c \in Nat : \A d : a + b = d /\ b = c + 1 => \A x \in Int : d - c + (x - 1) - 1 = a + x - 1
              OBVIOUS
            <7> QED BY <7>1, <7>2
          <6> QED BY <6>2, <6>3
        <5> QED BY <5>1, <5>2
      <4> QED BY <4>2, <4>3, <4>4
    <3> QED BY <3>1, <3>2
  <2>3. Queue = [k \in 1..Len(keys) |->
                   [seq |-> keys[k][1], idx |-> keys[k][2], raw |-> Cells(DataOf(jobs[keys[k]].msg))]]
    BY DEF Queue
  <2> HIDE DEF keys
  <2>4. ASSUME NEW k \in 1..inflight
        PROVE  [seq |-> keys[k][1], idx |-> keys[k][2], raw |-> Cells(DataOf(jobs[keys[k]].msg))] = JobAt(NPub + k - 1)
    <3>1. PICK i \in NPub..NSub - 1 : i = NPub + k - 1
      BY <2>1
    <3>2. keys[k] = <<em.seq, i>>
      BY <2>2, <3>1
    <3>3. DataOf(jobs[<<em.seq, i>>].msg) = Given[i + 1]
      BY <3>1, JobCells
    <3> QED BY <3>1, <3>2, <3>3 DEF JobAt
  <2> QED BY <2>2, <2>3, <2>4
<1> QED BY <1>1, PTL

CountsForm == PipeInv => NPub \in Nat /\ inflight \in Nat /\ NSub = NPub + inflight

\* The chunks counted, in this state and the next.
LEMMA CountsAlways == CountsForm /\ CountsForm'
<1>1. CountsForm
  BY Parts, Counts DEF CountsForm
<1> QED BY <1>1, PTL

\* The queue before and after a step that writes no data handed on.
LEMMA QueueIs ==
    ASSUME PipeInv, PipeInv', NEW n \in Nat, Safe(n)
    PROVE  /\ NPub \in Nat /\ inflight \in Nat /\ NSub = NPub + inflight /\ NSub <= Len(Given) /\ Len(Given) \in Nat
           /\ NPub' \in Nat /\ inflight' \in Nat /\ NSub' = NPub' + inflight'
           /\ Queue = [k \in 1..inflight |-> JobAt(NPub + k - 1)]
           /\ Queue' = [k \in 1..inflight' |-> JobAt(NPub + k - 1)']
           /\ Len(Queue) = inflight
           /\ \A i \in Nat : i + 1 \in 1..Len(Given) => JobAt(i)' = JobAt(i)
<1>1. /\ NPub \in Nat /\ inflight \in Nat /\ NSub = NPub + inflight /\ NSub <= Len(Given) /\ Len(Given) \in Nat
  BY Parts, Counts
<1>2. NPub' \in Nat /\ inflight' \in Nat /\ NSub' = NPub' + inflight'
  <2>1. (PipeInv => NPub \in Nat /\ inflight \in Nat /\ NSub = NPub + inflight)'
    BY CountsAlways DEF CountsForm
  <2> QED BY <2>1
<1>3. Queue = [k \in 1..inflight |-> JobAt(NPub + k - 1)]
  BY QueueAlways DEF QueueForm
<1>4. Queue' = [k \in 1..inflight' |-> JobAt(NPub + k - 1)']
  <2>1. (PipeInv => Queue = [k \in 1..inflight |-> JobAt(NPub + k - 1)])'
    BY QueueAlways DEF QueueForm
  <2> QED BY <2>1
<1>5. ASSUME NEW i \in Nat, i + 1 \in 1..Len(Given) PROVE JobAt(i)' = JobAt(i)
  <2>1. MemTypeOK /\ RunTypeOK /\ GivenInv
    BY Parts
  <2>2. MemTypeOK'
    BY DEF PipeInv, PipeTypeOK
  <2>3. \A k \in 1..Len(Given) : Cells(Given[k])' = Cells(Given[k]) /\ Given'[k] = Given[k]
    BY <2>1, <2>2, CellsKept
  <2>4. Cells(Given[i + 1])' = Cells(Given[i + 1]) /\ em' = em
    BY <1>5, <2>3 DEF Safe
  <2> QED BY <2>4 DEF JobAt
<1>6. Len(Queue) = inflight
  BY <1>1, <1>3
<1> QED BY <1>1, <1>2, <1>3, <1>4, <1>5, <1>6

\* No job comes or goes.
LEMMA QueueSame ==
    ASSUME PipeInv, PipeInv', NEW n \in Nat, Safe(n), NPub' = NPub, NSub' = NSub
    PROVE  Queue' = Queue
<1>1. inflight' = inflight /\ inflight \in Nat /\ NPub \in Nat
  BY QueueIs
<1>2. PICK m \in Nat, p \in Nat : m = inflight /\ p = NPub
  BY <1>1
<1>3. \A k \in 1..m : p + k - 1 \in Nat /\ p + k - 1 + 1 \in 1..Len(Given)
  BY <1>2, QueueIs
<1>4. \A k \in 1..m : JobAt(p + k - 1)' = JobAt(p + k - 1)
  <2>1. \A i \in Nat : i + 1 \in 1..Len(Given) => JobAt(i)' = JobAt(i)
    BY QueueIs
  <2> QED BY <1>3, <2>1, Zenon
<1>5. Queue = [k \in 1..m |-> JobAt(p + k - 1)]
  BY <1>2, QueueIs
<1>6. Queue' = [k \in 1..m |-> JobAt(p + k - 1)']
  <2>1. Queue' = [k \in 1..inflight' |-> JobAt(NPub + k - 1)']
    BY QueueIs
  <2>2. NPub' = p /\ inflight' = m
    BY <1>1, <1>2
  <2> QED BY <2>1, <2>2 DEF JobAt
<1> QED BY <1>4, <1>5, <1>6

\* A job is queued.
LEMMA QueueGrows ==
    ASSUME PipeInv, PipeInv', NEW n \in Nat, Safe(n), NPub' = NPub, NSub' = NSub + 1, NSub < Len(Given)
    PROVE  Queue' = Append(Queue, JobAt(NSub))
<1>1. inflight' = inflight + 1 /\ inflight \in Nat /\ NPub \in Nat
  BY QueueIs
<1>2. PICK m \in Nat, p \in Nat : m = inflight /\ p = NPub
  BY <1>1
<1>3. \A k \in 1..m + 1 : p + k - 1 \in Nat /\ p + k - 1 + 1 \in 1..Len(Given)
  BY <1>2, QueueIs
<1>4. \A k \in 1..m + 1 : JobAt(p + k - 1)' = JobAt(p + k - 1)
  <2>1. \A i \in Nat : i + 1 \in 1..Len(Given) => JobAt(i)' = JobAt(i)
    BY QueueIs
  <2> QED BY <1>3, <2>1, Zenon
<1>5. Queue = [k \in 1..m |-> JobAt(p + k - 1)]
  BY <1>2, QueueIs
<1>6. Queue' = [k \in 1..m + 1 |-> JobAt(p + k - 1)']
  <2>1. Queue' = [k \in 1..inflight' |-> JobAt(NPub + k - 1)']
    BY QueueIs
  <2>2. NPub' = p /\ inflight' = m + 1
    BY <1>1, <1>2
  <2> QED BY <2>1, <2>2 DEF JobAt
<1>7. NSub = p + m + 1 - 1
  BY <1>2, QueueIs
<1>8. \A e : Append([k \in 1..m |-> e[k]], e[m + 1]) = [k \in 1..m + 1 |-> e[k]]
  OBVIOUS
<1>9. PICK e : e = [k \in 1..m + 1 |-> JobAt(p + k - 1)]
  OBVIOUS
<1>10. e[m + 1] = JobAt(NSub)
  <2>1. m + 1 \in 1..m + 1 /\ p + (m + 1) - 1 = NSub
    BY <1>7
  <2>2. e[m + 1] = JobAt(p + (m + 1) - 1)
    BY <1>9, <2>1
  <2> QED BY <2>1, <2>2
<1>11. Queue = [k \in 1..m |-> e[k]]
  <2>1. \A k \in 1..m : k \in 1..m + 1
    OBVIOUS
  <2> QED BY <1>5, <1>9, <2>1
<1>12. Queue' = [k \in 1..m + 1 |-> e[k]]
  BY <1>4, <1>6, <1>9
<1> QED BY <1>8, <1>10, <1>11, <1>12

\* The oldest job leaves.
LEMMA QueueShrinks ==
    ASSUME PipeInv, PipeInv', NEW n \in Nat, Safe(n), NPub' = NPub + 1, NSub' = NSub, NPub < NSub
    PROVE  Queue # <<>> /\ Head(Queue) = JobAt(NPub) /\ Queue' = Tail(Queue)
<1>1. inflight' = inflight - 1 /\ inflight \in Nat /\ NPub \in Nat /\ inflight > 0
  BY QueueIs
<1>2. PICK m \in Nat, p \in Nat : m + 1 = inflight /\ p = NPub
  <2>1. inflight - 1 \in Nat
    BY <1>1
  <2> QED BY <1>1, <2>1
<1>3. \A k \in 1..m + 1 : p + k - 1 \in Nat /\ p + k - 1 + 1 \in 1..Len(Given)
  BY <1>2, QueueIs
<1>4. \A k \in 1..m + 1 : JobAt(p + k - 1)' = JobAt(p + k - 1)
  <2>1. \A i \in Nat : i + 1 \in 1..Len(Given) => JobAt(i)' = JobAt(i)
    BY QueueIs
  <2> QED BY <1>3, <2>1, Zenon
<1>5. Queue = [k \in 1..m + 1 |-> JobAt(p + k - 1)]
  BY <1>2, QueueIs
<1>6. Queue' = [k \in 1..m |-> JobAt(p + 1 + k - 1)']
  <2>1. Queue' = [k \in 1..inflight' |-> JobAt(NPub + k - 1)']
    BY QueueIs
  <2>2. NPub' = p + 1 /\ inflight' = m
    BY <1>1, <1>2
  <2> QED BY <2>1, <2>2 DEF JobAt
<1>7. PICK e : e = [k \in 1..m + 1 |-> JobAt(p + k - 1)]
  OBVIOUS
<1>8. \A x : /\ [k \in 1..m + 1 |-> x[k]] # <<>> /\ Head([k \in 1..m + 1 |-> x[k]]) = x[1]
             /\ Tail([k \in 1..m + 1 |-> x[k]]) = [k \in 1..m |-> x[k + 1]]
  <2> TAKE x
  <2>1. PICK s : s = [k \in 1..m + 1 |-> x[k]]
    OBVIOUS
  <2>2. s \in Seq({x[k] : k \in 1..m + 1}) /\ Len(s) = m + 1 /\ \A k \in 1..m + 1 : s[k] = x[k]
    BY <2>1
  <2>3. s # <<>> /\ Head(s) = s[1] /\ Tail(s) = [k \in 1..m |-> s[k + 1]]
    <3>1. PICK S : s \in Seq(S)
      BY <2>2
    <3>2. Len(s) = m + 1
      BY <2>2
    <3>3. s # <<>>
      BY <3>1, <3>2
    <3>4. Head(s) = s[1]
      BY <3>1, <3>3
    <3>5. Tail(s) = [k \in 1..m |-> s[k + 1]]
      <4>1. Tail(s) \in Seq(S) /\ Len(Tail(s)) = m /\ \A k \in 1..m : Tail(s)[k] = s[k + 1]
        BY <3>1, <3>2, <3>3, HeadTailProperties
      <4>2. PICK t : t = Tail(s)
        OBVIOUS
      <4>3. t \in Seq(S) /\ Len(t) = m /\ \A k \in 1..m : t[k] = s[k + 1]
        BY <4>1, <4>2
      <4>4. t = [k \in 1..m |-> t[k]]
        BY <4>3
      <4>5. t = [k \in 1..m |-> s[k + 1]]
        BY <4>3, <4>4
      <4> QED BY <4>2, <4>5
    <3> QED BY <3>3, <3>4, <3>5
  <2>4. 1 \in 1..m + 1 /\ \A k \in 1..m : k + 1 \in 1..m + 1
    OBVIOUS
  <2>5. [k \in 1..m |-> s[k + 1]] = [k \in 1..m |-> x[k + 1]]
    BY <2>2, <2>4
  <2> QED BY <2>1, <2>2, <2>3, <2>4, <2>5
<1>9. Queue = [k \in 1..m + 1 |-> e[k]] /\ e[1] = JobAt(NPub)
  <2>1. 1 \in 1..m + 1 /\ p + 1 - 1 = NPub
    BY <1>2
  <2> QED BY <1>5, <1>7, <2>1
<1>10. Queue' = [k \in 1..m |-> e[k + 1]]
  <2>1. ASSUME NEW k \in 1..m PROVE JobAt(p + 1 + k - 1)' = e[k + 1]
    <3>1. k + 1 \in 1..m + 1 /\ p + (k + 1) - 1 = p + 1 + k - 1
      OBVIOUS
    <3>2. e[k + 1] = JobAt(p + (k + 1) - 1)
      BY <1>7, <3>1
    <3>3. JobAt(p + (k + 1) - 1)' = JobAt(p + (k + 1) - 1)
      BY <1>4, <3>1
    <3> QED BY <3>1, <3>2, <3>3
  <2> QED BY <1>6, <2>1
<1> QED BY <1>8, <1>9, <1>10

\* The open flow, seen as messages.
LEMMA CurIs ==
    ASSUME PipeInv
    PROVE  /\ P!OpenFlow <=> OpenFlow
           /\ Messages = <<>> <=> flows = <<>>
           /\ OpenFlow => /\ NPub = Len(cur.chunks) /\ Len(cur.chunks) \in Nat /\ cur.seq = em.seq /\ em.seq \in Seqs
                          /\ P!cur.seq = em.seq /\ P!cur.end = cur.end /\ Len(P!cur.chunks) = NPub
                          /\ P!cur.chunks = [k \in 1..NPub |-> Msg(cur.chunks[k])]
<1>1. FlowsTypeOK /\ RunTypeOK /\ ControlInv
  BY Parts
<1>2. PICK n \in Nat : n = Len(flows)
  BY <1>1 DEF FlowsTypeOK
<1>3. Messages = [i \in 1..n |-> View(i)]
  BY <1>1, <1>2, ViewAlways DEF ViewForm
<1>4. Len(Messages) = n /\ (Messages = <<>> <=> n = 0) /\ (flows = <<>> <=> n = 0)
  BY <1>1, <1>2, <1>3 DEF FlowsTypeOK
<1>5. ASSUME n # 0
      PROVE  /\ P!cur = View(n) /\ cur = flows[n] /\ cur.seq = n /\ n = em.seq /\ em.seq \in Seqs /\ NPub = Len(cur.chunks)
             /\ Len(cur.chunks) \in Nat
  <2>1. n \in 1..n
    BY <1>5
  <2>2. P!cur = View(n)
    BY <1>3, <1>4, <2>1 DEF P!cur
  <2>3. cur = flows[n] /\ flows[n] \in PipeFlow
    BY <1>1, <1>2, <2>1 DEF cur, FlowsTypeOK
  <2>4. flows[n].seq = n /\ n = em.seq /\ em.seq \in Seqs
    BY <1>1, <1>2, <2>1 DEF ControlInv, RunTypeOK
  <2>5. Len(cur.chunks) \in Nat
    BY <2>3 DEF PipeFlow
  <2> QED BY <1>4, <1>5, <2>2, <2>3, <2>4, <2>5 DEF NPub
<1>6. ASSUME n # 0
      PROVE  P!cur.seq = em.seq /\ P!cur.end = cur.end /\ P!cur.chunks = [k \in 1..NPub |-> Msg(cur.chunks[k])]
  <2>1. /\ View(n).seq = flows[n].seq /\ View(n).end = flows[n].end
        /\ View(n).chunks = [k \in 1..Len(flows[n].chunks) |-> Msg(flows[n].chunks[k])]
    BY DEF View
  <2> QED BY <1>5, <1>6, <2>1
<1>7. n # 0 => Len(P!cur.chunks) = NPub
  BY <1>5, <1>6
<1>8. P!OpenFlow <=> OpenFlow
  BY <1>4, <1>5, <1>6 DEF P!OpenFlow, OpenFlow, P!complete, complete, P!NoMsg, NoMsg
<1> QED BY <1>4, <1>5, <1>6, <1>7, <1>8 DEF OpenFlow

\* The client's inverse of both forms of a chunk.
LEMMA Expands ==
    \A seq, idx, raw : P!Expand(RawChunk(seq, idx, raw)) = raw /\ P!Expand(compressChunk(seq, idx, raw)) = raw
BY DEF P!Expand, P!DecodeAll, RawChunk, compressChunk, AppendChunk, EncodeAll

\* A chunk published is the message of a slice of the body.
LEMMA ChunkExpands ==
    ASSUME PipeInv, OpenFlow, NEW k \in 1..NPub
    PROVE  k \in 1..Len(Given) /\ P!Expand(Msg(cur.chunks[k])) = Cells(Given[k])
<1>1. NPub \in Nat /\ NPub <= Len(Given) /\ Len(Given) \in Nat
  BY Parts, Counts
<1>2. k \in 1..Len(Given) /\ k \in Nat /\ k - 1 \in Nat /\ (k - 1) + 1 = k
  BY <1>1
<1>3. Out(cur.chunks[k], k - 1, Given[k])
  BY Parts DEF PubInv
<1>4. PICK i, c, raw : i \in Nat /\ i = k - 1 /\ c = cur.chunks[k] /\ raw = Cells(Given[k])
  BY <1>2
<1>5. Given[i + 1] = Given[k] /\ i + 1 \in 1..Len(Given)
  BY <1>2, <1>4
<1>6. Out(c, i, Given[i + 1])
  BY <1>3, <1>4, <1>5
<1>7. Msg(c) = RawChunk(em.seq, i, raw) \/ Msg(c) = compressChunk(em.seq, i, raw)
  BY <1>4, <1>5, <1>6, Parts, OutMsg DEF Out
<1>8. P!Expand(Msg(c)) = raw
  BY <1>7, Expands
<1> QED BY <1>2, <1>4, <1>8

\* One FlattenSeq, by two names.
LEMMA SameFlatten ==
    ASSUME NEW s
    PROVE  P!FlattenSeq(s) = SeqOps!FlattenSeq(s)
BY DEF P!FlattenSeq, SeqOps!FlattenSeq

\* The concatenation of ranges that follow each other, of any number.
LEMMA FlattenRanges ==
    ASSUME NEW q \in Seqs, NEW n \in Nat, NEW s, NEW lo \in Nat, NEW off, off[0] = lo,
           s = [k \in 1..n |-> s[k]],
           \A k \in 1..n : /\ s[k] = Units("live", q, off[k - 1], off[k])
                           /\ off[k - 1] \in Nat /\ off[k] \in Nat /\ off[k - 1] < off[k]
    PROVE  /\ off[n] \in Nat /\ lo <= off[n]
           /\ P!FlattenSeq(s) = Units("live", q, lo, off[n])
           /\ Len(P!FlattenSeq(s)) = off[n] - lo
<1>1. Len(s) = n
  OBVIOUS
<1>2. /\ off[n] \in Nat /\ lo <= off[n]
      /\ P!FlattenSeq(s) = Units("live", q, lo, off[n])
  <2>1. CASE n = 0
    <3>1. P!FlattenSeq(s) = s
      BY <1>1, <2>1, SameFlatten, FlattenNone
    <3>2. s = <<>>
      BY <1>1, <2>1
    <3>3. Units("live", q, lo, lo) = <<>>
      BY DEF Units
    <3> QED BY <2>1, <3>1, <3>2, <3>3
  <2>2. CASE n # 0
    <3>1. Cuts(q, s, off)
      BY <1>1 DEF Cuts
    <3>2. /\ off[0] \in Nat /\ off[Len(s)] \in Nat /\ off[0] <= off[Len(s)]
          /\ SeqOps!FlattenSeq(s) = Units("live", q, off[0], off[Len(s)])
      BY <1>1, <2>2, <3>1, FlattenUnits
    <3> QED BY <1>1, <3>2, SameFlatten
  <2> QED BY <2>1, <2>2
<1>3. Len(Units("live", q, lo, off[n])) = off[n] - lo
  <2>1. \A a, b \in Nat : a <= b => Len(Units("live", q, a, b)) = b - a
    BY UnitsFacts
  <2> QED BY <1>2, <2>1, Zenon
<1> QED BY <1>2, <1>3

\* The body published of the open flow ends where its last chunk ends.
LEMMA PublishedIs ==
    ASSUME PipeInv, OpenFlow, NEW off \in [0..Len(Given) -> Nat], Story(off)
    PROVE  /\ NPub \in Nat /\ NPub <= Len(Given) /\ off[NPub] \in Nat
           /\ P!Published = Units("live", em.seq, 0, off[NPub])
           /\ Len(P!Published) = off[NPub]
<1>1. /\ NPub \in Nat /\ NPub <= Len(Given) /\ Len(Given) \in Nat /\ MemTypeOK /\ RunTypeOK /\ GivenInv
  BY Parts, Counts
<1>2. PICK n \in Nat : n = NPub
  BY <1>1
<1> DEFINE s == [k \in 1..n |-> P!Expand(Msg(cur.chunks[k]))]
<1>3. P!Published = P!FlattenSeq(s)
  <2>1. P!cur.chunks = [k \in 1..n |-> Msg(cur.chunks[k])] /\ Len(P!cur.chunks) = n
    BY <1>2, CurIs
  <2>2. [k \in 1..Len(P!cur.chunks) |-> P!Expand(P!cur.chunks[k])] = s
    BY <2>1
  <2> QED BY <2>2 DEF P!Published
<1>4. \A k \in 1..n : /\ s[k] = Units("live", em.seq, off[k - 1], off[k])
                      /\ off[k - 1] \in Nat /\ off[k] \in Nat /\ off[k - 1] < off[k]
  <2> TAKE k \in 1..n
  <2>1. k \in 1..Len(Given) /\ P!Expand(Msg(cur.chunks[k])) = Cells(Given[k])
    BY <1>2, ChunkExpands
  <2>2. /\ Cells(Given[k]) = Units("live", em.seq, off[k - 1], off[k])
        /\ off[k - 1] \in Nat /\ off[k] \in Nat /\ off[k - 1] < off[k]
    BY <1>1, <2>1, StoryCells
  <2> QED BY <2>1, <2>2
<1>5. s = [k \in 1..n |-> s[k]]
  OBVIOUS
<1>6. em.seq \in Seqs /\ off[0] = 0
  BY <1>1 DEF RunTypeOK, Story
<1> HIDE DEF s
<1>7. off[n] \in Nat /\ P!FlattenSeq(s) = Units("live", em.seq, 0, off[n]) /\ Len(P!FlattenSeq(s)) = off[n] - 0
  <2>1. PICK q \in Seqs : q = em.seq
    BY <1>6
  <2>2. \A k \in 1..n : /\ s[k] = Units("live", q, off[k - 1], off[k])
                        /\ off[k - 1] \in Nat /\ off[k] \in Nat /\ off[k - 1] < off[k]
    BY <1>4, <2>1
  <2>3. PICK lo \in Nat : lo = 0
    OBVIOUS
  <2>4. PICK e : e = off
    OBVIOUS
  <2>5. /\ e[0] = lo
        /\ \A k \in 1..n : /\ s[k] = Units("live", q, e[k - 1], e[k])
                           /\ e[k - 1] \in Nat /\ e[k] \in Nat /\ e[k - 1] < e[k]
    BY <1>6, <2>2, <2>3, <2>4, Zenon
  <2>6. e[n] \in Nat /\ P!FlattenSeq(s) = Units("live", q, lo, e[n]) /\ Len(P!FlattenSeq(s)) = e[n] - lo
    BY <1>5, <2>5, FlattenRanges
  <2> QED BY <2>1, <2>3, <2>4, <2>6
<1> QED BY <1>1, <1>2, <1>3, <1>7

\* The units on their way are those from there to what Run has submitted.
LEMMA UnderwayIs ==
    ASSUME PipeInv, OpenFlow, NEW off \in [0..Len(Given) -> Nat], Story(off)
    PROVE  Len(P!Underway) = off[NSub] - off[NPub] /\ off[NSub] \in Nat /\ off[NPub] \in Nat
<1>1. /\ NPub \in Nat /\ inflight \in Nat /\ NPub + inflight = NSub /\ NSub <= Len(Given) /\ Len(Given) \in Nat
      /\ MemTypeOK /\ RunTypeOK /\ GivenInv
  BY Parts, Counts
<1>2. PICK n \in Nat, p \in Nat : n = inflight /\ p = NPub
  BY <1>1
<1>3. n + p <= Len(Given) /\ p + n = NSub
  BY <1>1, <1>2
<1>4. Queue = [k \in 1..n |-> JobAt(p + k - 1)]
  BY <1>2, QueueAlways DEF QueueForm
<1> DEFINE s == [k \in 1..n |-> Cells(Given[p + k])]
           e == [k \in 0..n |-> off[p + k]]
<1>5. P!Underway = P!FlattenSeq(s)
  <2>1. Len(Queue) = n /\ \A k \in 1..n : Queue[k].raw = Cells(Given[p + k])
    <3>1. ASSUME NEW k \in 1..n PROVE JobAt(p + k - 1).raw = Cells(Given[p + k])
      <4>1. p + k - 1 + 1 = p + k
        OBVIOUS
      <4> QED BY <4>1 DEF JobAt
    <3> QED BY <1>4, <3>1
  <2>2. [k \in 1..Len(Queue) |-> Queue[k].raw] = s
    BY <2>1
  <2> QED BY <2>2 DEF P!Underway
<1>6. ASSUME NEW k \in 1..n
      PROVE  /\ s[k] = Units("live", em.seq, e[k - 1], e[k])
             /\ e[k - 1] \in Nat /\ e[k] \in Nat /\ e[k - 1] < e[k]
  <2>1. p + k \in 1..Len(Given) /\ k \in 0..n /\ k - 1 \in 0..n /\ p + (k - 1) = (p + k) - 1
    BY <1>1, <1>3
  <2>2. PICK j \in 1..Len(Given) : j = p + k
    BY <2>1
  <2>3. /\ Cells(Given[j]) = Units("live", em.seq, off[j - 1], off[j])
        /\ off[j - 1] \in Nat /\ off[j] \in Nat /\ off[j - 1] < off[j]
    BY <1>1, StoryCells
  <2>4. e[k] = off[j] /\ e[k - 1] = off[j - 1] /\ s[k] = Cells(Given[j])
    BY <2>1, <2>2
  <2> HIDE DEF s, e
  <2> QED BY <2>3, <2>4
<1>7. s = [k \in 1..n |-> s[k]] /\ e[0] = off[p] /\ e[n] = off[p + n]
  <2>1. 0 \in 0..n /\ n \in 0..n /\ p + 0 = p
    OBVIOUS
  <2> QED BY <2>1
<1>8. em.seq \in Seqs /\ off[p] \in Nat
  <2>1. p \in 0..Len(Given)
    BY <1>1, <1>3
  <2> QED BY <1>1, <2>1 DEF RunTypeOK
<1> HIDE DEF s, e
<1>9. e[n] \in Nat /\ Len(P!FlattenSeq(s)) = e[n] - off[p]
  <2>1. PICK q \in Seqs : q = em.seq
    BY <1>8
  <2>2. \A k \in 1..n : /\ s[k] = Units("live", q, e[k - 1], e[k])
                        /\ e[k - 1] \in Nat /\ e[k] \in Nat /\ e[k - 1] < e[k]
    BY <1>6, <2>1
  <2> QED BY <1>7, <1>8, <2>2, FlattenRanges
<1> QED BY <1>2, <1>3, <1>5, <1>7, <1>8, <1>9

-----------------------------------------------------------------------------
\* The steps, seen so.

\* No step but Begin changes the configuration, and none changes what a chunk
\* published or given says.
LEMMA StepKeeps ==
    ASSUME PipeInv, PipeInv', Calm \/ Read
    PROVE  MsgsKept /\ compress' = compress /\ \E n \in Nat : Safe(n)
<1>1. RunTypeOK /\ RunTypeOK'
  BY Parts DEF PipeInv, PipeTypeOK
<1>2. compress' = compress
  <2>1. CASE Read
    BY <2>1 DEF Read
  <2>2. CASE Calm
    BY <2>2 DEF Calm, Stop, SubmitInline, Submit, Offer, Hash, Flush, AskSum, End, PutParts, CloseQueues,
                CloseOrdered, Finish, Worker, Take, Encode, WorkerReturns, Publisher, TakeOrdered, Publish,
                PublisherReturns, Hasher, HashNext, HasherReturns, vars, srcVars, readVars
  <2> QED BY <2>1, <2>2
<1>3. PICK n \in Nat : Effect(n)
  BY <1>1, SameLedgerStep, CalmEffect, ReadEffect
<1>4. MsgsKept
  <2> SUFFICES ASSUME NEW i \in 1..Len(flows), NEW k \in Nat, k \in 1..Len(flows[i].chunks), NEW c, c = flows[i].chunks[k]
               PROVE  Msg(c)' = Msg(c)
    BY DEF MsgsKept
  <2> QED BY <1>1, <1>2, <1>3, ChunkMsgKept
<1>5. Safe(n)
  BY <1>3 DEF Effect
<1> QED BY <1>2, <1>4, <1>5

\* A step that publishes and submits nothing.
LEMMA StutterStep ==
    ASSUME PipeInv, PipeInv', Calm \/ Read, UNCHANGED bVars, NPub' = NPub, NSub' = NSub
    PROVE  UNCHANGED P!vars
<1>1. MsgsKept /\ \E n \in Nat : Safe(n)
  BY StepKeeps
<1>2. FlowsTypeOK /\ FlowsTypeOK'
  BY DEF PipeInv, PipeTypeOK
<1>3. Messages' = Messages
  BY <1>1, <1>2, MessagesSame DEF bVars
<1>4. Queue' = Queue
  BY <1>1, QueueSame
<1> QED BY <1>3, <1>4 DEF P!vars, P!bVars, bVars

\* The next chunk submitted is the next of the body.
LEMMA NextChunk ==
    ASSUME PipeInv, OpenFlow, NSub < Len(Given)
    PROVE  /\ Cells(Given[NSub + 1]) \in P!NextChunks
           /\ Len(P!cur.chunks) + Len(Queue) = NSub /\ Len(Queue) = inflight /\ P!cur.seq = em.seq
<1>1. PICK off \in [0..Len(Given) -> Nat] : Story(off)
  BY Parts DEF LedgerInv
<1>2. /\ NPub \in Nat /\ inflight \in Nat /\ NPub + inflight = NSub /\ NSub \in Nat /\ NSub <= Len(Given)
      /\ Len(Given) \in Nat /\ MemTypeOK /\ RunTypeOK /\ GivenInv
  BY Parts, Counts
<1>3. PICK k \in 1..Len(Given) : k = NSub + 1 /\ k - 1 = NSub
  BY <1>2
<1>4. /\ Cells(Given[k]) = Units("live", em.seq, off[k - 1], off[k])
      /\ off[k - 1] \in Nat /\ off[k] \in Nat /\ off[k] = off[k - 1] + Given[k].len
  BY <1>1, <1>2, StoryCells
<1>5. Given[k].len \in 1..ChunkSize
  BY <1>2 DEF GivenInv, Placed
<1>6. PICK a \in Nat, n \in 1..ChunkSize : a = off[k - 1] /\ n = Given[k].len
  BY <1>4, <1>5
<1>7. off[k] - off[k - 1] = n
  BY <1>4, <1>6, Consts
<1>8. Cells(Given[k]) = [i \in 1..n |-> <<"live", em.seq, a + i>>]
  BY <1>4, <1>6, <1>7 DEF Units
<1>9. Len(P!Published) + Len(P!Underway) = a
  <2>1. Len(P!Published) = off[NPub] /\ off[NPub] \in Nat
    BY <1>1, PublishedIs
  <2>2. Len(P!Underway) = off[NSub] - off[NPub] /\ off[NSub] \in Nat
    BY <1>1, UnderwayIs
  <2>3. off[NSub] = a
    BY <1>3, <1>6
  <2> QED BY <2>1, <2>2, <2>3
<1>10. P!cur.seq = em.seq /\ Len(P!cur.chunks) = NPub
  BY CurIs
<1>11. Cells(Given[k]) \in P!NextChunks
  BY <1>8, <1>9, <1>10 DEF P!NextChunks
<1>12. Len(Queue) = inflight
  BY <1>2, QueueAlways DEF QueueForm
<1> QED BY <1>2, <1>3, <1>10, <1>11, <1>12

\* A job queued in order is a chunk queued.
LEMMA SubmitStep ==
    ASSUME PipeInv, PipeInv', SameLedger, Submit
    PROVE  P!Submit
<1>1. /\ FlowsTypeOK /\ FlowsTypeOK' /\ RunTypeOK /\ JobsTypeOK /\ ControlInv /\ GivenInv /\ OrderInv /\ WorkInv
  BY Parts DEF PipeInv, PipeTypeOK
<1>2. NPub' = NPub /\ NSub' = NSub + 1 /\ NSub = Len(parts)
  BY <1>1, SubmitOrder
<1>3. pc = "submit" /\ HasRoom /\ UNCHANGED bVars /\ Calm
  BY DEF Submit, Calm
<1>4. OpenFlow /\ ~ended /\ Len(parts) \in Nat /\ NSub < Len(Given)
  <2>1. Len(Given) = Len(parts) + 1 /\ Len(parts) \in Nat
    BY <1>1, <1>3, Counts
  <2> QED BY <1>1, <1>2, <1>3, <2>1 DEF ControlInv
<1>5. MsgsKept /\ \E n \in Nat : Safe(n)
  BY <1>3, StepKeeps
<1>6. Messages' = Messages
  BY <1>1, <1>3, <1>5, MessagesSame DEF bVars
<1>7. Queue' = Append(Queue, JobAt(NSub))
  BY <1>2, <1>4, <1>5, QueueGrows
<1>8. PICK raw : raw = Cells(Given[NSub + 1])
  OBVIOUS
<1>9. /\ raw \in P!NextChunks
      /\ Len(P!cur.chunks) + Len(Queue) = NSub /\ Len(Queue) = inflight /\ P!cur.seq = em.seq
  BY <1>4, <1>8, NextChunk
<1>10. Len(Queue) < PendingChunks + 1
  <2>1. inflight <= Len(ordered) + 1 /\ Len(ordered) \in Nat /\ inflight \in Nat
    BY <1>1, Counts DEF OrderInv
  <2> QED BY <1>3, <1>9, <2>1, Consts DEF HasRoom
<1>11. Queue' = Append(Queue, [seq |-> P!cur.seq, idx |-> Len(P!cur.chunks) + Len(Queue), raw |-> raw])
  BY <1>7, <1>8, <1>9 DEF JobAt
<1>12. UNCHANGED P!bVars
  BY <1>3, <1>6 DEF P!bVars, bVars
<1>13. P!OpenFlow
  BY <1>4, CurIs
<1> QED BY <1>4, <1>9, <1>10, <1>11, <1>12, <1>13 DEF P!Submit

\* A chunk published in the step, seen as a message.
LEMMA NewMsg ==
    ASSUME PipeInv, PipeInv', NEW n \in Nat, Safe(n), NPub' = NPub + 1, NPub < Len(Given),
           NEW c, cur'.chunks[NPub + 1] = c, NEW i, i = NPub, NEW raw, raw = Cells(Given[i + 1])
    PROVE  \/ Msg(c)' = RawChunk(em.seq, i, raw)
           \/ compress' /\ Smaller(raw) /\ Msg(c)' = compressChunk(em.seq, i, raw)
<1>1. NPub \in Nat /\ Len(Given) \in Nat /\ MemTypeOK /\ RunTypeOK /\ GivenInv
  BY Parts, Counts
<1>2. i \in Nat /\ i + 1 \in 1..Len(Given) /\ i + 1 - 1 = i
  BY <1>1
<1>3. MemTypeOK' /\ RunTypeOK' /\ GivenInv' /\ PubInv'
  BY DEF PipeInv, PipeTypeOK
<1>4. Cells(Given[i + 1])' = raw /\ Given'[i + 1] = Given[i + 1]
  BY <1>1, <1>2, <1>3, CellsKept
<1>5. em' = em /\ i + 1 \in 1..Len(Given')
  <2>1. em' = em /\ Len(Given') >= Len(Given)
    BY DEF Safe
  <2>2. Len(Given') \in Nat
    BY <1>1, <2>1
  <2> QED BY <1>1, <1>2, <2>1, <2>2
<1>6. Out(c, i, Given[i + 1])'
  <2>1. i + 1 \in 1..NPub'
    BY <1>1
  <2>2. PICK j : j = i + 1
    OBVIOUS
  <2>3. Out(cur.chunks[j], j - 1, Given[j])'
    BY <1>3, <2>1, <2>2 DEF PubInv
  <2>4. cur'.chunks[j] = c /\ j - 1 = i
    BY <1>2, <2>2
  <2> QED BY <2>2, <2>3, <2>4 DEF Out, RawOut, ZstdOut
<1>7. /\ RawOut(c, i, Given[i + 1])' => Msg(c)' = RawChunk(em.seq, i, Cells(Given[i + 1]))'
      /\ ZstdOut(c, i, Given[i + 1])' => Msg(c)' = compressChunk(em.seq, i, Cells(Given[i + 1]))'
  <2>1. (i + 1 \in 1..Len(Given))'
    BY <1>5
  <2>2. /\ RawOut(c, i, Given[i + 1])' => (Msg(c) = RawChunk(em.seq, i, Cells(Given[i + 1])))'
        /\ ZstdOut(c, i, Given[i + 1])' => (Msg(c) = compressChunk(em.seq, i, Cells(Given[i + 1])))'
    BY <1>2, <1>3, <2>1, OutMsgAlways DEF OutMsgs
  <2> QED BY <2>2
<1>8. /\ RawChunk(em.seq, i, Cells(Given[i + 1]))' = RawChunk(em.seq, i, raw)
      /\ compressChunk(em.seq, i, Cells(Given[i + 1]))' = compressChunk(em.seq, i, raw)
  BY <1>4, <1>5 DEF RawChunk, compressChunk, AppendChunk, EncodeAll
<1>9. ZstdOut(c, i, Given[i + 1])' => compress' /\ Smaller(raw)
  BY <1>4 DEF ZstdOut, Smaller, EncodeAll
<1> QED BY <1>6, <1>7, <1>8, <1>9 DEF Out

\* Publishing the chunk of slice i is publishing its message, and the queue
\* keeps the rest.
LEMMA ChunkStep ==
    ASSUME PipeInv, PipeInv', Calm, OpenFlow, NEW c, chunk(c), NEW m, m = Msg(c)'
    PROVE  P!chunk(m)
<1>1. FlowsTypeOK /\ FlowsTypeOK' /\ MsgsKept
  BY StepKeeps DEF PipeInv, PipeTypeOK
<1>2. flows' = [flows EXCEPT ![Len(flows)].chunks = Append(@, c)] /\ wakeLocked
  BY DEF chunk
<1>3. PICK n : n = Len(flows)
  OBVIOUS
<1>4. flows' = WithChunk(flows, n, c)
  BY <1>2, <1>3 DEF WithChunk
<1>5. Messages' = WithChunk(Messages, n, m)
  BY <1>1, <1>3, <1>4, MessagesChunk
<1>6. Len(Messages) = n
  BY <1>1, <1>3, MessagesAre
<1>7. Messages' = [Messages EXCEPT ![Len(Messages)].chunks = Append(@, m)]
  BY <1>5, <1>6 DEF WithChunk
<1>8. P!OpenFlow
  BY CurIs
<1> QED BY <1>2, <1>7, <1>8 DEF P!chunk, P!wakeLocked, wakeLocked

\* A chunk published inline goes past an empty queue.
LEMMA InlineStep ==
    ASSUME PipeInv, PipeInv', SameLedger, SubmitInline
    PROVE  P!Submit
<1>1. /\ FlowsTypeOK /\ RunTypeOK /\ JobsTypeOK /\ ControlInv /\ GivenInv /\ OrderInv /\ WorkInv
  BY Parts
<1>2. /\ NPub' = NPub + 1 /\ NSub' = NSub + 1 /\ NPub = NSub /\ NSub = Len(parts) /\ inflight = 0
      /\ cur.chunks \in Seq(Slice) /\ cur'.chunks = Append(cur.chunks, got.msg)
  BY <1>1, InlineOrder
<1>3. pc = "submit" /\ chunk(got.msg) /\ Calm /\ ~compress /\ compress' = compress
  BY DEF SubmitInline, Calm, readVars
<1>4. OpenFlow /\ ~ended /\ NSub < Len(Given) /\ NPub = Len(cur.chunks) /\ NPub \in Nat
  <2>1. Len(Given) = Len(parts) + 1 /\ Len(parts) \in Nat
    BY <1>1, <1>3, Counts
  <2>2. OpenFlow /\ ~ended
    BY <1>1, <1>3 DEF ControlInv
  <2> QED BY <1>2, <2>1, <2>2, CurIs
<1>5. PICK n \in Nat : Safe(n)
  BY <1>3, StepKeeps
<1>6. PICK c, i, raw, m : c = got.msg /\ i = NPub /\ raw = Cells(Given[i + 1]) /\ m = Msg(c)'
  OBVIOUS
<1>7. cur'.chunks[NPub + 1] = c
  BY <1>2, <1>4, <1>6
<1>8. m = RawChunk(em.seq, i, raw)
  BY <1>2, <1>3, <1>4, <1>5, <1>6, <1>7, NewMsg
<1>9. P!chunk(m)
  BY <1>3, <1>4, <1>6, ChunkStep
<1>10. /\ raw \in P!NextChunks
       /\ Len(P!cur.chunks) + Len(Queue) = i /\ Len(Queue) = 0 /\ P!cur.seq = em.seq
  BY <1>2, <1>4, <1>6, NextChunk
<1>11. Queue = <<>> /\ Queue' = <<>>
  <2>1. Queue = [k \in 1..inflight |-> JobAt(NPub + k - 1)]
    BY QueueAlways DEF QueueForm
  <2>2. Queue' = [k \in 1..inflight' |-> JobAt(NPub + k - 1)']
    BY <1>5, QueueIs
  <2>3. inflight' = 0
    BY <1>2 DEF SubmitInline, pipeVars
  <2>4. \A e : [k \in 1..0 |-> e[k]] = <<>>
    OBVIOUS
  <2>5. Queue = [k \in 1..0 |-> Queue[k]] /\ Queue' = [k \in 1..0 |-> Queue'[k]]
    BY <1>2, <2>1, <2>2, <2>3
  <2> QED BY <2>4, <2>5, Zenon
<1>12. m = P!RawChunk(P!cur.seq, Len(P!cur.chunks) + Len(Queue), raw)
  BY <1>8, <1>10 DEF RawChunk, AppendChunk, P!RawChunk, P!AppendChunk
<1>13. P!OpenFlow
  BY <1>4, CurIs
<1>14. P!chunk(P!RawChunk(P!cur.seq, Len(P!cur.chunks) + Len(Queue), raw)) /\ P!flush /\ UNCHANGED Queue
  BY <1>9, <1>11, <1>12 DEF P!flush
<1> HIDE DEF P!NextChunks, P!chunk, P!RawChunk, P!flush
<1> QED BY <1>4, <1>10, <1>13, <1>14 DEF P!Submit

\* The publisher's hand is the head of the queue.
LEMMA PublishStep ==
    ASSUME PipeInv, PipeInv', SameLedger, Publish
    PROVE  P!Publish
<1>1. /\ FlowsTypeOK /\ RunTypeOK /\ JobsTypeOK /\ ControlInv /\ GivenInv /\ OrderInv /\ WorkInv
  BY Parts
<1>2. /\ NPub \in Nat /\ NPub < NSub /\ NPub' = NPub + 1 /\ NSub' = NSub
      /\ cur.chunks \in Seq(Slice) /\ cur'.chunks = Append(cur.chunks, jobs[pubHand].out) /\ OpenFlow
      /\ pubHand = <<em.seq, NPub>>
  BY <1>1, PublishOrder
<1>3. chunk(jobs[pubHand].out) /\ Calm
  BY DEF Publish, Publisher, Calm
<1>4. ~ended /\ NPub < Len(Given) /\ NPub = Len(cur.chunks)
  <2>1. NSub <= Len(Given) /\ NSub \in Nat /\ Len(Given) \in Nat /\ NPub + inflight = NSub /\ inflight \in Nat
    BY <1>1, Counts
  <2>2. ~ended
    <3>1. inflight # 0
      BY <1>2, <2>1
    <3> QED BY <1>1, <3>1 DEF ControlInv
  <2> QED BY <1>2, <2>1, <2>2, CurIs
<1>5. PICK n \in Nat : Safe(n)
  BY <1>3, StepKeeps
<1>6. PICK c, i, raw, m : c = jobs[pubHand].out /\ i = NPub /\ raw = Cells(Given[i + 1]) /\ m = Msg(c)'
  OBVIOUS
<1>7. cur'.chunks[NPub + 1] = c
  BY <1>2, <1>4, <1>6
<1>8. \/ m = RawChunk(em.seq, i, raw)
      \/ Smaller(raw) /\ m = compressChunk(em.seq, i, raw)
  <2>1. \/ Msg(c)' = RawChunk(em.seq, i, raw)
        \/ compress' /\ Smaller(raw) /\ Msg(c)' = compressChunk(em.seq, i, raw)
    BY <1>2, <1>4, <1>5, <1>6, <1>7, NewMsg
  <2> QED BY <1>6, <2>1
<1>9. P!chunk(m)
  BY <1>2, <1>3, <1>6, ChunkStep
<1>10. Queue # <<>> /\ Head(Queue) = JobAt(NPub) /\ Queue' = Tail(Queue)
  BY <1>2, <1>5, QueueShrinks
<1>11. Head(Queue).seq = em.seq /\ Head(Queue).idx = i /\ Head(Queue).raw = raw
  BY <1>6, <1>10 DEF JobAt
<1>12. \/ m = P!RawChunk(Head(Queue).seq, Head(Queue).idx, Head(Queue).raw)
       \/ P!Smaller(Head(Queue).raw) /\ m = P!compressChunk(Head(Queue).seq, Head(Queue).idx, Head(Queue).raw)
  BY <1>8, <1>11 DEF RawChunk, compressChunk, AppendChunk, Smaller, EncodeAll, P!RawChunk, P!compressChunk, P!AppendChunk,
                     P!Smaller, P!EncodeAll
<1>13. P!OpenFlow
  BY <1>2, CurIs
<1>14. P!publishNext
  <2> DEFINE job == Head(Queue)
             raws == {P!RawChunk(job.seq, job.idx, job.raw)} \cup
                     (IF P!Smaller(job.raw) THEN {P!compressChunk(job.seq, job.idx, job.raw)} ELSE {})
  <2>1. m \in raws
    BY <1>12
  <2>2. \E msg \in raws : P!chunk(msg)
    <3> HIDE DEF raws
    <3> QED BY <1>9, <2>1
  <2> QED BY <1>10, <2>2 DEF P!publishNext
<1> QED BY <1>4, <1>13, <1>14 DEF P!Publish

\* An empty pipeline is an empty queue.
LEMMA QueueEmpty ==
    ASSUME PipeInv, inflight = 0
    PROVE  Queue = <<>>
<1>1. Queue = [k \in 1..inflight |-> JobAt(NPub + k - 1)]
  BY QueueAlways DEF QueueForm
<1>2. \A e : [k \in 1..0 |-> e[k]] = <<>>
  OBVIOUS
<1>3. Queue = [k \in 1..0 |-> Queue[k]]
  BY <1>1
<1> QED BY <1>2, <1>3, Zenon

\* END describes the body published.
LEMMA EndStep ==
    ASSUME PipeInv, PipeInv', SameLedger, End
    PROVE  P!End
<1>1. /\ FlowsTypeOK /\ FlowsTypeOK' /\ RunTypeOK /\ JobsTypeOK /\ ControlInv /\ GivenInv /\ OrderInv /\ WorkInv
      /\ HashTypeOK /\ hashed \in Body
  BY Parts DEF PipeInv, PipeTypeOK
<1>2. /\ pc = "end" /\ hashPc = "report" /\ end(AppendEnd(em.seq, chunkIdx, total, Len(flows), Sum64(hashed)))
      /\ Calm /\ Quiet
  BY DEF End, Calm, Quiet
<1>3. OpenFlow /\ ~ended /\ inflight = 0 /\ chunkIdx = Len(parts)
  BY <1>1, <1>2 DEF ControlInv
<1>4. /\ Given = parts /\ Len(parts) \in Nat /\ NPub = Len(parts) /\ NSub = Len(parts)
  <2>1. NPub + inflight = NSub /\ NPub \in Nat /\ Given = parts /\ Len(parts) \in Nat
    BY <1>1, <1>2, Counts
  <2> QED BY <1>2, <1>3, <2>1 DEF NSub
<1>5. PICK off \in [0..Len(Given) -> Nat] : Story(off)
  BY Parts DEF LedgerInv
<1>6. P!Published = Units("live", em.seq, 0, off[NPub]) /\ Len(P!Published) = off[NPub]
  BY <1>3, <1>5, PublishedIs
<1>7. total = off[NPub] /\ hashed = Units("live", em.seq, 0, off[NPub])
  <2>1. HashInv(off) /\ total = off[Len(parts)]
    BY <1>5 DEF Story
  <2>2. hin = <<>>
    BY <1>2, <1>3, <2>1 DEF HashInv
  <2>3. Digested = Len(parts)
    BY <1>2, <1>4, <2>2 DEF Digested
  <2> QED BY <1>3, <1>4, <2>1, <2>3 DEF HashInv
<1>8. P!cur.seq = em.seq /\ Len(P!cur.chunks) = NPub /\ P!OpenFlow
  BY <1>3, CurIs
<1>9. PICK n, m : n = Len(flows) /\ m = AppendEnd(em.seq, chunkIdx, total, n, Sum64(hashed))
  OBVIOUS
<1>10. flows' = [flows EXCEPT ![n].end = m] /\ wakeLocked
  BY <1>2, <1>3, <1>9 DEF end
<1>11. MsgsKept /\ Len(Messages) = n
  BY <1>1, <1>2, <1>9, StepKeeps, MessagesAre
<1>12. Messages' = [Messages EXCEPT ![Len(Messages)].end = m]
  BY <1>1, <1>3, <1>9, <1>10, <1>11, MessagesEnd
<1>13. m = P!AppendEnd(P!cur.seq, Len(P!cur.chunks), Len(P!Published), Len(Messages), P!Sum64(P!Published))
  BY <1>3, <1>4, <1>6, <1>7, <1>8, <1>9, <1>11 DEF AppendEnd, Sum64, P!AppendEnd, P!Sum64
<1>14. P!end(m)
  BY <1>8, <1>10, <1>12 DEF P!end, P!wakeLocked, wakeLocked
<1>15. Queue = <<>> /\ Queue' = Queue
  <2>1. NPub' = NPub /\ NSub' = NSub
    BY <1>1, <1>2, QuietOrder
  <2>2. \E k \in Nat : Safe(k)
    BY <1>2, StepKeeps
  <2> QED BY <1>3, <2>1, <2>2, QueueEmpty, QueueSame
<1>16. P!flush
  BY <1>15 DEF P!flush
<1> QED BY <1>3, <1>8, <1>13, <1>14, <1>15, <1>16, Zenon DEF P!End

\* Nothing is in flight when Run returns.
LEMMA FinishStep ==
    ASSUME PipeInv, PipeInv', SameLedger, Finish
    PROVE  P!Finish
<1>1. /\ FlowsTypeOK /\ FlowsTypeOK' /\ RunTypeOK /\ JobsTypeOK /\ ControlInv /\ GivenInv /\ OrderInv /\ WorkInv
      /\ hashed \in Body
  BY Parts DEF PipeInv, PipeTypeOK
<1>2. pc = "drain" /\ "publisher" \in exited /\ finish(runErr) /\ Calm /\ Quiet /\ runErr \in BOOLEAN
  BY <1>1 DEF Finish, Calm, Quiet, RunTypeOK
<1>3. inflight = 0
  BY <1>1, <1>2 DEF ControlInv
<1>4. MsgsKept /\ \E n \in Nat : Safe(n)
  BY <1>2, StepKeeps
<1>5. Messages' = Messages
  BY <1>1, <1>2, <1>4, MessagesSame DEF finish
<1>6. Queue = <<>> /\ Queue' = Queue
  <2>1. NPub' = NPub /\ NSub' = NSub
    BY <1>1, <1>2, QuietOrder
  <2> QED BY <1>3, <1>4, <2>1, QueueEmpty, QueueSame
<1> QED BY <1>2, <1>5, <1>6 DEF P!Finish, P!flush, P!finish, finish

\* A ledger begins with the queue empty.
LEMMA BeginStep ==
    ASSUME PipeInv, PipeInv', Begin
    PROVE  P!Begin
<1>1. /\ FlowsTypeOK /\ FlowsTypeOK' /\ RunTypeOK /\ JobsTypeOK /\ ControlInv /\ GivenInv /\ OrderInv /\ WorkInv
  BY Parts DEF PipeInv, PipeTypeOK
<1>2. inflight = 0 /\ NPub' = 0 /\ NSub' = 0 /\ ~OpenFlow
  BY <1>1, BeginOrder
<1>3. PICK seq : seq = em.seq + 1
  OBVIOUS
<1>4. begin(seq, AppendBegin(seq, Len(flows) + 1)) /\ em'.seq = seq /\ pc = "pull"
  BY <1>3 DEF Begin
<1>5. seq \in Seqs /\ ~ended
  <2>1. RunTypeOK'
    BY DEF PipeInv, PipeTypeOK
  <2> QED BY <1>1, <1>4, <2>1 DEF RunTypeOK, ControlInv
<1>6. MsgsKept
  BY BeginLedger DEF MsgsKept
<1>7. PICK m : m = AppendBegin(seq, Len(flows) + 1)
  OBVIOUS
<1>8. flows' = Append(flows, [seq |-> seq, begin |-> m, chunks |-> <<>>, end |-> NoMsg]) /\ wakeLocked
  BY <1>2, <1>4, <1>5, <1>7 DEF begin
<1>9. Messages' = Append(Messages, [seq |-> seq, begin |-> m, chunks |-> <<>>, end |-> NoMsg])
  BY <1>1, <1>6, <1>8, MessagesBegin
<1>10. Len(Messages) = Len(flows) /\ ~P!OpenFlow
  BY <1>1, <1>2, MessagesAre, CurIs
<1>11. P!begin(seq, P!AppendBegin(seq, Len(Messages) + 1))
  BY <1>5, <1>7, <1>8, <1>9, <1>10 DEF P!begin, P!wakeLocked, wakeLocked, P!AppendBegin, AppendBegin, P!NoMsg, NoMsg
<1>12. Queue' = <<>>
  <2>1. (PipeInv => Queue = [k \in 1..inflight |-> JobAt(NPub + k - 1)])'
    BY QueueAlways DEF QueueForm
  <2>2. (PipeInv => NPub \in Nat /\ inflight \in Nat /\ NSub = NPub + inflight)'
    BY CountsAlways DEF CountsForm
  <2>3. inflight' = 0
    BY <1>2, <2>2
  <2>4. \A e : [k \in 1..0 |-> e[k]] = <<>>
    OBVIOUS
  <2>5. Queue' = [k \in 1..0 |-> Queue'[k]]
    BY <2>1, <2>3
  <2> QED BY <2>4, <2>5, Zenon
<1>13. Queue' = Queue
  BY <1>2, <1>12, QueueEmpty
<1>14. seq \in P!Seqs
  BY <1>5 DEF P!Seqs, Seqs
<1> QED BY <1>5, <1>10, <1>11, <1>13, <1>14, Zenon DEF P!Begin

\* Every step of the pipeline is a step of PublishInOrder, or leaves the
\* messages and the queue alone.
LEMMA StepPublishes ==
    PipeInv /\ PipeInv' /\ [Next \/ (Stopped /\ UNCHANGED vars)]_vars => [P!Next]_(P!vars)
<1> SUFFICES ASSUME PipeInv, PipeInv', [Next \/ (Stopped /\ UNCHANGED vars)]_vars
             PROVE  [P!Next]_(P!vars)
  OBVIOUS
<1>1. /\ FlowsTypeOK /\ MemTypeOK /\ RunTypeOK /\ JobsTypeOK /\ ControlInv /\ MemInv /\ GivenInv /\ OrderInv /\ WorkInv
      /\ hashed \in Body
  BY Parts
<1>2. CASE Begin
  BY <1>2, BeginStep DEF P!Next
<1>3. CASE Read
  <2>1. NPub' = NPub /\ NSub' = NSub /\ UNCHANGED bVars
    BY <1>1, <1>3, ReadOrder DEF Read
  <2> QED BY <1>3, <2>1, StutterStep
<1>4. CASE Calm
  <2>0. SameLedger
    BY <1>1, <1>4, SameLedgerStep
  <2>1. CASE End
    BY <2>0, <2>1, EndStep DEF P!Next
  <2>2. CASE Finish
    BY <2>0, <2>2, FinishStep DEF P!Next
  <2>3. CASE Quiet /\ ~End /\ ~Finish
    <3>1. NPub' = NPub /\ NSub' = NSub
      BY <1>1, <2>0, <2>3, QuietOrder
    <3>2. UNCHANGED bVars
      BY <2>3 DEF Quiet, Stop, Hash, Flush, AskSum, PutParts, CloseQueues, CloseOrdered, WorkerReturns, PublisherReturns,
                  Hasher, HashNext, HasherReturns, vars
    <3> QED BY <1>4, <3>1, <3>2, StutterStep
  <2>4. CASE SubmitInline
    BY <2>0, <2>4, InlineStep DEF P!Next
  <2>5. CASE Submit
    BY <2>0, <2>5, SubmitStep DEF P!Next
  <2>6. CASE Publish
    BY <2>0, <2>6, PublishStep DEF P!Next
  <2>7. CASE Offer \/ TakeOrdered \/ \E w \in Workers : Take(w) \/ Encode(w)
    <3>1. NPub' = NPub /\ NSub' = NSub
      BY <1>1, <2>0, <2>7, OfferOrder, TakeOrderedOrder, TakeOrder, EncodeOrder
    <3>2. UNCHANGED bVars
      BY <2>7 DEF Offer, TakeOrdered, Take, Encode
    <3> QED BY <1>4, <3>1, <3>2, StutterStep
  <2> QED BY <1>4, <2>1, <2>2, <2>3, <2>4, <2>5, <2>6, <2>7, CalmCases
<1> QED BY <1>2, <1>3, <1>4, NextCases

\* Run, its workers, its publisher and its hasher together publish every ledger
\* as PublishInOrder says (compress.go:121, server.go:275, server.go:352).
THEOREM PipelinePublishesInOrder == Spec => ImplementsPublishInOrder
<1>1. Init => P!Init
  <2> SUFFICES ASSUME Init PROVE P!Init
    OBVIOUS
  <2>1. flows = <<>> /\ pubHand = NoJob /\ ordered = <<>> /\ newBroadcaster
    BY DEF Init, newBroadcaster
  <2>2. Messages = <<>>
    BY <2>1 DEF Messages
  <2>3. Queue = <<>>
    BY <2>1 DEF Queue
  <2> QED BY <2>1, <2>2, <2>3 DEF P!Init, P!newBroadcaster, newBroadcaster
<1> QED BY <1>1, InvInit, InvStep, StepPublishes, PTL DEF Spec, ImplementsPublishInOrder, P!Spec
=============================================================================
