------------------------- MODULE PacedSourceProofs --------------------------
(***************************************************************************)
(* Proofs about the paced source, for any dump, cadence, window and chunk  *)
(* size, and with no bound on the clock or on the delays.                  *)
(*                                                                         *)
(* Three arguments that share only the types: what the buffer and the      *)
(* reads of it hold (LedgerInv), where the grid stands relative to the     *)
(* emissions before it (GridInv), and what a released unit says about the  *)
(* clock (WindowInv).                                                      *)
(***************************************************************************)
EXTENDS PacedSource, SequenceTheorems, TLAPS

Units == {"record", "synthetic"} \X Nat \X Nat

Pcs == {"pull", "schedule", "sleep", "emit", "read", "readsleep", "copy", "drained", "ended"}

PacedTypeOK ==
    /\ kind \in {"file", "synthetic"} /\ cadence \in Nat /\ window \in Nat
    /\ now \in Nat /\ pc \in Pcs
    /\ seq \in Nat \ {0} /\ record \in 1..Len(Records)
    /\ buf \in Seq(Units) /\ len \in Nat
    /\ nextStart \in Nat \cup {Zero}
    /\ off \in Nat /\ started \in Nat \cup {Zero} /\ got \in Seq(Units)
    /\ starts \in Seq(Nat) /\ bodies \in Seq(Seq(Units))

\* The n-th ledger of the range.
RecordOf(n) == ((n - 1) % Len(Records)) + 1
Ledger(n) == IF kind = "file" THEN FileLedger(RecordOf(n)) ELSE SyntheticPayload(n)

Loaded == pc \in {"schedule", "sleep", "emit", "read", "readsleep", "copy", "drained"}

\* The front of the buffer is the ledger, and what was read of it is its front.
LedgerInv ==
    /\ record = RecordOf(seq)
    /\ Loaded => /\ len = Len(Ledger(seq)) /\ len <= Len(buf)
                 /\ \A i \in 1..len : buf[i] = Ledger(seq)[i]
    /\ InBody => /\ off <= len /\ Len(got) = off
                 /\ \A i \in 1..off : got[i] = buf[i]
    /\ pc \in {"readsleep", "copy"} => off < len
    /\ pc # "ended" => Len(bodies) = IF pc = "drained" THEN seq ELSE seq - 1
    /\ outcome = "clean" => pc = "ended" /\ Len(bodies) = Ledgers
    /\ \A k \in 1..Len(bodies) : bodies[k] = Ledger(k)

\* The grid is at or past the last emission's start, and a cadence past the
\* one before it.
GridInv ==
    cadence > 0 =>
        /\ starts # <<>> => nextStart # Zero /\ nextStart >= starts[Len(starts)]
        /\ Len(starts) >= 2 => nextStart >= starts[Len(starts) - 1] + cadence
        /\ pc \in {"sleep", "emit"} => nextStart # Zero
        /\ pc = "emit" => nextStart <= now
        /\ NoBurst

\* A piece that may be copied is due, and so was every unit before it.
WindowInv ==
    /\ pc \in {"readsleep", "copy"} => started # Zero /\ off < len
    /\ InBody => off <= len /\ (off > 0 => started # Zero)
    /\ pc = "copy" /\ window > 0 => Due(started) <= now
    /\ NeverEarly

-----------------------------------------------------------------------------
\* The configuration of a source never changes.
LEMMA ConfigFixed == Next => UNCHANGED <<kind, cadence, window, bounded>>
BY DEF Next, Source, Pull, Advance, Schedule, Sleep, Emit, Read, ReadSleep, Copy, Drain,
   ConsumerStops, Tick, CancelCtx, confVars

\* What the constants are.
LEMMA PacedFacts ==
    /\ Records \in Seq(Nat) /\ Len(Records) \in Nat /\ Len(Records) >= 1
    /\ SynthSize \in Nat /\ SynthSize >= 1 /\ ChunkSize \in Nat /\ ChunkSize >= 1
    /\ Ledgers \in Nat
    /\ \A c \in Cadences \cup Windows : c \in Nat
BY PacedAssumption

\* A ledger of the dump, or a fabricated one, is a sequence of units.
LEMMA LedgersAreUnits ==
    /\ \A r \in 1..Len(Records) : /\ FileLedger(r) \in Seq(Units)
                                  /\ Len(FileLedger(r)) = Records[r]
    /\ \A n \in Nat : /\ SyntheticPayload(n) \in Seq(Units)
                      /\ Len(SyntheticPayload(n)) = SynthSize
<1>1. ASSUME NEW r \in 1..Len(Records)
      PROVE FileLedger(r) \in Seq(Units) /\ Len(FileLedger(r)) = Records[r]
  <2>1. Records[r] \in Nat /\ r \in Nat
    BY PacedFacts
  <2>2. \A i \in 1..Records[r] : <<"record", r, i>> \in Units
    BY <2>1 DEF Units
  <2> QED BY <2>1, <2>2 DEF FileLedger
<1>2. ASSUME NEW n \in Nat
      PROVE SyntheticPayload(n) \in Seq(Units) /\ Len(SyntheticPayload(n)) = SynthSize
  <2>1. \A i \in 1..SynthSize : <<"synthetic", n, i>> \in Units
    BY PacedFacts DEF Units
  <2> QED BY <2>1, PacedFacts DEF SyntheticPayload
<1> QED BY <1>1, <1>2

\* A quotient and a remainder exist.
LEMMA DivMod ==
    ASSUME NEW a \in Nat, NEW b \in Nat, b > 0
    PROVE  /\ a \div b \in Nat /\ a % b \in 0..(b - 1)
           /\ a = (a \div b) * b + (a % b)
OBVIOUS

\* They are unique.
LEMMA DivModUnique ==
    ASSUME NEW a \in Nat, NEW b \in Nat, b > 0, NEW q \in Nat, NEW r \in Nat, r < b, a = q * b + r
    PROVE  a % b = r /\ a \div b = q
OBVIOUS

\* Counting on by one moves the remainder by one, or back to 0.
LEMMA ModNext ==
    ASSUME NEW a \in Nat, NEW b \in Nat, b > 0
    PROVE  (a + 1) % b = IF (a % b) + 1 = b THEN 0 ELSE (a % b) + 1
<1> DEFINE q == a \div b
           r == a % b
<1>1. q \in Nat /\ r \in Nat /\ r <= b - 1 /\ a = q * b + r
  BY DivMod
<1> HIDE DEF q, r
<1>2. q * b \in Nat /\ (q + 1) * b = q * b + b
  BY <1>1
<1>3. CASE r + 1 = b
  <2>1. a + 1 = (q + 1) * b + 0
    BY <1>1, <1>2, <1>3
  <2>2. (a + 1) % b = 0
    BY <1>1, <2>1, DivModUnique
  <2> QED BY <1>3, <2>2 DEF r
<1>4. CASE r + 1 # b
  <2>1. a + 1 = q * b + (r + 1) /\ r + 1 < b
    BY <1>1, <1>2, <1>4
  <2>2. (a + 1) % b = r + 1
    BY <1>1, <2>1, DivModUnique
  <2> QED BY <1>4, <2>2 DEF r
<1> QED BY <1>3, <1>4

\* The place in the dump is the ledger's number modulo the dump's length.
LEMMA RecordFacts ==
    ASSUME NEW n \in Nat \ {0}
    PROVE  /\ RecordOf(1) = 1
           /\ RecordOf(n) \in 1..Len(Records)
           /\ RecordOf(n + 1) = IF RecordOf(n) + 1 > Len(Records) THEN 1 ELSE RecordOf(n) + 1
<1>1. Len(Records) \in Nat /\ Len(Records) > 0 /\ n - 1 \in Nat /\ (n - 1) + 1 = n
  BY PacedFacts
<1>2. (n - 1) % Len(Records) \in 0..(Len(Records) - 1) /\ 0 % Len(Records) = 0
  BY <1>1, DivMod, DivModUnique
<1>3. n % Len(Records) = IF ((n - 1) % Len(Records)) + 1 = Len(Records) THEN 0
                                                     ELSE ((n - 1) % Len(Records)) + 1
  BY <1>1, ModNext
<1> QED BY <1>1, <1>2, <1>3 DEF RecordOf

-----------------------------------------------------------------------------
\* A new ledger over an old buffer: its front is the ledger.
LEMMA OverwriteFacts ==
    ASSUME NEW old \in Seq(Units), NEW new \in Seq(Units)
    PROVE  /\ Overwrite(old, new) \in Seq(Units)
           /\ Len(new) <= Len(Overwrite(old, new))
           /\ \A i \in 1..Len(new) : Overwrite(old, new)[i] = new[i]
<1> DEFINE n == IF Len(new) > Len(old) THEN Len(new) ELSE Len(old)
           f == [i \in 1..n |-> IF i <= Len(new) THEN new[i] ELSE old[i]]
<1>1. n \in Nat /\ n >= Len(new) /\ n >= Len(old)
  OBVIOUS
<1>2. \A i \in 1..n : f[i] \in Units
  BY <1>1
<1>3. f \in Seq(Units) /\ Len(f) = n
  BY <1>1, <1>2
<1>4. \A i \in 1..Len(new) : f[i] = new[i]
  BY <1>1
<1>5. Overwrite(old, new) = f
  BY DEF Overwrite
<1> QED BY <1>1, <1>3, <1>4, <1>5

\* The next piece: what is left of the ledger, and at most a chunk.
LEMMA PieceFacts ==
    ASSUME len \in Nat, off \in Nat, off < len
    PROVE  Piece \in Nat /\ Piece >= 1 /\ off + Piece <= len
BY PacedFacts DEF Piece, Min2

\* The types hold at the start.
LEMMA PacedTypes == Init => PacedTypeOK
<1>1. 1 \in 1..Len(Records)
  BY PacedFacts
<1> QED BY <1>1, PacedFacts DEF Init, PacedTypeOK, Pcs

\* Every step keeps the types; a copy takes from a buffer that has the bytes.
LEMMA PacedTypesStep ==
    ASSUME PacedTypeOK, Next, InBody /\ pc = "copy" => off < len /\ len <= Len(buf)
    PROVE  PacedTypeOK'
<1> USE DEF PacedTypeOK, Pcs
<1>0. UNCHANGED <<kind, cadence, window>>
  BY ConfigFixed
<1>1. CASE Pull
  <2>1. UNCHANGED <<now, seq, record, nextStart, off, started, got, starts, bodies>> /\ pc' \in Pcs
    BY <1>1 DEF Pull, PullCancelled, PullFile, PullSynthetic, End, bodyVars
  <2>2. buf' \in Seq(Units) /\ len' \in Nat
    <3>1. CASE UNCHANGED <<buf, len>>
      BY <3>1
    <3>2. CASE readInto(FileLedger(record))
      <4>1. FileLedger(record) \in Seq(Units) /\ Len(FileLedger(record)) \in Nat
        BY LedgersAreUnits
      <4>2. Overwrite(buf, FileLedger(record)) \in Seq(Units)
        BY <4>1, OverwriteFacts
      <4> QED BY <3>2, <4>1, <4>2 DEF readInto
    <3>3. CASE PullSynthetic
      BY <3>3, LedgersAreUnits, PacedFacts DEF PullSynthetic
    <3> QED BY <1>1, <3>1, <3>2, <3>3 DEF Pull, PullCancelled, PullFile
  <2> QED BY <1>0, <2>1, <2>2
<1>2. CASE Advance
  <2>1. NextRecord \in 1..Len(Records)
    BY PacedFacts DEF NextRecord
  <2> QED BY <1>0, <1>2, <2>1 DEF Advance, End, bodyVars
<1>3. CASE Schedule
  BY <1>0, <1>3 DEF Schedule, sleepUntil, End, streamVars, bodyVars
<1>4. CASE Sleep
  BY <1>0, <1>4 DEF Sleep, Wake, End, streamVars, bodyVars
<1>5. CASE Emit
  <2>1. nextStart' \in Nat \cup {Zero}
    BY <1>5 DEF Emit, Reanchored, Zero
  <2>2. <<>> \in Seq(Units) /\ Append(starts, now) \in Seq(Nat)
    OBVIOUS
  <2> QED BY <1>0, <1>5, <2>1, <2>2 DEF Emit, streamVars
<1>6. CASE Read
  BY <1>0, <1>6 DEF Read, sleepUntil, End, streamVars
<1>7. CASE ReadSleep
  BY <1>0, <1>7 DEF ReadSleep, Wake, End, streamVars, bodyVars
<1>8. CASE Copy
  <2>1. off < len /\ len <= Len(buf)
    BY <1>8 DEF Copy, InBody
  <2>2. Piece \in Nat /\ off + Piece <= Len(buf)
    BY <2>1, PieceFacts
  <2>3. SubSeq(buf, off + 1, off + Piece) \in Seq(Units)
    BY <2>2
  <2>4. got' \in Seq(Units)
    BY <1>8, <2>3 DEF Copy
  <2> QED BY <1>0, <1>8, <2>2, <2>4 DEF Copy, streamVars
<1>9. CASE Drain
  BY <1>0, <1>9 DEF Drain, streamVars, bodyVars
<1>10. CASE ConsumerStops \/ CancelCtx
  BY <1>0, <1>10 DEF ConsumerStops, CancelCtx, End, streamVars, bodyVars
<1>11. CASE Tick
  BY <1>0, <1>11 DEF Tick, streamVars, bodyVars
<1> QED BY <1>1, <1>2, <1>3, <1>4, <1>5, <1>6, <1>7, <1>8, <1>9, <1>10, <1>11 DEF Next, Source

-----------------------------------------------------------------------------
\* The grid.  An emission waits for it; the grid then moves a cadence on, or
\* to now when that is past.
LEMMA GridStep ==
    ASSUME PacedTypeOK, GridInv, Next
    PROVE  GridInv'
<1> SUFFICES ASSUME cadence > 0 PROVE GridInv'
  BY ConfigFixed DEF GridInv
<1>0. /\ cadence' = cadence /\ cadence \in Nat /\ now \in Nat /\ starts \in Seq(Nat)
      /\ nextStart \in Int /\ Zero \in Int
      /\ Len(starts) \in Nat /\ \A i \in 1..Len(starts) : starts[i] \in Nat
  BY ConfigFixed DEF PacedTypeOK, Zero
<1> USE DEF GridInv
<1>1. CASE Emit
  <2>1. /\ nextStart <= now /\ nextStart # Zero
        /\ nextStart' = IF nextStart + cadence < now THEN now ELSE nextStart + cadence
        /\ starts' = Append(starts, now) /\ now' = now /\ pc' = "read"
    BY <1>1 DEF Emit, Reanchored
  <2>2. /\ Len(starts') = Len(starts) + 1 /\ starts'[Len(starts) + 1] = now
        /\ \A i \in 1..Len(starts) : starts'[i] = starts[i]
    BY <1>0, <2>1
  <2>3. nextStart' \in Int /\ nextStart' >= now /\ nextStart' >= nextStart + cadence /\ nextStart' # Zero
    BY <1>0, <2>1 DEF Zero
  <2>4. Len(starts) >= 1 => nextStart >= starts[Len(starts)]
    BY <1>0
  <2>5. Len(starts') >= 2 => nextStart' >= starts'[Len(starts') - 1] + cadence
    <3> SUFFICES ASSUME Len(starts) >= 1 PROVE nextStart' >= starts[Len(starts)] + cadence
      BY <1>0, <2>2
    <3>1. starts[Len(starts)] \in Nat /\ nextStart >= starts[Len(starts)]
      BY <1>0, <2>4
    <3> QED BY <1>0, <2>3, <3>1
  <2>6. NoBurst'
    <3> SUFFICES ASSUME NEW k \in 1..Len(starts') - 2 PROVE starts'[k + 2] - starts'[k] >= cadence
      BY <1>0 DEF NoBurst
    <3>1. CASE k + 2 <= Len(starts)
      <4>1. k \in 1..Len(starts) - 2 /\ starts'[k + 2] = starts[k + 2] /\ starts'[k] = starts[k]
        BY <1>0, <2>2, <3>1
      <4>2. starts[k + 2] - starts[k] >= cadence
        BY <4>1 DEF NoBurst
      <4> QED BY <4>1, <4>2
    <3>2. CASE k + 2 = Len(starts) + 1
      <4>1. starts'[k + 2] = now /\ starts'[k] = starts[Len(starts) - 1] /\ Len(starts) >= 2
        BY <1>0, <2>2, <3>2
      <4>2. nextStart >= starts[Len(starts) - 1] + cadence /\ starts[Len(starts) - 1] \in Nat
        BY <1>0, <4>1
      <4>3. now - starts[Len(starts) - 1] >= cadence
        BY <1>0, <2>1, <4>2
      <4> QED BY <4>1, <4>3
    <3> QED BY <1>0, <2>2, <3>1, <3>2
  <2> QED BY <1>0, <2>1, <2>2, <2>3, <2>5, <2>6
<1>2. CASE Schedule
  <2>1. /\ nextStart' = IF nextStart = Zero THEN now ELSE nextStart
        /\ UNCHANGED <<now, starts>>
        /\ pc' = "emit" => nextStart' <= now
    BY <1>0, <1>2 DEF Schedule, sleepUntil, End
  <2>2. nextStart' # Zero
    BY <1>0, <2>1 DEF Zero
  <2> QED BY <1>0, <2>1, <2>2 DEF NoBurst
<1>3. CASE Sleep
  BY <1>0, <1>3 DEF Sleep, Wake, End, NoBurst
<1>4. CASE Tick
  BY <1>0, <1>4 DEF Tick, NoBurst
<1>5. CASE Pull \/ Advance \/ Read \/ ReadSleep \/ Copy \/ Drain \/ ConsumerStops \/ CancelCtx
  <2>1. UNCHANGED <<now, starts, nextStart>>
    BY <1>5 DEF Pull, Advance, Read, ReadSleep, Copy, Drain, ConsumerStops, CancelCtx
  <2>2. pc' \in {"sleep", "emit"} => pc' = pc
    BY <1>5 DEF Pull, PullCancelled, PullFile, PullSynthetic, Advance, Read, ReadSleep, Copy, Drain,
         ConsumerStops, CancelCtx, End, sleepUntil, Wake
  <2> QED BY <1>0, <2>1, <2>2 DEF NoBurst
<1> QED BY <1>1, <1>2, <1>3, <1>4, <1>5 DEF Next, Source

\* The window.  A piece is copied once its last unit is due.
LEMMA WindowStep ==
    ASSUME PacedTypeOK, WindowInv, Next
    PROVE  WindowInv'
<1>0. /\ window' = window /\ window \in Nat /\ now \in Nat /\ len \in Nat /\ off \in Nat
      /\ started \in Nat \cup {Zero} /\ Zero \in Int /\ Zero < 0
  BY ConfigFixed DEF PacedTypeOK, Zero
<1> USE DEF WindowInv
<1>1. CASE Read
  <2>1. /\ UNCHANGED <<now, len, off>> /\ pc = "read" /\ off < len
        /\ started' = IF started = Zero THEN now ELSE started
        /\ pc' \in {"copy", "readsleep", "ended"}
    BY <1>1 DEF Read, sleepUntil, End, streamVars
  <2>2. started' # Zero
    BY <1>0, <2>1
  <2>3. pc' = "copy" /\ window > 0 => Due(started)' <= now
    <3>1. pc' = "copy" /\ window > 0 => Due(IF started = Zero THEN now ELSE started) <= now
      BY <1>0, <1>1 DEF Read, sleepUntil, End
    <3>2. Due(started)' = Due(IF started = Zero THEN now ELSE started)
      BY <1>0, <2>1 DEF Due, Piece
    <3> QED BY <3>1, <3>2
  <2>4. NeverEarly'
    <3>1. off > 0 => started' = started
      BY <2>1 DEF InBody
    <3> QED BY <1>0, <2>1, <3>1 DEF NeverEarly, InBody
  <2> QED BY <1>0, <2>1, <2>2, <2>3, <2>4 DEF InBody
<1>2. CASE Copy
  <2>1. /\ UNCHANGED <<now, len, started>> /\ off' = off + Piece /\ pc' = "read"
        /\ pc = "copy" /\ off < len /\ started # Zero
    BY <1>2 DEF Copy, streamVars
  <2>2. Piece \in Nat /\ off + Piece <= len
    BY <1>0, <2>1, PieceFacts
  <2>3. window > 0 => now >= started + (window * (off + Piece)) \div len
    BY <2>1 DEF Due
  <2>4. window > 0 => now - started >= (window * off') \div len
    <3> DEFINE d == (window * (off + Piece)) \div len
    <3>1. d \in Int
      BY <1>0, <2>1, <2>2
    <3> HIDE DEF d
    <3>2. window > 0 => now >= started + d
      BY <2>3 DEF d
    <3>3. window > 0 => now - started >= d
      BY <1>0, <2>1, <3>1, <3>2
    <3> QED BY <2>1, <3>3 DEF d
  <2>5. NeverEarly'
    BY <1>0, <2>1, <2>4 DEF NeverEarly
  <2> QED BY <1>0, <2>1, <2>2, <2>5 DEF InBody
<1>3. CASE ReadSleep
  <2>1. /\ UNCHANGED <<now, len, off, started>> /\ pc = "readsleep"
        /\ pc' \in {"copy", "ended"} /\ (pc' = "copy" => Due(started) <= now)
    BY <1>3 DEF ReadSleep, Wake, End, streamVars, bodyVars
  <2>2. Due(started)' = Due(started)
    BY <1>0, <2>1 DEF Due, Piece
  <2> QED BY <1>0, <2>1, <2>2 DEF NeverEarly, InBody
<1>4. CASE Tick
  <2>1. UNCHANGED <<pc, len, off, started>> /\ now' = now + 1
    BY <1>4 DEF Tick, streamVars, bodyVars
  <2>2. Due(started)' = Due(started)
    BY <1>0, <2>1 DEF Due, Piece
  <2>3. ASSUME NEW d, d \in Int, d <= now PROVE d <= now + 1
    BY <1>0, <2>3
  <2>4. pc = "copy" /\ window > 0 => Due(started) \in Int
    <3> SUFFICES ASSUME pc = "copy", window > 0 PROVE Due(started) \in Int
      OBVIOUS
    <3>1. off < len /\ started \in Nat
      BY <1>0
    <3>2. Piece \in Nat /\ len > 0
      BY <1>0, <3>1, PieceFacts
    <3>3. (window * (off + Piece)) \div len \in Int
      BY <1>0, <3>2
    <3> QED BY <3>1, <3>3 DEF Due
  <2>5. NeverEarly'
    <3> SUFFICES ASSUME InBody, window > 0, off > 0
                 PROVE  (now + 1) - started >= (window * off) \div len
      BY <1>0, <2>1 DEF NeverEarly, InBody
    <3>1. now - started >= (window * off) \div len /\ off <= len
      BY DEF NeverEarly
    <3>2. (window * off) \div len \in Int
      BY <1>0, <3>1
    <3> QED BY <1>0, <3>1, <3>2
  <2> QED BY <1>0, <2>1, <2>2, <2>3, <2>4, <2>5 DEF InBody
<1>5. CASE Drain \/ ConsumerStops \/ CancelCtx
  <2>1. UNCHANGED <<now, len, off, started>> /\ pc' \in {pc, "drained", "ended"} /\ (pc' = "drained" => InBody)
    BY <1>5 DEF Drain, ConsumerStops, CancelCtx, End, streamVars, bodyVars, InBody
  <2>2. Due(started)' = Due(started)
    BY <1>0, <2>1 DEF Due, Piece
  <2> QED BY <1>0, <2>1, <2>2 DEF NeverEarly, InBody
<1>6. CASE Emit
  BY <1>0, <1>6 DEF Emit, streamVars, NeverEarly, InBody
<1>7. CASE Pull \/ Advance \/ Schedule \/ Sleep
  <2>1. pc' \in {"pull", "schedule", "sleep", "emit", "ended"}
    BY <1>7 DEF Pull, PullCancelled, PullFile, PullSynthetic, Advance, Schedule, Sleep, sleepUntil, Wake, End
  <2> QED BY <2>1 DEF NeverEarly, InBody
<1> QED BY <1>1, <1>2, <1>3, <1>4, <1>5, <1>6, <1>7 DEF Next, Source

-----------------------------------------------------------------------------
\* The ledger a stream hands out is a sequence of units.
LEMMA LedgerType ==
    ASSUME NEW n \in Nat \ {0}
    PROVE  Ledger(n) \in Seq(Units)
BY RecordFacts, LedgersAreUnits DEF Ledger

\* A pull puts the range's next ledger into the front of the buffer.
LEMMA PullLoads ==
    ASSUME PacedTypeOK, LedgerInv, Pull, pc' = "schedule"
    PROVE  /\ len' = Len(Ledger(seq)) /\ len' <= Len(buf')
           /\ \A i \in 1..len' : buf'[i] = Ledger(seq)[i]
<1>0. buf \in Seq(Units) /\ seq \in Nat \ {0} /\ record = RecordOf(seq) /\ record \in 1..Len(Records)
  BY DEF PacedTypeOK, LedgerInv
<1>1. CASE PullSynthetic
  <2>1. kind # "file" /\ buf' = SyntheticPayload(seq) /\ len' = SynthSize
    BY <1>1 DEF PullSynthetic
  <2>2. Len(SyntheticPayload(seq)) = SynthSize
    BY <1>0, LedgersAreUnits
  <2> QED BY <2>1, <2>2, PacedFacts DEF Ledger
<1>2. CASE PullFile
  <2>1. kind = "file" /\ readInto(FileLedger(record))
    BY <1>2 DEF PullFile, End
  <2>2. FileLedger(record) \in Seq(Units) /\ Ledger(seq) = FileLedger(record)
    BY <1>0, <2>1, LedgersAreUnits DEF Ledger
  <2> QED BY <1>0, <2>1, <2>2, OverwriteFacts DEF readInto
<1> QED BY <1>1, <1>2 DEF Pull, PullCancelled, End

\* The consumer's reads: each appends the next units of the buffer, and a
\* drained body is the ledger.
LEMMA CopyAppends ==
    ASSUME PacedTypeOK, LedgerInv, Copy
    PROVE  /\ off' \in Nat /\ off' <= len /\ Len(got') = off'
           /\ \A i \in 1..off' : got'[i] = buf[i]
<1>0. /\ buf \in Seq(Units) /\ got \in Seq(Units) /\ off \in Nat /\ len \in Nat
      /\ off < len /\ len <= Len(buf) /\ Len(got) = off /\ \A i \in 1..off : got[i] = buf[i]
  BY DEF PacedTypeOK, LedgerInv, Copy, InBody, Loaded
<1>1. Piece \in Nat /\ off + Piece <= len
  BY <1>0, PieceFacts
<1> DEFINE p == Piece
           s == SubSeq(buf, off + 1, off + p)
<1> HIDE DEF p
<1>2. s \in Seq(Units) /\ Len(s) = p /\ \A i \in 1..p : s[i] = buf[off + i]
  <2>1. p \in Nat /\ off + p <= Len(buf)
    BY <1>0, <1>1 DEF p
  <2> QED BY <1>0, <2>1
<1>3. got' = got \o s /\ off' = off + p
  BY DEF Copy, p
<1> HIDE DEF s
<1>4. p \in Nat /\ off + p <= len
  BY <1>1 DEF p
<1>5. Len(got') = off + p /\ \A i \in 1..off + p : got'[i] = IF i <= off THEN got[i] ELSE s[i - off]
  <2>1. got \in Seq(Units) /\ s \in Seq(Units) /\ Len(got) = off /\ Len(s) = p
    BY <1>0, <1>2
  <2>2. /\ Len(got \o s) = Len(got) + Len(s)
        /\ \A i \in 1..Len(got) + Len(s) :
              (got \o s)[i] = IF i <= Len(got) THEN got[i] ELSE s[i - Len(got)]
    BY <2>1, ConcatProperties, Zenon
  <2> QED BY <1>3, <2>1, <2>2
<1>6. ASSUME NEW i \in 1..off + p PROVE got'[i] = buf[i]
  <2>1. CASE i <= off
    BY <1>0, <1>4, <1>5, <2>1
  <2>2. CASE i > off
    <3>1. i - off \in 1..p /\ off + (i - off) = i
      BY <1>0, <1>4, <2>2
    <3> QED BY <1>0, <1>2, <1>4, <1>5, <2>2, <3>1
  <2> QED BY <1>0, <1>4, <2>1, <2>2
<1> QED BY <1>0, <1>3, <1>4, <1>5, <1>6

\* The front of the buffer, the reads of it and the bodies so far stay what
\* they are said to be.
LEMMA LedgerStep ==
    ASSUME PacedTypeOK, LedgerInv, Next
    PROVE  LedgerInv'
<1>0. /\ kind' = kind /\ \A n : Ledger(n)' = Ledger(n)
      /\ seq \in Nat \ {0} /\ len \in Nat /\ off \in Nat
      /\ bodies \in Seq(Seq(Units)) /\ got \in Seq(Units) /\ buf \in Seq(Units)
      /\ pc \in Pcs
  BY ConfigFixed DEF Ledger, PacedTypeOK, FileLedger, SyntheticPayload, RecordOf
<1>1. CASE Pull
  <2>1. UNCHANGED <<seq, record, bodies>> /\ pc = "pull" /\ pc' \in {"schedule", "ended"}
        /\ (pc' = "ended" => outcome' # "clean") /\ (pc' = "schedule" => outcome' = outcome)
    BY <1>1 DEF Pull, PullCancelled, PullFile, PullSynthetic, End
  <2>2. pc' = "schedule" => /\ len' = Len(Ledger(seq)) /\ len' <= Len(buf')
                            /\ \A i \in 1..len' : buf'[i] = Ledger(seq)[i]
    BY <1>1, PullLoads
  <2> QED BY <1>0, <2>1, <2>2 DEF LedgerInv, InBody, Loaded, RecordOf
<1>2. CASE Advance
  <2>1. pc = "drained" /\ bodies' = bodies /\ Len(bodies) = seq
    BY <1>2 DEF Advance, LedgerInv
  <2>2. CASE bounded /\ seq = Ledgers
    <3>1. UNCHANGED <<seq, record>> /\ pc' = "ended"
      BY <1>2, <2>2 DEF Advance, End
    <3> QED BY <1>0, <2>1, <2>2, <3>1 DEF LedgerInv, InBody, Loaded, RecordOf
  <2>3. CASE ~(bounded /\ seq = Ledgers)
    <3>1. seq' = seq + 1 /\ record' = NextRecord /\ pc' = "pull" /\ outcome' = outcome
      BY <1>2, <2>3 DEF Advance
    <3>2. record' = RecordOf(seq + 1)
      BY <1>0, <3>1, RecordFacts DEF LedgerInv, NextRecord
    <3>3. outcome # "clean"
      BY <2>1 DEF LedgerInv
    <3> QED BY <1>0, <2>1, <3>1, <3>2, <3>3 DEF LedgerInv, InBody, Loaded, RecordOf
  <2> QED BY <2>2, <2>3
<1>3. CASE Schedule \/ Sleep
  <2>1. /\ UNCHANGED <<seq, record, bodies, buf, len>> /\ pc \in {"schedule", "sleep"}
        /\ pc' \in {"sleep", "emit", "ended"} /\ outcome' \in {outcome, "cancel"}
    BY <1>3 DEF Schedule, Sleep, sleepUntil, Wake, End, streamVars
  <2> QED BY <1>0, <2>1 DEF LedgerInv, InBody, Loaded, RecordOf
<1>4. CASE Emit
  <2>1. /\ UNCHANGED <<seq, record, bodies, buf, len, outcome>> /\ pc = "emit" /\ pc' = "read"
        /\ off' = 0 /\ got' = <<>>
    BY <1>4 DEF Emit, streamVars
  <2> QED BY <1>0, <2>1 DEF LedgerInv, InBody, Loaded, RecordOf
<1>5. CASE Read \/ ReadSleep
  <2>1. /\ UNCHANGED <<seq, record, bodies, buf, len, off, got>> /\ pc \in {"read", "readsleep"}
        /\ pc' \in {"readsleep", "copy", "ended"} /\ outcome' \in {outcome, "cancel"} /\ off < len
    BY <1>5 DEF Read, ReadSleep, sleepUntil, Wake, End, streamVars, bodyVars, LedgerInv
  <2> QED BY <1>0, <2>1 DEF LedgerInv, InBody, Loaded, RecordOf
<1>6. CASE Copy
  <2>1. UNCHANGED <<seq, record, bodies, buf, len, outcome>> /\ pc = "copy" /\ pc' = "read"
    BY <1>6 DEF Copy, streamVars
  <2>2. off' \in Nat /\ off' <= len /\ Len(got') = off' /\ \A i \in 1..off' : got'[i] = buf[i]
    BY <1>6, CopyAppends
  <2> QED BY <1>0, <2>1, <2>2 DEF LedgerInv, InBody, Loaded, RecordOf
<1>7. CASE Drain
  <2>1. /\ UNCHANGED <<seq, record, buf, len, off, got, outcome>> /\ pc = "read" /\ pc' = "drained"
        /\ off >= len /\ bodies' = Append(bodies, got)
    BY <1>7 DEF Drain, streamVars, bodyVars
  <2>2. got = Ledger(seq)
    <3>1. Ledger(seq) \in Seq(Units)
      BY <1>0, LedgerType
    <3>2. Len(got) = Len(Ledger(seq)) /\ \A i \in 1..Len(got) : got[i] = Ledger(seq)[i]
      <4>1. off = len /\ Len(got) = len
        BY <1>0, <2>1 DEF LedgerInv, InBody
      <4>2. \A i \in 1..len : got[i] = buf[i]
        BY <2>1, <4>1 DEF LedgerInv, InBody
      <4>3. len = Len(Ledger(seq)) /\ \A i \in 1..len : buf[i] = Ledger(seq)[i]
        BY <2>1 DEF LedgerInv, Loaded
      <4> QED BY <4>1, <4>2, <4>3
    <3> QED BY <1>0, <3>1, <3>2
  <2>3. Len(bodies) = seq - 1
    BY <2>1 DEF LedgerInv
  <2>4. /\ Len(bodies') = seq /\ bodies'[seq] = got
        /\ \A k \in 1..Len(bodies) : bodies'[k] = bodies[k]
    BY <1>0, <2>1, <2>3
  <2>5. \A k \in 1..Len(bodies') : bodies'[k] = Ledger(k)
    BY <1>0, <2>2, <2>3, <2>4 DEF LedgerInv
  <2> QED BY <1>0, <2>1, <2>4, <2>5 DEF LedgerInv, InBody, Loaded, RecordOf
<1>8. CASE ConsumerStops
  <2>1. UNCHANGED <<seq, record, bodies>> /\ pc' = "ended" /\ outcome' = "stop"
    BY <1>8 DEF ConsumerStops, End, streamVars
  <2> QED BY <1>0, <2>1 DEF LedgerInv, InBody, Loaded, RecordOf
<1>9. CASE Tick \/ CancelCtx
  <2>1. UNCHANGED <<seq, record, buf, len, off, got, bodies, pc, outcome>>
    BY <1>9 DEF Tick, CancelCtx, streamVars, bodyVars
  <2> QED BY <1>0, <2>1 DEF LedgerInv, InBody, Loaded, RecordOf
<1> QED BY <1>1, <1>2, <1>3, <1>4, <1>5, <1>6, <1>7, <1>8, <1>9 DEF Next, Source

-----------------------------------------------------------------------------
PacedInv == PacedTypeOK /\ LedgerInv /\ GridInv /\ WindowInv

\* The paced source's inductive invariant holds in every reachable state,
\* whatever delays the clock puts between any two steps (emit.go:59).
THEOREM PacedInvariant == Spec => []PacedInv
<1>1. Init => PacedInv
  <2> SUFFICES ASSUME Init PROVE PacedInv
    OBVIOUS
  <2>1. LedgerInv
    <3>1. RecordOf(1) = 1
      BY RecordFacts
    <3> QED BY <3>1 DEF Init, LedgerInv, Loaded, InBody
  <2>2. GridInv /\ WindowInv
    BY DEF Init, GridInv, WindowInv, NoBurst, NeverEarly, InBody
  <2> QED BY <2>1, <2>2, PacedTypes DEF PacedInv
<1>2. PacedInv /\ [Next]_vars => PacedInv'
  <2> SUFFICES ASSUME PacedInv, [Next]_vars PROVE PacedInv'
    OBVIOUS
  <2>1. CASE Next
    <3>1. pc = "copy" => off < len /\ len <= Len(buf)
      BY DEF PacedInv, LedgerInv, Loaded
    <3> QED BY <2>1, <3>1, PacedTypesStep, LedgerStep, GridStep, WindowStep DEF PacedInv
  <2>2. CASE UNCHANGED vars
    <3> USE <2>2 DEF vars, confVars, streamVars, bodyVars
    <3>1. PacedTypeOK'
      BY DEF PacedInv, PacedTypeOK
    <3>2. LedgerInv'
      <4>1. \A n : Ledger(n)' = Ledger(n)
        BY DEF Ledger, RecordOf, FileLedger, SyntheticPayload
      <4> QED BY <4>1 DEF PacedInv, LedgerInv, Loaded, InBody, RecordOf
    <3>3. GridInv' /\ WindowInv'
      BY DEF PacedInv, GridInv, NoBurst, WindowInv, NeverEarly, InBody, Due, Piece
    <3> QED BY <3>1, <3>2, <3>3 DEF PacedInv
  <2> QED BY <2>1, <2>2
<1> QED BY <1>1, <1>2, PTL DEF Spec

\* The k-th body handed out is the k-th ledger, whole, for any dump: no
\* record shows through the buffer they share (filesource.go:57), and a range
\* that ended well was emitted to its end.
THEOREM BodiesAreAlwaysLedgers == Spec => []BodiesAreLedgers
<1>1. PacedInv => BodiesAreLedgers
  BY DEF PacedInv, LedgerInv, BodiesAreLedgers, Ledger, RecordOf
<1> QED BY <1>1, PacedInvariant, PTL

\* No three emissions start within one cadence, however late each step runs:
\* an overrun is never repaid as a burst (emit.go:80).
THEOREM NeverABurst == Spec => []NoBurst
<1>1. PacedInv => NoBurst
  BY DEF PacedInv, PacedTypeOK, GridInv, NoBurst
<1> QED BY <1>1, PacedInvariant, PTL

\* No unit of a body is handed out before the share of the window that
\* precedes it has passed (emit.go:112).
THEOREM UnitsAreNeverEarly == Spec => []NeverEarly
<1>1. PacedInv => NeverEarly
  BY DEF PacedInv, WindowInv
<1> QED BY <1>1, PacedInvariant, PTL
=============================================================================
