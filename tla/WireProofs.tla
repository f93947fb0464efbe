----------------------------- MODULE WireProofs -----------------------------
(***************************************************************************)
(* Facts the proofs about several components rest on: uint32 arithmetic,   *)
(* ranges of the units of a body, and what the concatenation of ranges is  *)
(* that follow each other.                                                 *)
(***************************************************************************)
EXTENDS Wire, SequenceTheorems, WellFoundedInduction, TLAPS

SeqOps == INSTANCE SequencesExt

\* Sequence arithmetic: the uint32 successor stays in range, and is +1 unless
\* it wraps to 0.
LEMMA SuccFacts ==
    ASSUME NEW q \in Seqs
    PROVE  /\ Succ(q) \in Seqs
           /\ Succ(q) # 0 => Succ(q) = q + 1
           /\ q < MaxSeq => Succ(q) = q + 1
<1>1. MaxSeq \in Nat /\ MaxSeq >= 1 /\ q \in Nat /\ q <= MaxSeq
  BY WireAssumption DEF Seqs
<1>2. CASE q < MaxSeq
  <2>1. q + 1 \in 0..MaxSeq /\ (q + 1) % (MaxSeq + 1) = q + 1
    BY <1>1, <1>2
  <2> QED BY <2>1, <1>1 DEF Succ, Seqs
<1>3. CASE q = MaxSeq
  <2>1. (MaxSeq + 1) % (MaxSeq + 1) = 0
    BY <1>1
  <2> QED BY <2>1, <1>1, <1>3 DEF Succ, Seqs
<1> QED BY <1>1, <1>2, <1>3

-----------------------------------------------------------------------------
\* Units lo + 1 to hi of ledger q, from the live source or an earlier run's ring.
Units(org, q, lo, hi) == [i \in 1..hi - lo |-> <<org, q, lo + i>>]

\* Where a run of units ends.
LastPos(raw) == raw[Len(raw)][3]

\* A range of units is a body, of that length, ending where it says, and it
\* continues the range before it.
LEMMA UnitsFacts ==
    ASSUME NEW org \in {"live", "old"}, NEW q \in Seqs, NEW lo \in Nat, NEW hi \in Nat, lo <= hi
    PROVE  /\ Units(org, q, lo, hi) \in Body
           /\ Len(Units(org, q, lo, hi)) = hi - lo
           /\ lo < hi => LastPos(Units(org, q, lo, hi)) = hi
           /\ Units(org, q, 0, lo) \o Units(org, q, lo, hi) = Units(org, q, 0, hi)
<1>1. hi - lo \in Nat
  OBVIOUS
<1>2. \A i \in 1..hi - lo : <<org, q, lo + i>> \in Unit
  BY DEF Unit
<1>3. Units(org, q, lo, hi) \in Body /\ Len(Units(org, q, lo, hi)) = hi - lo
  BY <1>1, <1>2 DEF Units, Body
<1>4. lo < hi => LastPos(Units(org, q, lo, hi)) = hi
  <2> SUFFICES ASSUME lo < hi PROVE LastPos(Units(org, q, lo, hi)) = hi
    OBVIOUS
  <2>1. hi - lo \in 1..hi - lo
    BY <1>1
  <2>2. Units(org, q, lo, hi)[hi - lo] = <<org, q, lo + (hi - lo)>>
    BY <2>1 DEF Units
  <2>3. lo + (hi - lo) = hi
    OBVIOUS
  <2> QED BY <1>3, <2>2, <2>3 DEF LastPos
<1>5. Units(org, q, 0, lo) \o Units(org, q, lo, hi) = Units(org, q, 0, hi)
  <2>1. \A i \in 1..lo : <<org, q, 0 + i>> \in Unit
    BY DEF Unit
  <2>2. \A i \in 1..hi : <<org, q, 0 + i>> \in Unit
    BY DEF Unit
  <2>3. Units(org, q, 0, lo) \in Seq(Unit) /\ Len(Units(org, q, 0, lo)) = lo
    BY <2>1 DEF Units
  <2>4. Units(org, q, 0, hi) \in Seq(Unit) /\ Len(Units(org, q, 0, hi)) = hi
    BY <2>2 DEF Units
  <2> DEFINE a == Units(org, q, 0, lo)
             b == Units(org, q, lo, hi)
             c == Units(org, q, 0, hi)
  <2>5. a \in Seq(Unit) /\ b \in Seq(Unit) /\ c \in Seq(Unit) /\ Len(a) = lo /\ Len(b) = hi - lo /\ Len(c) = hi
    BY <1>3, <2>3, <2>4 DEF Body
  <2>6. \A i \in 1..lo : a[i] = <<org, q, 0 + i>>
    BY DEF Units
  <2>7. \A i \in 1..hi - lo : b[i] = <<org, q, lo + i>>
    BY DEF Units
  <2>8. \A i \in 1..hi : c[i] = <<org, q, 0 + i>>
    BY DEF Units
  <2> HIDE DEF a, b, c
  <2>9. a \o b \in Seq(Unit) /\ Len(a \o b) = hi
    BY <2>5
  <2>10. ASSUME NEW i \in 1..hi PROVE (a \o b)[i] = c[i]
    <3>1. CASE i <= lo
      <4>1. i \in 1..lo /\ (a \o b)[i] = a[i]
        BY <2>5, <3>1
      <4> QED BY <2>6, <2>8, <4>1
    <3>2. CASE ~(i <= lo)
      <4>1. i - lo \in 1..hi - lo /\ (a \o b)[i] = b[i - lo]
        BY <2>5, <3>2
      <4>2. lo + (i - lo) = 0 + i
        BY <3>2
      <4> QED BY <2>7, <2>8, <4>1, <4>2
    <3> QED BY <3>1, <3>2
  <2>11. a \o b = c
    BY <2>5, <2>9, <2>10, SeqEqual
  <2> QED BY <2>11 DEF a, b, c
<1> QED BY <1>3, <1>4, <1>5

-----------------------------------------------------------------------------
\* FlattenSeq is a recursive function.  Whoever knows what the first i pieces
\* make up, for each i, knows its value: a least i for which it were something
\* else has an i - 1 before it.

\* A set of naturals has a least element.
LEMMA LeastNat ==
    ASSUME NEW T, T \subseteq Nat, T # {}
    PROVE  \E x \in T : \A y \in T : x <= y
<1> DEFINE R == OpToRel(<, Nat)
<1>1. IsWellFoundedOn(R, Nat)
  BY NatLessThanWellFounded
<1>2. ASSUME NEW x \in Nat, NEW y \in Nat, ~ (<<y, x>> \in R) PROVE x <= y
  <2>1. ~ (y < x)
    BY <1>2 DEF OpToRel
  <2> QED BY <2>1
<1> HIDE DEF R
<1>3. PICK x \in T : \A y \in T : ~ (<<y, x>> \in R)
  BY <1>1, WFMin
<1>4. \A y \in T : y \in Nat
  OBVIOUS
<1>5. ASSUME NEW y \in T PROVE x <= y
  BY <1>2, <1>3, <1>4
<1> QED BY <1>5

\* Pieces s that follow each other and g, what the first i of them make up.
Sums(s, g) ==
    /\ Len(s) # 0 => g[1] = s[1]
    /\ \A i \in 2..Len(s) : g[i] = g[i - 1] \o s[i]

\* FlattenSeq is the last of the partial concatenations, whatever they are.
LEMMA FlattenIs ==
    ASSUME NEW s, Len(s) \in Nat, Len(s) # 0, NEW g, Sums(s, g)
    PROVE  SeqOps!FlattenSeq(s) = g[Len(s)]
<1> DEFINE n == Len(s)
           flatten[i \in 1..n] == IF i = 1 THEN s[i] ELSE flatten[i - 1] \o s[i]
           w == [i \in 1..n |-> g[i]]
<1>1. SeqOps!FlattenSeq(s) = flatten[n]
  BY DEF SeqOps!FlattenSeq
<1>2. w = [i \in 1..n |-> IF i = 1 THEN s[i] ELSE w[i - 1] \o s[i]]
  <2>1. ASSUME NEW i \in 1..n PROVE w[i] = IF i = 1 THEN s[i] ELSE w[i - 1] \o s[i]
    <3>1. CASE i = 1
      BY <3>1 DEF Sums
    <3>2. CASE i # 1
      <4>1. i \in 2..n /\ i - 1 \in 1..n
        BY <3>2
      <4> QED BY <3>2, <4>1 DEF Sums
    <3> QED BY <3>1, <3>2
  <2> QED BY <2>1
<1>3. flatten = [i \in 1..n |-> IF i = 1 THEN s[i] ELSE flatten[i - 1] \o s[i]]
  <2> HIDE DEF w, n
  <2> QED BY <1>2, Zenon
<1> HIDE DEF flatten
<1>4. ASSUME NEW i \in 1..n PROVE flatten[i] = IF i = 1 THEN s[i] ELSE flatten[i - 1] \o s[i]
  BY <1>3, Zenon
<1> DEFINE T == {i \in 1..n : flatten[i] # g[i]}
<1>5. T = {}
  <2> SUFFICES ASSUME T # {} PROVE FALSE
    OBVIOUS
  <2>1. T \subseteq Nat
    OBVIOUS
  <2>2. PICK x \in T : \A y \in T : x <= y
    BY <2>1, LeastNat
  <2>3. x \in 1..n /\ flatten[x] # g[x]
    OBVIOUS
  <2>4. CASE x = 1
    <3>1. flatten[1] = s[1]
      BY <1>4, <2>3, <2>4
    <3> QED BY <2>3, <2>4, <3>1 DEF Sums
  <2>5. CASE x # 1
    <3>1. x - 1 \in 1..n /\ ~(x <= x - 1) /\ x \in 2..n
      BY <2>3, <2>5
    <3>2. flatten[x - 1] = g[x - 1]
      BY <2>2, <3>1
    <3> QED BY <1>4, <2>3, <2>5, <3>1, <3>2 DEF Sums
  <2> QED BY <2>4, <2>5
<1>6. n \in 1..n
  OBVIOUS
<1> QED BY <1>1, <1>5, <1>6

\* Two ranges that follow each other are one.
LEMMA UnitsConcat ==
    ASSUME NEW q \in Seqs, NEW lo \in Nat, NEW mid \in Nat, NEW hi \in Nat, lo <= mid, mid <= hi
    PROVE  Units("live", q, lo, mid) \o Units("live", q, mid, hi) = Units("live", q, lo, hi)
<1> DEFINE a == Units("live", q, lo, mid)
           b == Units("live", q, mid, hi)
           c == Units("live", q, lo, hi)
<1>1. /\ a \in Seq(Unit) /\ Len(a) = mid - lo /\ b \in Seq(Unit) /\ Len(b) = hi - mid
      /\ c \in Seq(Unit) /\ Len(c) = hi - lo
  <2>1. lo <= hi
    OBVIOUS
  <2> QED BY <2>1, UnitsFacts DEF Body
<1>2. /\ \A i \in 1..mid - lo : a[i] = <<"live", q, lo + i>>
      /\ \A i \in 1..hi - mid : b[i] = <<"live", q, mid + i>>
      /\ \A i \in 1..hi - lo : c[i] = <<"live", q, lo + i>>
  BY DEF Units
<1> HIDE DEF a, b, c
<1>3. a \o b \in Seq(Unit) /\ Len(a \o b) = hi - lo
  BY <1>1
<1>4. ASSUME NEW i \in 1..hi - lo PROVE (a \o b)[i] = c[i]
  <2>1. CASE i <= mid - lo
    <3>1. i \in 1..mid - lo /\ (a \o b)[i] = a[i]
      BY <1>1, <2>1
    <3> QED BY <1>2, <3>1
  <2>2. CASE ~(i <= mid - lo)
    <3>1. i - (mid - lo) \in 1..hi - mid /\ (a \o b)[i] = b[i - (mid - lo)]
      BY <1>1, <2>2
    <3>2. mid + (i - (mid - lo)) = lo + i
      OBVIOUS
    <3> QED BY <1>2, <3>1, <3>2
  <2> QED BY <2>1, <2>2
<1>5. a \o b = c
  BY <1>1, <1>3, <1>4, SeqEqual
<1> QED BY <1>5 DEF a, b, c

\* The pieces s end at off[1], off[2], ...; the first starts at off[0].
Cuts(q, s, off) ==
    \A i \in 1..Len(s) : /\ s[i] = Units("live", q, off[i - 1], off[i])
                         /\ off[i - 1] \in Nat /\ off[i] \in Nat /\ off[i - 1] < off[i]

\* The concatenation of ranges that follow each other.
LEMMA FlattenUnits ==
    ASSUME NEW q \in Seqs, NEW s, Len(s) \in Nat, NEW off, Cuts(q, s, off)
    PROVE  Len(s) # 0 => /\ off[0] \in Nat /\ off[Len(s)] \in Nat /\ off[0] <= off[Len(s)]
                         /\ SeqOps!FlattenSeq(s) = Units("live", q, off[0], off[Len(s)])
<1> SUFFICES ASSUME Len(s) # 0
             PROVE  /\ off[0] \in Nat /\ off[Len(s)] \in Nat /\ off[0] <= off[Len(s)]
                    /\ SeqOps!FlattenSeq(s) = Units("live", q, off[0], off[Len(s)])
  OBVIOUS
<1>1. \A i \in 0..Len(s) : off[i] \in Nat
  <2> TAKE i \in 0..Len(s)
  <2>1. CASE i = 0
    <3>1. 1 \in 1..Len(s) /\ 1 - 1 = 0
      OBVIOUS
    <3> QED BY <2>1, <3>1 DEF Cuts
  <2>2. CASE i # 0
    <3>1. i \in 1..Len(s)
      BY <2>2
    <3> QED BY <3>1 DEF Cuts
  <2> QED BY <2>1, <2>2
<1> DEFINE T == {i \in 1..Len(s) : ~(off[0] < off[i])}
<1>2. T = {}
  <2> SUFFICES ASSUME T # {} PROVE FALSE
    OBVIOUS
  <2>1. T \subseteq Nat
    OBVIOUS
  <2>2. PICK x \in T : \A y \in T : x <= y
    BY <2>1, LeastNat
  <2>3. x \in 1..Len(s) /\ ~(off[0] < off[x])
    OBVIOUS
  <2>4. off[x - 1] < off[x] /\ off[x - 1] \in Nat /\ off[x] \in Nat /\ off[0] \in Nat
    BY <1>1, <2>3 DEF Cuts
  <2>5. x # 1
    BY <2>3, <2>4
  <2>6. x - 1 \in 1..Len(s) /\ ~(x <= x - 1)
    BY <2>3, <2>5
  <2>7. off[0] < off[x - 1]
    BY <2>2, <2>6
  <2> QED BY <2>3, <2>4, <2>7
<1> DEFINE g == [i \in 1..Len(s) |-> Units("live", q, off[0], off[i])]
<1>3. Sums(s, g)
  <2>1. g[1] = s[1]
    <3>1. 1 \in 1..Len(s) /\ 1 - 1 = 0
      OBVIOUS
    <3>2. s[1] = Units("live", q, off[0], off[1])
      <4>1. s[1] = Units("live", q, off[1 - 1], off[1])
        BY <3>1, Zenon DEF Cuts
      <4> QED BY <3>1, <4>1, Zenon
    <3>3. g[1] = Units("live", q, off[0], off[1])
      BY <3>1
    <3> HIDE DEF g
    <3> QED BY <3>2, <3>3
  <2>2. ASSUME NEW i \in 2..Len(s) PROVE g[i] = g[i - 1] \o s[i]
    <3>1. i \in 1..Len(s) /\ i - 1 \in 1..Len(s) /\ 0 \in 0..Len(s)
      OBVIOUS
    <3>2. /\ off[0] \in Nat /\ off[i - 1] \in Nat /\ off[i] \in Nat
          /\ off[0] <= off[i - 1] /\ off[i - 1] <= off[i]
          /\ s[i] = Units("live", q, off[i - 1], off[i])
      <4>1. /\ s[i] = Units("live", q, off[i - 1], off[i])
            /\ off[i - 1] \in Nat /\ off[i] \in Nat /\ off[i - 1] < off[i]
        BY <3>1, Zenon DEF Cuts
      <4>2. off[0] \in Nat /\ off[0] < off[i - 1]
        BY <1>1, <1>2, <3>1
      <4> QED BY <4>1, <4>2
    <3>3. /\ g[i] = Units("live", q, off[0], off[i])
          /\ g[i - 1] = Units("live", q, off[0], off[i - 1])
      BY <3>1
    <3>4. \A a, b, c \in Nat : a <= b /\ b <= c =>
            Units("live", q, a, b) \o Units("live", q, b, c) = Units("live", q, a, c)
      BY UnitsConcat
    <3>5. Units("live", q, off[0], off[i - 1]) \o Units("live", q, off[i - 1], off[i])
            = Units("live", q, off[0], off[i])
      BY <3>2, <3>4, Zenon
    <3> QED BY <3>2, <3>3, <3>5, Zenon
  <2> HIDE DEF g
  <2> QED BY <2>1, <2>2 DEF Sums
<1>4. Len(s) \in 1..Len(s) /\ 0 \in 0..Len(s) /\ Len(s) \in 0..Len(s)
  OBVIOUS
<1>5. SeqOps!FlattenSeq(s) = g[Len(s)]
  <2> HIDE DEF g
  <2> QED BY <1>3, FlattenIs
<1>6. off[0] <= off[Len(s)] /\ off[0] \in Nat /\ off[Len(s)] \in Nat
  BY <1>1, <1>2, <1>4
<1> QED BY <1>4, <1>5, <1>6

\* No pieces, no units.
LEMMA FlattenNone ==
    ASSUME NEW s, Len(s) = 0
    PROVE  SeqOps!FlattenSeq(s) = s
BY DEF SeqOps!FlattenSeq
=============================================================================
