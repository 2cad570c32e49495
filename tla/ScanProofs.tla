----------------------------- MODULE ScanProofs -----------------------------
(***************************************************************************)
(* What reading a datafile back yields (ccask_datafile_iter_next, as       *)
(* keydir_recover and the hint threads use it): facts about Store!Scan for *)
(* every datafile.  Scan is a recursive function; what it computes is      *)
(* proved by induction from the end of the file, which the least-number    *)
(* principle gives.                                                        *)
(***************************************************************************)
EXTENDS StoreProofs, WellFoundedInduction

-----------------------------------------------------------------------------
(* Induction *)

\* Every non-empty set of naturals has a least element.
LEMMA LeastNat ==
    ASSUME NEW S \in SUBSET Nat, S # {}
    PROVE  \E m \in S : \A n \in S : m <= n
<1>1. PICK x \in S : \A y \in S : ~(<<y, x>> \in OpToRel(<, Nat))
  BY WFMin, NatLessThanWellFounded
<1>2. OpToRel(<, Nat) = {ss \in Nat \X Nat : ss[1] < ss[2]}
  BY Zenon DEF OpToRel
<1>3. \A y \in S : ~(<<y, x>> \in {ss \in Nat \X Nat : ss[1] < ss[2]})
  BY <1>1, <1>2, Zenon
<1>4. ASSUME NEW y \in S, y < x PROVE FALSE
  <2> DEFINE p == <<y, x>>
  <2>1. p \in Nat \X Nat /\ p[1] < p[2]
    BY <1>4
  <2>2. p \notin {ss \in Nat \X Nat : ss[1] < ss[2]}
    BY <1>3
  <2> HIDE DEF p
  <2> QED BY <2>1, <2>2, Zenon
<1>5. \A y \in S : x <= y
  BY <1>4
<1> QED BY <1>5

\* Induction from L down to 0.
LEMMA DownTo ==
    ASSUME NEW L \in Nat, NEW Good,
           \A p \in 0 .. L : (\A q \in p + 1 .. L : q \in Good) => p \in Good
    PROVE  \A p \in 0 .. L : p \in Good
<1> SUFFICES ASSUME NEW b \in 0 .. L, b \notin Good PROVE FALSE
  OBVIOUS
<1> DEFINE S == {n \in Nat : n <= L /\ L - n \notin Good}
<1>1. L - b \in S
  <2>1. L - b \in Nat /\ L - b <= L /\ L - (L - b) = b
    OBVIOUS
  <2> QED BY <2>1
<1>2. PICK m \in S : \A n \in S : m <= n
  <2>1. S \in SUBSET Nat /\ S # {}
    BY <1>1
  <2> HIDE DEF S
  <2> QED BY <2>1, LeastNat
<1>3. m \in Nat /\ m <= L /\ L - m \notin Good
  BY <1>2
<1>4. ASSUME NEW q \in L - m + 1 .. L PROVE q \in Good
  <2>1. L - q \in Nat /\ L - q < m /\ L - q <= L /\ L - (L - q) = q
    BY <1>3
  <2>2. L - q \notin S
    <3> HIDE DEF S
    <3> QED BY <1>2, <1>3, <2>1
  <2> QED BY <2>1, <2>2
<1>5. L - m \in 0 .. L
  BY <1>3
<1> QED BY <1>3, <1>4, <1>5

\* A function that is defined by recursion towards L, where C is not over, ...
Solution(g, L, C, e, nx) == g = [p \in 0 .. L |-> IF p \in C THEN <<e[p]>> \o g[nx[p]] ELSE <<>>]

\* ... exists.
LEMMA Recursion ==
    ASSUME NEW L \in Nat, NEW C, NEW e, NEW nx, \A p \in 0 .. L : p \in C => nx[p] \in p + 1 .. L
    PROVE  \E g : Solution(g, L, C, e, nx)
<1> DEFINE Step(g, p) == IF p \in C THEN <<e[p]>> \o g[nx[p]] ELSE <<>>
           Solves(g, n) == g = [p \in 0 .. L |-> g[p]] /\ \A p \in n .. L : g[p] = Step(g, p)
           Good == {n \in 0 .. L : \E g : Solves(g, n)}
<1>1. ASSUME NEW n \in 0 .. L, \A q \in n + 1 .. L : q \in Good
      PROVE  n \in Good
  <2>1. PICK g : g = [p \in 0 .. L |-> g[p]] /\ \A p \in n + 1 .. L : g[p] = Step(g, p)
    <3>1. CASE n = L
      <4> DEFINE z == [p \in 0 .. L |-> <<>>]
      <4>1. z = [p \in 0 .. L |-> z[p]]
        OBVIOUS
      <4>2. \A p \in n + 1 .. L : FALSE
        BY <3>1
      <4> HIDE DEF z
      <4> QED BY <4>1, <4>2
    <3>2. CASE n # L
      <4>1. n + 1 \in n + 1 .. L
        BY <3>2
      <4> QED BY <1>1, <4>1
    <3> QED BY <3>1, <3>2
  <2> DEFINE h == [p \in 0 .. L |-> IF p = n THEN Step(g, n) ELSE g[p]]
  <2>2. h = [p \in 0 .. L |-> h[p]]
    OBVIOUS
  <2>3. ASSUME NEW p \in n .. L PROVE h[p] = Step(h, p)
    <3>1. p \in 0 .. L
      OBVIOUS
    <3>2. p \in C => nx[p] \in 0 .. L /\ nx[p] # n
      BY <3>1
    <3>3. Step(h, p) = Step(g, p)
      BY <3>1, <3>2
    <3>4. CASE p = n
      BY <3>1, <3>3, <3>4
    <3>5. CASE p # n
      <4>1. p \in n + 1 .. L
        BY <3>5
      <4>2. h[p] = g[p] /\ g[p] = Step(g, p)
        BY <2>1, <3>1, <3>5, <4>1
      <4> QED BY <3>3, <4>2
    <3> QED BY <3>4, <3>5
  <2>4. Solves(h, n)
    BY <2>2, <2>3
  <2> QED BY <2>4
<1>2. 0 \in Good
  <2>1. 0 \in 0 .. L
    OBVIOUS
  <2> HIDE DEF Good
  <2> QED BY <1>1, <2>1, DownTo
<1>3. PICK g : Solves(g, 0)
  BY <1>2
<1>4. g = [p \in 0 .. L |-> Step(g, p)]
  BY <1>3
<1> QED BY <1>4 DEF Solution

-----------------------------------------------------------------------------
(* Scan *)

\* Every cell was written by a call there was.
KnownCells(cells) == cells \in Seq(Cell) /\ \A i \in 1 .. Len(cells) : cells[i].id \in 1 .. Len(wr)

\* Where the record with its header at offset p says that it ends.
After(cells, p) == p + Size(cells[p + 1].id)

\* The records from offset p on.
ScanStep(cells, g, p) ==
    IF CanRead(cells, p) THEN <<EntryAt(cells, p)>> \o g[p + Size(cells[p + 1].id)] ELSE <<>>
ScanFrom(cells) == CHOOSE g : g = [p \in 0 .. Len(cells) |-> ScanStep(cells, g, p)]

\* A record that can be read has its header and its key in the file, and ends in it.
LEMMA Readable ==
    ASSUME wr \in Seq(Call), NEW cells, KnownCells(cells), NEW p \in 0 .. Len(cells),
           CanRead(cells, p)
    PROVE  /\ p + 1 \in 1 .. Len(cells) /\ p + 2 \in 1 .. Len(cells)
           /\ cells[p + 1] \in Cell /\ cells[p + 2] \in Cell
           /\ cells[p + 1].id \in 1 .. Len(wr) /\ cells[p + 2].id \in 1 .. Len(wr)
           /\ Size(cells[p + 1].id) \in Nat /\ Size(cells[p + 1].id) >= 2
           /\ After(cells, p) \in p + 1 .. Len(cells) /\ EntryAt(cells, p) \in HintRecord
           /\ EntryAt(cells, p).pos = p
<1>1. Len(cells) \in Nat /\ p \in Nat /\ cells \in Seq(Cell)
  BY DEF KnownCells
<1>2. p < Len(cells) /\ p + Size(cells[p + 1].id) <= Len(cells)
  BY DEF CanRead
<1>3. p + 1 \in 1 .. Len(cells)
  BY <1>1, <1>2
<1>4. cells[p + 1].id \in 1 .. Len(wr)
  BY <1>3 DEF KnownCells
<1>5. PICK s \in Nat : s = Size(cells[p + 1].id) /\ s >= 2 /\ s = 2 + wr[cells[p + 1].id].vsize
  <2>1. PICK id \in 1 .. Len(wr) : id = cells[p + 1].id
    BY <1>4
  <2>2. wr[id].vsize \in Nat /\ Size(id) \in Nat /\ Size(id) = 2 + wr[id].vsize
    BY CallSize
  <2> QED BY <2>1, <2>2
<1>6. p + s <= Len(cells)
  BY <1>2, <1>5
<1>7. p + 2 \in 1 .. Len(cells) /\ p + s \in p + 1 .. Len(cells)
  <2>1. PICK L \in Nat : L = Len(cells)
    BY <1>1
  <2>2. p + s <= L /\ s >= 2 /\ p \in Nat /\ s \in Nat
    BY <1>1, <1>5, <1>6, <2>1
  <2>3. p + 2 \in 1 .. L /\ p + s \in p + 1 .. L
    BY <2>2
  <2> QED BY <2>1, <2>3
<1>8. cells[p + 2].id \in 1 .. Len(wr)
  BY <1>7 DEF KnownCells
<1>9. wr[cells[p + 2].id].key \in Keys /\ wr[cells[p + 1].id].vsize \in Nat
  BY <1>4, <1>8, CallSize
<1>10. EntryAt(cells, p) \in HintRecord /\ EntryAt(cells, p).pos = p
  BY <1>1, <1>9 DEF EntryAt, HintRecord
<1> QED BY <1>1, <1>3, <1>4, <1>5, <1>7, <1>8, <1>10 DEF After

\* Scan is what its recursive definition says.
LEMMA ScanUnfolds ==
    ASSUME wr \in Seq(Call), NEW cells, KnownCells(cells)
    PROVE  /\ Scan(cells) = ScanFrom(cells)[0]
           /\ \A p \in 0 .. Len(cells) : ScanFrom(cells)[p] = ScanStep(cells, ScanFrom(cells), p)
<1>1. PICK L \in Nat : L = Len(cells)
  BY DEF KnownCells
<1>2. PICK C, e, nx : /\ C  = {p \in 0 .. L : CanRead(cells, p)}
                      /\ e  = [p \in 0 .. L |-> EntryAt(cells, p)]
                      /\ nx = [p \in 0 .. L |-> p + Size(cells[p + 1].id)]
  OBVIOUS
<1>3. \A p \in 0 .. L : p \in C => nx[p] \in p + 1 .. L
  <2> SUFFICES ASSUME NEW p \in 0 .. L, CanRead(cells, p) PROVE nx[p] \in p + 1 .. L
    BY <1>2
  <2>1. After(cells, p) \in p + 1 .. L
    BY <1>1, Readable
  <2> QED BY <1>2, <2>1 DEF After
<1>4. PICK g : g = [p \in 0 .. L |-> IF p \in C THEN <<e[p]>> \o g[nx[p]] ELSE <<>>]
  <2>1. \E g : Solution(g, L, C, e, nx)
    BY <1>1, <1>3, Recursion
  <2> QED BY <2>1 DEF Solution
<1>5. g = [p \in 0 .. Len(cells) |-> ScanStep(cells, g, p)]
  <2>1. \A p \in 0 .. L : (IF p \in C THEN <<e[p]>> \o g[nx[p]] ELSE <<>>) = ScanStep(cells, g, p)
    BY <1>2 DEF ScanStep
  <2> QED BY <1>1, <1>4, <2>1
<1>6. ScanFrom(cells) = [p \in 0 .. Len(cells) |-> ScanStep(cells, ScanFrom(cells), p)]
  BY <1>5 DEF ScanFrom
<1>7. Scan(cells) = ScanFrom(cells)[0]
  BY DEF Scan, ScanFrom, ScanStep
<1>8. \A p \in 0 .. Len(cells) : ScanFrom(cells)[p] = ScanStep(cells, ScanFrom(cells), p)
  <2> DEFINE F == ScanFrom(cells)
  <2>1. F = [p \in 0 .. Len(cells) |-> ScanStep(cells, F, p)]
    BY <1>6
  <2> HIDE DEF F
  <2>2. \A p \in 0 .. Len(cells) : F[p] = ScanStep(cells, F, p)
    BY <2>1
  <2> QED BY <2>2 DEF F
<1> QED BY <1>7, <1>8

\* The entries of a sequence of hint records: each is what the file says at its offset,
\* and the offsets increase, from p on.
Entries(cells, s, p) ==
    /\ s \in Seq(HintRecord)
    /\ \A i \in 1 .. Len(s) : /\ s[i].pos \in p .. Len(cells) /\ CanRead(cells, s[i].pos)
                              /\ s[i] = EntryAt(cells, s[i].pos)
    /\ \A i, j \in 1 .. Len(s) : i < j => s[i].pos < s[j].pos

\* That is what Scan yields.
LEMMA ScanEntries ==
    ASSUME wr \in Seq(Call), NEW cells, KnownCells(cells)
    PROVE  Entries(cells, Scan(cells), 0)
<1>1. PICK L \in Nat : L = Len(cells)
  BY DEF KnownCells
<1>2. PICK F : F = ScanFrom(cells)
  OBVIOUS
<1>3. Scan(cells) = F[0] /\ \A p \in 0 .. L : F[p] = ScanStep(cells, F, p)
  BY <1>1, <1>2, ScanUnfolds
<1> DEFINE Good == {p \in 0 .. L : Entries(cells, F[p], p)}
<1>4. ASSUME NEW p \in 0 .. L, \A q \in p + 1 .. L : q \in Good
      PROVE  p \in Good
  <2>1. CASE ~CanRead(cells, p)
    <3>1. F[p] = <<>>
      BY <1>3, <2>1 DEF ScanStep
    <3>2. Entries(cells, <<>>, p)
      BY DEF Entries
    <3> QED BY <3>1, <3>2
  <2>2. CASE CanRead(cells, p)
    <3>1. PICK x \in HintRecord : x = EntryAt(cells, p) /\ x.pos = p
      BY <1>1, <2>2, Readable
    <3>2. PICK q \in p + 1 .. L : q = After(cells, p)
      BY <1>1, <2>2, Readable
    <3>3. PICK s : s = F[q]
      OBVIOUS
    <3>4. F[p] = <<x>> \o s
      BY <1>3, <2>2, <3>1, <3>2, <3>3 DEF ScanStep, After
    <3>5. Entries(cells, s, q)
      BY <1>4, <3>3
    <3>6. /\ s \in Seq(HintRecord) /\ Len(s) \in Nat
          /\ <<x>> \o s \in Seq(HintRecord) /\ Len(<<x>> \o s) = Len(s) + 1
          /\ (<<x>> \o s)[1] = x /\ \A i \in 1 .. Len(s) : (<<x>> \o s)[i + 1] = s[i]
      BY <3>5 DEF Entries
    <3>7. PICK w : w = <<x>> \o s
      OBVIOUS
    <3>8. /\ w \in Seq(HintRecord) /\ Len(w) = Len(s) + 1 /\ w[1] = x
          /\ \A i \in 2 .. Len(w) : i - 1 \in 1 .. Len(s) /\ w[i] = s[i - 1]
      <4>1. \A i \in 2 .. Len(s) + 1 : i - 1 \in 1 .. Len(s) /\ (i - 1) + 1 = i
        BY <3>6
      <4> QED BY <3>6, <3>7, <4>1
    <3>9. ASSUME NEW i \in 1 .. Len(w)
          PROVE  /\ w[i].pos \in p .. L /\ CanRead(cells, w[i].pos) /\ w[i] = EntryAt(cells, w[i].pos)
                 /\ i # 1 => w[i].pos >= q
      <4>1. CASE i = 1
        BY <2>2, <3>1, <3>8, <4>1
      <4>2. CASE i # 1
        <5>1. i \in 2 .. Len(w)
          BY <3>6, <3>8, <4>2
        <5>2. i - 1 \in 1 .. Len(s) /\ w[i] = s[i - 1]
          BY <3>8, <5>1
        <5>3. /\ s[i - 1].pos \in q .. L /\ CanRead(cells, s[i - 1].pos)
              /\ s[i - 1] = EntryAt(cells, s[i - 1].pos)
          BY <1>1, <3>5, <5>2 DEF Entries
        <5>4. s[i - 1].pos \in p .. L /\ s[i - 1].pos >= q
          BY <5>3
        <5> QED BY <5>2, <5>3, <5>4
      <4> QED BY <4>1, <4>2
    <3>10. ASSUME NEW i \in 1 .. Len(w), NEW j \in 1 .. Len(w), i < j
           PROVE  w[i].pos < w[j].pos
      <4>1. j \in 2 .. Len(w) /\ j # 1
        BY <3>6, <3>8, <3>10
      <4>2. CASE i = 1
        <5>1. w[i].pos = p /\ w[j].pos >= q /\ w[j].pos \in p .. L
          BY <3>1, <3>8, <3>9, <4>1, <4>2
        <5> QED BY <5>1
      <4>3. CASE i # 1
        <5>1. i \in 2 .. Len(w) /\ i - 1 < j - 1
          BY <3>6, <3>8, <3>10, <4>3
        <5> QED BY <3>5, <3>8, <4>1, <5>1 DEF Entries
      <4> QED BY <4>2, <4>3
    <3>11. Entries(cells, w, p)
      BY <1>1, <3>8, <3>9, <3>10 DEF Entries
    <3> QED BY <3>4, <3>7, <3>11
  <2> QED BY <2>1, <2>2
<1>5. 0 \in Good
  <2>1. 0 \in 0 .. L
    OBVIOUS
  <2> HIDE DEF Good
  <2> QED BY <1>4, <2>1, DownTo
<1> QED BY <1>3, <1>5

\* The same, as a state predicate, which therefore holds of the next state too.
Unfolds ==
    wr \in Seq(Call) =>
        \A cells : KnownCells(cells) =>
            /\ Scan(cells) = ScanFrom(cells)[0]
            /\ \A p \in 0 .. Len(cells) : ScanFrom(cells)[p] = ScanStep(cells, ScanFrom(cells), p)

\* Scan unfolds in the next state of a step.
LEMMA UnfoldsNext == Unfolds'
<1>1. Unfolds
  BY ScanUnfolds DEF Unfolds
<1> QED BY <1>1, PTL

\* Nothing that a later call does changes what a datafile says.
LEMMA ScanKept ==
    ASSUME wr \in Seq(Call), wr' \in Seq(Call), CallsKept, NEW cells, KnownCells(cells)
    PROVE  Scan(cells)' = Scan(cells) /\ KnownCells(cells)'
<1>1. PICK L \in Nat : L = Len(cells)
  BY DEF KnownCells
<1>2. KnownCells(cells)'
  BY DEF KnownCells, CallsKept
<1>3. ASSUME NEW p \in 0 .. L
      PROVE  /\ CanRead(cells, p)' <=> CanRead(cells, p)
             /\ CanRead(cells, p) => /\ EntryAt(cells, p)' = EntryAt(cells, p)
                                     /\ Size(cells[p + 1].id)' = Size(cells[p + 1].id)
  <2>1. CASE p < L
    <3>1. p + 1 \in 1 .. L
      BY <2>1
    <3>2. PICK id \in 1 .. Len(wr) : id = cells[p + 1].id
      BY <1>1, <3>1 DEF KnownCells
    <3>3. wr'[id].vsize = wr[id].vsize /\ Size(id)' = Size(id)
      BY DEF CallsKept, Size
    <3>4. CanRead(cells, p)' <=> CanRead(cells, p)
      BY <3>2, <3>3 DEF CanRead, Size
    <3>5. ASSUME CanRead(cells, p) PROVE EntryAt(cells, p)' = EntryAt(cells, p)
      <4>1. PICK k \in 1 .. Len(wr) : k = cells[p + 2].id
        BY <1>1, <3>5, Readable
      <4>2. wr'[k].key = wr[k].key
        BY DEF CallsKept
      <4> QED BY <3>2, <3>3, <4>1, <4>2 DEF EntryAt
    <3>6. Size(cells[p + 1].id)' = Size(cells[p + 1].id)
      BY <3>2, <3>3 DEF Size
    <3> QED BY <3>4, <3>5, <3>6
  <2>2. CASE ~(p < L)
    BY <1>1, <2>2 DEF CanRead
  <2> QED BY <2>1, <2>2
<1>4. PICK F, G : F = ScanFrom(cells) /\ G = ScanFrom(cells)'
  OBVIOUS
<1>5. /\ Scan(cells) = F[0] /\ Scan(cells)' = G[0]
      /\ \A p \in 0 .. L : F[p] = ScanStep(cells, F, p)
      /\ \A p \in 0 .. L : G[p] = ScanStep(cells, G, p)'
  <2>1. /\ Scan(cells) = F[0] /\ \A p \in 0 .. L : F[p] = ScanStep(cells, F, p)
    BY <1>1, <1>4, ScanUnfolds
  <2>2. /\ Scan(cells)' = ScanFrom(cells)'[0]
        /\ \A p \in 0 .. Len(cells) : ScanFrom(cells)'[p] = ScanStep(cells, ScanFrom(cells), p)'
    BY <1>2, UnfoldsNext DEF Unfolds
  <2>3. \A p \in 0 .. L : G[p] = ScanStep(cells, G, p)'
    BY <1>1, <1>4, <2>2 DEF ScanStep
  <2> QED BY <1>4, <2>1, <2>2, <2>3
<1>6. PICK Good : Good = {p \in 0 .. L : F[p] = G[p]}
  OBVIOUS
<1>7. ASSUME NEW p \in 0 .. L, \A q \in p + 1 .. L : q \in Good
      PROVE  p \in Good
  <2>1. CASE ~CanRead(cells, p)
    BY <1>3, <1>5, <1>6, <2>1 DEF ScanStep
  <2>2. CASE CanRead(cells, p)
    <3>1. PICK q \in p + 1 .. L : q = p + Size(cells[p + 1].id)
      BY <1>1, <2>2, Readable DEF After
    <3>2. F[q] = G[q]
      BY <1>6, <1>7
    <3>3. F[p] = <<EntryAt(cells, p)>> \o F[q]
      BY <1>5, <2>2, <3>1 DEF ScanStep
    <3>4. G[p] = <<EntryAt(cells, p)>> \o G[q]
      BY <1>3, <1>5, <2>2, <3>1 DEF ScanStep
    <3> QED BY <1>6, <3>2, <3>3, <3>4
  <2> QED BY <2>1, <2>2
<1>8. 0 \in Good
  <2>1. \A p \in 0 .. L : p \in Good
    BY <1>1, <1>7, DownTo
  <2> QED BY <1>1, <2>1
<1> QED BY <1>2, <1>5, <1>6, <1>8

\* A scan that goes from one of the offsets B to the next and stops behind all of the
\* offsets W has an entry at each of W.
LEMMA ScanComplete ==
    ASSUME wr \in Seq(Call), NEW cells, KnownCells(cells), NEW W, W \in SUBSET Nat,
           NEW B, 0 \in B,
           \A p \in B : p \in 0 .. Len(cells) /\ CanRead(cells, p) =>
              /\ After(cells, p) \in B
              /\ \A q \in W : q > p => q >= After(cells, p),
           \A p \in B : p \in 0 .. Len(cells) /\ ~CanRead(cells, p) => \A q \in W : q < p
    PROVE  \A q \in W : \E i \in 1 .. Len(Scan(cells)) : Scan(cells)[i].pos = q
<1>1. PICK L \in Nat : L = Len(cells)
  BY DEF KnownCells
<1>2. PICK F : F = ScanFrom(cells)
  OBVIOUS
<1>3. Scan(cells) = F[0] /\ \A p \in 0 .. L : F[p] = ScanStep(cells, F, p)
  BY <1>1, <1>2, ScanUnfolds
<1>4. PICK Good : Good = {p \in 0 .. L :
           /\ F[p] \in Seq(HintRecord)
           /\ p \in B => \A q \in W : q >= p => \E i \in 1 .. Len(F[p]) : F[p][i].pos = q}
  OBVIOUS
<1>5. ASSUME NEW p \in 0 .. L, \A q \in p + 1 .. L : q \in Good
      PROVE  p \in Good
  <2>1. CASE ~CanRead(cells, p)
    <3>1. F[p] = <<>>
      BY <1>3, <2>1 DEF ScanStep
    <3>2. p \in B => \A q \in W : q < p
      BY <1>1, <2>1
    <3>3. p \in B => \A q \in W : ~(q >= p)
      BY <3>2
    <3>4. <<>> \in Seq(HintRecord)
      OBVIOUS
    <3> QED BY <1>4, <3>1, <3>3, <3>4
  <2>2. CASE CanRead(cells, p)
    <3>1. PICK x \in HintRecord : x = EntryAt(cells, p) /\ x.pos = p
      BY <1>1, <2>2, Readable
    <3>2. PICK n \in p + 1 .. L : n = After(cells, p)
      BY <1>1, <2>2, Readable
    <3>3. PICK s : s = F[n]
      OBVIOUS
    <3>4. /\ s \in Seq(HintRecord)
          /\ n \in B => \A q \in W : q >= n => \E i \in 1 .. Len(s) : s[i].pos = q
      BY <1>4, <1>5, <3>3
    <3>5. PICK w : w = <<x>> \o s
      OBVIOUS
    <3>6. F[p] = w
      BY <1>3, <2>2, <3>1, <3>2, <3>3, <3>5 DEF ScanStep, After
    <3>7. /\ w \in Seq(HintRecord) /\ Len(w) = Len(s) + 1 /\ Len(s) \in Nat
          /\ w[1] = x /\ \A i \in 1 .. Len(s) : i + 1 \in 1 .. Len(w) /\ w[i + 1] = s[i]
      BY <3>4, <3>5
    <3>8. ASSUME p \in B, NEW q \in W, q >= p
          PROVE  \E i \in 1 .. Len(w) : w[i].pos = q
      <4>1. CASE q = p
        <5>1. 1 \in 1 .. Len(w)
          BY <3>7
        <5> QED BY <3>1, <3>7, <4>1, <5>1
      <4>2. CASE q # p
        <5>1. n \in B /\ q >= n
          BY <1>1, <2>2, <3>2, <3>8, <4>2
        <5>2. PICK i \in 1 .. Len(s) : s[i].pos = q
          BY <3>4, <5>1
        <5> QED BY <3>7, <5>2
      <4> QED BY <4>1, <4>2
    <3> QED BY <1>4, <3>6, <3>7, <3>8
  <2> QED BY <2>1, <2>2
<1>6. 0 \in Good
  <2>1. \A p \in 0 .. L : p \in Good
    BY <1>1, <1>5, DownTo
  <2> QED BY <1>1, <2>1
<1> QED BY <1>3, <1>4, <1>6

\* The largest element of a bounded set of naturals.
LEMMA MaxIs ==
    ASSUME NEW S \in SUBSET Nat, S # {}, NEW b \in Nat, \A x \in S : x <= b
    PROVE  Max(S) \in S /\ \A x \in S : x <= Max(S)
<1>1. PICK T : T = {n \in Nat : \E x \in S : n = b - x}
  OBVIOUS
<1>2. \A x \in S : b - x \in T
  BY <1>1
<1>3. PICK m \in T : \A n \in T : m <= n
  <2>1. T \in SUBSET Nat /\ T # {}
    BY <1>1, <1>2
  <2> QED BY <2>1, LeastNat
<1>4. PICK x \in S : m = b - x
  BY <1>1, <1>3
<1>5. \A y \in S : x >= y
  BY <1>2, <1>3, <1>4
<1>6. \E z \in S : \A y \in S : z >= y
  BY <1>5
<1>7. Max(S) \in S /\ \A y \in S : Max(S) >= y
  BY <1>6 DEF Max
<1> QED BY <1>7

=============================================================================
