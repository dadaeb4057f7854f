----------------------- MODULE ScannerSickS300_proofs -----------------------
(***************************************************************************)
(* Proofs that the receive buffer keeps the stream of cells in order and   *)
(* leaves no scan behind, and that the class implements the scan source    *)
(* the node relies on: for telegrams, buffers and queues of any size.      *)
(***************************************************************************)
EXTENDS ScannerSickS300, FiniteSetTheorems, SequenceTheorems,
        WellFoundedInduction, TLAPS

-----------------------------------------------------------------------------
(***************************************************************************)
(* Cells, scans and parts of a stream.                                     *)
(***************************************************************************)
LEMMA SizesNat ==
  /\ TelegramSize \in Nat /\ TelegramSize >= 1
  /\ BufSize \in Nat /\ BufSize >= 1 /\ TtySize \in Nat /\ MaxNoise \in Nat
  BY SizeAssumption

LEMMA CellFields ==
  ASSUME NEW c \in Cells
  PROVE  /\ c.id \in Nat /\ c.pos \in 0 .. TelegramSize + MaxNoise /\ c.pos \in Int
         /\ \A p \in 0 .. TelegramSize + MaxNoise :
              LET d == [c EXCEPT !.pos = p]
              IN  d \in Cells /\ d.id = c.id /\ d.kind = c.kind /\ d.pos = p
<1>1. c.pos \in 0 .. TelegramSize + MaxNoise /\ c.id \in Nat
  BY DEF Cells
<1>2. c.pos \in Int
  BY <1>1, SizesNat
<1>3. QED
  BY <1>1, <1>2 DEF Cells

LEMMA JunkCell == Junk \in Sendable /\ Junk \in Cells /\ Junk.id = 0
  BY SizesNat DEF Junk, Cells, Sendable

\* The order in which cells are sent.
LEMMA BeforeTransitive ==
  ASSUME NEW a \in Cells, NEW b \in Cells, NEW c \in Cells,
         Before(a, b), Before(b, c)
  PROVE  Before(a, c)
<1>1. /\ a.id \in Nat /\ b.id \in Nat /\ c.id \in Nat
      /\ a.pos \in Int /\ b.pos \in Int /\ c.pos \in Int
  BY CellFields
<1>2. QED
  BY <1>1 DEF Before

\* The cells of a complete scan.
LEMMA ScanCells ==
  ASSUME NEW s, NEW i \in Nat, NEW m, parseHeader(s, i, m), s[i + 1] \in Cells
  PROVE  /\ s[i + 1].id > 0 /\ s[i + 1].pos = 1
         /\ \A p \in 1 .. TelegramSize :
              /\ s[i + p].id = s[i + 1].id /\ s[i + p].kind = s[i + 1].kind
              /\ s[i + p].pos = p /\ s[i + p] # Junk
<1>1. /\ s[i + 1].id > 0
      /\ \A p \in 1 .. TelegramSize : s[i + p] = [s[i + 1] EXCEPT !.pos = p]
  BY DEF parseHeader
<1>2. ASSUME NEW p \in 1 .. TelegramSize
      PROVE  /\ s[i + p].id = s[i + 1].id /\ s[i + p].kind = s[i + 1].kind
             /\ s[i + p].pos = p
  <2>1. p \in 0 .. TelegramSize + MaxNoise
    BY SizesNat
  <2>2. s[i + p] = [s[i + 1] EXCEPT !.pos = p]
    BY <1>1
  <2>3. LET d == [s[i + 1] EXCEPT !.pos = p]
        IN  d.id = s[i + 1].id /\ d.kind = s[i + 1].kind /\ d.pos = p
    BY <2>1, CellFields
  <2>4. QED
    BY <2>2, <2>3
<1>3. \A p \in 1 .. TelegramSize : s[i + p] # Junk
  <2>1. s[i + 1].id # 0
    BY <1>1, CellFields
  <2>2. QED
    BY <1>2, <2>1, JunkCell
<1>4. 1 \in 1 .. TelegramSize
  BY SizesNat
<1>5. QED
  BY <1>1, <1>2, <1>3, <1>4

\* Whether there is a scan depends on the cells that would be its.
LEMMA SameScan ==
  ASSUME NEW r, NEW s, NEW i \in Nat, NEW j \in Nat, NEW l, NEW m,
         TelegramSize <= l, TelegramSize <= m,
         \A p \in 1 .. TelegramSize : r[i + p] = s[j + p]
  PROVE  parseHeader(r, i, l) <=> parseHeader(s, j, m)
<1>1. 1 \in 1 .. TelegramSize
  BY SizesNat
<1>2. r[i + 1] = s[j + 1]
  BY <1>1
<1>3. QED
  BY <1>2 DEF parseHeader

\* The offsets of the scans of a sequence.
LEMMA Offsets ==
  ASSUME NEW s \in Seq(Cells), NEW i
  PROVE  /\ i \in ScanOffsets(s) <=>
              /\ i \in Nat /\ i + TelegramSize <= Len(s)
              /\ parseHeader(s, i, Len(s) - i)
         /\ i \in ScanOffsets(s) =>
              /\ \A p \in 1 .. TelegramSize : i + p \in 1 .. Len(s)
              /\ s[i + 1] \in Cells
<1>1. Len(s) \in Nat
  OBVIOUS
<1>2. i \in ScanOffsets(s) <=>
        /\ i \in Nat /\ i + TelegramSize <= Len(s)
        /\ parseHeader(s, i, Len(s) - i)
  BY <1>1, SizesNat DEF ScanOffsets
<1>3. ASSUME i \in ScanOffsets(s)
      PROVE  \A p \in 1 .. TelegramSize : i + p \in 1 .. Len(s)
  BY <1>1, <1>2, <1>3, SizesNat
<1>4. ASSUME i \in ScanOffsets(s) PROVE s[i + 1] \in Cells
  <2>1. i + 1 \in 1 .. Len(s)
    BY <1>3, <1>4, SizesNat
  <2>2. QED
    BY <2>1
<1>5. QED
  BY <1>2, <1>3, <1>4

\* Scans of an ordered stream follow each other without overlap, and the later
\* one is the newer one.
LEMMA ScanOrder ==
  ASSUME NEW s \in Seq(Cells), NEW id, InOrder(s, id),
         NEW i \in ScanOffsets(s), NEW j \in ScanOffsets(s), i < j
  PROVE  /\ i + TelegramSize <= j
         /\ s[i + 1].id < s[j + 1].id
<1>1. /\ i \in Nat /\ j \in Nat /\ i + 1 \in 1 .. Len(s) /\ j + 1 \in 1 .. Len(s)
      /\ parseHeader(s, i, Len(s) - i) /\ parseHeader(s, j, Len(s) - j)
      /\ s[i + 1] \in Cells /\ s[j + 1] \in Cells
  BY Offsets, SizesNat
<1>2. /\ s[i + 1].pos = 1 /\ s[j + 1].pos = 1
      /\ s[i + 1] # Junk /\ s[j + 1] # Junk
      /\ \A p \in 1 .. TelegramSize : s[i + p].pos = p
  <2>1. 1 \in 1 .. TelegramSize
    BY SizesNat
  <2>2. QED
    BY <1>1, <2>1, ScanCells
<1>3. i + TelegramSize <= j
  <2>1. SUFFICES ASSUME j < i + TelegramSize PROVE FALSE
    BY <1>1, SizesNat
  <2>2. j - i + 1 \in 1 .. TelegramSize /\ i + (j - i + 1) = j + 1 /\ j - i + 1 # 1
    BY <1>1, <2>1, SizesNat
  <2>3. QED
    BY <1>2, <2>2
<1>4. Before(s[i + 1], s[j + 1])
  <2>1. i + 1 < j + 1
    BY <1>1
  <2>2. QED
    BY <1>1, <1>2, <2>1 DEF InOrder
<1>5. s[i + 1].id < s[j + 1].id
  BY <1>2, <1>4 DEF Before
<1>6. QED
  BY <1>3, <1>5

\* r is the part of s behind the first c cells.
PartOf(r, s, c) ==
  /\ r \in Seq(Cells) /\ s \in Seq(Cells) /\ c \in Nat
  /\ Len(r) + c <= Len(s)
  /\ \A k \in 1 .. Len(r) : r[k] = s[k + c]

LEMMA PartInOrder ==
  ASSUME NEW r, NEW s, NEW c, PartOf(r, s, c), NEW id, InOrder(s, id)
  PROVE  InOrder(r, id)
<1>1. /\ Len(r) \in Nat /\ Len(s) \in Nat /\ c \in Nat /\ Len(r) + c <= Len(s)
      /\ \A k \in 1 .. Len(r) : r[k] = s[k + c]
  BY DEF PartOf
<1>2. \A k \in 1 .. Len(r) : k + c \in 1 .. Len(s)
  BY <1>1
<1>3. \A k, l \in 1 .. Len(r) : k < l => k + c < l + c
  BY <1>1
<1>4. QED
  BY <1>1, <1>2, <1>3 DEF InOrder

LEMMA PartSent ==
  ASSUME NEW r, NEW s, NEW c, PartOf(r, s, c), NEW cell, SentBy(s, cell)
  PROVE  SentBy(r, cell)
<1>1. /\ Len(r) \in Nat /\ Len(s) \in Nat /\ c \in Nat /\ Len(r) + c <= Len(s)
      /\ \A k \in 1 .. Len(r) : r[k] = s[k + c]
  BY DEF PartOf
<1>2. \A k \in 1 .. Len(r) : k + c \in 1 .. Len(s)
  BY <1>1
<1>3. QED
  BY <1>1, <1>2 DEF SentBy

LEMMA FewerWithin ==
  ASSUME NEW c \in Cells, NEW d \in Cells, NEW n \in Int, NEW m \in Int,
         m <= n, Within(n, c, d)
  PROVE  Within(m, c, d)
<1>1. c.pos \in Int /\ d.pos \in Int
  BY CellFields
<1>2. QED
  BY <1>1, SizesNat DEF Within

LEMMA PartNothingInserted ==
  ASSUME NEW r, NEW s, NEW c, PartOf(r, s, c), NEW cell \in Cells,
         NothingInserted(s, cell)
  PROVE  NothingInserted(r, cell)
<1>1. /\ Len(r) \in Nat /\ Len(s) \in Nat /\ c \in Nat /\ Len(r) + c <= Len(s)
      /\ \A k \in 1 .. Len(r) : r[k] = s[k + c]
      /\ s \in Seq(Cells)
  BY DEF PartOf
<1>2. \A k \in 1 .. Len(r) : k + c \in 1 .. Len(s) /\ s[k + c] \in Cells
  BY <1>1
<1>3. ASSUME NEW k \in 1 .. Len(r), r[k] # Junk
      PROVE  Within(Len(r) - k, r[k], cell)
  <2>1. Within(Len(s) - (k + c), s[k + c], cell)
    BY <1>1, <1>2, <1>3 DEF NothingInserted
  <2>2. /\ Len(r) - k <= Len(s) - (k + c)
        /\ Len(r) - k \in Int /\ Len(s) - (k + c) \in Int
    BY <1>1
  <2>3. Within(Len(r) - k, s[k + c], cell)
    BY <1>2, <2>1, <2>2, FewerWithin
  <2>4. QED
    BY <1>1, <2>3
<1>4. ASSUME NEW k \in 1 .. Len(r), NEW l \in 1 .. Len(r), k < l,
             r[k] # Junk, r[l] # Junk
      PROVE  Within(l - k, r[k], r[l])
  <2>1. k + c < l + c /\ (l + c) - (k + c) = l - k
    BY <1>1, <1>4
  <2>2. Within((l + c) - (k + c), s[k + c], s[l + c])
    BY <1>1, <1>2, <1>4, <2>1 DEF NothingInserted
  <2>3. QED
    BY <1>1, <2>1, <2>2
<1>5. QED
  BY <1>3, <1>4 DEF NothingInserted

\* The scans of a part are those of the whole that lie in it.
LEMMA PartScans ==
  ASSUME NEW r, NEW s, NEW c, PartOf(r, s, c), NEW i
  PROVE  i \in ScanOffsets(r) <=>
           /\ i \in Nat /\ i + TelegramSize <= Len(r)
           /\ i + c \in ScanOffsets(s)
<1>1. /\ r \in Seq(Cells) /\ s \in Seq(Cells)
      /\ Len(r) \in Nat /\ Len(s) \in Nat /\ c \in Nat /\ Len(r) + c <= Len(s)
      /\ \A k \in 1 .. Len(r) : r[k] = s[k + c]
  BY DEF PartOf
<1>2. SUFFICES ASSUME i \in Nat, i + TelegramSize <= Len(r)
               PROVE  i \in ScanOffsets(r) <=> i + c \in ScanOffsets(s)
  BY <1>1, Offsets
<1>3. /\ i + c \in Nat /\ i + c + TelegramSize <= Len(s)
      /\ TelegramSize <= Len(r) - i /\ TelegramSize <= Len(s) - (i + c)
  BY <1>1, <1>2, SizesNat
<1>4. \A p \in 1 .. TelegramSize : r[i + p] = s[i + c + p]
  <2>1. TAKE p \in 1 .. TelegramSize
  <2>2. i + p \in 1 .. Len(r) /\ i + p + c = i + c + p
    BY <1>1, <1>2, SizesNat
  <2>3. QED
    BY <1>1, <2>2
<1>5. parseHeader(r, i, Len(r) - i) <=> parseHeader(s, i + c, Len(s) - (i + c))
  <2> DEFINE j == i + c
             l == Len(r) - i
             m == Len(s) - j
  <2>1. /\ i \in Nat /\ j \in Nat /\ TelegramSize <= l /\ TelegramSize <= m
        /\ \A p \in 1 .. TelegramSize : r[i + p] = s[j + p]
    BY <1>2, <1>3, <1>4
  <2> HIDE DEF j, l, m
  <2>2. parseHeader(r, i, l) <=> parseHeader(s, j, m)
    BY <2>1, SameScan
  <2>3. QED
    BY <2>2 DEF j, l, m
<1>6. QED
  BY <1>1, <1>2, <1>3, <1>5, Offsets

-----------------------------------------------------------------------------
(***************************************************************************)
(* What is left of the scans of a stream when its first cells are dropped. *)
(***************************************************************************)
Later(scans, t) == {u \in scans : u.id > t.id}

ScanAt(s, i) == [id |-> s[i + 1].id, kind |-> s[i + 1].kind]

LEMMA ScanIn ==
  ASSUME NEW s
  PROVE  ScansIn(s) = {ScanAt(s, i) : i \in ScanOffsets(s)}
  BY DEF ScansIn, ScanAt

\* The scans of a part, by their place in the whole.
LEMMA ScansOfPart ==
  ASSUME NEW r, NEW s, NEW c, PartOf(r, s, c), Len(r) + c = Len(s)
  PROVE  ScansIn(r) = {ScanAt(s, i) : i \in {k \in ScanOffsets(s) : k >= c}}
<1>1. /\ r \in Seq(Cells) /\ s \in Seq(Cells)
      /\ Len(r) \in Nat /\ Len(s) \in Nat /\ c \in Nat
      /\ \A k \in 1 .. Len(r) : r[k] = s[k + c]
  BY DEF PartOf
<1>2. ASSUME NEW i \in ScanOffsets(r)
      PROVE  /\ i + c \in ScanOffsets(s) /\ i + c >= c
             /\ ScanAt(r, i) = ScanAt(s, i + c)
  <2>1. /\ i \in Nat /\ i + TelegramSize <= Len(r) /\ i + c \in ScanOffsets(s)
    BY PartScans
  <2>2. i + 1 \in 1 .. Len(r) /\ i + 1 + c = i + c + 1
    BY <1>1, <2>1, SizesNat
  <2>3. r[i + 1] = s[i + c + 1]
    BY <1>1, <2>2
  <2>4. QED
    BY <1>1, <2>1, <2>3 DEF ScanAt
<1>3. ASSUME NEW j \in ScanOffsets(s), j >= c
      PROVE  j - c \in ScanOffsets(r) /\ j - c + c = j
  <2>1. j \in Nat /\ j + TelegramSize <= Len(s)
    BY <1>1, Offsets
  <2>2. j - c \in Nat /\ j - c + TelegramSize <= Len(r) /\ j - c + c = j
    BY <1>1, <1>3, <2>1, SizesNat
  <2>3. QED
    BY <2>2, PartScans
<1>4. ScansIn(r) \subseteq {ScanAt(s, i) : i \in {k \in ScanOffsets(s) : k >= c}}
  BY <1>2, ScanIn
<1>5. ASSUME NEW j \in ScanOffsets(s), j >= c
      PROVE  ScanAt(s, j) \in ScansIn(r)
  <2>1. j - c \in ScanOffsets(r) /\ j - c + c = j
    BY <1>3, <1>5
  <2>2. ScanAt(r, j - c) = ScanAt(s, j)
    BY <1>2, <2>1
  <2>3. QED
    BY <2>1, <2>2, ScanIn
<1>6. QED
  BY <1>4, <1>5

\* Dropped with all that follows it up to its end, a scan takes with it the
\* scans that are not newer.
LEMMA DroppedThrough ==
  ASSUME NEW r, NEW s, NEW i \in ScanOffsets(s), PartOf(r, s, i + TelegramSize),
         Len(r) + i + TelegramSize = Len(s), NEW id, InOrder(s, id)
  PROVE  ScansIn(r) = Later(ScansIn(s), ScanAt(s, i))
<1>1. s \in Seq(Cells) /\ i \in Nat
  BY Offsets DEF PartOf
<1>2. \A j \in ScanOffsets(s) :
        /\ j \in Nat /\ s[j + 1].id \in Nat
        /\ j < i => s[j + 1].id < s[i + 1].id
        /\ i < j => i + TelegramSize <= j /\ s[i + 1].id < s[j + 1].id
  <2>1. TAKE j \in ScanOffsets(s)
  <2>2. j \in Nat /\ s[j + 1] \in Cells
    BY <1>1, Offsets
  <2>3. QED
    BY <1>1, <2>2, ScanOrder, CellFields
<1>3. \A j \in ScanOffsets(s) : j >= i + TelegramSize <=> s[j + 1].id > s[i + 1].id
  <2>1. TAKE j \in ScanOffsets(s)
  <2>2. CASE j = i
    BY <1>1, <1>2, <2>2, SizesNat
  <2>3. CASE j < i
    BY <1>1, <1>2, <2>3, SizesNat
  <2>4. CASE j > i
    BY <1>1, <1>2, <2>4, SizesNat
  <2>5. QED
    BY <1>1, <1>2, <2>2, <2>3, <2>4
<1>4. ScansIn(r) =
        {ScanAt(s, j) : j \in {k \in ScanOffsets(s) : k >= i + TelegramSize}}
  <2>1. Len(r) + (i + TelegramSize) = Len(s)
    BY <1>1, SizesNat DEF PartOf
  <2>2. QED
    BY <2>1, ScansOfPart
<1>5. \A j : ScanAt(s, j).id = s[j + 1].id
  BY DEF ScanAt
<1>6. QED
  BY <1>3, <1>4, <1>5, ScanIn DEF Later

\* If no scan lies in the cells that are dropped, at most the oldest one is
\* dropped with them.
LEMMA DroppedPartly ==
  ASSUME NEW r, NEW s, NEW c, PartOf(r, s, c), Len(r) + c = Len(s),
         NEW id, InOrder(s, id), \A i \in ScanOffsets(s) : i + TelegramSize > c
  PROVE  \/ ScansIn(r) = ScansIn(s)
         \/ \E t \in ScansIn(s) :
              /\ \A u \in ScansIn(s) : t.id <= u.id
              /\ ScansIn(r) = Later(ScansIn(s), t)
<1>1. s \in Seq(Cells) /\ c \in Nat /\ \A j \in ScanOffsets(s) : j \in Nat
  BY Offsets DEF PartOf
<1>2. ScansIn(r) = {ScanAt(s, j) : j \in {k \in ScanOffsets(s) : k >= c}}
  BY ScansOfPart
<1>3. CASE \A j \in ScanOffsets(s) : j >= c
  BY <1>2, <1>3, ScanIn
<1>4. CASE \E j \in ScanOffsets(s) : j < c
  <2>1. PICK i \in ScanOffsets(s) : i < c
    BY <1>4
  <2>2. ASSUME NEW j \in ScanOffsets(s)
        PROVE  /\ s[j + 1].id \in Nat /\ s[i + 1].id \in Nat
               /\ j # i => j >= c /\ s[i + 1].id < s[j + 1].id
               /\ j = i => j < c
    <3>1. i \in Nat /\ j \in Nat /\ s[j + 1] \in Cells /\ s[i + 1] \in Cells
      BY <1>1, Offsets
    <3>2. s[j + 1].id \in Nat /\ s[i + 1].id \in Nat
      BY <3>1, CellFields
    <3>3. CASE j < i
      <4>1. j + TelegramSize <= i
        BY <1>1, <3>3, ScanOrder
      <4>2. FALSE
        BY <1>1, <2>1, <3>1, <4>1, SizesNat
      <4>3. QED
        BY <4>2
    <3>4. CASE i < j
      <4>1. i + TelegramSize <= j /\ s[i + 1].id < s[j + 1].id
        BY <1>1, <3>4, ScanOrder
      <4>2. j >= c
        BY <1>1, <3>1, <4>1, SizesNat
      <4>3. QED
        BY <3>1, <3>2, <3>4, <4>1, <4>2
    <3>5. CASE i = j
      BY <2>1, <3>2, <3>5
    <3>6. QED
      BY <3>1, <3>3, <3>4, <3>5
  <2>3. \A j : ScanAt(s, j).id = s[j + 1].id
    BY DEF ScanAt
  <2>4. ScanAt(s, i) \in ScansIn(s)
    BY ScanIn
  <2>5. \A u \in ScansIn(s) : ScanAt(s, i).id <= u.id
    <3>1. \A j \in ScanOffsets(s) : s[i + 1].id <= s[j + 1].id
      BY <2>2
    <3>2. QED
      BY <2>3, <3>1, ScanIn
  <2>6. \A j \in ScanOffsets(s) : j >= c <=> s[j + 1].id > s[i + 1].id
    BY <1>1, <2>2
  <2>7. ScansIn(r) = Later(ScansIn(s), ScanAt(s, i))
    BY <1>2, <2>3, <2>6, ScanIn DEF Later
  <2>8. QED
    BY <2>4, <2>5, <2>7
<1>5. QED
  BY <1>1, <1>3, <1>4

\* A cell arrives behind those of s.
ExtendedBy(r, s, cell) ==
  /\ r \in Seq(Cells) /\ s \in Seq(Cells) /\ cell \in Cells
  /\ Len(r) = Len(s) + 1
  /\ \A k \in 1 .. Len(s) : r[k] = s[k]
  /\ r[Len(s) + 1] = cell

LEMMA ExtendedInOrder ==
  ASSUME NEW r, NEW s, NEW cell, ExtendedBy(r, s, cell), NEW id \in Nat, InOrder(s, id),
         cell # Junk => cell.id > id /\ \A k \in 1 .. Len(s) :
                                          s[k] # Junk => Before(s[k], cell)
  PROVE  InOrder(r, id)
<1>1. /\ Len(s) \in Nat /\ Len(r) = Len(s) + 1
      /\ \A k \in 1 .. Len(s) : r[k] = s[k]
      /\ r[Len(s) + 1] = cell
  BY DEF ExtendedBy
<1>2. \A k \in 1 .. Len(r) : k \in 1 .. Len(s) \/ k = Len(s) + 1
  BY <1>1
<1>3. \A k, l \in 1 .. Len(r) : k < l => k \in 1 .. Len(s)
  BY <1>1
<1>4. /\ \A k \in 1 .. Len(s) : s[k] # Junk => s[k].id > id
      /\ \A k, l \in 1 .. Len(s) :
           s[k] # Junk /\ s[l] # Junk /\ k < l => Before(s[k], s[l])
  BY DEF InOrder
<1>5. \A k \in 1 .. Len(r) : r[k] # Junk => r[k].id > id
  BY <1>1, <1>2, <1>4
<1>6. \A k, l \in 1 .. Len(r) :
        r[k] # Junk /\ r[l] # Junk /\ k < l => Before(r[k], r[l])
  BY <1>1, <1>2, <1>3, <1>4
<1>7. QED
  BY <1>5, <1>6 DEF InOrder

LEMMA ExtendedSent ==
  ASSUME NEW r, NEW s, NEW cell, ExtendedBy(r, s, cell), NEW sent,
         SentBy(s, sent), cell # Junk => cell = sent
  PROVE  SentBy(r, sent)
<1>1. /\ Len(s) \in Nat /\ Len(r) = Len(s) + 1
      /\ \A k \in 1 .. Len(s) : r[k] = s[k]
      /\ r[Len(s) + 1] = cell
  BY DEF ExtendedBy
<1>2. \A k \in 1 .. Len(r) : k \in 1 .. Len(s) \/ k = Len(s) + 1
  BY <1>1
<1>3. QED
  BY <1>1, <1>2 DEF SentBy

LEMMA ExtendedNothingInserted ==
  ASSUME NEW r, NEW s, NEW cell, ExtendedBy(r, s, cell), NEW sent \in Cells,
         cell # Junk => cell = sent,
         \A k \in 1 .. Len(s) : s[k] # Junk => Within(Len(s) + 1 - k, s[k], sent),
         \A k, l \in 1 .. Len(s) :
           s[k] # Junk /\ s[l] # Junk /\ k < l => Within(l - k, s[k], s[l])
  PROVE  NothingInserted(r, sent)
<1>1. /\ Len(s) \in Nat /\ Len(r) = Len(s) + 1
      /\ \A k \in 1 .. Len(s) : r[k] = s[k]
      /\ r[Len(s) + 1] = cell
  BY DEF ExtendedBy
<1>2. \A k \in 1 .. Len(r) : k \in 1 .. Len(s) \/ k = Len(s) + 1
  BY <1>1
<1>3. \A k, l \in 1 .. Len(r) : k < l => k \in 1 .. Len(s)
  BY <1>1
<1>4. Within(0, sent, sent)
  <2>1. sent.id \in Nat /\ sent.pos \in Int
    BY CellFields
  <2>2. QED
    BY <2>1 DEF Within
<1>5. ASSUME NEW k \in 1 .. Len(r), r[k] # Junk
      PROVE  Within(Len(r) - k, r[k], sent)
  <2>1. CASE k \in 1 .. Len(s)
    BY <1>1, <1>5, <2>1
  <2>2. CASE k = Len(s) + 1
    <3>1. Len(r) - k = 0 /\ r[k] = sent
      BY <1>1, <1>5, <2>2
    <3>2. QED
      BY <1>4, <3>1
  <2>3. QED
    BY <1>2, <2>1, <2>2
<1>6. ASSUME NEW k \in 1 .. Len(r), NEW l \in 1 .. Len(r), k < l,
             r[k] # Junk, r[l] # Junk
      PROVE  Within(l - k, r[k], r[l])
  <2>1. k \in 1 .. Len(s) /\ r[k] = s[k]
    BY <1>1, <1>3, <1>6
  <2>2. CASE l \in 1 .. Len(s)
    BY <1>1, <1>6, <2>1, <2>2
  <2>3. CASE l = Len(s) + 1
    <3>1. r[l] = sent
      BY <1>1, <1>6, <2>3
    <3>2. Within(Len(s) + 1 - k, s[k], sent)
      BY <1>6, <2>1
    <3>3. QED
      BY <2>1, <2>3, <3>1, <3>2
  <2>4. QED
    BY <1>2, <2>2, <2>3
<1>7. QED
  BY <1>5, <1>6 DEF NothingInserted

\* Only the last cell of a telegram completes a scan, and only its own.
LEMMA ExtendedScans ==
  ASSUME NEW r, NEW s, NEW cell, ExtendedBy(r, s, cell)
  PROVE  \/ ScansIn(r) = ScansIn(s)
         \/ /\ cell # Junk /\ cell.pos = TelegramSize
            /\ ScansIn(r) = ScansIn(s) \cup {[id |-> cell.id, kind |-> cell.kind]}
<1> DEFINE last == Len(s) + 1 - TelegramSize
<1>1. /\ r \in Seq(Cells) /\ s \in Seq(Cells)
      /\ Len(s) \in Nat /\ Len(r) = Len(s) + 1
      /\ \A k \in 1 .. Len(s) : r[k] = s[k]
      /\ r[Len(s) + 1] = cell
  BY DEF ExtendedBy
<1>2. ASSUME NEW i \in Nat, i + TelegramSize <= Len(s)
      PROVE  /\ i \in ScanOffsets(r) <=> i \in ScanOffsets(s)
             /\ ScanAt(r, i) = ScanAt(s, i)
  <2> DEFINE l == Len(r) - i
             m == Len(s) - i
  <2>1. /\ TelegramSize <= l /\ TelegramSize <= m /\ i + TelegramSize <= Len(r)
        /\ \A p \in 1 .. TelegramSize : i + p \in 1 .. Len(s)
    BY <1>1, <1>2, SizesNat
  <2>2. \A p \in 1 .. TelegramSize : r[i + p] = s[i + p]
    BY <1>1, <2>1
  <2>3. r[i + 1] = s[i + 1]
    BY <2>2, SizesNat
  <2> HIDE DEF l, m
  <2>4. parseHeader(r, i, l) <=> parseHeader(s, i, m)
    BY <2>1, <2>2, SameScan
  <2>5. i \in ScanOffsets(r) <=> i \in ScanOffsets(s)
    BY <1>1, <1>2, <2>1, <2>4, Offsets DEF l, m
  <2>6. QED
    BY <2>3, <2>5 DEF ScanAt
<1>3. \A i \in ScanOffsets(s) : i \in Nat /\ i + TelegramSize <= Len(s)
  BY <1>1, Offsets
<1>4. \A i \in ScanOffsets(r) : i \in Nat /\ (i + TelegramSize <= Len(s) \/ i = last)
  <2>1. \A i \in ScanOffsets(r) : i \in Nat /\ i + TelegramSize <= Len(r)
    BY <1>1, Offsets
  <2>2. QED
    BY <1>1, <2>1, SizesNat
<1>5. {ScanAt(r, i) : i \in ScanOffsets(s)} = ScansIn(s)
      /\ ScanOffsets(s) \subseteq ScanOffsets(r)
  BY <1>2, <1>3, ScanIn
<1>6. CASE last \notin ScanOffsets(r)
  <2>1. ScanOffsets(r) \subseteq ScanOffsets(s)
    BY <1>2, <1>4, <1>6
  <2>2. ScanOffsets(r) = ScanOffsets(s)
    BY <1>5, <2>1
  <2>3. QED
    BY <1>5, <2>2, ScanIn
<1>7. CASE last \in ScanOffsets(r)
  <2>1. /\ last \in Nat /\ r[last + 1] \in Cells /\ parseHeader(r, last, Len(r) - last)
        /\ last + TelegramSize = Len(s) + 1 /\ TelegramSize \in 1 .. TelegramSize
    <3>1. last + TelegramSize = Len(s) + 1 /\ TelegramSize \in 1 .. TelegramSize
      BY <1>1, SizesNat
    <3> HIDE DEF last
    <3>2. /\ last \in Nat /\ r[last + 1] \in Cells
          /\ parseHeader(r, last, Len(r) - last)
      BY <1>1, <1>7, Offsets
    <3>3. QED
      BY <3>1, <3>2
  <2> HIDE DEF last
  <2>2. /\ cell.id = r[last + 1].id /\ cell.kind = r[last + 1].kind
        /\ cell.pos = TelegramSize /\ cell # Junk
    <3>1. /\ r[last + TelegramSize].id = r[last + 1].id
          /\ r[last + TelegramSize].kind = r[last + 1].kind
          /\ r[last + TelegramSize].pos = TelegramSize
          /\ r[last + TelegramSize] # Junk
      BY <2>1, ScanCells
    <3>2. QED
      BY <1>1, <2>1, <3>1
  <2>3. ScanAt(r, last) = [id |-> cell.id, kind |-> cell.kind]
    BY <2>2 DEF ScanAt
  <2>4. \A i \in ScanOffsets(r) : i \in ScanOffsets(s) \/ i = last
    BY <1>2, <1>4
  <2>5. ScanOffsets(r) = ScanOffsets(s) \cup {last}
    BY <1>5, <1>7, <2>4
  <2>6. ScansIn(r) = ScansIn(s) \cup {ScanAt(r, last)}
    BY <1>5, <2>5, ScanIn
  <2>7. QED
    BY <2>2, <2>3, <2>6
<1>8. QED
  BY <1>6, <1>7

-----------------------------------------------------------------------------
(***************************************************************************)
(* The stream: the valid cells of a buffer and then those of the queue.    *)
(***************************************************************************)
Joined(buf, n, queue) == SubSeq(buf, 1, n) \o queue

LEMMA JoinedCells ==
  ASSUME NEW buf \in [1 .. BufSize -> Cells], NEW n \in 0 .. BufSize,
         NEW queue \in Seq(Cells)
  PROVE  LET s == Joined(buf, n, queue)
         IN  /\ s \in Seq(Cells) /\ Len(s) = n + Len(queue) /\ Len(s) \in Nat
             /\ \A k \in 1 .. n : s[k] = buf[k]
             /\ \A k \in 1 .. Len(queue) : s[n + k] = queue[k]
<1> DEFINE front == SubSeq(buf, 1, n)
<1>1. n \in Nat /\ \A k \in 1 .. n : k \in 1 .. BufSize
  BY SizesNat
<1>2. \A k \in 1 .. n : buf[k] \in Cells
  BY <1>1
<1>3. /\ front \in Seq(Cells) /\ Len(front) = n
      /\ \A k \in 1 .. n : front[k] = buf[k]
  <2>1. /\ front \in Seq(Cells) /\ Len(front) = IF 1 <= n THEN n - 1 + 1 ELSE 0
        /\ \A k \in 1 .. n - 1 + 1 : front[k] = buf[1 + k - 1]
    BY <1>1, <1>2, SubSeqProperties
  <2>2. n - 1 + 1 = n /\ \A k \in 1 .. n : 1 + k - 1 = k
    BY <1>1
  <2>3. Len(front) = n
    BY <1>1, <2>1
  <2>4. QED
    BY <2>1, <2>2, <2>3
<1> HIDE DEF front
<1>4. /\ front \o queue \in Seq(Cells) /\ Len(front \o queue) = n + Len(queue)
      /\ \A k \in 1 .. n : (front \o queue)[k] = front[k]
      /\ \A k \in 1 .. Len(queue) : (front \o queue)[n + k] = queue[k]
  <2>1. Len(queue) \in Nat
    OBVIOUS
  <2>2. QED
    BY <1>1, <1>3, <2>1
<1>5. QED
  BY <1>1, <1>3, <1>4 DEF Joined, front

\* A scan in the buffer is one in the stream.
LEMMA BufferScans ==
  ASSUME NEW buf \in [1 .. BufSize -> Cells], NEW n \in 0 .. BufSize,
         NEW queue \in Seq(Cells), NEW i
  PROVE  i \in Found(buf, n) <=>
           /\ i \in ScanOffsets(Joined(buf, n, queue))
           /\ i + TelegramSize <= n
<1> DEFINE s == Joined(buf, n, queue)
<1>1. /\ s \in Seq(Cells) /\ n \in Nat /\ Len(s) \in Nat /\ n <= Len(s)
      /\ \A k \in 1 .. n : s[k] = buf[k]
  <2>1. Len(queue) \in Nat /\ n \in Nat
    BY SizesNat
  <2>2. /\ s \in Seq(Cells) /\ Len(s) = n + Len(queue) /\ Len(s) \in Nat
        /\ \A k \in 1 .. n : s[k] = buf[k]
    BY JoinedCells
  <2>3. QED
    BY <2>1, <2>2
<1> HIDE DEF s
<1>2. i \in Found(buf, n) <=>
        i \in Nat /\ i + TelegramSize <= n /\ parseHeader(buf, i, n - i)
  BY <1>1, SizesNat DEF Found, parseHeader
<1>3. ASSUME i \in Nat, i + TelegramSize <= n
      PROVE  parseHeader(buf, i, n - i) <=> i \in ScanOffsets(s)
  <2> DEFINE l == n - i
             m == Len(s) - i
  <2>1. /\ TelegramSize <= l /\ TelegramSize <= m /\ i + TelegramSize <= Len(s)
        /\ \A p \in 1 .. TelegramSize : i + p \in 1 .. n
    BY <1>1, <1>3, SizesNat
  <2>2. \A p \in 1 .. TelegramSize : buf[i + p] = s[i + p]
    BY <1>1, <2>1
  <2> HIDE DEF l, m
  <2>3. parseHeader(buf, i, l) <=> parseHeader(s, i, m)
    BY <1>3, <2>1, <2>2, SameScan
  <2>4. QED
    BY <1>1, <1>3, <2>1, <2>3, Offsets DEF l, m
<1>4. ASSUME i \in ScanOffsets(s) PROVE i \in Nat
  BY <1>1, <1>4, Offsets
<1>5. QED
  BY <1>2, <1>3, <1>4 DEF s

-----------------------------------------------------------------------------
(***************************************************************************)
(* getScan(): the cells it reads and keeps.                                *)
(***************************************************************************)

\* A finite set of numbers has a greatest element.
LEMMA MaxInSet ==
  ASSUME NEW n \in Nat, NEW S \in SUBSET (0 .. n), S # {}
  PROVE  Max(S) \in S /\ \A y \in S : y <= Max(S)
<1> DEFINE From(x) == {y \in S : y >= x}
<1> DEFINE Final == {From(x) : x \in S}
<1>1. IsFiniteSet(S)
  <2>1. \A s \in S : s <= n
    OBVIOUS
  <2>2. S \in SUBSET Nat
    OBVIOUS
  <2>3. QED
    BY <2>1, <2>2, FS_BoundedSetOfNaturals
<1>2. IsWellFoundedOn(StrictSubsetOrdering(S), SUBSET S)
  BY <1>1, FS_StrictSubsetOrderingWellFounded, FS_FiniteSubsetsOfFinite
<1>3. PICK T \in Final :
        \A U \in Final : <<U, T>> \notin StrictSubsetOrdering(S)
  <2>1. Final \subseteq SUBSET S /\ Final # {}
    OBVIOUS
  <2> HIDE DEF Final
  <2>2. QED
    BY <1>2, <2>1, WFMin
<1>4. PICK x \in S : T = From(x)
  OBVIOUS
<1>5. ASSUME NEW y \in S, y > x PROVE FALSE
  <2>1. \A z \in S : z >= y => z >= x
    BY <1>5
  <2>2. x \in From(x) /\ x \notin From(y) /\ From(y) \subseteq From(x)
    <3>1. x >= x /\ ~(x >= y)
      BY <1>5
    <3>2. QED
      BY <2>1, <3>1
  <2>3. From(y) \in Final /\ From(y) \in SUBSET S /\ From(x) \in SUBSET S
    OBVIOUS
  <2> HIDE DEF From, Final
  <2>4. <<From(y), From(x)>> \in StrictSubsetOrdering(S)
    BY <2>2, <2>3 DEF StrictSubsetOrdering
  <2>5. QED
    BY <1>3, <1>4, <2>3, <2>4
<1>6. \A y \in S : x >= y
  BY <1>5
<1>7. Max(S) \in S /\ \A y \in S : Max(S) >= y
  BY <1>6 DEF Max
<1>8. QED
  BY <1>7

LEMMA MinOfTwo ==
  ASSUME NEW a \in Int, NEW b \in Int
  PROVE  Min({a, b}) \in {a, b} /\ Min({a, b}) <= a /\ Min({a, b}) <= b
<1>1. \E x \in {a, b} : \A y \in {a, b} : x <= y
  <2>1. CASE a <= b
    BY <2>1
  <2>2. CASE b <= a
    BY <2>2
  <2>3. QED
    BY <2>1, <2>2
<1>2. Min({a, b}) \in {a, b} /\ \A y \in {a, b} : Min({a, b}) <= y
  BY <1>1 DEF Min
<1>3. QED
  BY <1>2

\* A read delivers what fits behind the cells that are kept.
LEMMA Reading ==
  ASSUME TypeOK, NEW n \in Readable
  PROVE  /\ n \in Nat /\ kept \in Nat /\ kept + n \in 0 .. BufSize /\ n <= Len(tty)
         /\ Len(tty) \in Nat /\ m_actualBufferSize \in Nat
         /\ m_actualBufferSize \in 0 .. BufSize /\ kept \in 0 .. BufSize
         /\ kept = 0 \/ kept = m_actualBufferSize
         /\ kept <= m_actualBufferSize
         /\ n # 0 => m_Device = "open"
<1>1. m_actualBufferSize \in 0 .. BufSize /\ Len(tty) \in Nat /\ BufSize \in Nat
  BY SizesNat DEF TypeOK
<1>2. /\ kept \in Nat /\ kept \in 0 .. BufSize /\ kept <= m_actualBufferSize
      /\ kept = 0 \/ kept = m_actualBufferSize
  BY <1>1 DEF kept
<1> HIDE DEF kept
<1>3. CASE m_Device = "open"
  <2> DEFINE most == Min({Len(tty), BufSize - kept})
  <2>1. most \in {Len(tty), BufSize - kept} /\ most <= Len(tty) /\ most <= BufSize - kept
    <3>1. Len(tty) \in Int /\ BufSize - kept \in Int
      BY <1>1, <1>2
    <3>2. QED
      BY <3>1, MinOfTwo
  <2>2. n \in 0 .. most
    BY <1>3 DEF Readable
  <2> HIDE DEF most
  <2>3. most \in Int
    BY <1>1, <1>2, <2>1
  <2>4. n \in Nat /\ kept + n \in 0 .. BufSize /\ n <= Len(tty)
    BY <1>1, <1>2, <2>1, <2>2, <2>3
  <2>5. QED
    BY <1>1, <1>2, <1>3, <2>4
<1>4. CASE m_Device # "open"
  <2>1. n = 0
    BY <1>4 DEF Readable
  <2>2. QED
    BY <1>1, <1>2, <2>1
<1>5. QED
  BY <1>3, <1>4

LEMMA SendableCells == Sendable \subseteq Cells /\ Seq(Sendable) \subseteq Seq(Cells)
  BY DEF Sendable

\* The stream as the variables hold it.
LEMMA StreamCells ==
  ASSUME TypeOK, StreamSent
  PROVE  /\ Stream = Joined(m_ReadBuf, m_actualBufferSize, tty)
         /\ Stream \in Seq(Cells) /\ Len(Stream) = m_actualBufferSize + Len(tty)
         /\ Len(Stream) \in Nat /\ Len(tty) \in Nat
         /\ \A k \in 1 .. m_actualBufferSize : Stream[k] = m_ReadBuf[k]
         /\ \A k \in 1 .. Len(tty) : Stream[m_actualBufferSize + k] = tty[k]
         /\ m_ReadBuf \in [1 .. BufSize -> Cells] /\ tty \in Seq(Cells)
         /\ m_actualBufferSize \in 0 .. BufSize
<1>1. /\ m_ReadBuf \in [1 .. BufSize -> Cells] /\ tty \in Seq(Cells)
      /\ m_actualBufferSize \in 0 .. BufSize
  BY DEF TypeOK
<1>2. Stream = Joined(m_ReadBuf, m_actualBufferSize, tty)
  BY DEF Stream, Joined
<1>3. Len(tty) \in Nat
  BY <1>1
<1>4. QED
  BY <1>1, <1>2, <1>3, JoinedCells

\* What is in the stream was part of a telegram, or is junk.
LEMMA StreamSendable ==
  ASSUME TypeOK, StreamSent, NEW k \in 1 .. Len(Stream)
  PROVE  Stream[k] \in Sendable /\ Stream[k].pos <= TelegramSize
<1> DEFINE size == m_actualBufferSize
<1>1. /\ size \in 0 .. BufSize /\ Len(Stream) = size + Len(tty)
      /\ Len(tty) \in Nat
      /\ \A j \in 1 .. size : Stream[j] = m_ReadBuf[j]
      /\ \A j \in 1 .. Len(tty) : Stream[size + j] = tty[j]
  BY StreamCells
<1>2. m_ReadBuf \in [1 .. BufSize -> Sendable] /\ tty \in Seq(Sendable)
  BY DEF StreamSent
<1> HIDE DEF size
<1>3. CASE k <= size
  <2>1. k \in 1 .. size /\ k \in 1 .. BufSize
    BY <1>1, <1>3, SizesNat
  <2>2. QED
    BY <1>1, <1>2, <2>1 DEF Sendable
<1>4. CASE k > size
  <2>1. k - size \in 1 .. Len(tty) /\ size + (k - size) = k
    BY <1>1, <1>4, SizesNat
  <2>2. Stream[k] = tty[k - size]
    BY <1>1, <2>1
  <2>3. tty[k - size] \in Sendable
    BY <1>2, <2>1
  <2>4. QED
    BY <2>2, <2>3 DEF Sendable
<1>5. QED
  BY <1>1, <1>3, <1>4, SizesNat

\* What is kept of the stream when nothing is read is a part of it.
LEMMA KeptStream ==
  ASSUME TypeOK, StreamSent, NEW n \in Readable
  PROVE  LET w == Joined(m_ReadBuf, kept, tty)
         IN  /\ PartOf(w, Stream, m_actualBufferSize - kept)
             /\ Len(w) + (m_actualBufferSize - kept) = Len(Stream)
<1> DEFINE w == Joined(m_ReadBuf, kept, tty)
<1>1. /\ kept \in Nat /\ kept \in 0 .. BufSize /\ m_actualBufferSize \in Nat
      /\ kept = 0 \/ kept = m_actualBufferSize
      /\ kept <= m_actualBufferSize
  BY Reading
<1>2. /\ Stream \in Seq(Cells) /\ Len(Stream) = m_actualBufferSize + Len(tty)
      /\ Len(tty) \in Nat
      /\ \A k \in 1 .. m_actualBufferSize : Stream[k] = m_ReadBuf[k]
      /\ \A k \in 1 .. Len(tty) : Stream[m_actualBufferSize + k] = tty[k]
      /\ m_ReadBuf \in [1 .. BufSize -> Cells] /\ tty \in Seq(Cells)
  BY StreamCells
<1>3. /\ w \in Seq(Cells) /\ Len(w) = kept + Len(tty)
      /\ \A k \in 1 .. kept : w[k] = m_ReadBuf[k]
      /\ \A k \in 1 .. Len(tty) : w[kept + k] = tty[k]
  BY <1>1, <1>2, JoinedCells
<1> HIDE DEF w
<1>4. ASSUME NEW k \in 1 .. Len(w)
      PROVE  w[k] = Stream[k + (m_actualBufferSize - kept)]
  <2>1. CASE k <= kept
    <3>1. k \in 1 .. kept /\ k \in 1 .. m_actualBufferSize
          /\ k + (m_actualBufferSize - kept) = k
      BY <1>1, <1>2, <1>3, <2>1
    <3>2. QED
      BY <1>2, <1>3, <3>1
  <2>2. CASE k > kept
    <3>1. /\ k - kept \in 1 .. Len(tty) /\ kept + (k - kept) = k
          /\ k + (m_actualBufferSize - kept) = m_actualBufferSize + (k - kept)
      BY <1>1, <1>2, <1>3, <2>2
    <3>2. QED
      BY <1>2, <1>3, <3>1
  <2>3. QED
    BY <1>1, <1>2, <1>3, <2>1, <2>2
<1>5. m_actualBufferSize - kept \in Nat /\ Len(w) + (m_actualBufferSize - kept) = Len(Stream)
  BY <1>1, <1>2, <1>3
<1>6. QED
  BY <1>1, <1>2, <1>3, <1>4, <1>5 DEF PartOf, w

\* A read moves cells from the queue to the buffer, and not within the stream.
LEMMA FilledStream ==
  ASSUME TypeOK, StreamSent, NEW n \in Readable
  PROVE  LET rest == SubSeq(tty, n + 1, Len(tty))
         IN  /\ Filled(n) \in [1 .. BufSize -> Cells]
             /\ Filled(n) \in [1 .. BufSize -> Sendable]
             /\ rest \in Seq(Cells) /\ rest \in Seq(Sendable)
             /\ Len(rest) = Len(tty) - n
             /\ Joined(Filled(n), kept + n, rest) = Joined(m_ReadBuf, kept, tty)
<1> DEFINE rest == SubSeq(tty, n + 1, Len(tty))
           w == Joined(m_ReadBuf, kept, tty)
           v == Joined(Filled(n), kept + n, rest)
<1>1. /\ n \in Nat /\ kept \in Nat /\ kept + n \in 0 .. BufSize /\ n <= Len(tty)
      /\ Len(tty) \in Nat /\ kept \in 0 .. BufSize
  BY Reading
<1>2. tty \in Seq(Sendable) /\ tty \in Seq(Cells)
      /\ m_ReadBuf \in [1 .. BufSize -> Sendable] /\ m_ReadBuf \in [1 .. BufSize -> Cells]
  BY DEF TypeOK, StreamSent
<1>3. ASSUME NEW k \in 1 .. BufSize
      PROVE  /\ Filled(n)[k] \in Sendable
             /\ k \in kept + 1 .. kept + n => Filled(n)[k] = tty[k - kept]
             /\ k \notin kept + 1 .. kept + n => Filled(n)[k] = m_ReadBuf[k]
  <2>1. Filled(n)[k] = IF k \in kept + 1 .. kept + n THEN tty[k - kept] ELSE m_ReadBuf[k]
    BY DEF Filled
  <2>2. k \in kept + 1 .. kept + n => k - kept \in 1 .. Len(tty)
    BY <1>1
  <2>3. \A j \in 1 .. Len(tty) : tty[j] \in Sendable
    BY <1>2
  <2>4. m_ReadBuf[k] \in Sendable
    BY <1>2
  <2>5. QED
    BY <2>1, <2>2, <2>3, <2>4
<1>4. Filled(n) \in [1 .. BufSize -> Sendable]
  <2>1. DOMAIN Filled(n) = 1 .. BufSize
    BY DEF Filled
  <2>2. Filled(n) = [k \in 1 .. BufSize |-> Filled(n)[k]]
    BY <2>1 DEF Filled
  <2>3. QED
    BY <1>3, <2>2
<1>5. Filled(n) \in [1 .. BufSize -> Cells]
  BY <1>4, SendableCells
<1>6. /\ rest \in Seq(Sendable) /\ Len(rest) = Len(tty) - n
      /\ \A k \in 1 .. Len(tty) - n : rest[k] = tty[n + k]
  <2>1. \A j \in n + 1 .. Len(tty) : tty[j] \in Sendable
    BY <1>1, <1>2
  <2>2. n + 1 \in Int /\ Len(tty) \in Int
    BY <1>1
  <2>3. /\ rest \in Seq(Sendable)
        /\ Len(rest) = IF n + 1 <= Len(tty) THEN Len(tty) - (n + 1) + 1 ELSE 0
        /\ \A k \in 1 .. Len(tty) - (n + 1) + 1 : rest[k] = tty[n + 1 + k - 1]
    BY <2>1, <2>2, SubSeqProperties
  <2> HIDE DEF rest
  <2>4. Len(rest) = Len(tty) - n
    BY <1>1, <2>3
  <2>5. Len(tty) - (n + 1) + 1 = Len(tty) - n
        /\ \A k \in 1 .. Len(tty) - n : n + 1 + k - 1 = n + k
    BY <1>1
  <2>6. QED
    BY <2>3, <2>4, <2>5
<1>7. rest \in Seq(Cells)
  BY <1>6, SendableCells
<1>8. /\ w \in Seq(Cells) /\ Len(w) = kept + Len(tty)
      /\ \A k \in 1 .. kept : w[k] = m_ReadBuf[k]
      /\ \A k \in 1 .. Len(tty) : w[kept + k] = tty[k]
  BY <1>1, <1>2, JoinedCells
<1> HIDE DEF rest, w
<1>9. /\ v \in Seq(Cells) /\ Len(v) = kept + n + Len(rest)
      /\ \A k \in 1 .. kept + n : v[k] = Filled(n)[k]
      /\ \A k \in 1 .. Len(rest) : v[kept + n + k] = rest[k]
  BY <1>1, <1>5, <1>7, JoinedCells
<1> HIDE DEF v
<1>10. Len(v) = Len(w)
  BY <1>1, <1>6, <1>8, <1>9
<1>11. ASSUME NEW k \in 1 .. Len(v) PROVE v[k] = w[k]
  <2>1. CASE k \in 1 .. kept
    <3>1. k \in 1 .. kept + n /\ k \in 1 .. BufSize /\ k \notin kept + 1 .. kept + n
      BY <1>1, <2>1, SizesNat
    <3>2. QED
      BY <1>3, <1>8, <1>9, <2>1, <3>1
  <2>2. CASE k \in kept + 1 .. kept + n
    <3>1. k \in 1 .. kept + n /\ k \in 1 .. BufSize
          /\ k - kept \in 1 .. Len(tty) /\ kept + (k - kept) = k
      BY <1>1, <2>2, SizesNat
    <3>2. QED
      BY <1>3, <1>8, <1>9, <2>2, <3>1
  <2>3. CASE k > kept + n
    <3>1. /\ k - (kept + n) \in 1 .. Len(rest) /\ kept + n + (k - (kept + n)) = k
          /\ k - kept \in 1 .. Len(tty) /\ kept + (k - kept) = k
          /\ n + (k - (kept + n)) = k - kept
          /\ k - (kept + n) \in 1 .. Len(tty) - n
      BY <1>1, <1>6, <1>9, <2>3
    <3>2. QED
      BY <1>6, <1>8, <1>9, <3>1
  <2>4. QED
    BY <1>1, <1>6, <1>9, <2>1, <2>2, <2>3
<1>12. v = w
  BY <1>8, <1>9, <1>10, <1>11, SeqEqual
<1>13. QED
  BY <1>4, <1>5, <1>6, <1>7, <1>12 DEF rest, v, w

\* What is behind the scan that is returned moves to the front of the buffer.
LEMMA ShiftedStream ==
  ASSUME NEW buf \in [1 .. BufSize -> Sendable], NEW size \in 0 .. BufSize,
         NEW queue \in Seq(Cells), NEW consumed \in Nat, consumed <= size
  PROVE  LET moved == shifted(buf, consumed, size - consumed)
             w == Joined(buf, size, queue)
             v == Joined(moved, size - consumed, queue)
         IN  /\ moved \in [1 .. BufSize -> Sendable]
             /\ moved \in [1 .. BufSize -> Cells]
             /\ size - consumed \in 0 .. BufSize
             /\ PartOf(v, w, consumed) /\ Len(v) + consumed = Len(w)
<1> DEFINE left == size - consumed
           moved == shifted(buf, consumed, left)
           w == Joined(buf, size, queue)
           v == Joined(moved, left, queue)
<1>1. /\ left \in Nat /\ left \in 0 .. BufSize /\ size \in Nat /\ left + consumed = size
      /\ Len(queue) \in Nat /\ BufSize \in Nat
  BY SizesNat
<1> HIDE DEF left
<1>2. buf \in [1 .. BufSize -> Cells]
  BY SendableCells
<1>3. ASSUME NEW k \in 1 .. BufSize
      PROVE  /\ moved[k] \in Sendable
             /\ k <= left => moved[k] = buf[k + consumed]
  <2>1. moved[k] = IF k <= left THEN buf[k + consumed] ELSE buf[k]
    BY DEF shifted
  <2>2. k <= left => k + consumed \in 1 .. BufSize
    BY <1>1
  <2>3. QED
    BY <2>1, <2>2
<1>4. moved \in [1 .. BufSize -> Sendable]
  <2>1. moved = [k \in 1 .. BufSize |-> moved[k]]
    BY DEF shifted
  <2>2. QED
    BY <1>3, <2>1
<1>5. moved \in [1 .. BufSize -> Cells]
  BY <1>4, SendableCells
<1> HIDE DEF moved
<1>6. /\ w \in Seq(Cells) /\ Len(w) = size + Len(queue)
      /\ \A k \in 1 .. size : w[k] = buf[k]
      /\ \A k \in 1 .. Len(queue) : w[size + k] = queue[k]
  BY <1>2, JoinedCells
<1>7. /\ v \in Seq(Cells) /\ Len(v) = left + Len(queue)
      /\ \A k \in 1 .. left : v[k] = moved[k]
      /\ \A k \in 1 .. Len(queue) : v[left + k] = queue[k]
  BY <1>1, <1>5, JoinedCells
<1> HIDE DEF v, w
<1>8. ASSUME NEW k \in 1 .. Len(v) PROVE v[k] = w[k + consumed]
  <2>1. CASE k <= left
    <3>1. k \in 1 .. left /\ k \in 1 .. BufSize /\ k + consumed \in 1 .. size
      BY <1>1, <1>7, <2>1
    <3>2. QED
      BY <1>3, <1>6, <1>7, <2>1, <3>1
  <2>2. CASE k > left
    <3>1. /\ k - left \in 1 .. Len(queue) /\ left + (k - left) = k
          /\ size + (k - left) = k + consumed
      BY <1>1, <1>7, <2>2
    <3>2. QED
      BY <1>6, <1>7, <3>1
  <2>3. QED
    BY <1>1, <1>7, <2>1, <2>2
<1>9. Len(v) + consumed = Len(w)
  <2>1. Len(v) = left + Len(queue) /\ Len(w) = size + Len(queue)
    BY <1>6, <1>7
  <2>2. left \in Nat /\ left + consumed = size /\ Len(queue) \in Nat
    BY <1>1
  <2>3. left + Len(queue) + consumed = size + Len(queue)
    BY <2>2
  <2>4. QED
    BY <2>1, <2>3
<1>10. PartOf(v, w, consumed)
  BY <1>1, <1>6, <1>7, <1>8, <1>9 DEF PartOf
<1>11. QED
  BY <1>1, <1>4, <1>5, <1>9, <1>10 DEF left, moved, v, w

-----------------------------------------------------------------------------
(***************************************************************************)
(* The steps.  Each keeps the invariant, and is one of ScanSource.         *)
(***************************************************************************)
SourceStep == Source!SourceNext \/ UNCHANGED Source!sourceVars

\* The first c cells of the stream are gone.
Shortened(c) == PartOf(Stream', Stream, c) /\ Len(Stream') + c = Len(Stream)

\* What a call of getScan() that finds a scan, or finds none, does to the stream.
ScanFound ==
  /\ \E c : Shortened(c)
  /\ decoded' \in CompleteScans
  /\ CompleteScans' = Later(CompleteScans, decoded')

ScanNotFound ==
  /\ Shortened(m_actualBufferSize - kept)
  /\ decoded' = decoded
  /\ m_actualBufferSize' >= kept

LEMMA InitIInv == Init => IInv
<1> SUFFICES ASSUME Init PROVE IInv
  OBVIOUS
<1> USE DEF Init
<1>1. sending \in Cells /\ sending.id = 0 /\ sending.pos = TelegramSize
  BY SizesNat DEF Cells
<1>2. /\ m_ReadBuf \in [1 .. BufSize -> Sendable]
      /\ m_ReadBuf \in [1 .. BufSize -> Cells]
  BY JunkCell
<1>3. tty \in Seq(Cells) /\ tty \in Seq(Sendable) /\ Len(tty) = 0
  OBVIOUS
<1>4. m_actualBufferSize = 0 /\ 0 \in 0 .. BufSize /\ 0 <= TtySize
  BY SizesNat
<1>5. decoded = NoTelegram /\ decoded.id = 0
  BY DEF NoTelegram
<1>6. TypeOK
  BY <1>1, <1>2, <1>3, <1>4, <1>5 DEF TypeOK
<1>7. Stream \in Seq(Cells) /\ Len(Stream) = 0
  <2>1. /\ Joined(m_ReadBuf, 0, tty) \in Seq(Cells)
        /\ Len(Joined(m_ReadBuf, 0, tty)) = 0 + Len(tty)
    BY <1>2, <1>3, <1>4, JoinedCells
  <2>2. Stream = Joined(m_ReadBuf, 0, tty)
    BY <1>4 DEF Stream, Joined
  <2>3. QED
    BY <1>3, <2>1, <2>2
<1>8. StreamSent
  <2>1. \A k : k \notin 1 .. Len(Stream)
    BY <1>7
  <2>2. QED
    BY <1>1, <1>2, <1>3, <1>5, <2>1, SizesNat
      DEF StreamSent, SentBy, NothingInserted
<1>9. StreamInOrder
  BY <1>7 DEF StreamInOrder, InOrder
<1>10. NoScanLeftBehind
  <2>1. \A i : i \notin Found(m_ReadBuf, 0)
    BY SizesNat DEF Found, parseHeader
  <2>2. QED
    BY <1>4, <2>1 DEF NoScanLeftBehind
<1>11. QED
  BY <1>6, <1>8, <1>9, <1>10 DEF IInv

LEMMA InitSource == Init => Source!SourceInit
<1> SUFFICES ASSUME Init PROVE Source!SourceInit
  OBVIOUS
<1>1. TypeOK /\ StreamSent
  BY InitIInv DEF IInv
<1>2. Len(Stream) = 0 /\ Stream \in Seq(Cells)
  <2>1. Len(tty) = 0 /\ m_actualBufferSize = 0
    BY DEF Init
  <2>2. QED
    BY <1>1, <2>1, StreamCells
<1>3. \A i : i \notin ScanOffsets(Stream)
  <2>1. \A i : i \in ScanOffsets(Stream) => i \in Nat /\ i + TelegramSize <= 0
    BY <1>2, Offsets
  <2>2. QED
    BY <2>1, SizesNat
<1>4. CompleteScans = {}
  BY <1>3 DEF CompleteScans, ScansIn
<1>5. Captured = 0
  BY SizesNat DEF Init, Captured
<1>6. QED
  BY <1>4, <1>5 DEF Init, Source!SourceInit, Source!NoTelegram, NoTelegram

\* The cell that is sent next was not sent before.
LEMMA NextCell ==
  ASSUME TypeOK, StreamSent, NEW cell \in NextCells
  PROVE  /\ cell \in Cells /\ cell # Junk /\ cell.id \in Nat /\ sending \in Cells
         /\ cell.id > 0 => cell.kind \in Kinds
         /\ cell.pos <= TelegramSize => cell \in Sendable /\ cell.id > decoded.id
         /\ Before(sending, cell)
         /\ \/ cell.id = sending.id /\ cell.pos = sending.pos + 1
            \/ /\ cell.id = sending.id + 1 /\ cell.pos = 1
               /\ sending.pos <= TelegramSize + MaxNoise
         /\ \/ decoded.id < cell.id
            \/ decoded.id = cell.id /\ cell.pos >= TelegramSize
         /\ cell.pos = TelegramSize => cell.kind \in Kinds /\ cell.id = Captured + 1
         /\ (IF cell.pos >= TelegramSize THEN cell.id ELSE cell.id - 1) =
              IF cell.pos = TelegramSize THEN Captured + 1 ELSE Captured
<1>1. /\ sending \in Cells
      /\ sending.id > 0 => sending.kind \in Kinds
      /\ sending.id \in Nat /\ sending.pos \in 0 .. TelegramSize + MaxNoise
      /\ sending.pos \in Int /\ decoded.id \in Nat
      /\ \/ decoded.id < sending.id
         \/ decoded.id = sending.id /\ sending.pos >= TelegramSize
  <2>1. decoded.id \in Nat
    BY DEF TypeOK, NoTelegram
  <2>2. sending \in Cells
    BY DEF TypeOK
  <2>3. QED
    BY <2>1, <2>2, CellFields DEF StreamSent
<1>2. CASE cell = [sending EXCEPT !.pos = @ + 1] /\ sending.pos < TelegramSize + MaxNoise
  <2>1. sending.pos + 1 \in 0 .. TelegramSize + MaxNoise
    BY <1>1, <1>2, SizesNat
  <2>2. /\ cell \in Cells /\ cell.id = sending.id /\ cell.kind = sending.kind
        /\ cell.pos = sending.pos + 1
    <3>1. LET d == [sending EXCEPT !.pos = sending.pos + 1]
          IN  d \in Cells /\ d.id = sending.id /\ d.kind = sending.kind
              /\ d.pos = sending.pos + 1
      BY <1>1, <2>1, CellFields
    <3>2. QED
      BY <1>2, <3>1
  <2>3. Before(sending, cell)
    BY <1>1, <2>2 DEF Before
  <2>4. cell # Junk
    BY <1>1, <2>2 DEF Junk
  <2>5. cell.pos <= TelegramSize => cell \in Sendable /\ cell.id > decoded.id
    BY <1>1, <2>2, SizesNat DEF Sendable
  <2>6. \/ decoded.id < cell.id
        \/ decoded.id = cell.id /\ cell.pos >= TelegramSize
    BY <1>1, <2>2, SizesNat
  <2>7. cell.pos = TelegramSize => cell.kind \in Kinds /\ cell.id = Captured + 1
    BY <1>1, <2>2, SizesNat DEF Captured
  <2>8. (IF cell.pos >= TelegramSize THEN cell.id ELSE cell.id - 1) =
          IF cell.pos = TelegramSize THEN Captured + 1 ELSE Captured
    BY <1>1, <2>2, SizesNat DEF Captured
  <2>9. QED
    BY <1>1, <2>2, <2>3, <2>4, <2>5, <2>6, <2>7, <2>8
<1>3. ASSUME NEW kind \in Kinds, sending.pos >= TelegramSize,
             cell = [id |-> sending.id + 1, kind |-> kind, pos |-> 1]
      PROVE  /\ cell \in Sendable /\ cell # Junk /\ Before(sending, cell)
             /\ cell.id = sending.id + 1 /\ cell.pos = 1 /\ cell.kind \in Kinds
             /\ cell.id \in Nat /\ cell.id > decoded.id
             /\ Captured = sending.id /\ sending.pos <= TelegramSize + MaxNoise
  <2>1. sending.id + 1 \in Nat /\ 1 \in 0 .. TelegramSize + MaxNoise /\ 1 <= TelegramSize
    BY <1>1, SizesNat
  <2>2. cell \in Sendable /\ cell.id = sending.id + 1 /\ cell.pos = 1
    BY <1>3, <2>1 DEF Cells, Sendable
  <2>3. Before(sending, cell) /\ cell # Junk
    BY <1>1, <2>2 DEF Before, Junk
  <2>4. QED
    BY <1>1, <1>3, <2>1, <2>2, <2>3, SizesNat DEF Captured
<1>4. \/ cell = [sending EXCEPT !.pos = @ + 1] /\ sending.pos < TelegramSize + MaxNoise
      \/ /\ sending.pos >= TelegramSize
         /\ \E kind \in Kinds : cell = [id |-> sending.id + 1, kind |-> kind, pos |-> 1]
  BY <1>1, SizesNat DEF NextCells
<1>5. CASE /\ sending.pos >= TelegramSize
           /\ \E kind \in Kinds : cell = [id |-> sending.id + 1, kind |-> kind, pos |-> 1]
  <2>1. /\ cell \in Sendable /\ cell # Junk /\ Before(sending, cell)
        /\ cell.id = sending.id + 1 /\ cell.pos = 1 /\ cell.kind \in Kinds
        /\ cell.id \in Nat /\ cell.id > decoded.id
        /\ Captured = sending.id /\ sending.pos <= TelegramSize + MaxNoise
    BY <1>3, <1>5
  <2>2. (IF cell.pos >= TelegramSize THEN cell.id ELSE cell.id - 1) =
          IF cell.pos = TelegramSize THEN Captured + 1 ELSE Captured
    BY <1>1, <2>1, SizesNat
  <2>3. QED
    BY <1>1, <2>1, <2>2, SendableCells
<1>6. QED
  BY <1>2, <1>4, <1>5

\* The stream after the scanner sent a cell that arrived.
LEMMA ArrivedStream ==
  ASSUME TypeOK, StreamSent, NEW cell \in Cells
  PROVE  ExtendedBy(Joined(m_ReadBuf, m_actualBufferSize, Append(tty, cell)), Stream, cell)
<1> DEFINE longer == Append(tty, cell)
           r == Joined(m_ReadBuf, m_actualBufferSize, longer)
           size == m_actualBufferSize
<1>1. /\ Stream \in Seq(Cells) /\ Len(Stream) = size + Len(tty) /\ Len(tty) \in Nat
      /\ \A k \in 1 .. size : Stream[k] = m_ReadBuf[k]
      /\ \A k \in 1 .. Len(tty) : Stream[size + k] = tty[k]
      /\ m_ReadBuf \in [1 .. BufSize -> Cells] /\ tty \in Seq(Cells)
      /\ size \in 0 .. BufSize /\ size \in Nat
  <2>1. size \in 0 .. BufSize /\ size \in Nat
    BY SizesNat DEF TypeOK
  <2>2. QED
    BY <2>1, StreamCells
<1>2. /\ longer \in Seq(Cells) /\ Len(longer) = Len(tty) + 1
      /\ \A k \in 1 .. Len(tty) : longer[k] = tty[k]
      /\ longer[Len(tty) + 1] = cell
  BY <1>1
<1> HIDE DEF longer
<1>3. /\ r \in Seq(Cells) /\ Len(r) = size + Len(longer)
      /\ \A k \in 1 .. size : r[k] = m_ReadBuf[k]
      /\ \A k \in 1 .. Len(longer) : r[size + k] = longer[k]
  BY <1>1, <1>2, JoinedCells
<1> HIDE DEF r, size
<1>4. Len(r) = Len(Stream) + 1
  <2>1. size + (Len(tty) + 1) = size + Len(tty) + 1
    BY <1>1
  <2>2. QED
    BY <1>1, <1>2, <1>3, <2>1
<1>5. ASSUME NEW k \in 1 .. Len(Stream) PROVE r[k] = Stream[k]
  <2>1. CASE k <= size
    BY <1>1, <1>3, <2>1
  <2>2. CASE k > size
    <3>1. k - size \in 1 .. Len(tty) /\ k - size \in 1 .. Len(longer)
          /\ size + (k - size) = k
      BY <1>1, <1>2, <2>2
    <3>2. QED
      BY <1>1, <1>2, <1>3, <3>1
  <2>3. QED
    BY <1>1, <2>1, <2>2
<1>6. r[Len(Stream) + 1] = cell
  <2>1. size + (Len(tty) + 1) = Len(Stream) + 1 /\ Len(tty) + 1 \in 1 .. Len(longer)
    BY <1>1, <1>2
  <2>2. r[size + (Len(tty) + 1)] = longer[Len(tty) + 1]
    BY <1>3, <2>1
  <2>3. QED
    BY <1>2, <2>1, <2>2
<1>7. QED
  BY <1>1, <1>3, <1>4, <1>5, <1>6 DEF ExtendedBy, r, size, longer

\* What was sent by one cell was sent by the next.
LEMMA SentByNext ==
  ASSUME TypeOK, StreamSent, NEW cell \in NextCells
  PROVE  /\ SentBy(Stream, cell)
         /\ \A k \in 1 .. Len(Stream) : Stream[k] # Junk => Before(Stream[k], cell)
<1>1. /\ cell \in Cells /\ sending \in Cells /\ Before(sending, cell)
      /\ Stream \in Seq(Cells) /\ Len(Stream) \in Nat /\ SentBy(Stream, sending)
  BY NextCell, StreamCells DEF StreamSent
<1>2. ASSUME NEW k \in 1 .. Len(Stream), Stream[k] # Junk
      PROVE  Before(Stream[k], cell)
  <2>1. Stream[k] \in Cells /\ (Stream[k] = sending \/ Before(Stream[k], sending))
    BY <1>1, <1>2 DEF SentBy
  <2>2. CASE Stream[k] = sending
    BY <1>1, <2>2
  <2>3. CASE Before(Stream[k], sending)
    BY <1>1, <2>1, <2>3, BeforeTransitive
  <2>4. QED
    BY <2>1, <2>2, <2>3
<1>3. QED
  BY <1>2 DEF SentBy

\* There is room for the cell that is sent next behind the stream.
LEMMA RoomForNext ==
  ASSUME TypeOK, StreamSent, NEW cell \in NextCells
  PROVE  \A k \in 1 .. Len(Stream) :
           Stream[k] # Junk => Within(Len(Stream) + 1 - k, Stream[k], cell)
<1> SUFFICES ASSUME NEW k \in 1 .. Len(Stream), Stream[k] # Junk
             PROVE  Within(Len(Stream) + 1 - k, Stream[k], cell)
  OBVIOUS
<1> DEFINE c == Stream[k]
           n == Len(Stream) - k
<1>1. /\ c \in Cells /\ n \in Int /\ Len(Stream) + 1 - k = n + 1
      /\ Within(n, c, sending) /\ (c = sending \/ Before(c, sending))
  BY StreamCells DEF StreamSent, SentBy, NothingInserted
<1>2. /\ cell \in Cells /\ sending \in Cells
      /\ \/ cell.id = sending.id /\ cell.pos = sending.pos + 1
         \/ /\ cell.id = sending.id + 1 /\ cell.pos = 1
            /\ sending.pos <= TelegramSize + MaxNoise
  BY NextCell
<1> HIDE DEF c, n
<1>3. /\ c.id \in Nat /\ sending.id \in Nat /\ cell.id \in Nat
      /\ c.pos \in Int /\ sending.pos \in Int /\ cell.pos \in Int
  BY <1>1, <1>2, CellFields
<1>4. c.id <= sending.id
  BY <1>1, <1>3 DEF Before
<1>5. Within(n + 1, c, cell)
  <2>1. /\ c.id = sending.id => n <= sending.pos - c.pos
        /\ c.id + 1 = sending.id => n <= TelegramSize + MaxNoise + sending.pos - c.pos
    BY <1>1 DEF Within
  <2>2. CASE cell.id = sending.id /\ cell.pos = sending.pos + 1
    <3>1. c.id = cell.id => n + 1 <= cell.pos - c.pos
      BY <1>1, <1>3, <2>1, <2>2
    <3>2. c.id + 1 = cell.id => n + 1 <= TelegramSize + MaxNoise + cell.pos - c.pos
      BY <1>1, <1>3, <2>1, <2>2, SizesNat
    <3>3. QED
      BY <3>1, <3>2 DEF Within
  <2>3. CASE /\ cell.id = sending.id + 1 /\ cell.pos = 1
             /\ sending.pos <= TelegramSize + MaxNoise
    <3>1. c.id # cell.id
      BY <1>3, <1>4, <2>3
    <3>2. ASSUME c.id + 1 = cell.id
          PROVE  n + 1 <= TelegramSize + MaxNoise + cell.pos - c.pos
      <4>1. c.id = sending.id
        BY <1>3, <2>3, <3>2
      <4>2. n <= TelegramSize + MaxNoise - c.pos
        BY <1>1, <1>3, <2>1, <2>3, <4>1, SizesNat
      <4>3. QED
        BY <1>1, <1>3, <2>3, <4>2, SizesNat
    <3>3. QED
      BY <3>1, <3>2 DEF Within
  <2>4. QED
    BY <1>2, <2>2, <2>3
<1>6. QED
  BY <1>1, <1>5 DEF c, n

\* Nothing is inserted when the next cell is sent, whether or not it arrives.
LEMMA NothingInsertedNext ==
  ASSUME TypeOK, StreamSent, NEW cell \in NextCells
  PROVE  NothingInserted(Stream, cell)
<1>1. Stream \in Seq(Cells) /\ Len(Stream) \in Nat /\ cell \in Cells
  BY StreamCells, NextCell
<1>2. ASSUME NEW k \in 1 .. Len(Stream), Stream[k] # Junk
      PROVE  Within(Len(Stream) - k, Stream[k], cell)
  <2>1. Within(Len(Stream) + 1 - k, Stream[k], cell) /\ Stream[k] \in Cells
    BY <1>1, <1>2, RoomForNext
  <2>2. Len(Stream) - k <= Len(Stream) + 1 - k /\ Len(Stream) - k \in Int
        /\ Len(Stream) + 1 - k \in Int
    BY <1>1
  <2>3. QED
    BY <1>1, <2>1, <2>2, FewerWithin
<1>3. QED
  BY <1>2 DEF NothingInserted, StreamSent

\* The scanner sends a cell.
LEMMA SendStep ==
  IInv /\ deviceSends => IInv' /\ SourceStep /\ PartOf(Stream, Stream', 0)
<1> SUFFICES ASSUME IInv, deviceSends
             PROVE  IInv' /\ SourceStep /\ PartOf(Stream, Stream', 0)
  OBVIOUS
<1>1. PICK cell \in NextCells :
        /\ cell.id <= MaxCaptures /\ sending' = cell
        /\ \/ /\ m_Device = "open" /\ Len(tty) < TtySize
              /\ \E arriving \in Arriving(cell) : tty' = Append(tty, arriving)
           \/ UNCHANGED tty
  BY DEF deviceSends
<1>2. /\ m_Device' = m_Device /\ m_ReadBuf' = m_ReadBuf
      /\ m_actualBufferSize' = m_actualBufferSize
      /\ m_bInStandby' = m_bInStandby /\ decoded' = decoded
  BY DEF deviceSends, bufferVars
<1>3. TypeOK /\ StreamSent /\ StreamInOrder /\ NoScanLeftBehind
  BY DEF IInv
<1>4. /\ cell \in Cells /\ cell # Junk /\ cell.id \in Nat
      /\ cell.id > 0 => cell.kind \in Kinds
      /\ cell.pos <= TelegramSize => cell \in Sendable /\ cell.id > decoded.id
      /\ \/ decoded.id < cell.id
         \/ decoded.id = cell.id /\ cell.pos >= TelegramSize
      /\ cell.pos = TelegramSize => cell.kind \in Kinds /\ cell.id = Captured + 1
      /\ (IF cell.pos >= TelegramSize THEN cell.id ELSE cell.id - 1) =
           IF cell.pos = TelegramSize THEN Captured + 1 ELSE Captured
  BY <1>1, <1>3, NextCell
<1>5. /\ SentBy(Stream, cell)
      /\ \A k \in 1 .. Len(Stream) : Stream[k] # Junk => Before(Stream[k], cell)
  BY <1>1, <1>3, SentByNext
<1>6. Captured' = IF cell.pos = TelegramSize THEN Captured + 1 ELSE Captured
  BY <1>1, <1>4 DEF Captured
<1>7. Captured \in Int /\ (cell.pos = TelegramSize => Captured < MaxCaptures)
  <2>1. Captured \in Int
    BY <1>3, CellFields DEF Captured, TypeOK
  <2>2. QED
    BY <1>1, <1>4, <2>1, SizeAssumption
<1>8. /\ decoded.id \in Nat
      /\ \/ decoded'.id < sending'.id
         \/ decoded'.id = sending'.id /\ sending'.pos >= TelegramSize
  BY <1>1, <1>2, <1>3, <1>4 DEF TypeOK, NoTelegram
<1>9. NoScanLeftBehind'
  BY <1>2, <1>3 DEF NoScanLeftBehind
<1>10. CASE UNCHANGED tty
  <2>1. Stream' = Stream /\ CompleteScans' = CompleteScans
    BY <1>2, <1>10 DEF Stream, CompleteScans
  <2>2. TypeOK' /\ StreamSent'
    <3>1. NothingInserted(Stream, cell)
      BY <1>1, <1>3, NothingInsertedNext
    <3>2. TypeOK'
      BY <1>1, <1>2, <1>3, <1>4, <1>10 DEF TypeOK
    <3>3. StreamSent'
      BY <1>1, <1>2, <1>3, <1>4, <1>5, <1>8, <1>10, <2>1, <3>1 DEF StreamSent
    <3>4. QED
      BY <3>2, <3>3
  <2>3. StreamInOrder'
    BY <1>2, <1>3, <2>1 DEF StreamInOrder
  <2>4. SourceStep
    <3>1. CASE cell.pos = TelegramSize
      <4>1. Source!Capture(cell.kind)
        BY <1>2, <1>6, <1>7, <2>1, <3>1 DEF Source!Capture
      <4>2. QED
        BY <1>4, <3>1, <4>1 DEF SourceStep, Source!SourceNext
    <3>2. CASE cell.pos # TelegramSize
      BY <1>2, <1>6, <2>1, <3>2 DEF SourceStep, Source!sourceVars
    <3>3. QED
      BY <3>1, <3>2
  <2>5. PartOf(Stream, Stream', 0)
    <3>1. Stream \in Seq(Cells)
      BY <1>3, StreamCells
    <3>2. Len(Stream) \in Nat
      BY <3>1
    <3>3. QED
      BY <2>1, <3>1, <3>2 DEF PartOf
  <2>6. QED
    BY <1>9, <2>2, <2>3, <2>4, <2>5 DEF IInv
<1>11. CASE m_Device = "open" /\ Len(tty) < TtySize
            /\ \E arriving \in Arriving(cell) : tty' = Append(tty, arriving)
  <2>1. PICK got \in Arriving(cell) : tty' = Append(tty, got)
    BY <1>11
  <2>2. /\ got \in Cells /\ got \in Sendable
        /\ got # Junk => got = cell /\ cell.id > decoded.id
    <3>1. got = Junk \/ (got = cell /\ cell.pos <= TelegramSize)
      BY <1>4, SizesNat, CellFields DEF Arriving
    <3>2. QED
      BY <1>4, <3>1, JunkCell
  <2>3. ExtendedBy(Stream', Stream, got)
    <3>1. Stream' = Joined(m_ReadBuf, m_actualBufferSize, Append(tty, got))
      BY <1>2, <2>1 DEF Stream, Joined
    <3>2. QED
      BY <1>3, <2>2, <3>1, ArrivedStream
  <2>4. /\ tty' \in Seq(Cells) /\ tty' \in Seq(Sendable) /\ Len(tty') = Len(tty) + 1
        /\ Len(tty') <= TtySize
    <3>1. tty \in Seq(Cells) /\ tty \in Seq(Sendable)
      BY <1>3 DEF TypeOK, StreamSent
    <3>2. QED
      BY <1>11, <2>1, <2>2, <3>1, SizesNat
  <2>5. TypeOK'
    BY <1>1, <1>2, <1>3, <1>4, <2>4 DEF TypeOK
  <2>6. SentBy(Stream', cell)
    BY <1>5, <2>2, <2>3, ExtendedSent
  <2>7. StreamSent'
    <3>1. /\ \A k \in 1 .. Len(Stream) :
               Stream[k] # Junk => Within(Len(Stream) + 1 - k, Stream[k], cell)
          /\ \A k, l \in 1 .. Len(Stream) :
               Stream[k] # Junk /\ Stream[l] # Junk /\ k < l
                 => Within(l - k, Stream[k], Stream[l])
      BY <1>1, <1>3, RoomForNext DEF StreamSent, NothingInserted
    <3>2. NothingInserted(Stream', cell)
      BY <1>4, <2>2, <2>3, <3>1, ExtendedNothingInserted
    <3>3. QED
      BY <1>1, <1>2, <1>3, <1>4, <1>8, <2>4, <2>6, <3>2 DEF StreamSent
  <2>8. StreamInOrder'
    <3>1. InOrder(Stream, decoded.id)
      BY <1>3 DEF StreamInOrder
    <3>2. InOrder(Stream', decoded.id)
      BY <1>4, <1>5, <1>8, <2>2, <2>3, <3>1, ExtendedInOrder
    <3>3. QED
      BY <1>2, <3>2 DEF StreamInOrder
  <2>9. SourceStep
    <3>1. \/ CompleteScans' = CompleteScans
          \/ /\ cell.pos = TelegramSize
             /\ CompleteScans' =
                  CompleteScans \cup {[id |-> cell.id, kind |-> cell.kind]}
      BY <2>2, <2>3, ExtendedScans DEF CompleteScans
    <3>2. CASE cell.pos = TelegramSize
      <4>1. Captured' = cell.id
        BY <1>4, <1>6, <3>2
      <4>2. Source!Capture(cell.kind)
        BY <1>2, <1>6, <1>7, <1>11, <3>1, <3>2, <4>1 DEF Source!Capture
      <4>3. QED
        BY <1>4, <3>2, <4>2 DEF SourceStep, Source!SourceNext
    <3>3. CASE cell.pos # TelegramSize
      BY <1>2, <1>6, <3>1, <3>3 DEF SourceStep, Source!sourceVars
    <3>4. QED
      BY <3>2, <3>3
  <2>10. PartOf(Stream, Stream', 0)
    <3>1. /\ Stream \in Seq(Cells) /\ Stream' \in Seq(Cells)
          /\ Len(Stream') = Len(Stream) + 1
          /\ \A k \in 1 .. Len(Stream) : Stream'[k] = Stream[k]
      BY <2>3 DEF ExtendedBy
    <3>2. Len(Stream) \in Nat
      BY <3>1
    <3>3. QED
      BY <3>1, <3>2 DEF PartOf
  <2>11. QED
    BY <1>9, <2>5, <2>7, <2>8, <2>9, <2>10 DEF IInv
<1>12. QED
  BY <1>1, <1>10, <1>11

\* A step after which the stream is a part of what it was.
LEMMA PartKept ==
  ASSUME IInv, NEW c, PartOf(Stream', Stream, c), TypeOK',
         sending' = sending, decoded' = decoded,
         tty' \in Seq(Sendable), m_ReadBuf' \in [1 .. BufSize -> Sendable]
  PROVE  StreamSent' /\ StreamInOrder'
<1>1. SentBy(Stream, sending) /\ InOrder(Stream, decoded.id)
  BY DEF IInv, StreamSent, StreamInOrder
<1>2. SentBy(Stream', sending) /\ InOrder(Stream', decoded.id)
  BY <1>1, PartSent, PartInOrder
<1>3. NothingInserted(Stream', sending)
  <2>1. NothingInserted(Stream, sending) /\ sending \in Cells
    BY DEF IInv, StreamSent, TypeOK
  <2>2. QED
    BY <2>1, PartNothingInserted
<1>4. QED
  BY <1>2, <1>3 DEF IInv, StreamSent, StreamInOrder

\* The buffer holds no scan: those of the stream end in the queue.
LEMMA ScansEndInQueue ==
  ASSUME IInv
  PROVE  \A i \in ScanOffsets(Stream) : i + TelegramSize > m_actualBufferSize
<1>1. Stream = Joined(m_ReadBuf, m_actualBufferSize, tty)
      /\ m_ReadBuf \in [1 .. BufSize -> Cells] /\ tty \in Seq(Cells)
      /\ m_actualBufferSize \in 0 .. BufSize /\ Stream \in Seq(Cells)
  BY StreamCells DEF IInv
<1>2. ASSUME NEW i \in ScanOffsets(Stream), i + TelegramSize <= m_actualBufferSize
      PROVE  FALSE
  <2>1. i \in Found(m_ReadBuf, m_actualBufferSize)
    BY <1>1, <1>2, BufferScans
  <2>2. QED
    BY <2>1 DEF IInv, NoScanLeftBehind
<1>3. \A i \in ScanOffsets(Stream) : i \in Nat
  BY <1>1, Offsets
<1>4. m_actualBufferSize \in Nat
  BY <1>1, SizesNat
<1>5. QED
  BY <1>2, <1>3, <1>4, SizesNat

\* The port is opened, which purges the queue, or closed.
LEMMA OpenCloseStep == IInv /\ (open \/ close) => IInv' /\ SourceStep
<1> SUFFICES ASSUME IInv, open \/ close PROVE IInv' /\ SourceStep
  OBVIOUS
<1>1. /\ sending' = sending /\ m_ReadBuf' = m_ReadBuf
      /\ m_actualBufferSize' = m_actualBufferSize
      /\ m_bInStandby' = m_bInStandby /\ decoded' = decoded
      /\ \/ m_Device' = "open" /\ tty' = <<>>
         \/ m_Device' = "closed" /\ tty' = tty
  BY DEF open, close, bufferVars
<1>2. TypeOK /\ StreamSent /\ StreamInOrder /\ NoScanLeftBehind
  BY DEF IInv
<1>3. NoScanLeftBehind' /\ Captured' = Captured
  BY <1>1, <1>2 DEF NoScanLeftBehind, Captured
<1>4. CASE m_Device' = "closed" /\ tty' = tty
  <2>1. Stream' = Stream /\ CompleteScans' = CompleteScans
    BY <1>1, <1>4 DEF Stream, CompleteScans
  <2>2. TypeOK' /\ StreamSent' /\ StreamInOrder'
    BY <1>1, <1>2, <1>4, <2>1 DEF TypeOK, StreamSent, StreamInOrder
  <2>3. Source!openFails
    BY <1>1, <1>3, <1>4, <2>1 DEF Source!openFails
  <2>4. QED
    BY <1>3, <2>2, <2>3 DEF IInv, SourceStep, Source!SourceNext
<1>5. CASE m_Device' = "open" /\ tty' = <<>>
  <2>1. tty' \in Seq(Cells) /\ tty' \in Seq(Sendable) /\ Len(tty') = 0
    BY <1>5
  <2>2. TypeOK'
    BY <1>1, <1>2, <1>5, <2>1, SizesNat DEF TypeOK
  <2>3. /\ Stream \in Seq(Cells) /\ Len(Stream) = m_actualBufferSize + Len(tty)
        /\ \A k \in 1 .. m_actualBufferSize : Stream[k] = m_ReadBuf[k]
        /\ Len(tty) \in Nat /\ m_actualBufferSize \in 0 .. BufSize
        /\ m_ReadBuf \in [1 .. BufSize -> Cells]
    BY <1>2, StreamCells
  <2>4. /\ Stream' \in Seq(Cells) /\ Len(Stream') = m_actualBufferSize + 0
        /\ \A k \in 1 .. m_actualBufferSize : Stream'[k] = m_ReadBuf[k]
    <3>1. LET s == Joined(m_ReadBuf, m_actualBufferSize, tty')
          IN  /\ s \in Seq(Cells) /\ Len(s) = m_actualBufferSize + Len(tty')
              /\ \A k \in 1 .. m_actualBufferSize : s[k] = m_ReadBuf[k]
      BY <2>1, <2>3, JoinedCells
    <3>2. Stream' = Joined(m_ReadBuf, m_actualBufferSize, tty')
      BY <1>1 DEF Stream, Joined
    <3>3. QED
      BY <2>1, <3>1, <3>2
  <2>5. PartOf(Stream', Stream, 0)
    <3>1. m_actualBufferSize \in Nat
      BY <2>3, SizesNat
    <3>2. Len(Stream') = m_actualBufferSize /\ Len(Stream') + 0 <= Len(Stream)
      BY <2>3, <2>4, <3>1
    <3>3. \A k \in 1 .. Len(Stream') : Stream'[k] = Stream[k + 0]
      BY <2>3, <2>4, <3>1, <3>2
    <3>4. QED
      BY <2>3, <2>4, <3>2, <3>3 DEF PartOf
  <2>6. StreamSent' /\ StreamInOrder'
    BY <1>1, <1>2, <2>1, <2>2, <2>5, PartKept DEF StreamSent
  <2>7. CompleteScans' = {}
    <3>1. ASSUME NEW i \in ScanOffsets(Stream') PROVE FALSE
      <4>1. i \in Nat /\ i + TelegramSize <= Len(Stream') /\ i + 0 \in ScanOffsets(Stream)
        BY <2>5, PartScans
      <4>2. i \in ScanOffsets(Stream) /\ i + TelegramSize <= m_actualBufferSize
            /\ m_actualBufferSize \in Nat
        BY <2>3, <2>4, <4>1, SizesNat
      <4>3. i + TelegramSize > m_actualBufferSize
        BY <4>2, ScansEndInQueue
      <4>4. QED
        BY <4>1, <4>2, <4>3, SizesNat
    <3>2. QED
      BY <3>1 DEF CompleteScans, ScansIn
  <2>8. Source!openSucceeds
    BY <1>1, <1>3, <1>5, <2>7 DEF Source!openSucceeds
  <2>9. QED
    BY <1>3, <2>2, <2>6, <2>8 DEF IInv, SourceStep, Source!SourceNext
<1>6. QED
  BY <1>1, <1>4, <1>5

\* getScan() without a scan, whether or not it read something: the stream
\* loses what the buffer held, if that was full.
LEMMA NothingFound ==
  ASSUME IInv, NEW n \in Readable, TypeOK', NoScanLeftBehind',
         Stream' = Joined(m_ReadBuf, kept, tty), m_actualBufferSize' >= kept,
         m_Device' = m_Device, sending' = sending,
         m_bInStandby' = m_bInStandby, decoded' = decoded,
         tty' \in Seq(Sendable), m_ReadBuf' \in [1 .. BufSize -> Sendable]
  PROVE  IInv' /\ SourceStep /\ ScanNotFound
<1> DEFINE c == m_actualBufferSize - kept
<1>1. TypeOK /\ StreamSent /\ InOrder(Stream, decoded.id)
  BY DEF IInv, StreamInOrder
<1>2. PartOf(Stream', Stream, c) /\ Len(Stream') + c = Len(Stream)
  BY <1>1, KeptStream
<1>3. c \in Nat /\ m_actualBufferSize \in Nat /\ c <= m_actualBufferSize
  BY <1>1, Reading
<1>4. \A i \in ScanOffsets(Stream) : i + TelegramSize > c
  <2>1. \A i \in ScanOffsets(Stream) : i \in Nat
    BY <1>1, StreamCells, Offsets
  <2>2. \A i \in ScanOffsets(Stream) : i + TelegramSize > m_actualBufferSize
    BY ScansEndInQueue
  <2> HIDE DEF c
  <2>3. QED
    BY <1>3, <2>1, <2>2, SizesNat
<1> HIDE DEF c
<1>5. IInv'
  BY <1>2, PartKept DEF IInv
<1>6. \/ CompleteScans' = CompleteScans
      \/ \E t \in CompleteScans :
           /\ \A u \in CompleteScans : t.id <= u.id
           /\ CompleteScans' = Later(CompleteScans, t)
  BY <1>1, <1>2, <1>4, DroppedPartly DEF CompleteScans
<1>7. Captured' = Captured
  BY DEF Captured
<1>8. Source!getScanReturnsFalse
  BY <1>6, <1>7 DEF Source!getScanReturnsFalse, Source!LaterThan, Later
<1>9. ScanNotFound
  BY <1>2 DEF ScanNotFound, Shortened, c
<1>10. QED
  BY <1>5, <1>8, <1>9 DEF SourceStep, Source!SourceNext

\* A read may always deliver nothing.
LEMMA MayReadNothing ==
  ASSUME TypeOK
  PROVE  0 \in Readable
<1> DEFINE room == BufSize - kept
           queued == Len(tty)
<1>1. /\ room \in Nat /\ queued \in Nat /\ room \in Int /\ queued \in Int
  BY SizesNat DEF kept, TypeOK
<1>2. Readable = IF m_Device = "open" THEN 0 .. Min({queued, room}) ELSE {0}
  BY DEF Readable
<1> HIDE DEF room, queued
<1>3. Min({queued, room}) \in {queued, room}
  BY <1>1, MinOfTwo
<1>4. Min({queued, room}) \in Nat
  BY <1>1, <1>3
<1>5. QED
  BY <1>2, <1>4

\* The read times out or fails.
LEMMA ReadsNothingStep ==
  IInv /\ getScanReadsNothing => IInv' /\ SourceStep /\ ScanNotFound
<1> SUFFICES ASSUME IInv, getScanReadsNothing
             PROVE  IInv' /\ SourceStep /\ ScanNotFound
  OBVIOUS
<1>1. /\ m_Device' = m_Device /\ tty' = tty /\ sending' = sending
      /\ m_ReadBuf' = m_ReadBuf /\ m_actualBufferSize' = kept
      /\ m_bInStandby' = m_bInStandby /\ decoded' = decoded
  BY DEF getScanReadsNothing, lineVars
<1>2. TypeOK /\ StreamSent /\ NoScanLeftBehind
  BY DEF IInv
<1>3. 0 \in Readable
  BY <1>2, MayReadNothing
<1>4. /\ kept \in 0 .. BufSize
      /\ kept = 0 \/ kept = m_actualBufferSize
  BY <1>2, <1>3, Reading
<1>5. TypeOK'
  BY <1>1, <1>2, <1>4 DEF TypeOK
<1>6. NoScanLeftBehind'
  <2>1. \A i : i \notin Found(m_ReadBuf, 0)
    BY SizesNat DEF Found, parseHeader
  <2>2. Found(m_ReadBuf, kept) = {}
    BY <1>2, <1>4, <2>1 DEF NoScanLeftBehind
  <2>3. QED
    BY <1>1, <2>2 DEF NoScanLeftBehind
<1>7. Stream' = Joined(m_ReadBuf, kept, tty)
  BY <1>1 DEF Stream, Joined
<1>8. m_actualBufferSize' >= kept
  BY <1>1, <1>4, SizesNat
<1>9. QED
  BY <1>1, <1>2, <1>3, <1>5, <1>6, <1>7, <1>8, NothingFound DEF StreamSent

\* Cells are read, and no scan is complete.
LEMMA ReturnsFalseStep ==
  ASSUME IInv, NEW n \in Readable, getScanReads(n), getScanReturnsFalse(n)
  PROVE  IInv' /\ SourceStep /\ ScanNotFound
<1>1. /\ m_Device' = m_Device /\ sending' = sending
      /\ tty' = SubSeq(tty, n + 1, Len(tty))
      /\ m_ReadBuf' = Filled(n) /\ m_actualBufferSize' = kept + n
      /\ m_bInStandby' = m_bInStandby /\ decoded' = decoded
      /\ Found(Filled(n), kept + n) = {}
  BY DEF getScanReads, getScanReturnsFalse
<1>2. TypeOK /\ StreamSent
  BY DEF IInv
<1>3. /\ Filled(n) \in [1 .. BufSize -> Cells]
      /\ Filled(n) \in [1 .. BufSize -> Sendable]
      /\ tty' \in Seq(Cells) /\ tty' \in Seq(Sendable) /\ Len(tty') = Len(tty) - n
      /\ Joined(Filled(n), kept + n, tty') = Joined(m_ReadBuf, kept, tty)
  BY <1>1, <1>2, FilledStream
<1>4. kept + n \in 0 .. BufSize /\ n \in Nat /\ n <= Len(tty) /\ Len(tty) \in Nat
  BY <1>2, Reading
<1>5. Len(tty') <= TtySize
  <2>1. Len(tty) <= TtySize
    BY <1>2 DEF TypeOK
  <2>2. QED
    BY <1>3, <1>4, <2>1, SizesNat
<1>6. TypeOK'
  BY <1>1, <1>2, <1>3, <1>4, <1>5 DEF TypeOK
<1>7. NoScanLeftBehind'
  BY <1>1 DEF NoScanLeftBehind
<1>8. Stream' = Joined(m_ReadBuf, kept, tty)
  <2>1. Stream' = Joined(Filled(n), kept + n, tty')
    BY <1>1 DEF Stream, Joined
  <2>2. QED
    BY <1>3, <2>1
<1>9. m_actualBufferSize' >= kept
  <2>1. kept \in Nat
    BY <1>2, Reading
  <2>2. QED
    BY <1>1, <1>4, <2>1
<1>10. QED
  BY <1>1, <1>3, <1>6, <1>7, <1>8, <1>9, NothingFound

\* What follows a scan in an ordered stream is newer.
LEMMA BehindScan ==
  ASSUME NEW s \in Seq(Cells), NEW id, InOrder(s, id), NEW i \in ScanOffsets(s),
         NEW k \in 1 .. Len(s), k > i + TelegramSize, s[k] # Junk,
         s[k].pos <= TelegramSize
  PROVE  s[k].id > s[i + 1].id
<1>1. /\ i \in Nat /\ i + TelegramSize \in 1 .. Len(s) /\ s[i + 1] \in Cells
      /\ parseHeader(s, i, Len(s) - i)
  BY Offsets, SizesNat
<1>2. /\ s[i + TelegramSize].id = s[i + 1].id
      /\ s[i + TelegramSize].pos = TelegramSize
      /\ s[i + TelegramSize] # Junk
  <2>1. TelegramSize \in 1 .. TelegramSize
    BY SizesNat
  <2>2. QED
    BY <1>1, <2>1, ScanCells
<1>3. Before(s[i + TelegramSize], s[k])
  BY <1>1, <1>2 DEF InOrder
<1>4. s[k] \in Cells /\ s[k].id \in Nat /\ s[k].pos \in Int
      /\ s[i + 1].id \in Nat
  BY <1>1, CellFields
<1>5. QED
  BY <1>2, <1>3, <1>4, SizesNat DEF Before

LEMMA PartOfPart ==
  ASSUME NEW r, NEW s, NEW w, NEW b, NEW c, PartOf(r, s, b), PartOf(s, w, c)
  PROVE  PartOf(r, w, b + c)
<1>1. /\ r \in Seq(Cells) /\ s \in Seq(Cells) /\ w \in Seq(Cells)
      /\ b \in Nat /\ c \in Nat
      /\ Len(r) + b <= Len(s) /\ Len(s) + c <= Len(w)
      /\ \A k \in 1 .. Len(r) : r[k] = s[k + b]
      /\ \A k \in 1 .. Len(s) : s[k] = w[k + c]
  BY DEF PartOf
<1>2. Len(r) \in Nat /\ Len(s) \in Nat /\ Len(w) \in Nat
  BY <1>1
<1>3. Len(r) + (b + c) <= Len(w) /\ b + c \in Nat
  BY <1>1, <1>2
<1>4. ASSUME NEW k \in 1 .. Len(r) PROVE r[k] = w[k + (b + c)]
  <2>1. k + b \in 1 .. Len(s) /\ k + b + c = k + (b + c)
    BY <1>1, <1>2
  <2>2. QED
    BY <1>1, <2>1
<1>5. QED
  BY <1>1, <1>3, <1>4 DEF PartOf

LEMMA MaxWithZero ==
  ASSUME NEW a \in Nat
  PROVE  Max({0, a}) = a
<1>1. a \in {0, a} /\ \A y \in {0, a} : a >= y
  OBVIOUS
<1>2. \A x \in {0, a} : (\A y \in {0, a} : x >= y) => x = a
  OBVIOUS
<1>3. QED
  BY <1>1, <1>2 DEF Max

\* Cells are read, and the newest scan of the buffer is returned.
LEMMA ReturnsTrueStep ==
  ASSUME IInv, NEW n \in Readable, n # 0, getScanReads(n), getScanReturnsTrue(n)
  PROVE  IInv' /\ SourceStep /\ ScanFound
<1> DEFINE size == kept + n
           dropped == m_actualBufferSize - kept
           w == Joined(m_ReadBuf, kept, tty)
<1>1. TypeOK /\ StreamSent /\ InOrder(Stream, decoded.id)
  BY DEF IInv, StreamInOrder
<1>2. /\ size \in 0 .. BufSize /\ n \in Nat /\ n <= Len(tty) /\ Len(tty) \in Nat
      /\ size \in Nat /\ m_Device = "open"
      /\ kept \in Nat /\ m_actualBufferSize \in Nat /\ kept <= m_actualBufferSize
  BY <1>1, Reading
<1>3. /\ m_Device' = m_Device /\ sending' = sending
      /\ tty' = SubSeq(tty, n + 1, Len(tty))
  BY DEF getScanReads
<1>4. /\ Filled(n) \in [1 .. BufSize -> Cells]
      /\ Filled(n) \in [1 .. BufSize -> Sendable]
      /\ tty' \in Seq(Cells) /\ tty' \in Seq(Sendable) /\ Len(tty') = Len(tty) - n
      /\ Joined(Filled(n), size, tty') = w
  BY <1>1, <1>3, FilledStream
<1>5. /\ PartOf(w, Stream, dropped) /\ Len(w) + dropped = Len(Stream)
      /\ dropped \in Nat
  BY <1>1, <1>2, KeptStream
<1> HIDE DEF size, dropped, w
<1>6. PICK i : /\ i = Max(Found(Filled(n), size))
               /\ Found(Filled(n), size) # {}
               /\ m_ReadBuf' = shifted(Filled(n), i + TelegramSize,
                                        size - (i + TelegramSize))
               /\ m_actualBufferSize' = Max({0, size - (i + TelegramSize)})
               /\ decoded' = ScanAt(Filled(n), i)
               /\ convertScanToPolar(Filled(n)[i + 1].kind)
  BY DEF getScanReturnsTrue, searchedFrom, size, ScanAt
<1>7. /\ i \in Found(Filled(n), size)
      /\ \A j \in Found(Filled(n), size) : j <= i
  <2> DEFINE found == Found(Filled(n), size)
  <2>1. found \in SUBSET (0 .. size)
    BY DEF Found
  <2> HIDE DEF found
  <2>2. Max(found) \in found /\ \A j \in found : j <= Max(found)
    BY <1>2, <1>6, <2>1, MaxInSet DEF found
  <2>3. QED
    BY <1>6, <2>2 DEF found
<1>8. /\ i \in ScanOffsets(w) /\ i + TelegramSize <= size
      /\ \A j \in ScanOffsets(w) : j + TelegramSize <= size => j <= i
  BY <1>2, <1>4, <1>7, BufferScans
<1>9. /\ i \in Nat /\ i + TelegramSize \in Nat /\ i + 1 \in 1 .. size
      /\ i + 1 \in 1 .. BufSize /\ i + dropped \in ScanOffsets(Stream)
      /\ w \in Seq(Cells) /\ Stream \in Seq(Cells) /\ i + 1 \in 1 .. Len(w)
  <2>1. i \in Nat /\ i + dropped \in ScanOffsets(Stream) /\ i + TelegramSize <= Len(w)
    BY <1>5, <1>8, PartScans
  <2>2. w \in Seq(Cells) /\ Stream \in Seq(Cells)
    BY <1>5 DEF PartOf
  <2>3. Len(w) \in Nat
    BY <2>2
  <2>4. QED
    BY <1>2, <1>8, <2>1, <2>2, <2>3, SizesNat
<1> DEFINE used == i + TelegramSize
<1>10. used \in Nat /\ used <= size
  BY <1>8, <1>9
<1>11. /\ m_ReadBuf' = shifted(Filled(n), used, size - used)
       /\ m_actualBufferSize' = Max({0, size - used})
  BY <1>6
<1>12. i + dropped + TelegramSize = used + dropped /\ Len(w) \in Nat /\ Len(Stream) \in Nat
  BY <1>5, <1>9, SizesNat
<1> HIDE DEF used
<1>13. size - used \in Nat /\ m_actualBufferSize' = size - used
  <2>1. size - used \in Nat
    BY <1>2, <1>10
  <2>2. QED
    BY <1>11, <2>1, MaxWithZero
<1>14. /\ m_ReadBuf' \in [1 .. BufSize -> Sendable]
       /\ m_ReadBuf' \in [1 .. BufSize -> Cells]
       /\ m_actualBufferSize' \in 0 .. BufSize
       /\ PartOf(Stream', w, used) /\ Len(Stream') + used = Len(w)
  <2>1. Stream' = Joined(m_ReadBuf', size - used, tty')
    BY <1>13 DEF Stream, Joined
  <2> DEFINE buf == Filled(n)
             queue == tty'
             moved == shifted(buf, used, size - used)
  <2>2. /\ buf \in [1 .. BufSize -> Sendable] /\ size \in 0 .. BufSize
        /\ queue \in Seq(Cells) /\ used \in Nat /\ used <= size
    BY <1>2, <1>4, <1>10
  <2>3. /\ m_ReadBuf' = moved /\ Joined(buf, size, queue) = w
        /\ Stream' = Joined(moved, size - used, queue)
    BY <1>4, <1>11, <2>1
  <2> HIDE DEF buf, queue
  <2>4. /\ moved \in [1 .. BufSize -> Sendable]
        /\ moved \in [1 .. BufSize -> Cells]
        /\ size - used \in 0 .. BufSize
        /\ PartOf(Joined(moved, size - used, queue), Joined(buf, size, queue), used)
        /\ Len(Joined(moved, size - used, queue)) + used = Len(Joined(buf, size, queue))
    BY <2>2, ShiftedStream
  <2> HIDE DEF moved
  <2>5. QED
    BY <1>13, <2>3, <2>4
<1>15. PartOf(Stream', Stream, used + dropped)
       /\ Len(Stream') + (used + dropped) = Len(Stream)
  <2>1. PartOf(Stream', Stream, used + dropped)
    BY <1>5, <1>14, PartOfPart
  <2>2. Stream' \in Seq(Cells)
    BY <1>14 DEF PartOf
  <2>3. Len(Stream') \in Nat
    BY <2>2
  <2>4. Len(Stream') + (used + dropped) = Len(Stream)
    BY <1>5, <1>10, <1>12, <1>14, <2>3
  <2>5. QED
    BY <2>1, <2>4
<1>16. /\ decoded' = ScanAt(w, i) /\ decoded' = ScanAt(Stream, i + dropped)
       /\ Filled(n)[i + 1] = w[i + 1]
  <2>1. w[i + 1] = Filled(n)[i + 1]
    BY <1>2, <1>4, <1>9, JoinedCells
  <2>2. w[i + 1] = Stream[i + 1 + dropped] /\ i + 1 + dropped = i + dropped + 1
    BY <1>5, <1>9 DEF PartOf
  <2>3. QED
    BY <1>6, <2>1, <2>2 DEF ScanAt
<1> DEFINE header == w[i + 1]
<1>17. /\ header \in Sendable /\ header \in Cells /\ header.id > 0
       /\ w[i + TelegramSize] # Junk /\ w[i + TelegramSize].id = header.id
       /\ w[i + TelegramSize].pos = TelegramSize
       /\ i + TelegramSize \in 1 .. Len(w)
  <2>1. Filled(n)[i + 1] \in Sendable
    BY <1>4, <1>9
  <2>2. header \in Sendable /\ header \in Cells
    BY <1>16, <2>1, SendableCells
  <2>3. parseHeader(w, i, Len(w) - i) /\ i + TelegramSize <= Len(w)
    BY <1>8, <1>9, Offsets
  <2>4. TelegramSize \in 1 .. TelegramSize
    BY SizesNat
  <2>5. /\ header.id > 0 /\ w[i + TelegramSize] # Junk
        /\ w[i + TelegramSize].id = header.id
        /\ w[i + TelegramSize].pos = TelegramSize
    BY <1>9, <2>2, <2>3, <2>4, ScanCells
  <2>6. i + TelegramSize \in 1 .. Len(w)
    BY <1>9, <1>12, <2>3, SizesNat
  <2>7. QED
    BY <2>2, <2>5, <2>6
<1>18. /\ header.kind \in Kinds /\ header.id \in Nat
       /\ decoded' = [id |-> header.id, kind |-> header.kind]
  BY <1>16, <1>17, CellFields DEF Sendable, ScanAt
<1> HIDE DEF header
<1>19. TypeOK'
  <2>1. Len(tty') <= TtySize
    <3>1. Len(tty) <= TtySize
      BY <1>1 DEF TypeOK
    <3>2. QED
      BY <1>2, <1>4, <3>1, SizesNat
  <2>2. m_bInStandby' \in BOOLEAN
    BY <1>1, <1>6 DEF convertScanToPolar, TypeOK
  <2>3. decoded' \in [id : Nat, kind : Kinds]
    BY <1>18
  <2>4. QED
    BY <1>1, <1>3, <1>4, <1>14, <2>1, <2>2, <2>3 DEF TypeOK
<1>20. StreamSent'
  <2>1. SentBy(Stream, sending) /\ sending \in Cells
    BY <1>1 DEF StreamSent, TypeOK
  <2>2. SentBy(Stream', sending') /\ SentBy(w, sending)
    BY <1>3, <1>5, <1>15, <2>1, PartSent
  <2>3. w[i + TelegramSize] = sending \/ Before(w[i + TelegramSize], sending)
    BY <1>17, <2>2 DEF SentBy
  <2>4. /\ sending.pos \in Int /\ sending.id \in Nat
        /\ decoded'.id = header.id
    BY <1>18, <2>1, CellFields
  <2>5. \/ decoded'.id < sending.id
        \/ decoded'.id = sending.id /\ sending.pos >= TelegramSize
    BY <1>17, <2>3, <2>4, SizesNat DEF Before
  <2>6. NothingInserted(Stream', sending')
    BY <1>1, <1>3, <1>15, <2>1, PartNothingInserted DEF StreamSent
  <2>7. QED
    BY <1>1, <1>3, <1>4, <1>14, <2>2, <2>5, <2>6 DEF StreamSent
<1>21. StreamInOrder'
  <2>1. InOrder(Stream', decoded.id) /\ InOrder(w, decoded.id)
    BY <1>1, <1>5, <1>15, PartInOrder
  <2>2. ASSUME NEW k \in 1 .. Len(Stream'), Stream'[k] # Junk
        PROVE  Stream'[k].id > decoded'.id
    <3>1. /\ Stream'[k] = w[k + used] /\ k \in Nat /\ Stream' \in Seq(Cells)
          /\ Len(Stream') + used <= Len(w)
      BY <1>14 DEF PartOf
    <3>2. Len(Stream') \in Nat
      BY <3>1
    <3>3. k + used \in 1 .. Len(w) /\ k + used > i + TelegramSize
      <4>1. used = i + TelegramSize
        BY DEF used
      <4>2. QED
        BY <1>9, <1>10, <1>12, <3>1, <3>2, <4>1
    <3>4. w[k + used].pos <= TelegramSize
      <4>1. /\ w[k + used] = Stream[k + used + dropped]
            /\ k + used + dropped \in 1 .. Len(Stream)
        BY <1>5, <1>12, <3>3 DEF PartOf
      <4>2. QED
        BY <1>1, <4>1, StreamSendable
    <3>5. w[k + used].id > w[i + 1].id
      BY <1>8, <1>9, <2>1, <2>2, <3>1, <3>3, <3>4, BehindScan
    <3>6. QED
      BY <1>18, <3>1, <3>5 DEF header
  <2>3. QED
    BY <2>1, <2>2 DEF StreamInOrder, InOrder
<1>22. NoScanLeftBehind'
  <2>1. ASSUME NEW j \in Found(m_ReadBuf', m_actualBufferSize') PROVE FALSE
    <3>1. /\ j \in ScanOffsets(Joined(m_ReadBuf', m_actualBufferSize', tty'))
          /\ j + TelegramSize <= m_actualBufferSize'
      BY <1>4, <1>14, <2>1, BufferScans
    <3>2. j \in ScanOffsets(Stream')
      BY <3>1 DEF Stream, Joined
    <3>3. j + used \in ScanOffsets(w) /\ j \in Nat
      BY <1>14, <3>2, PartScans
    <3>4. j + used + TelegramSize <= size /\ j + used > i
      <4>1. used = i + TelegramSize
        BY DEF used
      <4>2. QED
        BY <1>2, <1>9, <1>10, <1>13, <3>1, <3>3, <4>1, SizesNat
    <3>5. j + used <= i
      BY <1>8, <3>3, <3>4
    <3>6. QED
      BY <1>9, <1>10, <3>3, <3>4, <3>5
  <2>2. QED
    BY <2>1 DEF NoScanLeftBehind
<1>23. CompleteScans' = Later(CompleteScans, decoded')
  <2> DEFINE at == i + dropped
  <2>1. /\ at \in ScanOffsets(Stream) /\ used + dropped = at + TelegramSize
        /\ at \in Nat
    BY <1>5, <1>9, <1>12
  <2> HIDE DEF at
  <2>2. PartOf(Stream', Stream, at + TelegramSize)
    BY <1>15, <2>1
  <2>3. Len(Stream') + at + TelegramSize = Len(Stream)
    <3>1. Stream' \in Seq(Cells)
      BY <1>14 DEF PartOf
    <3>2. Len(Stream') \in Nat
      BY <3>1
    <3>3. QED
      BY <1>15, <2>1, <3>2, SizesNat
  <2>4. ScansIn(Stream') = Later(ScansIn(Stream), ScanAt(Stream, at))
    BY <1>1, <2>1, <2>2, <2>3, DroppedThrough
  <2>5. QED
    BY <1>16, <2>4 DEF CompleteScans, at
<1>24. decoded' \in CompleteScans
  BY <1>9, <1>16, ScanIn DEF CompleteScans
<1>25. Source!getScanReturnsTrue
  <2>1. Captured' = Captured
    BY <1>3 DEF Captured
  <2>2. m_bInStandby' = IF decoded'.kind = "foreign" THEN m_bInStandby
                        ELSE decoded'.kind = "standby"
    BY <1>6, <1>16, <1>18 DEF convertScanToPolar, header
  <2>3. QED
    BY <1>2, <1>3, <1>23, <1>24, <2>1, <2>2
    DEF Source!getScanReturnsTrue, Source!LaterThan, Later
<1>26. ScanFound
  BY <1>15, <1>23, <1>24 DEF ScanFound, Shortened
<1>27. QED
  BY <1>19, <1>20, <1>21, <1>22, <1>25, <1>26 DEF IInv, SourceStep, Source!SourceNext

LEMMA StutterStep == IInv /\ UNCHANGED vars => IInv' /\ SourceStep
<1> SUFFICES ASSUME IInv, UNCHANGED vars PROVE IInv' /\ SourceStep
  OBVIOUS
<1>1. /\ m_Device' = m_Device /\ tty' = tty /\ sending' = sending
      /\ m_ReadBuf' = m_ReadBuf /\ m_actualBufferSize' = m_actualBufferSize
      /\ m_bInStandby' = m_bInStandby /\ decoded' = decoded
  BY DEF vars, lineVars, bufferVars
<1>2. Stream' = Stream /\ CompleteScans' = CompleteScans /\ Captured' = Captured
  BY <1>1 DEF Stream, CompleteScans, Captured
<1>3. IInv'
  BY <1>1, <1>2 DEF IInv, TypeOK, StreamSent, StreamInOrder, NoScanLeftBehind
<1>4. UNCHANGED Source!sourceVars
  BY <1>1, <1>2 DEF Source!sourceVars
<1>5. QED
  BY <1>3, <1>4 DEF SourceStep

LEMMA AnyStep == IInv /\ [Next]_vars => IInv' /\ SourceStep
<1> SUFFICES ASSUME IInv, [Next]_vars PROVE IInv' /\ SourceStep
  OBVIOUS
<1>1. CASE deviceSends
  BY <1>1, SendStep
<1>2. CASE open \/ close
  BY <1>2, OpenCloseStep
<1>3. CASE getScanReadsNothing
  BY <1>3, ReadsNothingStep
<1>4. ASSUME NEW n \in Readable, n # 0, getScanReads(n)
      PROVE  IInv' /\ SourceStep
  <2>1. CASE getScanReturnsTrue(n)
    BY <1>4, <2>1, ReturnsTrueStep
  <2>2. CASE getScanReturnsFalse(n)
    BY <1>4, <2>2, ReturnsFalseStep
  <2>3. QED
    BY <1>4, <2>1, <2>2 DEF getScanReads
<1>5. CASE UNCHANGED vars
  BY <1>5, StutterStep
<1>6. QED
  BY <1>1, <1>2, <1>3, <1>4, <1>5 DEF Next, getScan

-----------------------------------------------------------------------------
(***************************************************************************)
(* The scans in reach, and those that are lost.                            *)
(***************************************************************************)
KeptOrReturned(t) ==
  \/ t.id <= decoded'.id
  \/ /\ t \in ScansInReach'
     /\ decoded' = decoded => m_actualBufferSize' >= m_actualBufferSize

NextInReach(t) ==
  t.id > decoded'.id =>
    \A u \in CompleteScans : u.id = t.id + 1 => u \in ScansInReach'

LEMMA InReach ==
  /\ \A t : t \in ScansInReach <=>
       \E i \in ScanOffsets(Stream) :
         i + TelegramSize <= BufSize /\ t = ScanAt(Stream, i)
  /\ \A t : t \in ScansInReach' <=>
       \E i \in ScanOffsets(Stream') :
         i + TelegramSize <= BufSize /\ t = ScanAt(Stream', i)
  BY DEF ScansInReach, ScanAt

\* A scan that is not among the cells that are gone moves to the front by them.
LEMMA MovedScan ==
  ASSUME NEW r, NEW s, NEW c, PartOf(r, s, c), Len(r) + c = Len(s),
         NEW j \in ScanOffsets(s), j >= c
  PROVE  j - c \in ScanOffsets(r) /\ ScanAt(r, j - c) = ScanAt(s, j) /\ j \in Nat
<1>1. /\ r \in Seq(Cells) /\ s \in Seq(Cells)
      /\ Len(r) \in Nat /\ Len(s) \in Nat /\ c \in Nat
      /\ \A k \in 1 .. Len(r) : r[k] = s[k + c]
  BY DEF PartOf
<1>2. j \in Nat /\ j + TelegramSize <= Len(s)
  BY <1>1, Offsets
<1>3. j - c \in Nat /\ j - c + TelegramSize <= Len(r) /\ j - c + c = j
  BY <1>1, <1>2, SizesNat
<1>4. j - c \in ScanOffsets(r)
  BY <1>3, PartScans
<1>5. j - c + 1 \in 1 .. Len(r) /\ j - c + 1 + c = j + 1
  BY <1>1, <1>2, <1>3, SizesNat
<1>6. r[j - c + 1] = s[j + 1]
  BY <1>1, <1>5
<1>7. QED
  BY <1>2, <1>4, <1>6 DEF ScanAt

\* The scans of a stream that grows stay where they are.
LEMMA StayingScan ==
  ASSUME NEW r, NEW s, PartOf(s, r, 0), NEW j \in ScanOffsets(s)
  PROVE  j \in ScanOffsets(r) /\ ScanAt(r, j) = ScanAt(s, j)
<1>1. /\ s \in Seq(Cells) /\ Len(s) \in Nat
      /\ \A k \in 1 .. Len(s) : s[k] = r[k + 0]
  BY DEF PartOf
<1>2. j \in Nat /\ j + TelegramSize <= Len(s) /\ j + 0 \in ScanOffsets(r)
  BY PartScans
<1>3. j + 1 \in 1 .. Len(s) /\ j + 1 + 0 = j + 1 /\ j + 0 = j
  BY <1>1, <1>2, SizesNat
<1>4. s[j + 1] = r[j + 1]
  BY <1>1, <1>3
<1>5. QED
  BY <1>2, <1>3, <1>4 DEF ScanAt

\* The scans of an ordered stream have their place and their number.
LEMMA ScanNumbers ==
  ASSUME IInv, NEW i \in ScanOffsets(Stream), NEW j \in ScanOffsets(Stream)
  PROVE  /\ i \in Nat /\ j \in Nat
         /\ ScanAt(Stream, i).id \in Nat
         /\ ScanAt(Stream, i).id > decoded.id
         /\ ScanAt(Stream, i).id = ScanAt(Stream, j).id => i = j
         /\ ScanAt(Stream, i).id < ScanAt(Stream, j).id => i + TelegramSize <= j
<1>1. /\ Stream \in Seq(Cells) /\ InOrder(Stream, decoded.id)
  BY StreamCells DEF IInv, StreamInOrder
<1>2. /\ i \in Nat /\ j \in Nat
      /\ Stream[i + 1] \in Cells /\ Stream[j + 1] \in Cells
      /\ i + 1 \in 1 .. Len(Stream) /\ 1 \in 1 .. TelegramSize
      /\ parseHeader(Stream, i, Len(Stream) - i)
  BY <1>1, Offsets, SizesNat
<1>3. Stream[i + 1].id \in Nat /\ Stream[j + 1].id \in Nat
  BY <1>2, CellFields
<1>4. Stream[i + 1] # Junk
  BY <1>2, ScanCells
<1>5. Stream[i + 1].id > decoded.id
  BY <1>1, <1>2, <1>4 DEF InOrder
<1>6. i < j => i + TelegramSize <= j /\ Stream[i + 1].id < Stream[j + 1].id
  BY <1>1, ScanOrder
<1>7. j < i => Stream[j + 1].id < Stream[i + 1].id
  BY <1>1, ScanOrder
<1>8. /\ Stream[i + 1].id = Stream[j + 1].id => i = j
      /\ Stream[i + 1].id < Stream[j + 1].id => i + TelegramSize <= j
  BY <1>2, <1>3, <1>6, <1>7
<1>9. QED
  BY <1>2, <1>3, <1>5, <1>8 DEF ScanAt

\* Between two scans in a row there is no more than noise.
LEMMA NextScan ==
  ASSUME IInv, NEW i \in ScanOffsets(Stream), NEW j \in ScanOffsets(Stream),
         ScanAt(Stream, j).id = ScanAt(Stream, i).id + 1
  PROVE  i + TelegramSize <= j /\ j <= i + TelegramSize + MaxNoise
<1>1. /\ Stream \in Seq(Cells) /\ Len(Stream) \in Nat
      /\ NothingInserted(Stream, sending)
  BY StreamCells DEF IInv, StreamSent
<1>2. /\ i \in Nat /\ j \in Nat /\ i + TelegramSize <= j
  BY ScanNumbers
<1>3. /\ Stream[i + 1] \in Cells /\ Stream[j + 1] \in Cells
      /\ i + 1 \in 1 .. Len(Stream) /\ j + 1 \in 1 .. Len(Stream)
      /\ 1 \in 1 .. TelegramSize
      /\ parseHeader(Stream, i, Len(Stream) - i)
      /\ parseHeader(Stream, j, Len(Stream) - j)
  BY <1>1, Offsets, SizesNat
<1>4. /\ Stream[i + 1] # Junk /\ Stream[i + 1].pos = 1
      /\ Stream[j + 1] # Junk /\ Stream[j + 1].pos = 1
  BY <1>2, <1>3, ScanCells
<1>5. Stream[i + 1].id + 1 = Stream[j + 1].id
  BY DEF ScanAt
<1>6. i + 1 < j + 1 /\ (j + 1) - (i + 1) = j - i
  BY <1>2, SizesNat
<1>7. Within((j + 1) - (i + 1), Stream[i + 1], Stream[j + 1])
  BY <1>1, <1>3, <1>4, <1>6 DEF NothingInserted
<1>8. j - i <= TelegramSize + MaxNoise + 1 - 1
  BY <1>4, <1>5, <1>6, <1>7 DEF Within
<1>9. QED
  BY <1>2, <1>8, SizesNat

\* Cells arrive, or the port is closed: every scan stays where it is.
LEMMA GrowingStream ==
  ASSUME IInv, PartOf(Stream, Stream', 0), decoded' = decoded,
         m_actualBufferSize' = m_actualBufferSize
  PROVE  /\ \A t \in ScansInReach : KeptOrReturned(t)
         /\ CompleteScans \subseteq CompleteScans'
<1>1. ASSUME NEW i \in ScanOffsets(Stream)
      PROVE  i \in ScanOffsets(Stream') /\ ScanAt(Stream', i) = ScanAt(Stream, i)
  BY StayingScan
<1>2. m_actualBufferSize' >= m_actualBufferSize
  BY SizesNat DEF IInv, TypeOK
<1>3. \A t \in ScansInReach : t \in ScansInReach'
  BY <1>1, InReach
<1>4. CompleteScans \subseteq CompleteScans'
  BY <1>1, ScanIn DEF CompleteScans
<1>5. QED
  BY <1>2, <1>3, <1>4 DEF KeptOrReturned

\* A scan is found: the newer ones move to the front.
LEMMA FoundKeeps ==
  ASSUME IInv, ScanFound
  PROVE  /\ \A t \in ScansInReach : KeptOrReturned(t)
         /\ \A t \in CompleteScans \ CompleteScans' : NextInReach(t)
<1>1. PICK c : PartOf(Stream', Stream, c) /\ Len(Stream') + c = Len(Stream)
  BY DEF ScanFound, Shortened
<1>2. c \in Nat /\ Stream' \in Seq(Cells) /\ Len(Stream') \in Nat
      /\ \A k \in 1 .. Len(Stream') : Stream'[k] = Stream[k + c]
  BY <1>1 DEF PartOf
<1>3. PICK d \in ScanOffsets(Stream) : decoded' = ScanAt(Stream, d)
  BY ScanIn DEF ScanFound, CompleteScans
<1>4. decoded'.id \in Nat /\ decoded'.id > decoded.id /\ decoded.id \in Nat
  <2>1. decoded.id \in Nat
    BY DEF IInv, TypeOK, NoTelegram
  <2>2. QED
    BY <1>3, <2>1, ScanNumbers
<1>5. decoded' # decoded
  BY <1>4
<1>6. ASSUME NEW t \in ScansInReach, ~(t.id <= decoded'.id)
      PROVE  t \in ScansInReach'
  <2>1. PICK i \in ScanOffsets(Stream) :
          i + TelegramSize <= BufSize /\ t = ScanAt(Stream, i)
    BY InReach
  <2>2. i \in Nat /\ t.id \in Nat
    BY <2>1, ScanNumbers
  <2>3. t \in CompleteScans /\ t.id > decoded'.id
    BY <1>4, <1>6, <2>1, <2>2, ScanIn DEF CompleteScans
  <2>4. t \in CompleteScans'
    BY <2>3 DEF ScanFound, Later
  <2>5. PICK k \in ScanOffsets(Stream') : t = ScanAt(Stream', k)
    BY <2>4, ScanIn DEF CompleteScans
  <2>6. /\ k \in Nat /\ k + TelegramSize <= Len(Stream')
        /\ k + c \in ScanOffsets(Stream)
    BY <1>1, PartScans
  <2>7. ScanAt(Stream', k) = ScanAt(Stream, k + c)
    <3>1. k + 1 \in 1 .. Len(Stream') /\ k + 1 + c = k + c + 1
      BY <1>2, <2>6, SizesNat
    <3>2. Stream'[k + 1] = Stream[k + c + 1]
      BY <1>2, <3>1
    <3>3. QED
      BY <3>2 DEF ScanAt
  <2>8. k + c = i
    BY <2>1, <2>5, <2>6, <2>7, ScanNumbers
  <2>9. k + TelegramSize <= BufSize
    BY <1>2, <2>1, <2>2, <2>6, <2>8, SizesNat
  <2>10. QED
    BY <2>5, <2>9, InReach
<1>7. ASSUME NEW t \in CompleteScans \ CompleteScans' PROVE ~(t.id > decoded'.id)
  BY <1>7 DEF ScanFound, Later
<1>8. QED
  BY <1>5, <1>6, <1>7 DEF KeptOrReturned, NextInReach

\* No scan is found: nothing moves, unless the buffer was full, and then no scan
\* was in reach, and at most one begins in the cells that are gone.
LEMMA NotFoundKeeps ==
  ASSUME IInv, ScanNotFound, NEW n \in Readable
  PROVE  /\ \A t \in ScansInReach : KeptOrReturned(t)
         /\ \A t \in CompleteScans \ CompleteScans' : NextInReach(t)
<1> DEFINE m == m_actualBufferSize
           c == m - kept
<1>1. /\ m \in Nat /\ kept \in Nat
      /\ kept = m \/ (kept = 0 /\ m >= BufSize)
  <2>1. TypeOK
    BY DEF IInv
  <2>2. m \in Nat /\ kept \in Nat
    BY <2>1, Reading
  <2>3. kept = m \/ (kept = 0 /\ BufSize - m <= 0)
    BY DEF kept
  <2>4. QED
    BY <2>2, <2>3, SizesNat
<1>2. c \in Nat /\ (c = 0 \/ (c = m /\ m >= BufSize))
  BY <1>1, SizesNat
<1>3. /\ PartOf(Stream', Stream, c) /\ Len(Stream') + c = Len(Stream)
      /\ decoded' = decoded /\ m_actualBufferSize' >= kept
  BY DEF ScanNotFound, Shortened
<1>4. kept = m => m_actualBufferSize' >= m
  BY <1>3 DEF ScanNotFound
<1> HIDE DEF c, m
<1>5. \A i \in ScanOffsets(Stream) : i \in Nat /\ i + TelegramSize > m
  BY ScanNumbers, ScansEndInQueue DEF m
<1>6. ASSUME NEW i \in ScanOffsets(Stream), i >= c
      PROVE  i - c \in ScanOffsets(Stream') /\ ScanAt(Stream', i - c) = ScanAt(Stream, i)
  BY <1>3, <1>6, MovedScan
<1>7. ASSUME NEW t \in ScansInReach PROVE KeptOrReturned(t)
  <2>1. PICK i \in ScanOffsets(Stream) :
          i + TelegramSize <= BufSize /\ t = ScanAt(Stream, i)
    BY InReach
  <2>2. i \in Nat /\ i + TelegramSize > m
    BY <1>5
  <2>3. c = 0 /\ kept = m
    BY <1>1, <1>2, <2>1, <2>2, SizesNat DEF c
  <2>4. i >= c /\ i - c = i
    BY <2>2, <2>3
  <2>5. t \in ScansInReach'
    BY <1>6, <2>1, <2>4, InReach
  <2>6. QED
    BY <1>3, <1>4, <2>3, <2>5 DEF KeptOrReturned, m
<1>8. ASSUME NEW t \in CompleteScans \ CompleteScans',
             NEW u \in CompleteScans, u.id = t.id + 1
      PROVE  u \in ScansInReach'
  <2>1. PICK i \in ScanOffsets(Stream) : t = ScanAt(Stream, i)
    BY ScanIn DEF CompleteScans
  <2>2. PICK j \in ScanOffsets(Stream) : u = ScanAt(Stream, j)
    BY ScanIn DEF CompleteScans
  <2>3. ~(i >= c)
    BY <1>6, <1>8, <2>1, ScanIn DEF CompleteScans
  <2>4. i \in Nat /\ i + TelegramSize > m
    BY <1>5
  <2>5. c = m
    BY <1>2, <2>3, <2>4
  <2>6. /\ i + TelegramSize <= j /\ j <= i + TelegramSize + MaxNoise
        /\ j \in Nat
    BY <1>5, <1>8, <2>1, <2>2, NextScan
  <2>7. j >= c /\ j - c + TelegramSize <= 2 * TelegramSize - 1 + MaxNoise
    BY <1>2, <2>3, <2>4, <2>5, <2>6, SizesNat
  <2>8. j - c + TelegramSize <= BufSize
    <3>1. j - c + TelegramSize \in Int
      BY <1>2, <2>4, <2>6, SizesNat
    <3>2. QED
      BY <2>7, <3>1, BufferAssumption, SizesNat
  <2>9. QED
    BY <1>6, <2>2, <2>7, <2>8, InReach
<1>9. QED
  BY <1>7, <1>8 DEF NextInReach

\* Every step but those that open the port.
LEMMA ReachStep ==
  ASSUME IInv, [Next]_vars, ~open
  PROVE  /\ \A t \in ScansInReach : KeptOrReturned(t)
         /\ \A t \in CompleteScans \ CompleteScans' : NextInReach(t)
<1>1. CASE deviceSends \/ close \/ UNCHANGED vars
  <2>1. decoded' = decoded /\ m_actualBufferSize' = m_actualBufferSize
    BY <1>1 DEF deviceSends, close, vars, bufferVars
  <2>2. PartOf(Stream, Stream', 0)
    <3>1. CASE deviceSends
      BY <3>1, SendStep
    <3>2. CASE close \/ UNCHANGED vars
      <4>1. Stream' = Stream /\ Stream \in Seq(Cells)
        BY <3>2, StreamCells DEF close, vars, lineVars, bufferVars, Stream, IInv
      <4>2. Len(Stream) \in Nat
        BY <4>1
      <4>3. QED
        BY <4>1, <4>2 DEF PartOf
    <3>3. QED
      BY <1>1, <3>1, <3>2
  <2>3. QED
    BY <2>1, <2>2, GrowingStream
<1>2. CASE getScanReadsNothing
  <2>1. 0 \in Readable
    BY MayReadNothing DEF IInv
  <2>2. QED
    BY <1>2, <2>1, ReadsNothingStep, NotFoundKeeps
<1>3. ASSUME NEW n \in Readable, n # 0, getScanReads(n)
      PROVE  /\ \A t \in ScansInReach : KeptOrReturned(t)
             /\ \A t \in CompleteScans \ CompleteScans' : NextInReach(t)
  <2>1. CASE getScanReturnsTrue(n)
    BY <1>3, <2>1, ReturnsTrueStep, FoundKeeps
  <2>2. CASE getScanReturnsFalse(n)
    BY <1>3, <2>2, ReturnsFalseStep, NotFoundKeeps
  <2>3. QED
    BY <1>3, <2>1, <2>2 DEF getScanReads
<1>4. QED
  BY <1>1, <1>2, <1>3 DEF Next, getScan

-----------------------------------------------------------------------------
(***************************************************************************)
(* The theorems.                                                           *)
(***************************************************************************)

\* In every reachable state what is in the buffer and in the queue of the tty
\* was sent, in that order and after the scan returned last, and the buffer
\* holds no complete scan.
THEOREM Invariance == Spec => []IInv
<1>1. Init => IInv
  BY InitIInv
<1>2. IInv /\ [Next]_vars => IInv'
  BY AnyStep
<1>3. QED
  BY <1>1, <1>2, PTL DEF Spec

\* getScan() never writes behind the end of m_ReadBuf, and m_actualBufferSize
\* stays within it, however many bytes the reads deliver.
THEOREM TypeCorrect == Spec => []TypeOK
<1>1. IInv => TypeOK
  BY DEF IInv
<1>2. QED
  BY <1>1, Invariance, PTL

\* Received cells are never reordered, never seen twice and never older than
\* the scan that getScan() returned last.
THEOREM StreamOrdered == Spec => []StreamInOrder
<1>1. IInv => StreamInOrder
  BY DEF IInv
<1>2. QED
  BY <1>1, Invariance, PTL

\* A scan that was received completely is returned at once or dropped: no later
\* call of getScan() can return it when it is stale.
THEOREM NothingLeftBehind == Spec => []NoScanLeftBehind
<1>1. IInv => NoScanLeftBehind
  BY DEF IInv
<1>2. QED
  BY <1>1, Invariance, PTL

\* The receive buffer implements the scan source that the node was verified
\* with: getScan() returns the newest scan of what it has read and drops the
\* ones before it, for telegrams, buffers and queues of every size.
THEOREM SourceImplemented == Spec => ImplementsSource
<1>1. Init => Source!SourceInit
  BY InitSource
<1>2. IInv /\ [Next]_vars => [Source!SourceNext]_(Source!sourceVars)
  BY AnyStep DEF SourceStep
<1>3. QED
  BY <1>1, <1>2, Invariance, PTL DEF Spec, ImplementsSource, Source!SourceSpec

\* A scan that ends within the buffer at its place in the stream stays there,
\* whatever junk and short reads come, until it or a newer one is returned.
THEOREM ReachedReturned == Spec => ReachedScanIsReturned
<1>1. IInv /\ [Next]_vars => [~open => \A t \in ScansInReach : KeptOrReturned(t)]_vars
  BY ReachStep
<1>2. QED
  BY <1>1, Invariance, PTL DEF Spec, ReachedScanIsReturned, KeptOrReturned

\* A full buffer that is emptied in the middle of a scan costs that scan only:
\* the next one that has arrived undamaged is in reach.
THEOREM NoTwoLost == Spec => LosesNoTwoInARow
<1>1. IInv /\ [Next]_vars =>
        [~open => \A t \in CompleteScans \ CompleteScans' : NextInReach(t)]_vars
  BY ReachStep
<1>2. QED
  BY <1>1, Invariance, PTL DEF Spec, LosesNoTwoInARow, NextInReach
=============================================================================
