-------------------------- MODULE DurableLogProofs --------------------------
(***************************************************************************)
(* The durable log, for any number of rows, any rows larger than the       *)
(* buffer and any failures.  Acknowledged rows survive because rows enter  *)
(* the stream of file and buffer whole and leave it only from its end, so  *)
(* an LF has its row's body before it (Woven).  Without a failed append    *)
(* the stream is the rows in order (InOrder), and a cut of that is         *)
(* readable.  No induction: the reader's ranks are counted by bijections.  *)
(***************************************************************************)
EXTENDS DurableLog, FiniteSetTheorems, SequenceTheorems, TLAPS

Parts == {"head", "tail", "lf"}
Cells == [row: Nat, part: Parts]
Lf(n) == [row |-> n, part |-> "lf"]

\* The cells in the order in which they reach the file: the file, then the buffer.
Size(f, b) == Len(f) + Len(b)
At(f, b, i) == IF i <= Len(f) THEN f[i] ELSE b[i - Len(f)]

\* The types of the variables.
Typed ==
    /\ file \in Seq(Cells)
    /\ buf \in Seq(Cells)
    /\ durable \in 0..Len(file)
    /\ items \in Nat
    /\ synced \in Nat
    /\ ending \in BOOLEAN
    /\ status \in {"idle", "writing", "fsync", "closed", "down"}
    /\ seen \in [acked: Nat, failed: BOOLEAN]

\* Every cell but a head follows the cell of its own row that comes before it.
WovenStream(f, b) ==
    \A i \in 1..Size(f, b) :
        /\ At(f, b, i).part = "tail" =>
              i > 1 /\ At(f, b, i - 1) = [row |-> At(f, b, i).row, part |-> "head"]
        /\ At(f, b, i).part = "lf" =>
              i > 1 /\ At(f, b, i - 1) = [row |-> At(f, b, i).row, part |-> "tail"]

\* The rows 1, 2, 3, ..., of which the last may be cut.
RowsInOrder(f, b) ==
    \A n \in Nat : \A k \in 1..3 : 3 * n + k <= Size(f, b) => At(f, b, 3 * n + k) = Row(n + 1)[k]

\* One stream of cells is the beginning of another.
Begins(f, b, g, c) ==
    /\ Size(f, b) <= Size(g, c)
    /\ \A i \in 1..Size(f, b) : At(f, b, i) = At(g, c, i)

\* The cells of a row, one by one.
LEMMA RowCells ==
    ASSUME NEW n \in Nat
    PROVE  /\ Row(n) \in Seq(Cells) /\ Len(Row(n)) = 3
           /\ Row(n)[1] = [row |-> n, part |-> "head"]
           /\ Row(n)[2] = [row |-> n, part |-> "tail"]
           /\ Row(n)[3] = Lf(n)
<1>1. /\ [row |-> n, part |-> "head"] \in Cells
      /\ [row |-> n, part |-> "tail"] \in Cells
      /\ [row |-> n, part |-> "lf"] \in Cells
  BY DEF Cells, Parts
<1> QED
  BY <1>1 DEF Row, Lf

\* A beginning of a woven stream is woven, and of rows in order, rows in order.
LEMMA BeginningKeeps ==
    ASSUME NEW f \in Seq(Cells), NEW b \in Seq(Cells), NEW g \in Seq(Cells), NEW c \in Seq(Cells),
           Begins(f, b, g, c)
    PROVE  /\ WovenStream(g, c) => WovenStream(f, b)
           /\ RowsInOrder(g, c) => RowsInOrder(f, b)
<1>1. Size(f, b) \in Nat /\ Size(g, c) \in Nat
  BY DEF Size
<1>2. WovenStream(g, c) => WovenStream(f, b)
  <2> SUFFICES ASSUME WovenStream(g, c), NEW i \in 1..Size(f, b)
               PROVE  /\ At(f, b, i).part = "tail" =>
                            i > 1 /\ At(f, b, i - 1) = [row |-> At(f, b, i).row, part |-> "head"]
                      /\ At(f, b, i).part = "lf" =>
                            i > 1 /\ At(f, b, i - 1) = [row |-> At(f, b, i).row, part |-> "tail"]
    BY DEF WovenStream
  <2>1. i \in 1..Size(g, c) /\ At(f, b, i) = At(g, c, i)
    BY <1>1 DEF Begins
  <2>2. i > 1 => At(f, b, i - 1) = At(g, c, i - 1)
    BY <1>1 DEF Begins
  <2> QED
    BY <2>1, <2>2 DEF WovenStream
<1>3. RowsInOrder(g, c) => RowsInOrder(f, b)
  <2> SUFFICES ASSUME RowsInOrder(g, c), NEW n \in Nat, NEW k \in 1..3, 3 * n + k <= Size(f, b)
               PROVE  At(f, b, 3 * n + k) = Row(n + 1)[k]
    BY DEF RowsInOrder
  <2>1. 3 * n + k \in 1..Size(f, b) /\ 3 * n + k <= Size(g, c)
    BY <1>1 DEF Begins
  <2> QED
    BY <2>1 DEF Begins, RowsInOrder
<1> QED
  BY <1>2, <1>3

\* Cutting the file, with nothing buffered, or the buffer leaves a beginning.
LEMMA CutBegins ==
    ASSUME NEW f \in Seq(Cells), NEW b \in Seq(Cells)
    PROVE  /\ \A k \in 0..Len(f) : /\ SubSeq(f, 1, k) \in Seq(Cells)
                                   /\ Len(SubSeq(f, 1, k)) = k
                                   /\ Begins(SubSeq(f, 1, k), <<>>, f, b)
           /\ \A k \in 0..Len(b) : /\ SubSeq(b, 1, k) \in Seq(Cells)
                                   /\ Begins(f, SubSeq(b, 1, k), f, b)
                                   /\ Begins(f \o SubSeq(b, 1, k), <<>>, f, b)
<1>1. ASSUME NEW k \in 0..Len(f)
      PROVE  /\ SubSeq(f, 1, k) \in Seq(Cells)
             /\ Len(SubSeq(f, 1, k)) = k
             /\ Begins(SubSeq(f, 1, k), <<>>, f, b)
  <2>1. /\ SubSeq(f, 1, k) \in Seq(Cells)
        /\ Len(SubSeq(f, 1, k)) = k
        /\ \A i \in 1..k : SubSeq(f, 1, k)[i] = f[i]
    OBVIOUS
  <2> QED
    BY <2>1 DEF Begins, Size, At
<1>2. ASSUME NEW k \in 0..Len(b)
      PROVE  /\ SubSeq(b, 1, k) \in Seq(Cells)
             /\ Begins(f, SubSeq(b, 1, k), f, b)
             /\ Begins(f \o SubSeq(b, 1, k), <<>>, f, b)
  <2> DEFINE c == SubSeq(b, 1, k)
  <2>1. /\ c \in Seq(Cells)
        /\ Len(c) = k
        /\ \A i \in 1..k : c[i] = b[i]
    OBVIOUS
  <2> HIDE DEF c
  <2>2. Begins(f, c, f, b)
    BY <2>1 DEF Begins, Size, At
  <2>3. /\ f \o c \in Seq(Cells) /\ Len(f \o c) = Len(f) + k
        /\ \A i \in 1..Len(f) + k : (f \o c)[i] = IF i <= Len(f) THEN f[i] ELSE c[i - Len(f)]
    BY <2>1
  <2>4. Begins(f \o c, <<>>, f, b)
    BY <2>1, <2>3 DEF Begins, Size, At
  <2> QED
    BY <2>1, <2>2, <2>4 DEF c
<1> QED
  BY <1>1, <1>2

\* A nonempty set of positions has a last one.
LEMMA LastOf ==
    ASSUME NEW N \in Nat, NEW L \in SUBSET (1..N), L # {}
    PROVE  \E c \in L : \A j \in L : j <= c
<1> DEFINE From(x) == {j \in L : j >= x}
           Froms == {From(x) : x \in L}
<1>1. IsFiniteSet(L)
  <2>1. IsFiniteSet(1..N)
    BY FS_Interval
  <2> QED
    BY <2>1, FS_Subset
<1>2. Froms \subseteq FiniteSubsetsOf(L)
  <2> SUFFICES ASSUME NEW x \in L PROVE From(x) \in FiniteSubsetsOf(L)
    OBVIOUS
  <2> QED
    BY <1>1, FS_Subset DEF FiniteSubsetsOf
<1>3. Froms # {}
  OBVIOUS
<1>4. \E F \in Froms : \A G \in Froms : <<G, F>> \notin StrictSubsetOrdering(L)
  <2> HIDE DEF Froms
  <2> QED
    BY <1>2, <1>3, FS_StrictSubsetOrderingWellFounded, WFMin
<1>5. PICK c \in L : \A y \in L : <<From(y), From(c)>> \notin StrictSubsetOrdering(L)
  BY <1>4
<1>6. ASSUME NEW y \in L, y > c PROVE FALSE
  <2>1. From(y) \subseteq From(c)
    <3> SUFFICES ASSUME NEW j \in L, j >= y PROVE j >= c
      OBVIOUS
    <3>1. j \in Int /\ y \in Int /\ c \in Int
      OBVIOUS
    <3> QED
      BY <3>1, <1>6
  <2>2. c \in From(c) /\ c \notin From(y)
    BY <1>6
  <2>3. <<From(y), From(c)>> \in StrictSubsetOrdering(L)
    BY <2>1, <2>2 DEF StrictSubsetOrdering
  <2> QED
    BY <2>3, <1>5
<1> QED
  BY <1>6

\* Repairing cuts the file behind its last LF, if there is one.
LEMMA RepairCuts ==
    ASSUME NEW f \in Seq(Cells)
    PROVE  \E k \in 0..Len(f) :
              /\ Repaired(f) = SubSeq(f, 1, k)
              /\ k > 0 => f[k].part = "lf"
              /\ \A j \in (k + 1)..Len(f) : f[j].part # "lf"
<1> DEFINE L == {i \in 1..Len(f) : f[i].part = "lf"}
<1>1. CASE L = {}
  <2>1. ~\E i \in 1..Len(f) : f[i].part = "lf"
    BY <1>1
  <2>2. Repaired(f) = SubSeq(f, 1, 0)
    BY <2>1 DEF Repaired
  <2> QED
    BY <2>1, <2>2
<1>2. CASE L # {}
  <2>1. PICK m \in L : \A j \in L : j <= m
    <3>1. Len(f) \in Nat
      OBVIOUS
    <3> QED
      BY <3>1, <1>2, LastOf
  <2> DEFINE k == CHOOSE i \in 1..Len(f) :
                      f[i].part = "lf" /\ \A j \in (i + 1)..Len(f) : f[j].part # "lf"
  <2>2. \E i \in 1..Len(f) : f[i].part = "lf" /\ \A j \in (i + 1)..Len(f) : f[j].part # "lf"
    <3>1. m \in 1..Len(f) /\ f[m].part = "lf"
      OBVIOUS
    <3>2. ASSUME NEW j \in (m + 1)..Len(f), f[j].part = "lf" PROVE FALSE
      BY <2>1, <3>1, <3>2
    <3> QED
      BY <3>1, <3>2
  <2>3. k \in 1..Len(f) /\ f[k].part = "lf" /\ \A j \in (k + 1)..Len(f) : f[j].part # "lf"
    BY <2>2
  <2>4. Repaired(f) = SubSeq(f, 1, k)
    BY <2>2 DEF Repaired
  <2> HIDE DEF k
  <2>5. k \in 0..Len(f)
    BY <2>3
  <2> WITNESS k \in 0..Len(f)
  <2> QED
    BY <2>3, <2>4
<1> QED
  BY <1>1, <1>2

-----------------------------------------------------------------------------
(* The reader. *)

\* A line starts behind the last line end before its own.
LEMMA LineStartIs ==
    ASSUME NEW f \in Seq(Cells), NEW e \in Nat, NEW d \in LineEnds(f),
           d < e, \A c \in LineEnds(f) : c < e => c <= d
    PROVE  LineStart(f, e) = d + 1
<1>1. \A c \in LineEnds(f) : c \in Nat
  BY DEF LineEnds
<1> DEFINE last(x) == x \in LineEnds(f) /\ x < e /\ \A c \in LineEnds(f) : c < e => c <= x
           m == CHOOSE x \in LineEnds(f) : x < e /\ \A c \in LineEnds(f) : c < e => c <= x
<1>2. LineStart(f, e) = 1 + m
  BY DEF LineStart
<1>3. last(m)
  OBVIOUS
<1>4. m = d
  <2> HIDE DEF m
  <2> QED
    BY <1>1, <1>3
<1> QED
  BY <1>1, <1>2, <1>4

\* A line starts at or before its end.
LEMMA LineStartTyped ==
    ASSUME NEW f \in Seq(Cells), NEW e \in LineEnds(f)
    PROVE  LineStart(f, e) \in 1..e
<1>1. Len(f) \in Nat
  OBVIOUS
<1>2. e \in 1..Len(f) + 1 /\ LineEnds(f) \subseteq 1..Len(f) + 1
  BY DEF LineEnds
<1>3. CASE ~\E d \in LineEnds(f) : d < e
  BY <1>1, <1>2, <1>3 DEF LineStart
<1>4. CASE \E d \in LineEnds(f) : d < e
  <2> DEFINE L == {d \in LineEnds(f) : d < e}
  <2>1. PICK m \in L : \A j \in L : j <= m
    <3>1. L \in SUBSET (1..Len(f) + 1) /\ L # {} /\ Len(f) + 1 \in Nat
      BY <1>1, <1>2, <1>4
    <3> HIDE DEF L
    <3> QED
      BY <3>1, LastOf
  <2>2. LineStart(f, e) = m + 1
    BY <1>1, <1>2, <2>1, LineStartIs
  <2> QED
    BY <1>1, <1>2, <2>1, <2>2
<1> QED
  BY <1>3, <1>4

\* Entries can be counted.
LEMMA EntriesFinite ==
    ASSUME NEW f \in Seq(Cells)
    PROVE  /\ Entries(f) \subseteq 1..Len(f) + 1
           /\ IsFiniteSet(Entries(f))
           /\ RowsRead(f) \in Nat
<1>1. Entries(f) \subseteq 1..Len(f) + 1
  BY DEF Entries, Chunks, LineEnds
<1>2. IsFiniteSet(1..Len(f) + 1)
  <2>1. Len(f) + 1 \in Int
    OBVIOUS
  <2> QED
    BY <2>1, FS_Interval
<1>3. IsFiniteSet(Entries(f))
  BY <1>1, <1>2, FS_Subset
<1> QED
  BY <1>1, <1>3, FS_CardinalityType DEF RowsRead

\* The entries of a gapless file carry every sequence number up to their number.
LEMMA EveryRank ==
    ASSUME NEW f \in Seq(Cells), Gapless(f), NEW n \in 1..RowsRead(f)
    PROVE  \E e \in Entries(f) : f[LineStart(f, e)].row = n
<1> DEFINE E == Entries(f)
           Upto(e) == {d \in E : d <= e}
           rank == [e \in E |-> Cardinality(Upto(e))]
<1>1. /\ E \subseteq 1..Len(f) + 1
      /\ IsFiniteSet(E)
      /\ RowsRead(f) = Cardinality(E) /\ Cardinality(E) \in Nat
  BY EntriesFinite DEF RowsRead
<1>2. \A e \in E : e \in Nat
  BY <1>1
<1>3. ASSUME NEW e \in E
      PROVE  /\ IsFiniteSet(Upto(e))
             /\ Cardinality(Upto(e)) \in 1..Cardinality(E)
  <2>1. Upto(e) \in SUBSET E /\ Upto(e) # {}
    BY <1>2
  <2>2. IsFiniteSet(Upto(e)) /\ Cardinality(Upto(e)) <= Cardinality(E)
    BY <1>1, <2>1, FS_Subset
  <2>3. Cardinality(Upto(e)) \in Nat /\ Cardinality(Upto(e)) # 0
    BY <2>1, <2>2, FS_CardinalityType, FS_EmptySet
  <2> QED
    BY <1>1, <2>2, <2>3
<1>4. ASSUME NEW d \in E, NEW e \in E, d < e
      PROVE  Cardinality(Upto(d)) # Cardinality(Upto(e))
  <2>1. Upto(d) \in SUBSET Upto(e) /\ e \in Upto(e) /\ e \notin Upto(d)
    BY <1>2, <1>4
  <2> QED
    BY <1>3, <2>1, FS_Subset
<1>5. rank \in Injection(E, 1..Cardinality(E))
  <2>1. rank \in [E -> 1..Cardinality(E)]
    BY <1>3
  <2>2. ASSUME NEW d \in E, NEW e \in E, rank[d] = rank[e] PROVE d = e
    <3>1. Cardinality(Upto(d)) = Cardinality(Upto(e))
      BY <2>2
    <3>2. ~(d < e) /\ ~(e < d)
      BY <1>4, <3>1
    <3> QED
      BY <1>2, <3>2
  <2> QED
    BY <2>1, <2>2 DEF Injection, IsInjective
<1>6. rank \in Surjection(E, 1..Cardinality(E))
  <2>1. IsFiniteSet(1..Cardinality(E)) /\ Cardinality(1..Cardinality(E)) = Cardinality(E)
    BY <1>1, FS_Interval
  <2> HIDE DEF rank, E
  <2> QED
    BY <1>5, <2>1, FS_Injection
<1>7. PICK e \in E : rank[e] = n
  BY <1>1, <1>6 DEF Surjection
<1>8. f[LineStart(f, e)].row = Cardinality(Upto(e))
  BY DEF Gapless
<1> QED
  BY <1>7, <1>8

\* An LF has its row's body before it.
LEMMA WholeRow ==
    ASSUME NEW f \in Seq(Cells), NEW b \in Seq(Cells), WovenStream(f, b),
           NEW n \in Nat, NEW i \in 1..Len(f), f[i] = Lf(n)
    PROVE  /\ i > 2
           /\ f[i - 1] = [row |-> n, part |-> "tail"]
           /\ f[i - 2] = [row |-> n, part |-> "head"]
<1>1. \A j \in 1..Len(f) : j \in 1..Size(f, b) /\ At(f, b, j) = f[j]
  BY DEF Size, At
<1>2. At(f, b, i).part = "lf" /\ At(f, b, i).row = n
  BY <1>1 DEF Lf
<1>3. i > 1 /\ At(f, b, i - 1) = [row |-> n, part |-> "tail"]
  BY <1>1, <1>2 DEF WovenStream
<1>4. i - 1 \in 1..Len(f)
  BY <1>3
<1>5. /\ At(f, b, i - 1).part = "tail" /\ At(f, b, i - 1).row = n
      /\ f[i - 1] = [row |-> n, part |-> "tail"]
  BY <1>1, <1>3, <1>4
<1>6. i - 1 > 1 /\ At(f, b, (i - 1) - 1) = [row |-> n, part |-> "head"]
  BY <1>1, <1>4, <1>5 DEF WovenStream
<1>7. i - 2 \in 1..Len(f) /\ (i - 1) - 1 = i - 2
  BY <1>4, <1>6
<1> QED
  BY <1>1, <1>5, <1>6, <1>7

\* What open returns as rows is in the file to its LF.
LEMMA ReadRowsWhole ==
    ASSUME NEW f \in Seq(Cells), WovenStream(f, <<>>), Gapless(f),
           Len(f) > 0 => f[Len(f)].part = "lf",
           NEW n \in 1..RowsRead(f)
    PROVE  \E i \in 1..Len(f) : f[i] = Lf(n)
<1>1. Len(f) \in Nat
  OBVIOUS
<1>2. PICK e \in Entries(f) : f[LineStart(f, e)].row = n
  BY EveryRank
<1> DEFINE s == LineStart(f, e)
<1>3. /\ e \in LineEnds(f) /\ s < e
      /\ e = s + 2 /\ f[s + 1].part = "tail" /\ f[s].row = f[s + 1].row
  BY DEF Entries, Chunks, Parses
<1>4. s \in 1..e /\ e \in 1..Len(f) + 1
  BY <1>3, LineStartTyped DEF LineEnds
<1>5. e # Len(f) + 1
  <2> SUFFICES ASSUME e = Len(f) + 1 PROVE FALSE
    OBVIOUS
  <2>1. Len(f) > 0
    BY <1>1, <1>3, <1>4
  <2>2. Len(f) \in LineEnds(f) /\ \A c \in LineEnds(f) : c < e => c <= Len(f)
    BY <1>1, <2>1 DEF LineEnds
  <2>3. s = Len(f) + 1
    BY <1>1, <2>2, LineStartIs
  <2> QED
    BY <1>1, <1>3, <2>3
<1>6. e \in 1..Len(f) /\ f[e].part = "lf"
  BY <1>1, <1>3, <1>4, <1>5 DEF LineEnds
<1>7. f[e].row \in Nat /\ f[e] = Lf(f[e].row)
  <2>1. f[e] \in Cells
    BY <1>6
  <2> QED
    BY <1>6, <2>1 DEF Cells, Lf
<1>8. f[e - 1] = [row |-> f[e].row, part |-> "tail"]
  <2>1. <<>> \in Seq(Cells)
    OBVIOUS
  <2> QED
    BY <1>6, <1>7, <2>1, WholeRow
<1>9. f[e].row = n
  <2>1. e - 1 = s + 1
    BY <1>3, <1>4
  <2> HIDE DEF s
  <2> QED
    BY <1>2, <1>3, <1>8, <2>1 DEF s
<1> QED
  BY <1>6, <1>7, <1>9

\* The first multiples of three are counted by their quotients.
LEMMA Triples ==
    ASSUME NEW n \in Nat
    PROVE  Cardinality({3 * i : i \in 1..n}) = n
<1> DEFINE g == [i \in 1..n |-> 3 * i]
           T == {3 * i : i \in 1..n}
<1>1. g \in Bijection(1..n, T)
  <2>1. g \in [1..n -> T]
    OBVIOUS
  <2>2. \A a, c \in 1..n : g[a] = g[c] => a = c
    OBVIOUS
  <2>3. \A t \in T : \E i \in 1..n : g[i] = t
    OBVIOUS
  <2> HIDE DEF g, T
  <2>4. DOMAIN g = 1..n
    BY <2>1
  <2> QED
    BY <2>1, <2>2, <2>3, <2>4 DEF Bijection, Injection, Surjection, IsInjective
<1>2. ExistsBijection(1..n, T)
  BY <1>1 DEF ExistsBijection
<1> HIDE DEF T
<1> QED
  BY <1>2, FS_CountingElements DEF T

\* Every position is one of the three of a row.
LEMMA ThreeByThree ==
    ASSUME NEW i \in Nat
    PROVE  \E j \in Nat : \E k \in 0..2 : i = 3 * j + k
<1>1. i \div 3 \in Nat /\ i - 3 * (i \div 3) \in 0..2
  OBVIOUS
<1>2. i = 3 * (i \div 3) + (i - 3 * (i \div 3))
  BY <1>1
<1> QED
  BY <1>1, <1>2

\* The rows in order, the last of them cut anywhere, can be read: all whole rows are
\* returned, and one that only misses its LF; open keeps the whole rows.
LEMMA OrderedReads ==
    ASSUME NEW f \in Seq(Cells), NEW b \in Seq(Cells), RowsInOrder(f, b),
           NEW m \in Nat, NEW r \in 0..2, Len(f) = 3 * m + r
    PROVE  /\ Readable(f)
           /\ RowsRead(f) = IF r = 2 THEN m + 1 ELSE m
           /\ Repaired(f) = SubSeq(f, 1, 3 * m)
<1>0. ASSUME NEW j \in Nat, NEW k \in 1..3, NEW i \in 1..Len(f), i = 3 * j + k
      PROVE  f[i] = Row(j + 1)[k]
  <2>1. 3 * j + k <= Size(f, b) /\ At(f, b, 3 * j + k) = f[i]
    BY <1>0 DEF Size, At
  <2> QED
    BY <2>1 DEF RowsInOrder
<1>1. \A j \in Nat : \A i \in 1..Len(f) :
          /\ i = 3 * j + 1 => f[i].row = j + 1 /\ f[i].part = "head"
          /\ i = 3 * j + 2 => f[i].row = j + 1 /\ f[i].part = "tail"
          /\ i = 3 * j + 3 => f[i].row = j + 1 /\ f[i].part = "lf"
  <2> SUFFICES ASSUME NEW j \in Nat, NEW i \in 1..Len(f)
               PROVE  /\ i = 3 * j + 1 => f[i].row = j + 1 /\ f[i].part = "head"
                      /\ i = 3 * j + 2 => f[i].row = j + 1 /\ f[i].part = "tail"
                      /\ i = 3 * j + 3 => f[i].row = j + 1 /\ f[i].part = "lf"
    OBVIOUS
  <2>1. /\ i = 3 * j + 1 => f[i] = Row(j + 1)[1]
        /\ i = 3 * j + 2 => f[i] = Row(j + 1)[2]
        /\ i = 3 * j + 3 => f[i] = Row(j + 1)[3]
    BY <1>0
  <2>2. /\ Row(j + 1)[1].row = j + 1 /\ Row(j + 1)[1].part = "head"
        /\ Row(j + 1)[2].row = j + 1 /\ Row(j + 1)[2].part = "tail"
        /\ Row(j + 1)[3].row = j + 1 /\ Row(j + 1)[3].part = "lf"
    BY DEF Row
  <2> QED
    BY <2>1, <2>2
<1> DEFINE End == Len(f) + 1
           M == IF r = 2 THEN m + 1 ELSE m
<1>2. LineEnds(f) = {3 * j : j \in 1..m} \cup {End}
  <2>1. ASSUME NEW e \in 1..Len(f), f[e].part = "lf" PROVE \E j \in 1..m : e = 3 * j
    <3>1. PICK j \in Nat, k \in 0..2 : e - 1 = 3 * j + k
      <4>1. e - 1 \in Nat
        OBVIOUS
      <4> QED
        BY <4>1, ThreeByThree
    <3>2. e = 3 * j + (k + 1) /\ k + 1 \in 1..3
      BY <3>1
    <3>3. k + 1 = 3
      <4>1. k + 1 = 1 => f[e].part = "head"
        BY <3>2, <1>1
      <4>2. k + 1 = 2 => f[e].part = "tail"
        BY <3>2, <1>1
      <4> QED
        BY <2>1, <3>2, <4>1, <4>2
    <3>4. e = 3 * (j + 1) /\ j + 1 \in 1..m
      BY <3>2, <3>3
    <3> QED
      BY <3>4
  <2>2. ASSUME NEW j \in 1..m PROVE 3 * j \in 1..Len(f) /\ f[3 * j].part = "lf"
    <3>1. PICK p \in Nat : j = p + 1
      <4>1. j - 1 \in Nat /\ j = (j - 1) + 1
        OBVIOUS
      <4> QED
        BY <4>1
    <3>2. PICK i \in 1..Len(f) : i = 3 * j /\ i = 3 * p + 3
      BY <3>1
    <3>3. f[i].part = "lf"
      BY <3>2, <1>1
    <3> QED
      BY <3>2, <3>3
  <2>3. ASSUME NEW e \in LineEnds(f), e # End PROVE \E j \in 1..m : e = 3 * j
    <3>1. e \in 1..Len(f) /\ f[e].part = "lf"
      BY <2>3 DEF LineEnds
    <3> QED
      BY <2>1, <3>1
  <2>4. \A j \in 1..m : 3 * j \in LineEnds(f)
    <3> SUFFICES ASSUME NEW j \in 1..m PROVE 3 * j \in LineEnds(f)
      OBVIOUS
    <3>1. 3 * j \in 1..Len(f) + 1
      BY <2>2
    <3> QED
      BY <2>2, <3>1 DEF LineEnds
  <2>5. End \in LineEnds(f)
    BY DEF LineEnds
  <2> HIDE DEF End
  <2> QED
    BY <2>3, <2>4, <2>5
<1>3. \A j \in 1..m + 1 : 3 * j \in LineEnds(f) => LineStart(f, 3 * j) = 3 * j - 2
  <2> SUFFICES ASSUME NEW j \in 1..m + 1, 3 * j \in LineEnds(f)
               PROVE  LineStart(f, 3 * j) = 3 * j - 2
    OBVIOUS
  <2>1. CASE j = 1
    <3>1. ~\E d \in LineEnds(f) : d < 3 * j
      BY <1>2, <2>1
    <3> QED
      BY <2>1, <3>1 DEF LineStart
  <2>2. CASE j # 1
    <3>1. j - 1 \in 1..m /\ 3 * (j - 1) < 3 * j /\ 3 * j \in Nat
      BY <2>2
    <3>0. 3 * (j - 1) \in LineEnds(f)
      BY <1>2, <3>1
    <3>2. \A c \in LineEnds(f) : c < 3 * j => c <= 3 * (j - 1)
      BY <1>2
    <3>3. LineStart(f, 3 * j) = 3 * (j - 1) + 1
      BY <3>0, <3>1, <3>2, LineStartIs
    <3> QED
      BY <3>3
  <2> QED
    BY <2>1, <2>2
<1>4. LineStart(f, End) = 3 * m + 1
  <2>1. CASE m = 0
    <3>1. ~\E d \in LineEnds(f) : d < End
      BY <1>2, <2>1
    <3> QED
      BY <2>1, <3>1 DEF LineStart
  <2>2. CASE m # 0
    <3>1. 3 * m \in LineEnds(f) /\ 3 * m < End /\ End \in Nat
      BY <1>2, <2>2
    <3>2. \A c \in LineEnds(f) : c < End => c <= 3 * m
      BY <1>2
    <3> QED
      BY <3>1, <3>2, LineStartIs
  <2> QED
    BY <2>1, <2>2
<1>5. \A j \in 1..m : 3 * j \in Entries(f)
  <2> SUFFICES ASSUME NEW j \in 1..m PROVE 3 * j \in Entries(f)
    OBVIOUS
  <2>1. 3 * j \in LineEnds(f) /\ j \in 1..m + 1
    <3>1. 3 * j \in {3 * i : i \in 1..m}
      OBVIOUS
    <3> QED
      BY <1>2, <3>1
  <2>2. LineStart(f, 3 * j) = 3 * j - 2
    BY <1>3, <2>1
  <2>3. PICK p \in Nat : /\ 3 * j - 2 \in 1..Len(f) /\ 3 * j - 2 = 3 * p + 1
                         /\ 3 * j - 1 \in 1..Len(f) /\ 3 * j - 1 = 3 * p + 2
    <3>1. /\ j - 1 \in Nat
          /\ 3 * j - 2 \in 1..Len(f) /\ 3 * j - 2 = 3 * (j - 1) + 1
          /\ 3 * j - 1 \in 1..Len(f) /\ 3 * j - 1 = 3 * (j - 1) + 2
      OBVIOUS
    <3> QED
      BY <3>1
  <2>4. /\ f[3 * j - 2].row = p + 1 /\ f[3 * j - 2].part = "head"
        /\ f[3 * j - 1].row = p + 1 /\ f[3 * j - 1].part = "tail"
    BY <1>1, <2>3
  <2>5. Parses(f, 3 * j) /\ LineStart(f, 3 * j) < 3 * j
    <3>1. (3 * j - 2) + 1 = 3 * j - 1 /\ 3 * j = (3 * j - 2) + 2 /\ 3 * j - 2 < 3 * j
      OBVIOUS
    <3> QED
      BY <2>2, <2>4, <3>1 DEF Parses
  <2> QED
    BY <2>1, <2>5 DEF Entries, Chunks
<1>6. End \in Entries(f) <=> r = 2
  <2>1. CASE r = 2
    <3>1. /\ 3 * m + 1 \in 1..Len(f) /\ 3 * m + 2 \in 1..Len(f)
          /\ (3 * m + 1) + 1 = 3 * m + 2 /\ End = (3 * m + 1) + 2
      BY <2>1
    <3>2. /\ f[3 * m + 1].row = m + 1 /\ f[3 * m + 1].part = "head"
          /\ f[3 * m + 2].row = m + 1 /\ f[3 * m + 2].part = "tail"
      BY <1>1, <3>1
    <3>3. Parses(f, End)
      BY <1>4, <3>1, <3>2 DEF Parses
    <3> QED
      BY <1>2, <1>4, <2>1, <3>1, <3>3 DEF Entries, Chunks
  <2>2. CASE r # 2
    <3>1. End # (3 * m + 1) + 2
      BY <2>2
    <3> QED
      BY <1>4, <2>2, <3>1 DEF Entries, Parses
  <2> QED
    BY <2>1, <2>2
<1>7. Entries(f) = {3 * j : j \in 1..M}
  <2>1. Entries(f) \subseteq {3 * j : j \in 1..m} \cup {End}
    BY <1>2 DEF Entries, Chunks
  <2>2. CASE r = 2
    <3>1. End = 3 * (m + 1) /\ M = m + 1 /\ End \in Entries(f)
      BY <1>6, <2>2
    <3> QED
      BY <1>5, <2>1, <3>1
  <2>3. CASE r # 2
    BY <1>5, <1>6, <2>1, <2>3
  <2> QED
    BY <2>2, <2>3
<1>8. M \in Nat /\ RowsRead(f) = M
  BY <1>7, Triples DEF RowsRead
<1>9. Gapless(f)
  <2> SUFFICES ASSUME NEW e \in Entries(f)
               PROVE  f[LineStart(f, e)].row = Cardinality({d \in Entries(f) : d <= e})
    BY DEF Gapless
  <2>1. PICK j \in 1..M : e = 3 * j
    BY <1>7
  <2>2. j \in 1..m + 1 /\ e \in LineEnds(f)
    BY DEF Entries, Chunks
  <2>3. LineStart(f, e) = 3 * j - 2
    BY <1>3, <2>1, <2>2
  <2>4. f[3 * j - 2].row = j
    <3>1. j - 1 \in Nat /\ 3 * j - 2 \in 1..Len(f) /\ 3 * j - 2 = 3 * (j - 1) + 1
      BY <2>2
    <3>2. PICK p \in Nat, i \in 1..Len(f) : i = 3 * j - 2 /\ i = 3 * p + 1 /\ p + 1 = j
      BY <3>1
    <3>3. f[i].row = p + 1
      BY <1>1, <3>2
    <3> QED
      BY <3>2, <3>3
  <2>5. {d \in Entries(f) : d <= e} = {3 * i : i \in 1..j}
    <3>1. \A i \in 1..M : 3 * i <= e <=> i \in 1..j
      BY <1>8, <2>1
    <3>2. 1..j \subseteq 1..M
      BY <1>8, <2>1
    <3> HIDE DEF M
    <3>3. \A i \in 1..j : 3 * i \in Entries(f) /\ 3 * i <= e
      BY <1>7, <3>1, <3>2
    <3>4. \A d \in Entries(f) : d <= e => \E i \in 1..j : d = 3 * i
      BY <1>7, <3>1
    <3> QED
      BY <3>3, <3>4
  <2>6. Cardinality({3 * i : i \in 1..j}) = j
    BY <2>2, Triples
  <2> QED
    BY <2>3, <2>4, <2>5, <2>6
<1>10. ~Corrupt(f)
  <2> SUFFICES ASSUME NEW e \in Chunks(f), NEW d \in Chunks(f), d > e, ~Parses(f, e)
               PROVE  FALSE
    BY DEF Corrupt
  <2>1. e \in LineEnds(f) /\ d \in LineEnds(f) /\ e \notin Entries(f)
    BY DEF Chunks, Entries
  <2>2. e = End
    BY <1>2, <1>5, <2>1
  <2> QED
    BY <1>2, <2>1, <2>2
<1>11. Repaired(f) = SubSeq(f, 1, 3 * m)
  <2>1. \A i \in 1..Len(f) : f[i].part = "lf" <=> \E j \in 1..m : i = 3 * j
    <3>1. \A i \in 1..Len(f) : i # End
      OBVIOUS
    <3>2. \A i \in 1..Len(f) : f[i].part = "lf" <=> i \in LineEnds(f)
      BY <3>1 DEF LineEnds
    <3>3. \A j \in 1..m : 3 * j \in 1..Len(f)
      OBVIOUS
    <3> QED
      BY <1>2, <3>1, <3>2, <3>3
  <2>2. CASE m = 0
    <3>1. ~\E i \in 1..Len(f) : f[i].part = "lf"
      BY <2>1, <2>2
    <3> QED
      BY <2>2, <3>1 DEF Repaired
  <2>3. CASE m # 0
    <3> DEFINE last(i) == f[i].part = "lf" /\ \A j \in (i + 1)..Len(f) : f[j].part # "lf"
               k == CHOOSE i \in 1..Len(f) :
                        f[i].part = "lf" /\ \A j \in (i + 1)..Len(f) : f[j].part # "lf"
    <3>1. 3 * m \in 1..Len(f) /\ f[3 * m].part = "lf"
      BY <2>1, <2>3
    <3>2. last(3 * m)
      <4>1. ASSUME NEW j \in (3 * m + 1)..Len(f) PROVE f[j].part # "lf"
        <5>1. j \in 1..Len(f) /\ ~\E i \in 1..m : j = 3 * i
          OBVIOUS
        <5> QED
          BY <2>1, <5>1
      <4> QED
        BY <3>1, <4>1
    <3>3. k \in 1..Len(f) /\ last(k)
      BY <3>1, <3>2
    <3>4. k = 3 * m
      <4> HIDE DEF k
      <4>1. ~(k < 3 * m)
        BY <3>1, <3>3
      <4>2. ~(k > 3 * m)
        BY <3>1, <3>2, <3>3
      <4> QED
        BY <3>3, <4>1, <4>2
    <3>5. Repaired(f) = SubSeq(f, 1, k)
      BY <3>1 DEF Repaired
    <3> HIDE DEF k
    <3> QED
      BY <3>4, <3>5
  <2> QED
    BY <2>2, <2>3
<1> QED
  BY <1>8, <1>9, <1>10, <1>11 DEF Readable

-----------------------------------------------------------------------------
(* The writer. *)

\* append takes a row into the buffer as a whole, behind what is there.
LEMMA RowEnters ==
    ASSUME NEW f \in Seq(Cells), NEW b \in Seq(Cells), NEW n \in Nat
    PROVE  LET c == b \o Row(n)
           IN  /\ c \in Seq(Cells)
               /\ Size(f, c) = Size(f, b) + 3
               /\ At(f, c, Size(f, c)) = Lf(n)
               /\ WovenStream(f, b) => WovenStream(f, c)
               /\ RowsInOrder(f, b) /\ Size(f, b) = 3 * (n - 1) => RowsInOrder(f, c)
<1> DEFINE c == b \o Row(n)
           S == Size(f, b)
<1>1. /\ c \in Seq(Cells)
      /\ Len(c) = Len(b) + 3
      /\ \A i \in 1..Len(b) : c[i] = b[i]
      /\ \A k \in 1..3 : c[Len(b) + k] = Row(n)[k]
  <2> DEFINE d == Row(n)
  <2>1. d \in Seq(Cells) /\ Len(d) = 3
    BY RowCells
  <2> HIDE DEF d
  <2>2. /\ b \o d \in Seq(Cells) /\ Len(b \o d) = Len(b) + Len(d)
        /\ \A i \in 1..Len(b) + Len(d) :
               (b \o d)[i] = IF i <= Len(b) THEN b[i] ELSE d[i - Len(b)]
    BY <2>1, ConcatProperties
  <2>3. \A i \in 1..Len(b) : i \in 1..Len(b) + Len(d) /\ (b \o d)[i] = b[i]
    BY <2>1, <2>2
  <2>4. ASSUME NEW k \in 1..3 PROVE (b \o d)[Len(b) + k] = d[k]
    <3>1. Len(b) + k \in 1..Len(b) + Len(d) /\ ~(Len(b) + k <= Len(b)) /\ (Len(b) + k) - Len(b) = k
      BY <2>1
    <3> QED
      BY <2>2, <3>1
  <2> QED
    BY <2>1, <2>2, <2>3, <2>4 DEF d
<1>2. /\ S \in Nat /\ Len(f) \in Nat /\ Len(b) \in Nat /\ S = Len(f) + Len(b)
      /\ Size(f, c) = S + 3
  BY <1>1 DEF Size
<1> HIDE DEF c, S
<1>3. /\ \A i \in 1..S : At(f, c, i) = At(f, b, i)
      /\ \A k \in 1..3 : At(f, c, S + k) = Row(n)[k]
  <2>1. ASSUME NEW i \in 1..S PROVE At(f, c, i) = At(f, b, i)
    <3>1. CASE i <= Len(f)
      BY <3>1 DEF At
    <3>2. CASE i > Len(f)
      <4>1. i - Len(f) \in 1..Len(b) /\ ~(i <= Len(f))
        BY <1>2, <3>2
      <4>2. c[i - Len(f)] = b[i - Len(f)]
        BY <1>1, <4>1
      <4> QED
        BY <4>1, <4>2 DEF At
    <3> QED
      BY <1>2, <3>1, <3>2
  <2>2. ASSUME NEW k \in 1..3 PROVE At(f, c, S + k) = Row(n)[k]
    <3>1. ~(S + k <= Len(f)) /\ (S + k) - Len(f) = Len(b) + k
      BY <1>2
    <3>2. c[Len(b) + k] = Row(n)[k]
      BY <1>1
    <3> QED
      BY <3>1, <3>2 DEF At
  <2> QED
    BY <2>1, <2>2
<1>4. /\ At(f, c, S + 1) = [row |-> n, part |-> "head"]
      /\ At(f, c, S + 2) = [row |-> n, part |-> "tail"]
      /\ At(f, c, S + 3) = Lf(n)
  BY <1>3, RowCells
<1>5. WovenStream(f, b) => WovenStream(f, c)
  <2> SUFFICES ASSUME WovenStream(f, b), NEW i \in 1..S + 3
               PROVE  /\ At(f, c, i).part = "tail" =>
                            i > 1 /\ At(f, c, i - 1) = [row |-> At(f, c, i).row, part |-> "head"]
                      /\ At(f, c, i).part = "lf" =>
                            i > 1 /\ At(f, c, i - 1) = [row |-> At(f, c, i).row, part |-> "tail"]
    BY <1>2 DEF WovenStream
  <2>1. CASE i \in 1..S
    <3>1. At(f, c, i) = At(f, b, i) /\ (i > 1 => At(f, c, i - 1) = At(f, b, i - 1))
      <4>1. i > 1 => i - 1 \in 1..S
        BY <1>2, <2>1
      <4> QED
        BY <1>3, <2>1, <4>1
    <3> QED
      BY <2>1, <3>1 DEF WovenStream, S
  <2>2. CASE i = S + 1
    BY <1>4, <2>2
  <2>3. CASE i = S + 2
    <3>1. i > 1 /\ i - 1 = S + 1
      BY <1>2, <2>3
    <3> QED
      BY <1>4, <2>3, <3>1
  <2>4. CASE i = S + 3
    <3>1. i > 1 /\ i - 1 = S + 2
      BY <1>2, <2>4
    <3> QED
      BY <1>4, <2>4, <3>1 DEF Lf
  <2>5. i \in 1..S \/ i = S + 1 \/ i = S + 2 \/ i = S + 3
    BY <1>2
  <2> QED
    BY <2>1, <2>2, <2>3, <2>4, <2>5
<1>6. RowsInOrder(f, b) /\ S = 3 * (n - 1) => RowsInOrder(f, c)
  <2> SUFFICES ASSUME RowsInOrder(f, b), S = 3 * (n - 1),
                      NEW j \in Nat, NEW k \in 1..3, 3 * j + k <= S + 3
               PROVE  At(f, c, 3 * j + k) = Row(j + 1)[k]
    BY <1>2 DEF RowsInOrder, S
  <2>1. CASE j < n - 1
    <3>1. 3 * j + k \in 1..S
      BY <1>2, <2>1
    <3>2. At(f, c, 3 * j + k) = At(f, b, 3 * j + k)
      BY <1>3, <3>1
    <3>3. At(f, b, 3 * j + k) = Row(j + 1)[k]
      <4>1. 3 * j + k <= Size(f, b)
        BY <1>2, <3>1 DEF S
      <4> QED
        BY <4>1 DEF RowsInOrder
    <3> QED
      BY <3>2, <3>3
  <2>2. CASE j = n - 1
    <3>1. 3 * j + k = S + k /\ j + 1 = n
      BY <2>2
    <3> QED
      BY <1>3, <3>1
  <2> QED
    BY <1>2, <2>1, <2>2
<1>7. At(f, c, Size(f, c)) = Lf(n)
  BY <1>2, <1>4
<1> QED
  BY <1>1, <1>2, <1>5, <1>6, <1>7 DEF c, S

\* write moves the first cell of the buffer to the end of the file.
LEMMA CellMoves ==
    ASSUME NEW f \in Seq(Cells), NEW b \in Seq(Cells), b # <<>>
    PROVE  LET g == Append(f, Head(b))
               c == Tail(b)
           IN  /\ g \in Seq(Cells) /\ c \in Seq(Cells)
               /\ Len(g) = Len(f) + 1
               /\ \A i \in 1..Len(f) : g[i] = f[i]
               /\ Size(g, c) = Size(f, b)
               /\ Begins(g, c, f, b)
<1> DEFINE g == Append(f, Head(b))
           c == Tail(b)
<1>1. /\ g \in Seq(Cells) /\ Len(g) = Len(f) + 1
      /\ \A i \in 1..Len(f) : g[i] = f[i]
      /\ g[Len(f) + 1] = b[1]
  OBVIOUS
<1>2. /\ c \in Seq(Cells) /\ Len(b) > 0 /\ Len(c) = Len(b) - 1
      /\ \A i \in 1..Len(c) : c[i] = b[i + 1]
  OBVIOUS
<1>3. Len(f) \in Nat /\ Len(b) \in Nat
  OBVIOUS
<1> HIDE DEF g, c
<1>4. Size(g, c) = Size(f, b) /\ Size(f, b) = Len(f) + Len(b)
  BY <1>1, <1>2, <1>3 DEF Size
<1>5. ASSUME NEW i \in 1..Size(f, b) PROVE At(g, c, i) = At(f, b, i)
  <2>1. CASE i <= Len(f)
    BY <1>1, <1>3, <1>4, <2>1 DEF At
  <2>2. CASE i = Len(f) + 1
    BY <1>1, <1>3, <2>2 DEF At
  <2>3. CASE i > Len(f) + 1
    <3>1. /\ i - Len(g) \in 1..Len(c) /\ (i - Len(g)) + 1 = i - Len(f)
          /\ ~(i <= Len(g)) /\ ~(i <= Len(f))
      BY <1>1, <1>2, <1>3, <1>4, <2>3
    <3>2. c[i - Len(g)] = b[(i - Len(g)) + 1]
      BY <1>2, <3>1
    <3> QED
      BY <3>1, <3>2 DEF At
  <2> QED
    BY <1>3, <1>4, <2>1, <2>2, <2>3
<1> QED
  BY <1>1, <1>2, <1>3, <1>4, <1>5 DEF Begins, g, c, Size

-----------------------------------------------------------------------------
(* Acknowledged rows survive. *)

\* The row of an append under way is the last in the stream, and once flushed in the file.
UnderWay ==
    /\ status \in {"writing", "fsync"} =>
           Size(file, buf) > 0 /\ At(file, buf, Size(file, buf)) = Lf(synced + 1)
    /\ status \in {"fsync", "down"} => buf = <<>>

\* While the log is open every row that counts as synced is in the file.
SyncedHeld ==
    status \in {"idle", "writing", "fsync"} =>
        \A n \in 1..synced : \E i \in 1..Len(file) : file[i] = Lf(n)

AckedHeld == \A n \in 1..seen.acked : \E i \in 1..durable : file[i] = Lf(n)

Holds ==
    /\ Typed
    /\ WovenStream(file, buf)
    /\ UnderWay
    /\ SyncedHeld
    /\ AckedHeld

\* What a failed write leaves in the buffer is a beginning of it.
LEMMA RetainedBegins ==
    ASSUME Typed, NEW c \in Retained
    PROVE  c \in Seq(Cells) /\ Begins(file, c, file, buf)
<1> USE DEF Typed
<1> DEFINE k == IF Len(buf) > 3 THEN Len(buf) - 3 ELSE 0
<1>1. k \in 0..Len(buf)
  OBVIOUS
<1>2. c = buf \/ c = SubSeq(buf, 1, k)
  BY DEF Retained
<1>3. Begins(file, buf, file, buf)
  BY DEF Begins, Size
<1>4. SubSeq(buf, 1, k) \in Seq(Cells) /\ Begins(file, SubSeq(buf, 1, k), file, buf)
  BY <1>1, CutBegins
<1> QED
  BY <1>2, <1>3, <1>4

LEMMA HoldsInit == Init => Holds
<1> SUFFICES ASSUME Init PROVE Holds
  OBVIOUS
<1> QED
  <2>1. <<>> \in Seq(Cells) /\ Len(<<>>) = 0
    OBVIOUS
  <2>2. Typed
    <3>1. seen \in [acked: Nat, failed: BOOLEAN]
      BY DEF Init
    <3>2. /\ file \in Seq(Cells) /\ buf \in Seq(Cells) /\ durable \in 0..Len(file)
          /\ items \in Nat /\ synced \in Nat
      BY <2>1 DEF Init
    <3>3. ending \in BOOLEAN /\ status \in {"idle", "writing", "fsync", "closed", "down"}
      BY DEF Init
    <3> QED
      BY <3>1, <3>2, <3>3 DEF Typed
  <2>3. Size(file, buf) = 0 /\ 1..0 = {}
    BY <2>1 DEF Init, Size
  <2>4. WovenStream(file, buf)
    BY <2>3 DEF WovenStream
  <2>5. UnderWay /\ SyncedHeld /\ AckedHeld
    BY <2>3 DEF Init, UnderWay, SyncedHeld, AckedHeld
  <2> QED
    BY <2>2, <2>4, <2>5 DEF Holds

\* A step that only shortens the stream behind the last fsync keeps what it held.
LEMMA HoldsStep == Holds /\ [Next]_vars => Holds'
<1> SUFFICES ASSUME Holds, [Next]_vars PROVE Holds'
  OBVIOUS
<1> USE DEF Holds
<1>0. /\ file \in Seq(Cells) /\ buf \in Seq(Cells) /\ durable \in 0..Len(file)
      /\ items \in Nat /\ synced \in Nat /\ ending \in BOOLEAN
      /\ seen.acked \in Nat /\ seen.failed \in BOOLEAN /\ Len(file) \in Nat
      /\ seen = [acked |-> seen.acked, failed |-> seen.failed]
  BY DEF Typed
<1>1. CASE AppendRow \/ AppendEnd \/ Close \/ UNCHANGED vars
  <2>1. /\ UNCHANGED <<file, durable, buf, synced, seen>>
        /\ status' = status \/ status' = "closed"
        /\ items' \in Nat /\ ending' \in BOOLEAN
    <3>1. CASE AppendRow
      BY <1>0, <3>1 DEF AppendRow
    <3>2. CASE AppendEnd
      BY <1>0, <3>2 DEF AppendEnd
    <3>3. CASE Close
      BY <1>0, <3>3 DEF Close
    <3>4. CASE UNCHANGED vars
      BY <1>0, <3>4 DEF vars
    <3> QED
      BY <1>1, <3>1, <3>2, <3>3, <3>4
  <2>2. Typed'
    BY <2>1 DEF Typed
  <2>3. (WovenStream(file, buf))' /\ SyncedHeld' /\ AckedHeld' /\ UnderWay'
    BY <2>1 DEF WovenStream, At, Size, SyncedHeld, AckedHeld, UnderWay
  <2> QED
    BY <2>2, <2>3
<1>2. CASE BeginAppend
  <2> USE <1>2 DEF BeginAppend
  <2>1. /\ buf' \in Seq(Cells)
        /\ Size(file, buf') = Size(file, buf) + 3
        /\ At(file, buf', Size(file, buf')) = Lf(synced + 1)
        /\ WovenStream(file, buf')
    <3>1. synced + 1 \in Nat
      BY <1>0
    <3> QED
      BY <1>0, <3>1, RowEnters
  <2>2. Typed'
    BY <2>1 DEF Typed
  <2>3. UnderWay'
    BY <1>0, <2>1 DEF UnderWay, Size
  <2>4. SyncedHeld' /\ AckedHeld'
    BY DEF SyncedHeld, AckedHeld
  <2> QED
    BY <2>1, <2>2, <2>3, <2>4
<1>3. CASE WriteCell
  <2> USE <1>3 DEF WriteCell
  <2>1. /\ file' \in Seq(Cells) /\ buf' \in Seq(Cells)
        /\ Len(file') = Len(file) + 1
        /\ \A i \in 1..Len(file) : file'[i] = file[i]
        /\ Size(file', buf') = Size(file, buf)
        /\ Begins(file', buf', file, buf)
    BY <1>0, CellMoves
  <2>2. Typed'
    BY <1>0, <2>1 DEF Typed
  <2>3. WovenStream(file', buf')
    BY <1>0, <2>1, BeginningKeeps
  <2>4. UnderWay'
    <3>1. Size(file, buf) \in Nat
      BY <1>0 DEF Size
    <3> QED
      BY <2>1, <3>1 DEF UnderWay, Begins
  <2>5. SyncedHeld' /\ AckedHeld'
    BY <1>0, <2>1 DEF SyncedHeld, AckedHeld
  <2> QED
    BY <2>2, <2>3, <2>4, <2>5
<1>4. CASE Flushed
  BY <1>4 DEF Flushed, Typed, WovenStream, UnderWay, SyncedHeld, AckedHeld, Size, At
<1>5. CASE Fsync
  <2> USE <1>5 DEF Fsync
  <2>1. Typed' /\ seen'.acked = synced + 1
    BY <1>0 DEF Typed
  <2>2. Len(file) > 0 /\ file[Len(file)] = Lf(synced + 1)
    <3>1. Size(file, buf) = Len(file)
      BY <1>0 DEF UnderWay, Size
    <3> QED
      BY <1>0, <3>1 DEF UnderWay, At
  <2>3. \A n \in 1..synced + 1 : \E i \in 1..Len(file) : file[i] = Lf(n)
    <3> SUFFICES ASSUME NEW n \in 1..synced + 1 PROVE \E i \in 1..Len(file) : file[i] = Lf(n)
      OBVIOUS
    <3>1. CASE n = synced + 1
      BY <1>0, <2>2, <3>1
    <3>2. CASE n # synced + 1
      <4>1. n \in 1..synced
        BY <1>0, <3>2
      <4> QED
        BY <4>1 DEF SyncedHeld
    <3> QED
      BY <3>1, <3>2
  <2>4. SyncedHeld' /\ AckedHeld'
    BY <1>0, <2>1, <2>3 DEF SyncedHeld, AckedHeld
  <2>5. (WovenStream(file, buf))' /\ UnderWay'
    BY DEF WovenStream, At, Size, UnderWay
  <2> QED
    BY <2>1, <2>4, <2>5
<1>6. CASE WriteFails \/ FsyncFails
  <2>1. /\ UNCHANGED <<file, durable, synced>>
        /\ buf' = buf \/ buf' \in Retained
        /\ status' \in {"idle", "closed"} /\ status \in {"writing", "fsync"}
        /\ items' \in Nat /\ ending' \in BOOLEAN
        /\ seen' = [acked |-> seen.acked, failed |-> TRUE]
    <3>1. AppendFailed /\ UNCHANGED <<file, durable, synced>>
          /\ (buf' = buf \/ buf' \in Retained) /\ status \in {"writing", "fsync"}
      BY <1>6 DEF WriteFails, FsyncFails
    <3>2. /\ status' \in {"idle", "closed"}
          /\ items' \in Nat /\ ending' \in BOOLEAN
      <4>1. CASE ending
        BY <1>0, <3>1, <4>1 DEF AppendFailed
      <4>2. CASE ~ending
        BY <1>0, <3>1, <4>2 DEF AppendFailed
      <4> QED
        BY <4>1, <4>2
    <3>3. seen' = [acked |-> seen.acked, failed |-> TRUE]
      <4>1. seen' = [seen EXCEPT !.failed = TRUE]
        BY <3>1 DEF AppendFailed
      <4> QED
        BY <1>0, <4>1
    <3> QED
      BY <3>1, <3>2, <3>3
  <2>2. buf' \in Seq(Cells) /\ (WovenStream(file, buf))'
    <3>1. CASE buf' = buf
      BY <1>0, <2>1, <3>1
    <3>2. CASE buf' \in Retained
      BY <1>0, <2>1, <3>2, RetainedBegins, BeginningKeeps
    <3> QED
      BY <2>1, <3>1, <3>2
  <2>3. Typed'
    BY <1>0, <2>1, <2>2 DEF Typed
  <2>4. UnderWay' /\ SyncedHeld' /\ AckedHeld'
    BY <2>1 DEF UnderWay, SyncedHeld, AckedHeld
  <2> QED
    BY <2>2, <2>3, <2>4
<1>7. CASE DropBuffer
  <2> USE <1>7 DEF DropBuffer
  <2>1. PICK k \in 0..Len(buf) : file' = file \o SubSeq(buf, 1, k)
    <3>1. (IF IoMayFail THEN 0..Len(buf) ELSE {Len(buf)}) \subseteq 0..Len(buf)
      BY <1>0
    <3> QED
      BY <3>1
  <2>2. /\ SubSeq(buf, 1, k) \in Seq(Cells)
        /\ Begins(file', <<>>, file, buf)
    BY <1>0, <2>1, CutBegins
  <2>3. /\ file' \in Seq(Cells)
        /\ Len(file') >= Len(file) /\ Len(file') \in Nat
        /\ \A i \in 1..Len(file) : file'[i] = file[i]
    <3> DEFINE c == SubSeq(buf, 1, k)
    <3>1. c \in Seq(Cells) /\ Len(c) \in Nat
      BY <2>2
    <3> HIDE DEF c
    <3>2. /\ file \o c \in Seq(Cells)
          /\ Len(file \o c) = Len(file) + Len(c)
          /\ \A i \in 1..Len(file) + Len(c) :
                 (file \o c)[i] = IF i <= Len(file) THEN file[i] ELSE c[i - Len(file)]
      BY <1>0, <3>1, ConcatProperties
    <3>3. file' = file \o c
      BY <2>1 DEF c
    <3> HIDE DEF c
    <3>4. file' \in Seq(Cells) /\ Len(file') = Len(file) + Len(c)
      BY <3>2, <3>3
    <3>5. ASSUME NEW i \in 1..Len(file) PROVE file'[i] = file[i]
      <4>1. i \in 1..Len(file) + Len(c) /\ i <= Len(file)
        BY <1>0, <3>1
      <4> QED
        BY <3>2, <3>3, <4>1
    <3> QED
      BY <1>0, <3>1, <3>4, <3>5
  <2>4. Typed'
    BY <1>0, <2>3 DEF Typed
  <2>5. WovenStream(file', <<>>)
    <3>1. <<>> \in Seq(Cells)
      OBVIOUS
    <3> QED
      BY <1>0, <2>2, <2>3, <3>1, BeginningKeeps
  <2>6. UnderWay' /\ SyncedHeld' /\ AckedHeld'
    BY <1>0, <2>3 DEF UnderWay, SyncedHeld, AckedHeld
  <2> QED
    BY <2>4, <2>5, <2>6
<1>8. CASE Crash
  <2> USE <1>8 DEF Crash
  <2>1. PICK k \in durable..Len(file) : file' = SubSeq(file, 1, k)
    OBVIOUS
  <2>2. /\ file' \in Seq(Cells) /\ Len(file') = k
        /\ \A i \in 1..k : file'[i] = file[i]
        /\ Begins(file', <<>>, file, buf)
    <3>1. k \in 0..Len(file)
      BY <1>0
    <3> QED
      BY <1>0, <2>1, <3>1, CutBegins
  <2>3. Typed'
    BY <1>0, <2>2 DEF Typed
  <2>4. WovenStream(file', <<>>)
    <3>1. <<>> \in Seq(Cells)
      OBVIOUS
    <3> QED
      BY <1>0, <2>2, <3>1, BeginningKeeps
  <2>5. UnderWay' /\ SyncedHeld' /\ AckedHeld'
    BY <1>0, <2>1, <2>2 DEF UnderWay, SyncedHeld, AckedHeld
  <2> QED
    BY <2>3, <2>4, <2>5
<1>9. CASE Reopen
  <2> USE <1>9 DEF Reopen
  <2> DEFINE N == RowsRead(Repaired(file))
  <2>1. PICK k \in 0..Len(file) :
            /\ file' = SubSeq(file, 1, k)
            /\ k > 0 => file[k].part = "lf"
            /\ \A j \in (k + 1)..Len(file) : file[j].part # "lf"
    BY <1>0, RepairCuts
  <2>2. /\ file' \in Seq(Cells) /\ Len(file') = k
        /\ \A i \in 1..k : file'[i] = file[i]
        /\ Begins(file', <<>>, file, buf)
    BY <1>0, <2>1, CutBegins
  <2>3. WovenStream(file', <<>>)
    <3>1. <<>> \in Seq(Cells)
      OBVIOUS
    <3> QED
      BY <1>0, <2>2, <3>1, BeginningKeeps
  <2>4. /\ N \in Nat /\ items' = N /\ synced' = N
        /\ Gapless(file') /\ N = RowsRead(file')
    BY <2>2, EntriesFinite DEF RowsAfterOpen, Readable
  <2>5. \A n \in 1..N : \E i \in 1..Len(file') : file'[i] = Lf(n)
    <3>1. Len(file') > 0 => file'[Len(file')].part = "lf"
      BY <2>1, <2>2
    <3> HIDE DEF N
    <3> QED
      BY <2>2, <2>3, <2>4, <3>1, ReadRowsWhole
  <2>6. durable' \in 0..Len(file') /\ (durable' = durable \/ durable' = Len(file'))
    BY <1>0, <2>2
  <2>7. Typed'
    <3> HIDE DEF N
    <3> QED
      BY <2>2, <2>4, <2>6 DEF Typed
  <2>8. AckedHeld'
    <3> SUFFICES ASSUME NEW n \in 1..seen.acked PROVE \E i \in 1..durable' : file'[i] = Lf(n)
      BY DEF AckedHeld
    <3>1. PICK i \in 1..durable : file[i] = Lf(n)
      BY DEF AckedHeld
    <3>2. i \in 1..k
      BY <1>0, <2>1, <3>1 DEF Lf
    <3>3. i \in 1..durable' /\ file'[i] = Lf(n)
      BY <1>0, <2>2, <2>6, <3>1, <3>2
    <3> QED
      BY <3>3
  <2>9. SyncedHeld' /\ UnderWay'
    <3> HIDE DEF N
    <3> QED
      BY <2>4, <2>5 DEF SyncedHeld, UnderWay
  <2>10. buf' = <<>>
    BY DEF UnderWay
  <2> QED
    BY <2>3, <2>7, <2>8, <2>9, <2>10
<1> QED
  BY <1>1, <1>2, <1>3, <1>4, <1>5, <1>6, <1>7, <1>8, <1>9 DEF Next, Refused

\* The log's type invariant and what keeps the rows that were acknowledged, for any
\* failures and crashes (LogWriter::append and open, the loop's sync and finish).
THEOREM LogInvariant == Spec => []Holds
<1> QED
  BY HoldsInit, HoldsStep, PTL DEF Spec

\* "Ok means durable": AckedOnDisk, for any rows, failures, crashes and reopenings.
THEOREM AckedOnDiskAlways == Spec => []AckedOnDisk
<1>1. Holds => AckedOnDisk
  <2> SUFFICES ASSUME Holds, NEW n \in 1..seen.acked
               PROVE  \E p \in 1..durable : SubSeq(file, p, p + 2) = Row(n) /\ p + 2 <= durable
    BY DEF AckedOnDisk
  <2>1. /\ file \in Seq(Cells) /\ buf \in Seq(Cells) /\ Len(file) \in Nat
        /\ durable \in 0..Len(file) /\ seen.acked \in Nat /\ n \in Nat
    BY DEF Holds, Typed
  <2>2. PICK i \in 1..durable : file[i] = Lf(n)
    BY DEF Holds, AckedHeld
  <2>3. i \in 1..Len(file) /\ WovenStream(file, buf)
    BY <2>1 DEF Holds
  <2>4. /\ i > 2
        /\ file[i - 1] = [row |-> n, part |-> "tail"]
        /\ file[i - 2] = [row |-> n, part |-> "head"]
    BY <2>1, <2>2, <2>3, WholeRow
  <2> DEFINE p == i - 2
  <2>5. p \in 1..durable /\ p + 2 <= durable /\ p + 2 = i /\ p + 1 = i - 1
    BY <2>1, <2>2, <2>4
  <2> HIDE DEF p
  <2>6. /\ file[p] = [row |-> n, part |-> "head"]
        /\ file[p + 1] = [row |-> n, part |-> "tail"]
        /\ file[p + 2] = [row |-> n, part |-> "lf"]
    BY <2>2, <2>4, <2>5 DEF p, Lf
  <2>7. SubSeq(file, p, p + 2) = <<file[p], file[p + 1], file[p + 2]>>
    <3> DEFINE t == SubSeq(file, p, p + 2)
    <3>1. /\ t \in Seq(Cells) /\ Len(t) = 3
          /\ \A k \in 1..3 : t[k] = file[p + k - 1]
      BY <2>1, <2>5
    <3>2. t[1] = file[p] /\ t[2] = file[p + 1] /\ t[3] = file[p + 2]
      BY <2>1, <2>5, <3>1
    <3> HIDE DEF t
    <3>3. t = <<t[1], t[2], t[3]>>
      BY <3>1
    <3> QED
      BY <3>2, <3>3 DEF t
  <2> QED
    BY <2>5, <2>6, <2>7 DEF Row
<1> QED
  BY <1>1, LogInvariant, PTL

-----------------------------------------------------------------------------
(* Without a failed append the file is the rows in order. *)

InOrder ==
    ~seen.failed =>
        /\ RowsInOrder(file, buf)
        /\ synced <= items
        /\ 3 * seen.acked <= durable
        /\ Size(file, buf) <= 3 * items
        /\ status = "idle" => buf = <<>> /\ Len(file) = 3 * synced
        /\ status = "writing" => synced < items /\ Size(file, buf) = 3 * (synced + 1)
        /\ status = "fsync" => synced < items /\ Len(file) = 3 * (synced + 1)
        /\ status = "closed" => buf = <<>> /\ Len(file) = 3 * items

\* The reader on such a file: it returns what was acknowledged and nothing else.
LEMMA OrderedFile ==
    ASSUME Holds, InOrder, ~seen.failed
    PROVE  \E m \in Nat, r \in 0..2 :
              /\ Len(file) = 3 * m + r
              /\ Readable(file) /\ RowsRead(file) = IF r = 2 THEN m + 1 ELSE m
              /\ Repaired(file) = SubSeq(file, 1, 3 * m)
              /\ Repaired(file) \in Seq(Cells) /\ Len(Repaired(file)) = 3 * m
              /\ Begins(Repaired(file), <<>>, file, buf)
              /\ Readable(Repaired(file)) /\ RowsRead(Repaired(file)) = m
              /\ seen.acked <= m /\ m <= items /\ (r = 2 => m + 1 <= items)
<1>1. /\ file \in Seq(Cells) /\ buf \in Seq(Cells) /\ Len(file) \in Nat /\ Len(buf) \in Nat
      /\ durable \in 0..Len(file) /\ items \in Nat /\ seen.acked \in Nat
  BY DEF Holds, Typed
<1>2. PICK m \in Nat, r \in 0..2 : Len(file) = 3 * m + r
  BY <1>1, ThreeByThree
<1>3. /\ Readable(file) /\ RowsRead(file) = IF r = 2 THEN m + 1 ELSE m
      /\ Repaired(file) = SubSeq(file, 1, 3 * m)
  BY <1>1, <1>2, OrderedReads DEF InOrder
<1> DEFINE g == Repaired(file)
<1>4. g \in Seq(Cells) /\ Len(g) = 3 * m /\ Begins(g, <<>>, file, buf)
  <2>1. 3 * m \in 0..Len(file)
    BY <1>2
  <2> QED
    BY <1>1, <1>3, <2>1, CutBegins
<1>5. Readable(g) /\ RowsRead(g) = m
  <2>1. <<>> \in Seq(Cells)
    OBVIOUS
  <2>2. RowsInOrder(g, <<>>)
    BY <1>1, <1>4, <2>1, BeginningKeeps DEF InOrder
  <2>3. 0 \in 0..2 /\ Len(g) = 3 * m + 0
    BY <1>4
  <2> HIDE DEF g
  <2>4. Readable(g) /\ RowsRead(g) = IF 0 = 2 THEN m + 1 ELSE m
    BY <1>4, <2>1, <2>2, <2>3, OrderedReads, Zenon
  <2> QED
    BY <2>4
<1>6. seen.acked <= m /\ m <= items /\ (r = 2 => m + 1 <= items)
  <2>1. Len(file) <= 3 * items /\ 3 * seen.acked <= Len(file)
    BY <1>1 DEF InOrder, Size
  <2> QED
    BY <1>1, <1>2, <2>1
<1> QED
  BY <1>2, <1>3, <1>4, <1>5, <1>6

LEMMA InOrderInit == Init => InOrder
<1> SUFFICES ASSUME Init PROVE InOrder
  OBVIOUS
<1>1. Len(<<>>) = 0
  OBVIOUS
<1>2. Size(file, buf) = 0
  BY <1>1 DEF Init, Size
<1>3. RowsInOrder(file, buf)
  BY <1>2 DEF RowsInOrder
<1> QED
  BY <1>1, <1>2, <1>3 DEF Init, InOrder

LEMMA InOrderStep == Holds /\ InOrder /\ [Next]_vars => InOrder'
<1> SUFFICES ASSUME Holds, InOrder, [Next]_vars, ~seen'.failed PROVE InOrder'
  BY DEF InOrder
<1>0. /\ file \in Seq(Cells) /\ buf \in Seq(Cells) /\ Len(file) \in Nat /\ Len(buf) \in Nat
      /\ durable \in 0..Len(file) /\ items \in Nat /\ synced \in Nat
      /\ seen = [acked |-> seen.acked, failed |-> seen.failed]
      /\ seen.acked \in Nat /\ Size(file, buf) = Len(file) + Len(buf)
  BY DEF Holds, Typed, Size
<1> DEFINE Failing == WriteFails \/ FsyncFails
<1>1. CASE Failing
  <2>1. seen' = [seen EXCEPT !.failed = TRUE]
    BY <1>1 DEF WriteFails, FsyncFails, AppendFailed
  <2> QED
    BY <1>0, <2>1
<1>2. ASSUME ~Failing PROVE ~seen.failed
  <2>1. CASE Fsync
    BY <1>0, <2>1 DEF Fsync
  <2>2. CASE ~Fsync
    BY <1>2, <2>2 DEF Next, AppendRow, AppendEnd, BeginAppend, WriteCell, Flushed, Close,
                      DropBuffer, Crash, Reopen, Refused, vars
  <2> QED
    BY <2>1, <2>2
<1> SUFFICES ASSUME ~Failing, ~seen.failed PROVE InOrder'
  BY <1>1, <1>2
<1>3. CASE AppendRow \/ AppendEnd
  <2>1. /\ UNCHANGED <<file, buf, durable, synced, seen, status>>
        /\ status = "idle" /\ items' = items + 1
    BY <1>3 DEF AppendRow, AppendEnd
  <2>2. (RowsInOrder(file, buf))' /\ (Size(file, buf))' = Size(file, buf)
    BY <2>1 DEF InOrder, RowsInOrder, Size, At
  <2> QED
    BY <1>0, <2>1, <2>2 DEF InOrder
<1>4. CASE BeginAppend
  <2> USE <1>4 DEF BeginAppend
  <2>1. /\ Size(file, buf') = Size(file, buf) + 3
        /\ RowsInOrder(file, buf) /\ Size(file, buf) = 3 * ((synced + 1) - 1)
               => RowsInOrder(file, buf')
    <3>1. synced + 1 \in Nat
      BY <1>0
    <3> QED
      BY <1>0, <3>1, RowEnters
  <2>2. Size(file, buf) = 3 * synced /\ 3 * ((synced + 1) - 1) = 3 * synced
    BY <1>0 DEF InOrder
  <2> QED
    BY <1>0, <2>1, <2>2 DEF InOrder
<1>5. CASE WriteCell
  <2> USE <1>5 DEF WriteCell
  <2>1. /\ file' \in Seq(Cells) /\ buf' \in Seq(Cells)
        /\ Size(file', buf') = Size(file, buf)
        /\ Begins(file', buf', file, buf)
    BY <1>0, CellMoves
  <2>2. RowsInOrder(file', buf')
    BY <1>0, <2>1, BeginningKeeps DEF InOrder
  <2> QED
    BY <2>1, <2>2 DEF InOrder
<1>6. CASE Flushed
  BY <1>0, <1>6 DEF Flushed, InOrder, RowsInOrder, Size, At
<1>7. CASE Fsync
  <2> USE <1>7 DEF Fsync
  <2>1. seen'.acked = synced + 1 /\ buf = <<>>
    BY <1>0 DEF Holds, UnderWay
  <2>2. (RowsInOrder(file, buf))' /\ Size(file', buf') = Size(file, buf)
    BY DEF InOrder, RowsInOrder, Size, At
  <2> QED
    BY <1>0, <2>1, <2>2 DEF InOrder
<1>8. CASE Close
  BY <1>0, <1>8 DEF Close, InOrder, RowsInOrder, Size, At
<1>9. CASE DropBuffer
  BY <1>9 DEF DropBuffer, InOrder
<1>10. CASE Crash
  <2> USE <1>10 DEF Crash
  <2>1. PICK k \in durable..Len(file) : file' = SubSeq(file, 1, k)
    OBVIOUS
  <2>2. /\ file' \in Seq(Cells) /\ Len(file') = k
        /\ Begins(file', <<>>, file, buf)
    <3>1. k \in 0..Len(file)
      BY <1>0
    <3> QED
      BY <1>0, <2>1, <3>1, CutBegins
  <2>3. RowsInOrder(file', <<>>)
    <3>1. <<>> \in Seq(Cells)
      OBVIOUS
    <3> QED
      BY <1>0, <2>2, <3>1, BeginningKeeps DEF InOrder
  <2>4. Size(file', <<>>) <= Size(file, buf)
    BY <2>2 DEF Begins
  <2>5. Size(file', <<>>) <= 3 * items
    BY <1>0, <2>2, <2>4 DEF InOrder, Size
  <2> QED
    BY <2>3, <2>5 DEF InOrder
<1>11. CASE Reopen
  <2> USE <1>11 DEF Reopen
  <2>1. PICK m \in Nat, r \in 0..2 :
            /\ file' \in Seq(Cells) /\ Len(file') = 3 * m
            /\ Begins(file', <<>>, file, buf)
            /\ RowsRead(Repaired(file)) = m
            /\ seen.acked <= m
    BY OrderedFile
  <2>2. buf' = <<>>
    BY DEF Holds, UnderWay
  <2>3. items' = m /\ synced' = m
    BY <2>1 DEF RowsAfterOpen
  <2>4. 3 * seen.acked <= durable'
    BY <1>0, <2>1 DEF InOrder
  <2>5. RowsInOrder(file', <<>>)
    <3>1. <<>> \in Seq(Cells)
      OBVIOUS
    <3> QED
      BY <1>0, <2>1, <3>1, BeginningKeeps DEF InOrder
  <2>6. Size(file', <<>>) = 3 * m
    BY <2>1 DEF Size
  <2> QED
    BY <2>1, <2>2, <2>3, <2>4, <2>5, <2>6 DEF InOrder
<1>12. CASE Refused \/ UNCHANGED vars
  BY <1>12 DEF Refused, vars, InOrder, RowsInOrder, Size, At
<1> QED
  BY <1>3, <1>4, <1>5, <1>6, <1>7, <1>8, <1>9, <1>10, <1>11, <1>12 DEF Next

\* As long as no append failed, the reader returns all acknowledged rows and none that was
\* not recorded, at any cut: ReadableAtAnyCut (read_log, truncate_torn_tail).
THEOREM ReadableAtAnyCutAlways == Spec => []ReadableAtAnyCut
<1>1. Holds /\ InOrder => ReadableAtAnyCut
  <2> SUFFICES ASSUME Holds, InOrder, ~seen.failed
               PROVE  /\ Readable(file) /\ Readable(Repaired(file))
                      /\ RowsRead(Repaired(file)) \in seen.acked..items
                      /\ RowsRead(file) \in seen.acked..items
    BY DEF ReadableAtAnyCut
  <2>1. seen.acked \in Nat /\ items \in Nat
    BY DEF Holds, Typed
  <2>2. PICK m \in Nat, r \in 0..2 :
            /\ Readable(file) /\ RowsRead(file) = IF r = 2 THEN m + 1 ELSE m
            /\ Readable(Repaired(file)) /\ RowsRead(Repaired(file)) = m
            /\ seen.acked <= m /\ m <= items /\ (r = 2 => m + 1 <= items)
    BY OrderedFile
  <2> QED
    BY <2>1, <2>2
<1> QED
  BY <1>1, InOrderInit, InOrderStep, LogInvariant, PTL DEF Spec

\* A log closed without an error holds every row of the run: ClosedComplete (finish).
THEOREM ClosedCompleteAlways == Spec => []ClosedComplete
<1>1. Holds /\ InOrder => ClosedComplete
  <2> SUFFICES ASSUME Holds, InOrder, status = "closed", ~seen.failed
               PROVE  buf = <<>> /\ RowsRead(file) = items
    BY DEF ClosedComplete
  <2>1. buf = <<>> /\ Len(file) = 3 * items /\ items \in Nat
    BY DEF Holds, Typed, InOrder
  <2>2. PICK m \in Nat, r \in 0..2 :
            Len(file) = 3 * m + r /\ RowsRead(file) = IF r = 2 THEN m + 1 ELSE m
    BY OrderedFile
  <2>3. m = items /\ r = 0
    BY <2>1, <2>2
  <2> QED
    BY <2>1, <2>2, <2>3
<1> QED
  BY <1>1, InOrderInit, InOrderStep, LogInvariant, PTL DEF Spec

=============================================================================
