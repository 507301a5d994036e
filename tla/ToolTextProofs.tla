--------------------------- MODULE ToolTextProofs ---------------------------
(***************************************************************************)
(* Facts about what the standard tools do with text, for every text and    *)
(* every setting of the caps: which matches of a search there are, what a  *)
(* collapsed text keeps, how a command is read, what is kept of an output  *)
(* and what a pipe holds of it.                                            *)
(***************************************************************************)
EXTENDS ToolText, FiniteSetTheorems, SequenceTheorems, TLAPS

(* Sets of natural numbers: induction over a set, so that no operator is a *)
(* parameter, recursion, and least and greatest members.                   *)

\* A set that holds 0 and the successor of each of its members holds every natural number.
LEMMA SetInduction ==
    ASSUME NEW S, 0 \in S, \A n \in Nat : n \in S => n + 1 \in S
    PROVE  Nat \subseteq S
  <1> SUFFICES ASSUME NEW m \in Nat, m \notin S PROVE FALSE
    OBVIOUS
  <1> DEFINE A == (0..m) \intersect S
             B == A \ {0}
             g == [n \in A |-> n + 1]
  <1>1. 0 \in A /\ \A n \in A : n \in Nat /\ n + 1 \in B
    OBVIOUS
  <1>2. IsFiniteSet(A)
    <2>1. IsFiniteSet(0..m) /\ A \subseteq 0..m
      BY FS_Interval
    <2> QED
      BY <2>1, FS_Subset
  <1>3. g \in [A -> B] /\ \A n \in A : g[n] = n + 1
    BY <1>1
  <1> HIDE DEF A, g
  <1>4. IsFiniteSet(B) /\ Cardinality(B) < Cardinality(A)
    <2>1. IsFiniteSet(B) /\ Cardinality(B) = Cardinality(A) - 1 /\ Cardinality(A) \in Nat
      BY <1>1, <1>2, FS_RemoveElement, FS_CardinalityType
    <2> QED
      BY <2>1
  <1> HIDE DEF B
  <1>5. PICK n \in A, k \in A : n # k /\ g[n] = g[k]
    BY <1>2, <1>3, <1>4, FS_PigeonHole
  <1> QED
    BY <1>1, <1>3, <1>5

\* A recursion over the first n numbers, and that one that stays in a set has a value.
Recurs(g, base, step, n) == g[0] = base /\ \A i \in 1..n : g[i] = step[<<i, g[i - 1]>>]

LEMMA RecursionIn ==
    ASSUME NEW n \in Nat, NEW X, NEW base \in X, NEW step \in [(1..n) \X X -> X]
    PROVE  \E g \in [0..n -> X] : Recurs(g, base, step, n)
  <1> DEFINE Upto(m, g) == g[0] = base /\ \A i \in 1..m : g[i] = step[<<i, g[i - 1]>>]
             S == {m \in Nat : m <= n => \E g \in [0..m -> X] : Upto(m, g)}
  <1>1. 0 \in S
    <2>1. [i \in 0..0 |-> base] \in [0..0 -> X] /\ Upto(0, [i \in 0..0 |-> base])
      OBVIOUS
    <2> QED
      BY <2>1
  <1>2. ASSUME NEW m \in Nat, m \in S PROVE m + 1 \in S
    <2> SUFFICES ASSUME m + 1 <= n PROVE \E g \in [0..(m + 1) -> X] : Upto(m + 1, g)
      OBVIOUS
    <2>1. PICK g \in [0..m -> X] : Upto(m, g)
      BY <1>2
    <2> DEFINE more == step[<<m + 1, g[m]>>]
               h == [i \in 0..(m + 1) |-> IF i = m + 1 THEN more ELSE g[i]]
    <2>2. more \in X
      <3>1. g[m] \in X /\ m + 1 \in 1..n
        BY <2>1
      <3> QED
        BY <3>1
    <2> HIDE DEF more
    <2>3. h \in [0..(m + 1) -> X]
      BY <2>1, <2>2
    <2>4. h[0] = base
      BY <2>1
    <2>5. ASSUME NEW i \in 1..(m + 1) PROVE h[i] = step[<<i, h[i - 1]>>]
      <3>1. i - 1 \in 0..m /\ h[i - 1] = g[i - 1]
        OBVIOUS
      <3>2. CASE i = m + 1
        <4>1. h[i] = more /\ i - 1 = m
          BY <3>2
        <4> QED
          BY <3>1, <3>2, <4>1 DEF more
      <3>3. CASE i # m + 1
        <4>1. i \in 1..m /\ h[i] = g[i]
          BY <3>3
        <4> QED
          BY <2>1, <3>1, <4>1
      <3> QED
        BY <3>2, <3>3
    <2> HIDE DEF h
    <2> QED
      BY <2>3, <2>4, <2>5
  <1>3. n \in S
    <2> HIDE DEF S
    <2> QED
      BY <1>1, <1>2, SetInduction
  <1> QED
    BY <1>3 DEF Recurs

\* A set of natural numbers that is not empty has a least member.
LEMMA LeastMember ==
    ASSUME NEW S \in SUBSET Nat, S # {}
    PROVE  \E m \in S : \A n \in S : m <= n
  <1> SUFFICES ASSUME \A m \in S : \E n \in S : n < m PROVE FALSE
    OBVIOUS
  <1> DEFINE Clear == {n \in Nat : \A k \in 0..n : k \notin S}
  <1>1. 0 \in Clear
    OBVIOUS
  <1>2. ASSUME NEW n \in Nat, n \in Clear PROVE n + 1 \in Clear
    <2>1. n + 1 \notin S
      <3> SUFFICES ASSUME n + 1 \in S PROVE FALSE
        OBVIOUS
      <3>1. PICK k \in S : k < n + 1
        OBVIOUS
      <3>2. k \in 0..n
        BY <3>1
      <3> QED
        BY <1>2, <3>2
    <2>2. \A k \in 0..(n + 1) : k \in 0..n \/ k = n + 1
      OBVIOUS
    <2> QED
      BY <1>2, <2>1, <2>2
  <1>3. Nat \subseteq Clear
    <2> HIDE DEF Clear
    <2> QED
      BY <1>1, <1>2, SetInduction
  <1>4. PICK m : m \in S
    OBVIOUS
  <1>5. m \in Clear /\ m \in 0..m
    BY <1>3, <1>4
  <1> QED
    BY <1>4, <1>5

\* A set of natural numbers below a bound that is not empty has a greatest member, and that
\* is what Max chooses.
LEMMA MaxMember ==
    ASSUME NEW S \in SUBSET Nat, S # {}, NEW b \in Nat, \A n \in S : n <= b
    PROVE  Max(S) \in S /\ \A n \in S : n <= Max(S)
  <1> DEFINE Over == {c \in Nat : \A n \in S : n <= c}
  <1>1. PICK c \in Over : \A d \in Over : c <= d
    <2>1. b \in Over
      OBVIOUS
    <2> QED
      BY <2>1, LeastMember
  <1>2. c \in S
    <2> SUFFICES ASSUME c \notin S PROVE FALSE
      OBVIOUS
    <2>1. c \in Nat /\ \A n \in S : n \in Nat /\ n < c
      OBVIOUS
    <2>2. PICK n \in S : n < c
      BY <2>1
    <2>3. c - 1 \in Nat /\ \A k \in S : k <= c - 1
      BY <2>1, <2>2
    <2> QED
      BY <1>1, <2>3
  <1>3. \E m \in S : \A n \in S : m >= n
    BY <1>2
  <1> QED
    BY <1>3 DEF Max

\* What Min chooses from a set of natural numbers that is not empty.
LEMMA MinMember ==
    ASSUME NEW S \in SUBSET Nat, S # {}
    PROVE  Min(S) \in S /\ \A n \in S : Min(S) <= n
  BY LeastMember DEF Min

\* A finite family of natural numbers has a bound.
LEMMA FamilyBounded ==
    \A n \in Nat : \A g \in [1..n -> Nat] : \E b \in Nat : \A i \in 1..n : g[i] <= b
  <1> DEFINE S == {n \in Nat : \A g \in [1..n -> Nat] : \E b \in Nat : \A i \in 1..n : g[i] <= b}
  <1>1. 0 \in S
    <2>1. \A i \in 1..0 : FALSE
      OBVIOUS
    <2> QED
      BY <2>1
  <1>2. ASSUME NEW n \in Nat, n \in S PROVE n + 1 \in S
    <2> n + 1 \in Nat
      OBVIOUS
    <2> SUFFICES ASSUME NEW g \in [1..(n + 1) -> Nat]
                 PROVE  \E b \in Nat : \A i \in 1..(n + 1) : g[i] <= b
      OBVIOUS
    <2>1. [i \in 1..n |-> g[i]] \in [1..n -> Nat]
      OBVIOUS
    <2>2. PICK b \in Nat : \A i \in 1..n : [j \in 1..n |-> g[j]][i] <= b
      BY <1>2, <2>1
    <2>3. g[n + 1] \in Nat
      OBVIOUS
    <2>4. PICK c \in Nat : b <= c /\ g[n + 1] <= c
      BY <2>3
    <2>5. \A i \in 1..(n + 1) : i \in 1..n \/ i = n + 1
      OBVIOUS
    <2>6. \A i \in 1..(n + 1) : g[i] <= c
      BY <2>2, <2>3, <2>4, <2>5
    <2> QED
      BY <2>6
  <1>3. Nat \subseteq S
    <2> HIDE DEF S
    <2> QED
      BY <1>1, <1>2, SetInduction
  <1> QED
    BY <1>3

\* So has the image of a finite set.
LEMMA ImageBounded ==
    ASSUME NEW S, IsFiniteSet(S), NEW g \in [S -> Nat]
    PROVE  \E b \in Nat : \A x \in S : g[x] <= b
  <1>1. Cardinality(S) \in Nat /\ ExistsBijection(1..Cardinality(S), S)
    BY FS_CardinalityType
  <1>2. PICK h \in Bijection(1..Cardinality(S), S) : TRUE
    BY <1>1 DEF ExistsBijection
  <1>3. /\ h \in [1..Cardinality(S) -> S]
        /\ \A x \in S : \E i \in 1..Cardinality(S) : h[i] = x
    BY <1>2 DEF Bijection, Injection, Surjection
  <1>4. [i \in 1..Cardinality(S) |-> g[h[i]]] \in [1..Cardinality(S) -> Nat]
    BY <1>3
  <1>5. PICK b \in Nat :
           \A i \in 1..Cardinality(S) : [j \in 1..Cardinality(S) |-> g[h[j]]][i] <= b
    BY <1>1, <1>4, FamilyBounded
  <1> QED
    BY <1>3, <1>5

-----------------------------------------------------------------------------
(* Pages.  Nothing, and no line, fits under every cap, so the most that    *)
(* fits exists, and a page shows a line at least.                          *)

\* A fold over nothing.
LEMMA WeightNone == Weight(<<>>) = 0
  <1> DEFINE none == DOMAIN <<>>
             Sums(g) == g = [s \in SUBSET none |->
                                IF s = {} THEN 0
                                ELSE LET x == Max(s) IN g[s \ {x}] + Bytes(<<>>[x])]
             sum == CHOOSE g : Sums(g)
  <1>1. none = {}
    OBVIOUS
  <1>2. Sums([s \in SUBSET none |-> 0])
    BY <1>1
  <1>3. Sums(sum)
    BY <1>2
  <1>4. sum[{}] = 0
    BY <1>3
  <1>5. Weight(<<>>) = sum[none]
    BY DEF Weight, FoldLeft, MapThenFoldSet
  <1> QED
    BY <1>1, <1>4, <1>5

\* No line always fits.
LEMMA NoneFits ==
    ASSUME TextAssumption, NEW lines, NEW cap \in Nat
    PROVE  Fits(lines, 0, cap)
  <1>1. SubSeq(lines, 1, 0) = <<>>
    BY SubSeqEmpty
  <1>2. FlattenSeq(SubSeq(lines, 1, 0)) = <<>>
    BY <1>1 DEF FlattenSeq
  <1> QED
    BY <1>2, WeightNone DEF Fits, TextAssumption

\* A page shows consecutive lines, from its offset on, and names the next one or ends the file.
LEMMA PageShows ==
    ASSUME TextAssumption, NEW lines, Len(lines) \in Nat, NEW offset \in 1..Len(lines),
           NEW cap \in Nat
    PROVE  \E count \in 1..(Len(lines) - offset + 1) :
               LET page == ViewPage(lines, offset, cap)
               IN  /\ page.lines = [i \in 1..count |-> offset + i - 1]
                   /\ \/ page.next = offset + count
                      \/ page.next = 0 /\ offset + count = Len(lines) + 1
  <1> DEFINE rest == SubSeq(lines, offset, Len(lines))
             fitting == {n \in 0..Len(rest) : Fits(rest, n, cap)}
             k == Max(fitting)
             count == IF k = 0 THEN 1 ELSE k
  <1>1. Len(rest) = Len(lines) - offset + 1
    <2> DEFINE S == {lines[i] : i \in offset..Len(lines)}
    <2>1. \A i \in offset..Len(lines) : lines[i] \in S
      OBVIOUS
    <2>2. offset \in Int /\ Len(lines) \in Int /\ offset <= Len(lines)
      OBVIOUS
    <2> HIDE DEF S
    <2> QED
      BY <2>1, <2>2, SubSeqProperties
  <1> HIDE DEF rest
  <1>2. 0 \in fitting /\ \A n \in fitting : n \in Nat /\ n <= Len(rest)
    BY <1>1, NoneFits
  <1>3. k \in fitting
    <2>1. Len(rest) \in Nat
      BY <1>1
    <2> HIDE DEF fitting
    <2>2. fitting \in SUBSET Nat /\ fitting # {} /\ \A n \in fitting : n <= Len(rest)
      BY <1>2
    <2> QED
      BY <2>1, <2>2, MaxMember
  <1>4. k \in Nat /\ k <= Len(lines) - offset + 1
    BY <1>1, <1>2, <1>3
  <1>5. ViewPage(lines, offset, cap) =
            [lines |-> [i \in 1..count |-> offset + i - 1],
             next |-> IF k = 0 \/ offset + k <= Len(lines) THEN offset + count ELSE 0]
    BY DEF ViewPage, rest
  <1> HIDE DEF k
  <1>6. count \in 1..(Len(lines) - offset + 1)
    BY <1>4
  <1>7. k # 0 /\ ~(offset + k <= Len(lines)) => offset + count = Len(lines) + 1
    BY <1>4
  <1> QED
    BY <1>5, <1>6, <1>7

\* A text has a natural number of lines.
LEMMA LinesCounted ==
    ASSUME NEW t \in Seq(Char)
    PROVE  Len(Lines(t)) \in Nat /\ DOMAIN Lines(t) = 1..Len(Lines(t))
  <1> DEFINE ends == {i \in 1..(Len(t) + 1) : IF i <= Len(t) THEN t[i] = NL
                                              ELSE t # <<>> /\ Last(t) # NL}
             start(e) == Max({0} \union {d \in ends : d < e}) + 1
             row(k) == SubSeq(t, start(Nth(ends, k)), Nth(ends, k) - 1)
  <1>1. Len(t) \in Nat
    BY LenProperties
  <1>2. IsFiniteSet(1..(Len(t) + 1))
    BY <1>1, FS_Interval
  <1>3. IsFiniteSet(ends)
    BY <1>2, FS_Subset
  <1>4. Cardinality(ends) \in Nat
    BY <1>3, FS_CardinalityType
  <1>5. Lines(t) = [k \in 1..Cardinality(ends) |-> row(k)]
    BY DEF Lines
  <1> HIDE DEF ends, row
  <1>6. Lines(t) \in Seq({row(k) : k \in 1..Cardinality(ends)})
    BY <1>4, <1>5
  <1> QED
    BY <1>6, LenProperties

-----------------------------------------------------------------------------
(* Hunks.  Of the places where a search occurs, those are matches that no  *)
(* earlier match overlaps; so the first one is, and a single match is      *)
(* overlapped by all the others.                                           *)

\* The matches among the first n characters, from those among the characters before the i-th.
Matched(t, s, M, i) == M \union {m \in {i} \intersect Occurs(t, s) : \A j \in M : j + Len(s) <= m}
Scan(t, s, n, g) == g = [i \in 0..n |-> IF i = 0 THEN {} ELSE Matched(t, s, g[i - 1], i)]

\* The scan of match_indices has a value.
LEMMA ScanExists ==
    ASSUME NEW t, NEW s
    PROVE  \A n \in Nat : \E g : Scan(t, s, n, g)
  <1> DEFINE S == {n \in Nat : \E g : Scan(t, s, n, g)}
  <1>1. 0 \in S
    <2>1. Scan(t, s, 0, [i \in 0..0 |-> {}])
      BY DEF Scan
    <2> QED
      BY <2>1
  <1>2. ASSUME NEW n \in Nat, n \in S PROVE n + 1 \in S
    <2>1. PICK g : Scan(t, s, n, g)
      BY <1>2
    <2> DEFINE h == [i \in 0..(n + 1) |-> IF i = n + 1 THEN Matched(t, s, g[n], i) ELSE g[i]]
    <2>2. ASSUME NEW i \in 0..(n + 1)
          PROVE  h[i] = IF i = 0 THEN {} ELSE Matched(t, s, h[i - 1], i)
      <3>1. CASE i = n + 1
        <4>1. i # 0 /\ i - 1 = n /\ n \in 0..(n + 1) /\ n # n + 1
          BY <3>1
        <4>2. h[n] = g[n]
          BY <4>1
        <4> QED
          BY <3>1, <4>1, <4>2
      <3>2. CASE i # n + 1
        <4>1. i \in 0..n /\ h[i] = g[i] /\ (i # 0 => i - 1 \in 0..n /\ h[i - 1] = g[i - 1])
          BY <3>2
        <4>2. g[i] = IF i = 0 THEN {} ELSE Matched(t, s, g[i - 1], i)
          BY <2>1, <4>1 DEF Scan
        <4> QED
          BY <4>1, <4>2
      <3> QED
        BY <3>1, <3>2
    <2>3. h = [i \in 0..(n + 1) |-> h[i]]
      OBVIOUS
    <2> HIDE DEF h
    <2>4. Scan(t, s, n + 1, h)
      BY <2>2, <2>3 DEF Scan
    <2> QED
      BY <2>4
  <1>3. Nat \subseteq S
    <2> HIDE DEF S
    <2> QED
      BY <1>1, <1>2, SetInduction
  <1> QED
    BY <1>3

\* A place where the search occurs is a match unless it lies in an earlier match.
LEMMA MatchesRule ==
    ASSUME NEW t, NEW s, Len(t) \in Nat, Len(s) \in Nat
    PROVE  /\ Matches(t, s) \subseteq Occurs(t, s)
           /\ Occurs(t, s) \subseteq 1..(Len(t) + 1)
           /\ \A i \in Occurs(t, s) :
                  i \in Matches(t, s) <=>
                      \A j \in Matches(t, s) : ~(j < i /\ i < j + Len(s))
  <1> DEFINE O == Occurs(t, s)
             N == Len(t) + 1
             upto == CHOOSE g : Scan(t, s, N, g)
  <1>1. \A i \in O : i \in Nat /\ i # 0 /\ i <= N
    BY DEF Occurs
  <1>2. Scan(t, s, N, upto)
    BY ScanExists
  <1>3. Matches(t, s) = upto[N]
    BY DEF Matches, Scan, Matched
  <1> HIDE DEF O, upto
  <1> DEFINE Good(n) == /\ upto[n] \subseteq O /\ \A i \in upto[n] : i <= n
                        /\ \A i \in O : i <= n =>
                               (i \in upto[n] <=>
                                    \A j \in upto[n] : ~(j < i /\ i < j + Len(s)))
             S == {n \in Nat : n <= N => Good(n)}
  <1>4. 0 \in S
    <2>1. upto[0] = {}
      BY <1>2 DEF Scan
    <2> QED
      BY <1>1, <2>1
  <1>5. ASSUME NEW n \in Nat, n \in S PROVE n + 1 \in S
    <2> SUFFICES ASSUME n + 1 <= N PROVE Good(n + 1)
      OBVIOUS
    <2>1. Good(n)
      BY <1>5
    <2>2. upto[n + 1] = Matched(t, s, upto[n], n + 1)
      <3>1. n + 1 \in 0..N /\ n + 1 # 0 /\ (n + 1) - 1 = n
        OBVIOUS
      <3> QED
        BY <1>2, <3>1 DEF Scan
    <2>3. \A i : i \in upto[n + 1] <=>
              \/ i \in upto[n]
              \/ i = n + 1 /\ i \in O /\ \A j \in upto[n] : j + Len(s) <= i
      BY <2>2 DEF Matched, O
    <2>4. upto[n + 1] \subseteq O /\ \A i \in upto[n + 1] : i <= n + 1
      BY <1>1, <2>1, <2>3
    <2>5. ASSUME NEW i \in O, i <= n + 1
          PROVE  i \in upto[n + 1] <=> \A j \in upto[n + 1] : ~(j < i /\ i < j + Len(s))
      <3>1. i \in Nat /\ \A j \in O : j \in Nat
        BY <1>1
      <3>2. \A j : j \in upto[n + 1] /\ j < i <=> j \in upto[n] /\ j < i
        BY <1>1, <2>1, <2>3, <2>4, <2>5
      <3>3. CASE i = n + 1
        <4>1. \A j \in upto[n] : j \in Nat /\ j < i /\ (j + Len(s) <= i <=> ~(i < j + Len(s)))
          <5>1. ASSUME NEW j \in upto[n] PROVE j \in Nat /\ j < i
            <6>1. j \in O /\ j <= n
              BY <2>1
            <6> QED
              BY <3>1, <3>3, <6>1
          <5>2. i \in Nat /\ \A j \in Nat : j + Len(s) <= i <=> ~(i < j + Len(s))
            BY <3>1
          <5> QED
            BY <5>1, <5>2
        <4>2. i \in upto[n + 1] <=> \A j \in upto[n] : ~(i < j + Len(s))
          BY <2>3, <3>3, <4>1
        <4> QED
          BY <3>2, <4>1, <4>2
      <3>4. CASE i # n + 1
        BY <2>1, <2>3, <2>5, <3>1, <3>2, <3>4
      <3> QED
        BY <3>3, <3>4
    <2> QED
      BY <2>4, <2>5
  <1>6. N \in S
    <2> HIDE DEF S
    <2> QED
      BY <1>4, <1>5, SetInduction
  <1>7. Good(N)
    BY <1>6
  <1> QED
    BY <1>1, <1>3, <1>7 DEF O

\* Without a match the search does not occur; with a single one every occurrence overlaps it.
LEMMA MatchesCount ==
    ASSUME NEW t, NEW s, Len(t) \in Nat, Len(s) \in Nat
    PROVE  /\ IsFiniteSet(Occurs(t, s)) /\ IsFiniteSet(Matches(t, s))
           /\ Matches(t, s) = {} => Occurs(t, s) = {}
           /\ Cardinality(Matches(t, s)) = 1 =>
                  /\ Min(Matches(t, s)) \in Occurs(t, s)
                  /\ \A i \in Occurs(t, s) :
                         LET m == Min(Matches(t, s))
                         IN  i # m => m < i /\ i < m + Len(s)
  <1> DEFINE O == Occurs(t, s)
             M == Matches(t, s)
             Overlap(i, j) == j < i /\ i < j + Len(s)
  <1>1. /\ M \subseteq O /\ \A i \in O : i \in Nat
        /\ \A i \in O : i \in M <=> \A j \in M : ~Overlap(i, j)
    BY MatchesRule
  <1>2. IsFiniteSet(O) /\ IsFiniteSet(M)
    <2>1. IsFiniteSet(1..(Len(t) + 1))
      BY FS_Interval
    <2>2. O \in SUBSET (1..(Len(t) + 1)) /\ M \in SUBSET (1..(Len(t) + 1))
      BY MatchesRule
    <2> HIDE DEF O, M
    <2> QED
      BY <2>1, <2>2, FS_Subset
  <1> HIDE DEF O, M
  <1>3. ASSUME O # {} PROVE \E i \in M : \A j \in O : i <= j
    <2>1. PICK i \in O : \A j \in O : i <= j
      BY <1>1, <1>3, LeastMember
    <2>2. \A j \in O : ~Overlap(i, j)
      BY <1>1, <2>1
    <2> QED
      BY <1>1, <2>1, <2>2
  <1>4. ASSUME Cardinality(M) = 1
        PROVE  Min(M) \in O /\ \A i \in O : i # Min(M) => Min(M) < i /\ i < Min(M) + Len(s)
    <2>1. PICK m : M = {m}
      BY <1>2, <1>4, FS_Singleton
    <2>2. m \in O /\ \A j \in O : m <= j
      BY <1>1, <1>3, <2>1
    <2>3. Min(M) = m
      <3>1. M \in SUBSET Nat /\ M # {}
        BY <1>1, <2>1
      <3> QED
        BY <2>1, <3>1, MinMember
    <2>4. ASSUME NEW i \in O, i # m PROVE m < i /\ i < m + Len(s)
      <3>1. i \notin M
        BY <2>1, <2>4
      <3>2. PICK j \in M : Overlap(i, j)
        BY <1>1, <3>1
      <3> QED
        BY <2>1, <3>2
    <2> QED
      BY <2>2, <2>3, <2>4
  <1> QED
    BY <1>1, <1>2, <1>3, <1>4 DEF O, M

-----------------------------------------------------------------------------
(* Places.  The k-th of a set of positions is the one with k of them up to *)
(* it; how many there are up to a position grows by one or by none from    *)
(* one position to the next, so what is counted from a position on adds    *)
(* to what is counted before it.                                           *)

\* A place grows by one at each member, from nothing to all of them.
LEMMA PlaceStep ==
    ASSUME NEW n \in Nat, NEW S \in SUBSET (1..n)
    PROVE  /\ IsFiniteSet(S) /\ Cardinality(S) \in Nat
           /\ Place(S, 0) = 0
           /\ \A e \in Nat : Place(S, e) \in Nat /\ (n <= e => Place(S, e) = Cardinality(S))
           /\ \A e \in Nat : Place(S, e + 1) = Place(S, e) + IF e + 1 \in S THEN 1 ELSE 0
  <1>1. IsFiniteSet(1..n)
    BY FS_Interval
  <1>2. \A T \in SUBSET S : IsFiniteSet(T) /\ Cardinality(T) \in Nat
    BY <1>1, FS_Subset, FS_CardinalityType
  <1>0. \A d \in S : d \in Nat /\ d # 0 /\ d <= n
    OBVIOUS
  <1>3. {d \in S : d <= 0} = {}
    <2>1. \A d \in S : ~(d <= 0)
      BY <1>0
    <2> QED
      BY <2>1, Zenon
  <1>4. Place(S, 0) = 0
    BY <1>3, FS_EmptySet DEF Place
  <1>5. ASSUME NEW e \in Nat
        PROVE  /\ Place(S, e) \in Nat /\ (n <= e => Place(S, e) = Cardinality(S))
               /\ Place(S, e + 1) = Place(S, e) + IF e + 1 \in S THEN 1 ELSE 0
    <2> DEFINE upto == {d \in S : d <= e}
               more == {d \in S : d <= e + 1}
    <2>1. IsFiniteSet(upto) /\ Cardinality(upto) \in Nat
      BY <1>2
    <2>2. n <= e => upto = S
      <3>1. n <= e => \A d \in S : d <= e
        BY <1>0
      <3> QED
        BY <3>1, Zenon
    <2>3. \A d : d \in more <=> d \in upto \/ (d \in S /\ d = e + 1)
      <3>1. \A d \in S : d <= e + 1 <=> d <= e \/ d = e + 1
        BY <1>0
      <3> QED
        BY <3>1, Zenon
    <2>4. e + 1 \notin upto
      BY <1>0
    <2> HIDE DEF upto, more
    <2>5. Cardinality(more) = Cardinality(upto) + IF e + 1 \in S THEN 1 ELSE 0
      <3>1. CASE e + 1 \in S
        <4>1. more = upto \union {e + 1}
          BY <2>3, <3>1
        <4> QED
          BY <2>1, <2>4, <3>1, <4>1, FS_AddElement
      <3>2. CASE e + 1 \notin S
        <4>1. more = upto
          BY <2>3, <3>2
        <4> QED
          BY <2>1, <3>2, <4>1
      <3> QED
        BY <3>1, <3>2
    <2> QED
      BY <2>1, <2>2, <2>5 DEF Place, upto, more
  <1> QED
    BY <1>2, <1>4, <1>5

\* Places grow with the positions.
LEMMA PlaceGrows ==
    ASSUME NEW n \in Nat, NEW S \in SUBSET (1..n), NEW a \in Nat, NEW b \in Nat
    PROVE  /\ a <= b => Place(S, a) <= Place(S, b)
           /\ a < b /\ b \in S => Place(S, a) < Place(S, b)
           /\ Place(S, a) <= Cardinality(S)
  <1>1. ASSUME NEW c \in Nat, a <= c PROVE Place(S, a) <= Place(S, c)
    <2>1. {d \in S : d <= a} \in SUBSET {d \in S : d <= c}
      <3>1. \A d \in S : d \in Nat /\ (d <= a => d <= c)
        BY <1>1
      <3> QED
        BY <3>1
    <2>2. IsFiniteSet({d \in S : d <= c})
      <3>1. {d \in S : d <= c} \in SUBSET S
        OBVIOUS
      <3> QED
        BY <3>1, PlaceStep, FS_Subset
    <2> QED
      BY <2>1, <2>2, FS_Subset DEF Place
  <1>2. ASSUME a < b, b \in S PROVE Place(S, a) < Place(S, b)
    <2>1. b - 1 \in Nat /\ a <= b - 1 /\ (b - 1) + 1 = b
      BY <1>2
    <2>2. Place(S, a) <= Place(S, b - 1)
      BY <1>1, <2>1
    <2>3. Place(S, b) = Place(S, b - 1) + 1
      <3> DEFINE e == b - 1
      <3>1. e \in Nat /\ e + 1 = b
        BY <2>1
      <3> HIDE DEF e
      <3>2. Place(S, e + 1) = Place(S, e) + IF e + 1 \in S THEN 1 ELSE 0
        <4>1. \A d \in Nat : Place(S, d + 1) = Place(S, d) + IF d + 1 \in S THEN 1 ELSE 0
          BY PlaceStep
        <4> QED
          BY <3>1, <4>1
      <3>3. Place(S, b) = Place(S, e) + 1
        BY <1>2, <3>1, <3>2
      <3> QED
        BY <3>3 DEF e
    <2>4. Place(S, a) \in Nat /\ Place(S, b - 1) \in Nat
      BY <2>1, PlaceStep
    <2> QED
      BY <2>2, <2>3, <2>4
  <1>3. Place(S, a) <= Cardinality(S)
    <2>1. {d \in S : d <= a} \in SUBSET S
      OBVIOUS
    <2> QED
      BY <2>1, PlaceStep, FS_Subset DEF Place
  <1> QED
    BY <1>1, <1>2, <1>3

\* Nth and Place are inverse to each other.
LEMMA NthPlace ==
    ASSUME NEW n \in Nat, NEW S \in SUBSET (1..n)
    PROVE  /\ \A k \in 1..Cardinality(S) : Nth(S, k) \in S /\ Place(S, Nth(S, k)) = k
           /\ \A e \in S : Place(S, e) \in 1..Cardinality(S) /\ Nth(S, Place(S, e)) = e
           /\ \A k, l \in 1..Cardinality(S) : k < l => Nth(S, k) < Nth(S, l)
  <1>1. Cardinality(S) \in Nat /\ \A e \in S : e \in Nat /\ e # 0
    BY PlaceStep
  <1>2. ASSUME NEW k \in 1..Cardinality(S) PROVE \E e \in S : Place(S, e) = k
    <2> DEFINE reach == {e \in Nat : k <= Place(S, e)}
    <2>1. n \in reach
      BY PlaceStep
    <2>2. PICK m \in reach : \A e \in reach : m <= e
      <3>1. reach \in SUBSET Nat /\ reach # {}
        BY <2>1
      <3> HIDE DEF reach
      <3> QED
        BY <3>1, LeastMember
    <2>3. m # 0
      BY PlaceStep
    <2>4. m - 1 \in Nat /\ (m - 1) + 1 = m /\ m - 1 \notin reach
      BY <2>2, <2>3
    <2>5. Place(S, m - 1) \in Nat /\ Place(S, m - 1) < k /\ k <= Place(S, m)
      BY <2>4, PlaceStep
    <2>6. Place(S, m) = Place(S, m - 1) + IF m \in S THEN 1 ELSE 0
      BY <2>4, PlaceStep
    <2> QED
      BY <2>5, <2>6
  <1>3. ASSUME NEW d \in S, NEW e \in S, Place(S, d) = Place(S, e) PROVE d = e
    <2>1. d \in Nat /\ e \in Nat /\ Place(S, d) \in Nat
      BY <1>1, PlaceStep
    <2>2. (d < e => Place(S, d) < Place(S, e)) /\ (e < d => Place(S, e) < Place(S, d))
      BY <2>1, PlaceGrows
    <2> QED
      BY <1>3, <2>1, <2>2
  <1>4. ASSUME NEW k \in 1..Cardinality(S) PROVE Nth(S, k) \in S /\ Place(S, Nth(S, k)) = k
    BY <1>2 DEF Nth, Place
  <1>5. ASSUME NEW e \in S PROVE Place(S, e) \in 1..Cardinality(S) /\ Nth(S, Place(S, e)) = e
    <2>1. e \in Nat /\ 0 < e
      BY <1>1
    <2>2. Place(S, e) \in Nat /\ Place(S, 0) = 0 /\ Place(S, 0) < Place(S, e)
      BY <2>1, PlaceGrows, PlaceStep
    <2>3. Place(S, e) <= Cardinality(S)
      BY <2>1, PlaceGrows
    <2>4. Place(S, e) \in 1..Cardinality(S)
      BY <1>1, <2>2, <2>3
    <2> QED
      BY <1>3, <1>4, <2>4
  <1>6. ASSUME NEW k \in 1..Cardinality(S), NEW l \in 1..Cardinality(S), k < l
        PROVE  Nth(S, k) < Nth(S, l)
    <2> DEFINE d == Nth(S, k)
               e == Nth(S, l)
    <2>1. d \in Nat /\ e \in Nat /\ Place(S, d) = k /\ Place(S, e) = l
      BY <1>1, <1>4
    <2> HIDE DEF d, e
    <2>2. e <= d => Place(S, e) <= Place(S, d)
      BY <2>1, PlaceGrows
    <2>3. d < e
      BY <1>6, <2>1, <2>2
    <2> QED
      BY <2>3 DEF d, e
  <1> QED
    BY <1>4, <1>5, <1>6

\* Counting goes on behind a position.
LEMMA PlaceSplits ==
    ASSUME NEW n \in Nat, NEW S \in SUBSET (1..n), NEW a \in Nat, NEW m \in Nat,
           NEW T \in SUBSET (1..m), \A i \in 1..m : i \in T <=> a + i \in S
    PROVE  \A i \in 0..m : Place(S, a + i) = Place(S, a) + Place(T, i)
  <1> DEFINE G == {i \in Nat : i <= m => Place(S, a + i) = Place(S, a) + Place(T, i)}
  <1>2. /\ Place(S, a) \in Nat /\ Place(T, 0) = 0
        /\ \A e \in Nat : /\ Place(T, e) \in Nat
                          /\ Place(T, e + 1) = Place(T, e) + IF e + 1 \in T THEN 1 ELSE 0
    BY PlaceStep
  <1>3. 0 \in G
    BY <1>2
  <1>4. ASSUME NEW i \in Nat, i \in G PROVE i + 1 \in G
    <2> SUFFICES ASSUME i + 1 <= m PROVE Place(S, a + (i + 1)) = Place(S, a) + Place(T, i + 1)
      OBVIOUS
    <2>1. a + i \in Nat /\ a + (i + 1) = (a + i) + 1 /\ i + 1 \in 1..m
      OBVIOUS
    <2>2. Place(S, (a + i) + 1) = Place(S, a + i) + IF (a + i) + 1 \in S THEN 1 ELSE 0
      BY <2>1, PlaceStep
    <2>3. /\ Place(T, i) \in Nat
          /\ Place(T, i + 1) = Place(T, i) + IF i + 1 \in T THEN 1 ELSE 0
      BY <1>2
    <2>4. Place(S, a + i) = Place(S, a) + Place(T, i)
      BY <1>4
    <2>5. i + 1 \in T <=> (a + i) + 1 \in S
      BY <2>1
    <2> QED
      <3>1. CASE i + 1 \in T
        <4>1. Place(S, (a + i) + 1) = Place(S, a + i) + 1 /\ Place(T, i + 1) = Place(T, i) + 1
          BY <2>2, <2>3, <2>5, <3>1
        <4> QED
          BY <1>2, <2>1, <2>3, <2>4, <4>1
      <3>2. CASE i + 1 \notin T
        <4>1. Place(S, (a + i) + 1) = Place(S, a + i) + 0 /\ Place(T, i + 1) = Place(T, i) + 0
          BY <2>2, <2>3, <2>5, <3>2
        <4> QED
          BY <1>2, <2>1, <2>3, <2>4, <4>1
      <3> QED
        BY <3>1, <3>2
  <1>5. Nat \subseteq G
    <2> HIDE DEF G
    <2> QED
      BY <1>3, <1>4, SetInduction
  <1> QED
    BY <1>5

-----------------------------------------------------------------------------
(* Spans.  The characters of a collapsed text are those at its origins, so *)
(* a piece of a text that begins at an origin collapses to a piece of the  *)
(* collapsed text, and a match in that is a span that reads like it.       *)

Ink == Char \union {" "}

\* The collapsed text has a character for every origin.
LEMMA Collapsed ==
    ASSUME NEW t \in Seq(Char)
    PROVE  /\ Len(t) \in Nat /\ DOMAIN t = 1..Len(t)
           /\ Origins(t) \in SUBSET (1..Len(t))
           /\ Cardinality(Origins(t)) \in Nat
           /\ Collapse(t) \in Seq(Ink) /\ Len(Collapse(t)) = Cardinality(Origins(t))
           /\ \A k \in 1..Cardinality(Origins(t)) :
                  Collapse(t)[k] = Blank(t[Nth(Origins(t), k)])
           /\ t # <<>> => 1 \in Origins(t) /\ Cardinality(Origins(t)) # 0
  <1> DEFINE F == Origins(t)
  <1>1. Len(t) \in Nat /\ DOMAIN t = 1..Len(t) /\ t \in [1..Len(t) -> Char]
    BY LenProperties
  <1>2. F \in SUBSET (1..Len(t))
    BY <1>1 DEF Origins
  <1>3. t # <<>> => 1 \in F
    <2>1. t # <<>> => 1 \in 1..Len(t)
      BY <1>1, EmptySeq
    <2> QED
      BY <1>1, <2>1 DEF Origins
  <1>4. Collapse(t) = [k \in 1..Cardinality(F) |-> Blank(t[Nth(F, k)])]
    BY DEF Collapse
  <1> HIDE DEF F
  <1>5. IsFiniteSet(F) /\ Cardinality(F) \in Nat
    BY <1>1, <1>2, PlaceStep
  <1>6. ASSUME NEW k \in 1..Cardinality(F) PROVE Blank(t[Nth(F, k)]) \in Ink
    <2>1. Nth(F, k) \in 1..Len(t)
      BY <1>1, <1>2, NthPlace
    <2>2. t[Nth(F, k)] \in Char
      BY <1>1, <2>1
    <2> QED
      BY <2>2 DEF Blank, Ink
  <1>7. Collapse(t) \in [1..Cardinality(F) -> Ink]
    BY <1>4, <1>6
  <1>8. Collapse(t) \in Seq(Ink) /\ Len(Collapse(t)) = Cardinality(F)
    BY <1>5, <1>7
  <1>9. 1 \in F => Cardinality(F) # 0
    BY <1>5, FS_EmptySet
  <1> QED
    BY <1>1, <1>2, <1>3, <1>4, <1>5, <1>8, <1>9 DEF F

\* The origins of a piece are those of the text, if it begins at one.
LEMMA SliceOrigins ==
    ASSUME NEW t \in Seq(Char), NEW a \in Origins(t), NEW b \in 1..(Len(t) + 1), a < b
    PROVE  LET u == SubSeq(t, a, b - 1)
           IN  /\ u \in Seq(Char) /\ Len(u) = b - a
               /\ \A i \in 1..(b - a) : u[i] = t[(a - 1) + i]
               /\ Origins(u) \in SUBSET (1..(b - a))
               /\ \A i \in 1..(b - a) : i \in Origins(u) <=> (a - 1) + i \in Origins(t)
  <1> DEFINE u == SubSeq(t, a, b - 1)
  <1>1. Len(t) \in Nat /\ DOMAIN t = 1..Len(t) /\ a \in 1..Len(t)
    BY Collapsed
  <1>2. a \in Int /\ b - 1 \in Int /\ (b - 1) - a + 1 = b - a /\ a <= b - 1
    BY <1>1
  <1>3. \A i \in a..(b - 1) : t[i] \in Char
    <2>1. \A i \in a..(b - 1) : i \in 1..Len(t)
      BY <1>1
    <2> QED
      BY <2>1, ElementOfSeq
  <1>4. u \in Seq(Char) /\ Len(u) = b - a /\ \A i \in 1..(b - a) : u[i] = t[a + i - 1]
    BY <1>2, <1>3, SubSeqProperties
  <1> HIDE DEF u
  <1>5. \A i \in 1..(b - a) : a + i - 1 = (a - 1) + i
    BY <1>1
  <1>6. \A i \in 1..(b - a) : u[i] = t[(a - 1) + i]
    BY <1>4, <1>5
  <1>7. DOMAIN u = 1..(b - a) /\ Origins(u) \in SUBSET (1..(b - a))
    BY <1>4, Collapsed
  <1>8. ASSUME NEW i \in 1..(b - a)
        PROVE  i \in Origins(u) <=> (a - 1) + i \in Origins(t)
    <2>1. (a - 1) + i \in DOMAIN t
      BY <1>1
    <2>2. CASE i = 1
      <3>1. (a - 1) + i = a
        BY <1>1, <2>2
      <3>2. i \in Origins(u)
        BY <1>7, <2>2 DEF Origins
      <3> QED
        BY <3>1, <3>2
    <2>3. CASE i # 1
      <3>1. i > 1 /\ i - 1 \in 1..(b - a) /\ (a - 1) + i > 1
            /\ (a - 1) + (i - 1) = ((a - 1) + i) - 1
        BY <1>1, <2>3
      <3>2. u[i] = t[(a - 1) + i] /\ u[i - 1] = t[((a - 1) + i) - 1]
        BY <1>6, <3>1
      <3> QED
        BY <1>7, <2>1, <3>1, <3>2 DEF Origins
    <2> QED
      BY <2>2, <2>3
  <1> QED
    BY <1>4, <1>6, <1>7, <1>8 DEF u

\* A part that begins at an origin collapses to a part of the collapsed text.
LEMMA SliceCollapses ==
    ASSUME NEW t \in Seq(Char), NEW a \in Origins(t), NEW b \in 1..(Len(t) + 1), a < b
    PROVE  LET u == Collapse(SubSeq(t, a, b - 1))
               k == Place(Origins(t), a)
           IN  /\ u \in Seq(Ink) /\ Len(u) \in Nat
               /\ k \in 1..Cardinality(Origins(t)) /\ Nth(Origins(t), k) = a
               /\ Place(Origins(t), b - 1) = (k - 1) + Len(u)
               /\ \A j \in 1..Len(u) : u[j] = Collapse(t)[(k - 1) + j]
  <1> DEFINE F == Origins(t)
             u == SubSeq(t, a, b - 1)
             G == Origins(u)
             k == Place(F, a)
             m == b - a
             o == a - 1
  <1>1. Len(t) \in Nat /\ F \in SUBSET (1..Len(t)) /\ a \in F /\ a \in 1..Len(t)
        /\ Cardinality(F) \in Nat
    BY Collapsed
  <1>2. /\ u \in Seq(Char) /\ Len(u) = m /\ \A i \in 1..m : u[i] = t[o + i]
        /\ G \in SUBSET (1..m)
        /\ \A i \in 1..m : i \in G <=> o + i \in F
    BY SliceOrigins
  <1>3. /\ Collapse(u) \in Seq(Ink) /\ Len(Collapse(u)) = Cardinality(G)
        /\ Cardinality(G) \in Nat
        /\ \A j \in 1..Cardinality(G) : Collapse(u)[j] = Blank(u[Nth(G, j)])
    BY <1>2, Collapsed
  <1>4. m \in Nat /\ o \in Nat /\ o + m = b - 1 /\ o + 1 = a
    BY <1>1
  <1> HIDE DEF F, u, G, m, o
  <1>5. k \in 1..Cardinality(F) /\ Nth(F, k) = a
    BY <1>1, NthPlace
  <1> HIDE DEF k
  <1>6. Place(F, o) = k - 1
    <2>1. Place(F, o + 1) = Place(F, o) + IF o + 1 \in F THEN 1 ELSE 0
      BY <1>1, <1>4, PlaceStep
    <2>2. Place(F, o) \in Nat
      BY <1>1, <1>4, PlaceStep
    <2>3. k = Place(F, o) + 1
      BY <1>1, <1>4, <2>1 DEF k
    <2> QED
      BY <2>2, <2>3
  <1>7. \A i \in 0..m : Place(F, o + i) = Place(F, o) + Place(G, i)
    <2>1. /\ Len(t) \in Nat /\ F \in SUBSET (1..Len(t)) /\ o \in Nat /\ m \in Nat
          /\ G \in SUBSET (1..m) /\ \A i \in 1..m : i \in G <=> o + i \in F
      BY <1>1, <1>2, <1>4
    <2> QED
      BY <2>1, PlaceSplits
  <1>8. Place(F, b - 1) = (k - 1) + Cardinality(G)
    <2>1. m \in 0..m
      BY <1>4
    <2>2. Place(G, m) = Cardinality(G)
      <3>1. \A e \in Nat : m <= e => Place(G, e) = Cardinality(G)
        BY <1>2, <1>4, PlaceStep
      <3> QED
        BY <1>4, <3>1
    <2>3. Place(F, o + m) = Place(F, o) + Place(G, m)
      BY <1>7, <2>1
    <2> QED
      BY <1>4, <1>6, <2>2, <2>3
  <1>9. ASSUME NEW j \in 1..Cardinality(G)
        PROVE  Collapse(u)[j] = Collapse(t)[(k - 1) + j]
    <2> DEFINE i == Nth(G, j)
               l == (k - 1) + j
    <2>1. i \in G /\ Place(G, i) = j
      BY <1>2, <1>4, NthPlace
    <2> HIDE DEF i
    <2>2. i \in 1..m /\ i \in 0..m /\ o + i \in F
      <3>1. i \in 1..m
        BY <1>2, <2>1
      <3> QED
        BY <1>2, <1>4, <2>1, <3>1
    <2>3. Place(F, o + i) = l
      BY <1>6, <1>7, <2>1, <2>2
    <2> HIDE DEF l
    <2>4. l \in 1..Cardinality(F) /\ Nth(F, l) = o + i
      <3>1. \A e \in F : Place(F, e) \in 1..Cardinality(F) /\ Nth(F, Place(F, e)) = e
        BY <1>1, NthPlace
      <3> QED
        BY <2>2, <2>3, <3>1
    <2>5. Collapse(t)[l] = Blank(t[o + i])
      <3>1. \A x \in 1..Cardinality(F) : Collapse(t)[x] = Blank(t[Nth(F, x)])
        BY Collapsed DEF F
      <3> QED
        BY <2>4, <3>1
    <2>6. Collapse(u)[j] = Blank(u[i])
      BY <1>3 DEF i
    <2> QED
      BY <1>2, <2>2, <2>5, <2>6 DEF l
  <1> QED
    BY <1>3, <1>5, <1>8, <1>9 DEF F, u, G, k

\* A span ends at the next origin: what stands between two origins is whitespace.
Stop(t, k) ==
    IF k < Cardinality(Origins(t)) THEN Nth(Origins(t), k + 1) ELSE Len(t) + 1

\* What SpanEnd looks for is the next origin, or the end.
LEMMA SpanStops ==
    ASSUME NEW t \in Seq(Char), NEW k \in 1..Cardinality(Origins(t))
    PROVE  /\ SpanEnd(t, k) = Stop(t, k)
           /\ Nth(Origins(t), k) \in Origins(t)
           /\ Stop(t, k) \in 1..(Len(t) + 1) /\ Nth(Origins(t), k) < Stop(t, k)
           /\ Place(Origins(t), Stop(t, k) - 1) = k
           /\ Stop(t, k) <= Len(t) => Stop(t, k) \in Origins(t)
  <1> DEFINE F == Origins(t)
             at == Nth(F, k)
             stop == Stop(t, k)
             ends == {e \in (at + 1)..stop : e = stop \/ ~White(t[e])}
  <1>1. /\ Len(t) \in Nat /\ DOMAIN t = 1..Len(t) /\ F \in SUBSET (1..Len(t))
        /\ Cardinality(F) \in Nat
    BY Collapsed
  <1>2. SpanEnd(t, k) = Min(ends)
    BY DEF SpanEnd, Stop
  <1>3. at \in F /\ at \in 1..Len(t) /\ Place(F, at) = k
    BY <1>1, NthPlace
  <1>4. /\ stop \in 1..(Len(t) + 1) /\ at < stop /\ Place(F, stop - 1) = k
        /\ stop <= Len(t) => stop \in F
    <2>1. CASE k < Cardinality(F)
      <3>1. stop = Nth(F, k + 1) /\ k + 1 \in 1..Cardinality(F) /\ k < k + 1
        BY <1>1, <2>1 DEF Stop
      <3> HIDE DEF stop, F
      <3>2. stop \in F /\ Place(F, stop) = k + 1 /\ at < stop
        <4>1. /\ \A x \in 1..Cardinality(F) : Nth(F, x) \in F /\ Place(F, Nth(F, x)) = x
              /\ \A x, y \in 1..Cardinality(F) : x < y => Nth(F, x) < Nth(F, y)
          BY <1>1, NthPlace
        <4>2. k \in 1..Cardinality(F)
          BY DEF F
        <4> QED
          BY <3>1, <4>1, <4>2
      <3> HIDE DEF at
      <3>3. stop \in 1..Len(t) /\ stop - 1 \in Nat /\ (stop - 1) + 1 = stop
        BY <1>1, <3>2
      <3>4. Place(F, (stop - 1) + 1) = Place(F, stop - 1) + IF (stop - 1) + 1 \in F THEN 1 ELSE 0
        BY <1>1, <3>3, PlaceStep
      <3>5. Place(F, stop - 1) \in Nat
        BY <1>1, <3>3, PlaceStep
      <3>6. Place(F, stop - 1) = k
        BY <3>2, <3>3, <3>4, <3>5
      <3> QED
        BY <3>2, <3>3, <3>6
    <2>2. CASE ~(k < Cardinality(F))
      <3>1. stop = Len(t) + 1 /\ k = Cardinality(F)
        BY <1>1, <2>2 DEF Stop
      <3>2. stop - 1 = Len(t) /\ Place(F, Len(t)) = Cardinality(F)
        BY <1>1, <3>1, PlaceStep
      <3> QED
        BY <1>1, <1>3, <3>1, <3>2
    <2> QED
      BY <2>1, <2>2
  <1> HIDE DEF F, at, stop
  <1>5. ASSUME NEW e \in (at + 1)..stop, e # stop PROVE White(t[e])
    <2>1. e \in Nat /\ e \in 1..Len(t) /\ at < e /\ e <= stop - 1 /\ stop - 1 \in Nat /\ at \in Nat
      BY <1>1, <1>3, <1>4, <1>5
    <2>2. Place(F, e) <= k /\ (e \in F => k < Place(F, e)) /\ Place(F, e) \in Nat
      <3>1. Place(F, e) \in Nat
        BY <1>1, <2>1, PlaceStep
      <3>2. Place(F, e) <= Place(F, stop - 1)
        BY <1>1, <2>1, PlaceGrows
      <3>3. e \in F => Place(F, at) < Place(F, e)
        BY <1>1, <2>1, PlaceGrows
      <3> QED
        BY <1>3, <1>4, <3>1, <3>2, <3>3
    <2>3. e \notin F
      BY <1>1, <2>2
    <2> QED
      BY <1>1, <2>1, <2>3 DEF F, Origins
  <1>6. ends = {stop}
    <2>1. stop \in (at + 1)..stop
      BY <1>1, <1>3, <1>4
    <2> QED
      BY <1>5, <2>1
  <1>7. Min(ends) = stop
    <2>1. {stop} \in SUBSET Nat /\ {stop} # {}
      BY <1>1, <1>4
    <2>2. Min({stop}) \in {stop}
      BY <2>1, MinMember
    <2> QED
      BY <1>6, <2>2
  <1> QED
    BY <1>2, <1>3, <1>4, <1>7 DEF F, at, stop

\* Where a search occurs, character by character.
LEMMA OccursAt ==
    ASSUME NEW S, NEW t \in Seq(S), NEW s \in Seq(S), Len(s) # 0
    PROVE  \A i : i \in Occurs(t, s) <=>
               /\ i \in Nat \ {0} /\ (i - 1) + Len(s) <= Len(t)
               /\ \A j \in 1..Len(s) : s[j] = t[(i - 1) + j]
  <1>1. Len(t) \in Nat /\ Len(s) \in Nat /\ \A j \in 1..Len(t) : t[j] \in S
    BY LenProperties, ElementOfSeq
  <1>2. \A i : i \in 1..(Len(t) - Len(s) + 1) <=> i \in Nat \ {0} /\ (i - 1) + Len(s) <= Len(t)
    BY <1>1
  <1>3. ASSUME NEW i \in 1..(Len(t) - Len(s) + 1)
        PROVE  SubSeq(t, i, i + Len(s) - 1) = s <=> \A j \in 1..Len(s) : s[j] = t[(i - 1) + j]
    <2> DEFINE u == SubSeq(t, i, i + Len(s) - 1)
    <2>1. i \in Int /\ i + Len(s) - 1 \in Int /\ (i + Len(s) - 1) - i + 1 = Len(s)
          /\ i <= i + Len(s) - 1
      BY <1>1
    <2>2. \A x \in i..(i + Len(s) - 1) : t[x] \in S
      BY <1>1
    <2>3. u \in Seq(S) /\ Len(u) = Len(s) /\ \A j \in 1..Len(s) : u[j] = t[i + j - 1]
      BY <2>1, <2>2, SubSeqProperties
    <2> HIDE DEF u
    <2>4. \A j \in 1..Len(s) : i + j - 1 = (i - 1) + j
      BY <1>1
    <2>5. \A j \in 1..Len(s) : u[j] = t[(i - 1) + j]
      BY <2>3, <2>4
    <2>6. (\A j \in 1..Len(s) : s[j] = u[j]) => s = u
      BY <2>3, SeqEqual
    <2> QED
      BY <2>5, <2>6 DEF u
  <1> QED
    BY <1>2, <1>3 DEF Occurs

Like(t, s, a, b) ==
    /\ a <= b
    /\ Collapse(SubSeq(t, a, b - 1)) = Collapse(s)
    /\ a > 1 /\ White(t[a]) => ~White(t[a - 1])
    /\ b <= Len(t) /\ White(t[b]) => ~White(t[b - 1])

\* The spans that read like a search are the matches in the collapsed text, taken back.
LEMMA LikeMatches ==
    ASSUME NEW t \in Seq(Char), NEW s \in Seq(Char), s # <<>>,
           NEW a \in 1..(Len(t) + 1), NEW b \in 1..(Len(t) + 1)
    PROVE  Like(t, s, a, b) <=>
               \E k \in Occurs(Collapse(t), Collapse(s)) :
                   /\ a = Nth(Origins(t), k)
                   /\ b = Stop(t, (k - 1) + Len(Collapse(s)))
  <1> DEFINE F == Origins(t)
             n == Collapse(s)
             u == Collapse(SubSeq(t, a, b - 1))
  <1>1. /\ Len(t) \in Nat /\ DOMAIN t = 1..Len(t) /\ F \in SUBSET (1..Len(t))
        /\ Cardinality(F) \in Nat
        /\ Collapse(t) \in Seq(Ink) /\ Len(Collapse(t)) = Cardinality(F)
    BY Collapsed
  <1>2. n \in Seq(Ink) /\ Len(n) \in Nat /\ Len(n) # 0
    BY Collapsed
  <1> HIDE DEF F, n
  <1>3. Place(F, Len(t)) = Cardinality(F) /\ \A e \in F : e \in Nat
    <2>1. \A e \in Nat : Len(t) <= e => Place(F, e) = Cardinality(F)
      BY <1>1, PlaceStep
    <2>2. Len(t) <= Len(t)
      BY <1>1
    <2> QED
      BY <1>1, <2>1, <2>2
  <1>4. \A k : k \in Occurs(Collapse(t), n) <=>
            /\ k \in Nat \ {0} /\ (k - 1) + Len(n) <= Cardinality(F)
            /\ \A j \in 1..Len(n) : n[j] = Collapse(t)[(k - 1) + j]
    <2> DEFINE c == Collapse(t)
    <2>1. c \in Seq(Ink) /\ Len(c) = Cardinality(F)
      BY <1>1
    <2> HIDE DEF c
    <2>2. \A k : k \in Occurs(c, n) <=>
              /\ k \in Nat \ {0} /\ (k - 1) + Len(n) <= Len(c)
              /\ \A j \in 1..Len(n) : n[j] = c[(k - 1) + j]
      <3>1. n \in Seq(Ink) /\ c \in Seq(Ink) /\ Len(n) # 0
        BY <1>2, <2>1
      <3> QED
        BY <3>1, OccursAt
    <2> QED
      BY <2>1, <2>2 DEF c
  <1>5. ASSUME a \in F, a < b
        PROVE  LET k == Place(F, a)
               IN  /\ u \in Seq(Ink) /\ Len(u) \in Nat
                   /\ k \in 1..Cardinality(F) /\ Nth(F, k) = a
                   /\ Place(F, b - 1) = (k - 1) + Len(u)
                   /\ \A j \in 1..Len(u) : u[j] = Collapse(t)[(k - 1) + j]
    BY <1>5, SliceCollapses DEF F
  <1>6. ASSUME Like(t, s, a, b)
        PROVE  \E k \in Occurs(Collapse(t), n) : a = Nth(F, k) /\ b = Stop(t, (k - 1) + Len(n))
    <2>1. a < b
      <3>1. CASE a = b
        <4>1. SubSeq(t, a, b - 1) = <<>>
          BY <3>1, SubSeqEmpty
        <4>2. Len(u) = 0
          <5>1. Origins(<<>>) = {}
            BY DEF Origins
          <5>2. Cardinality(Origins(<<>>)) = 0
            BY <5>1, FS_EmptySet
          <5>3. <<>> \in Seq(Char)
            OBVIOUS
          <5> QED
            BY <4>1, <5>2, <5>3, Collapsed
        <4> QED
          BY <1>2, <1>6, <4>2 DEF Like, n
      <3> QED
        BY <1>6, <3>1 DEF Like
    <2>2. a \in F
      BY <1>1, <1>6, <2>1 DEF Like, F, Origins
    <2> DEFINE k == Place(F, a)
               l == (k - 1) + Len(n)
    <2>3. /\ u = n /\ k \in 1..Cardinality(F) /\ Nth(F, k) = a
          /\ Place(F, b - 1) = l
          /\ \A j \in 1..Len(n) : n[j] = Collapse(t)[(k - 1) + j]
      BY <1>5, <1>6, <2>1, <2>2 DEF Like, n
    <2> HIDE DEF k, u
    <2>4. l <= Cardinality(F) /\ l \in 1..Cardinality(F)
      <3>1. b - 1 \in Nat
        OBVIOUS
      <3>2. Place(F, b - 1) <= Cardinality(F)
        BY <1>1, <3>1, PlaceGrows
      <3> QED
        BY <1>1, <1>2, <2>3, <3>2
    <2>5. k \in Occurs(Collapse(t), n)
      <3>1. k \in Nat \ {0} /\ (k - 1) + Len(n) <= Cardinality(F)
        BY <1>1, <2>3, <2>4
      <3> QED
        BY <1>4, <2>3, <3>1
    <2> HIDE DEF l
    <2>6. b = Stop(t, l)
      <3>1. CASE b = Len(t) + 1
        <4>1. b - 1 = Len(t)
          BY <1>1, <3>1
        <4>2. Place(F, b - 1) = Cardinality(F)
          BY <1>3, <4>1
        <4>3. ~(l < Cardinality(F))
          BY <1>1, <2>3, <4>2
        <4> QED
          BY <3>1, <4>3 DEF Stop, F
      <3>2. CASE b # Len(t) + 1
        <4>1. b \in 1..Len(t) /\ b > 1
          BY <1>1, <2>1, <3>2
        <4>2. b \in F
          BY <1>1, <1>6, <4>1 DEF Like, F, Origins
        <4>3. b - 1 \in Nat /\ (b - 1) + 1 = b
          BY <4>1
        <4>4. Place(F, (b - 1) + 1) = Place(F, b - 1) + IF (b - 1) + 1 \in F THEN 1 ELSE 0
          BY <1>1, <4>3, PlaceStep
        <4>5. Place(F, b) = l + 1
          BY <2>3, <4>2, <4>3, <4>4
        <4>6. Place(F, b) \in 1..Cardinality(F) /\ Nth(F, Place(F, b)) = b
          BY <1>1, <4>2, NthPlace
        <4>7. l < Cardinality(F) /\ Nth(F, l + 1) = b
          BY <1>1, <2>4, <4>5, <4>6
        <4> QED
          BY <4>7 DEF Stop, F
      <3> QED
        BY <3>1, <3>2
    <2> QED
      BY <2>3, <2>5, <2>6 DEF l
  <1>7. ASSUME NEW k \in Occurs(Collapse(t), n), a = Nth(F, k), b = Stop(t, (k - 1) + Len(n))
        PROVE  Like(t, s, a, b)
    <2> DEFINE l == (k - 1) + Len(n)
    <2>1. /\ k \in Nat \ {0} /\ l <= Cardinality(F)
          /\ \A j \in 1..Len(n) : n[j] = Collapse(t)[(k - 1) + j]
      BY <1>4
    <2>2. k \in 1..Cardinality(F) /\ l \in 1..Cardinality(F) /\ k <= l
      BY <1>1, <1>2, <2>1
    <2> HIDE DEF l
    <2>3. /\ Nth(F, l) \in F /\ Nth(F, l) < b /\ Place(F, b - 1) = l
          /\ b <= Len(t) => b \in F
      BY <1>7, <2>2, SpanStops DEF F, l
    <2>4. a \in F /\ Place(F, a) = k /\ a < b
      <3>1. /\ \A x \in 1..Cardinality(F) : Nth(F, x) \in F /\ Place(F, Nth(F, x)) = x
            /\ \A x, y \in 1..Cardinality(F) : x < y => Nth(F, x) < Nth(F, y)
        BY <1>1, NthPlace
      <3>2. a \in F /\ Place(F, a) = k
        BY <1>7, <2>2, <3>1
      <3>3. a = Nth(F, l) \/ a < Nth(F, l)
        BY <1>7, <2>2, <3>1
      <3>4. Nth(F, l) \in Nat /\ a \in Nat /\ b \in Nat
        <4>1. Nth(F, l) \in Nat
          BY <1>3, <2>3
        <4> QED
          BY <1>1, <4>1
      <3> QED
        BY <2>3, <3>2, <3>3, <3>4
    <2>5. /\ u \in Seq(Ink) /\ Len(u) \in Nat /\ l = (k - 1) + Len(u)
          /\ \A j \in 1..Len(u) : u[j] = Collapse(t)[(k - 1) + j]
      BY <1>5, <2>3, <2>4
    <2> HIDE DEF u
    <2>6. Len(u) = Len(n)
      BY <1>2, <2>1, <2>5 DEF l
    <2>7. u = n
      BY <1>2, <2>1, <2>5, <2>6, SeqEqual
    <2>8. a > 1 /\ White(t[a]) => ~White(t[a - 1])
      BY <1>1, <2>4 DEF F, Origins
    <2>9. b <= Len(t) /\ White(t[b]) => ~White(t[b - 1])
      <3>1. b > 1
        BY <2>4
      <3> QED
        BY <1>1, <2>3, <3>1 DEF F, Origins
    <2> QED
      BY <2>4, <2>7, <2>8, <2>9 DEF Like, n, u
  <1> QED
    BY <1>6, <1>7 DEF F, n

-----------------------------------------------------------------------------
(* Words.  What is read of a command is read piece by piece: from one      *)
(* state of the reader a piece leads to another.                           *)

Reading(s, t, g) == g = [i \in 0..Len(t) |-> IF i = 0 THEN s ELSE ReadChar(g[i - 1], t[i])]
Reads(s, t, u) == \E g : Reading(s, t, g) /\ g[Len(t)] = u

\* Nothing leads nowhere.
LEMMA ReadsNone ==
    ASSUME NEW s
    PROVE  Reads(s, <<>>, s)
  <1> DEFINE g == [i \in 0..0 |-> s]
  <1>1. Len(<<>>) = 0
    OBVIOUS
  <1>2. g = [i \in 0..0 |-> IF i = 0 THEN s ELSE ReadChar(g[i - 1], <<>>[i])] /\ g[0] = s
    OBVIOUS
  <1> HIDE DEF g
  <1>3. Reading(s, <<>>, g) /\ g[Len(<<>>)] = s
    BY <1>1, <1>2 DEF Reading
  <1> QED
    BY <1>3 DEF Reads

\* One piece after the other.
LEMMA ReadsOn ==
    ASSUME NEW S, NEW t \in Seq(S), NEW r \in Seq(S), NEW s, NEW u, NEW v,
           Reads(s, t, u), Reads(u, r, v)
    PROVE  Reads(s, t \o r, v)
  <1>1. PICK g : Reading(s, t, g) /\ g[Len(t)] = u
    BY DEF Reads
  <1>2. PICK h : Reading(u, r, h) /\ h[Len(r)] = v
    BY DEF Reads
  <1> DEFINE n == Len(t)
             m == Len(r)
             w == t \o r
             k == [i \in 0..(n + m) |-> IF i <= n THEN g[i] ELSE h[i - n]]
  <1>3. /\ n \in Nat /\ m \in Nat /\ Len(w) = n + m
        /\ \A i \in 1..(n + m) : w[i] = IF i <= n THEN t[i] ELSE r[i - n]
    BY ConcatProperties, LenProperties
  <1>4. /\ \A i \in 0..n : g[i] = IF i = 0 THEN s ELSE ReadChar(g[i - 1], t[i])
        /\ \A i \in 0..m : h[i] = IF i = 0 THEN u ELSE ReadChar(h[i - 1], r[i])
        /\ g[n] = u /\ h[m] = v
    BY <1>1, <1>2, <1>3 DEF Reading
  <1> HIDE DEF n, m, w
  <1>5. ASSUME NEW i \in 0..(n + m)
        PROVE  k[i] = IF i = 0 THEN s ELSE ReadChar(k[i - 1], w[i])
    <2>1. CASE i <= n
      <3>1. i \in 0..n /\ k[i] = g[i] /\ (i # 0 => i \in 1..(n + m) /\ k[i - 1] = g[i - 1])
        BY <1>3, <2>1
      <3> QED
        BY <1>3, <1>4, <2>1, <3>1
    <2>2. CASE ~(i <= n)
      <3> DEFINE j == i - n
      <3>1. j \in 0..m /\ j # 0 /\ i # 0 /\ i \in 1..(n + m) /\ k[i] = h[j]
        BY <1>3, <2>2
      <3>2. h[j] = ReadChar(h[j - 1], r[j])
        BY <1>4, <3>1
      <3>3. w[i] = r[j]
        BY <1>3, <2>2, <3>1
      <3>4. k[i - 1] = h[j - 1]
        <4>1. CASE i = n + 1
          <5>1. i - 1 = n /\ j - 1 = 0 /\ i - 1 \in 0..(n + m) /\ 0 \in 0..m
            BY <1>3, <3>1, <4>1
          <5>2. n \in 0..(n + m) /\ n <= n
            BY <1>3
          <5>3. k[n] = g[n]
            BY <1>3, <5>2
          <5>4. h[0] = u
            BY <1>4, <5>1
          <5> QED
            BY <1>4, <5>1, <5>3, <5>4
        <4>2. CASE i # n + 1
          <5>1. i - 1 \in 0..(n + m) /\ ~(i - 1 <= n) /\ (i - 1) - n = j - 1
            BY <1>3, <2>2, <4>2
          <5> HIDE DEF j
          <5> QED
            BY <5>1
        <4> QED
          BY <4>1, <4>2
      <3> HIDE DEF j, k
      <3> QED
        BY <3>1, <3>2, <3>3, <3>4
    <2> QED
      BY <2>1, <2>2
  <1>6. k = [i \in 0..(n + m) |-> k[i]]
    OBVIOUS
  <1>7. k[n + m] = v
    <2>1. CASE m = 0
      <3>1. n + m = n /\ n \in 0..(n + m) /\ 0 \in 0..m
        BY <1>3, <2>1
      <3> QED
        BY <1>3, <1>4, <2>1, <3>1
    <2>2. CASE m # 0
      <3>1. n + m \in 0..(n + m) /\ ~(n + m <= n) /\ (n + m) - n = m
        BY <1>3, <2>2
      <3> QED
        BY <1>4, <3>1
    <2> QED
      BY <2>1, <2>2
  <1> HIDE DEF k
  <1>8. k = [i \in 0..Len(w) |-> IF i = 0 THEN s ELSE ReadChar(k[i - 1], w[i])]
    BY <1>3, <1>5, <1>6
  <1>9. Reading(s, w, k) /\ k[Len(w)] = v
    BY <1>3, <1>7, <1>8 DEF Reading
  <1> QED
    BY <1>9 DEF Reads, w

\* A character.
LEMMA ReadsChar ==
    ASSUME NEW s, NEW c
    PROVE  Reads(s, <<c>>, ReadChar(s, c))
  <1> DEFINE t == <<c>>
             g == [i \in 0..1 |-> IF i = 0 THEN s ELSE ReadChar(s, c)]
  <1>1. Len(t) = 1 /\ t[1] = c
    OBVIOUS
  <1>2. g[0] = s /\ g[1] = ReadChar(s, c)
    OBVIOUS
  <1>3. ASSUME NEW i \in 0..1 PROVE g[i] = IF i = 0 THEN s ELSE ReadChar(g[i - 1], t[i])
    <2>1. i = 0 \/ (i = 1 /\ i - 1 = 0)
      OBVIOUS
    <2> HIDE DEF g, t
    <2> QED
      BY <1>1, <1>2, <2>1
  <1>4. g = [i \in 0..1 |-> g[i]]
    OBVIOUS
  <1> HIDE DEF g, t
  <1>5. Reading(s, t, g) /\ g[Len(t)] = ReadChar(s, c)
    BY <1>1, <1>2, <1>3, <1>4 DEF Reading
  <1> QED
    BY <1>5 DEF Reads, t

\* The whole command.
LEMMA ReadsCommand ==
    ASSUME NEW S, NEW cmd \in Seq(S), NEW u, Reads(Outside, cmd, u)
    PROVE  SplitCmd(cmd) = CutWord(u).words
  <1> DEFINE n == Len(cmd)
             upto == CHOOSE g : Reading(Outside, cmd, g)
  <1>1. n \in Nat
    BY LenProperties
  <1>2. PICK g : Reading(Outside, cmd, g) /\ g[n] = u
    BY DEF Reads
  <1>3. Reading(Outside, cmd, upto)
    BY <1>2
  <1>4. SplitCmd(cmd) = CutWord(upto[n]).words
    BY DEF SplitCmd, Reading
  <1> HIDE DEF n, upto
  <1>5. /\ \A i \in 0..n : g[i] = IF i = 0 THEN Outside ELSE ReadChar(g[i - 1], cmd[i])
        /\ \A i \in 0..n : upto[i] = IF i = 0 THEN Outside ELSE ReadChar(upto[i - 1], cmd[i])
    BY <1>2, <1>3 DEF Reading, n
  <1> DEFINE D == {i \in Nat : i <= n => upto[i] = g[i]}
  <1>6. 0 \in D
    BY <1>1, <1>5
  <1>7. ASSUME NEW i \in Nat, i \in D PROVE i + 1 \in D
    <2> SUFFICES ASSUME i + 1 <= n PROVE upto[i + 1] = g[i + 1]
      OBVIOUS
    <2>1. i + 1 \in 0..n /\ i + 1 # 0 /\ (i + 1) - 1 = i /\ upto[i] = g[i]
      BY <1>1, <1>7
    <2> QED
      BY <1>5, <2>1
  <1>8. n \in D
    <2> HIDE DEF D
    <2> QED
      BY <1>1, <1>6, <1>7, SetInduction
  <1> QED
    BY <1>1, <1>2, <1>4, <1>8

\* The reader's state, field by field.
Reader(s) == s = [words |-> s.words, cur |-> s.cur, quote |-> s.quote,
                  escaped |-> s.escaped, pushed |-> s.pushed]
Is(s, W, w, q, x, p) ==
    /\ Reader(s)
    /\ s.words = W /\ s.cur = w /\ s.quote = q /\ s.escaped = x /\ s.pushed = p

\* As the fields say.
LEMMA ReaderIs ==
    ASSUME NEW W, NEW w, NEW q, NEW x, NEW p
    PROVE  Is([words |-> W, cur |-> w, quote |-> q, escaped |-> x, pushed |-> p],
              W, w, q, x, p)
  BY DEF Is, Reader

\* A field of it is set.
LEMMA ReaderSet ==
    ASSUME NEW s, NEW W, NEW w, NEW q, NEW x, NEW p, Is(s, W, w, q, x, p), NEW e
    PROVE  /\ Is([s EXCEPT !.words = e], e, w, q, x, p)
           /\ Is([s EXCEPT !.cur = e], W, e, q, x, p)
           /\ Is([s EXCEPT !.quote = e], W, w, e, x, p)
           /\ Is([s EXCEPT !.escaped = e], W, w, q, e, p)
           /\ Is([s EXCEPT !.pushed = e], W, w, q, x, e)
  <1>0. Reader(s) /\ s.words = W /\ s.cur = w /\ s.quote = q /\ s.escaped = x /\ s.pushed = p
    BY DEF Is
  <1>1. /\ [s EXCEPT !.words = e] = [words |-> e, cur |-> s.cur, quote |-> s.quote,
                                     escaped |-> s.escaped, pushed |-> s.pushed]
        /\ [s EXCEPT !.cur = e] = [words |-> s.words, cur |-> e, quote |-> s.quote,
                                   escaped |-> s.escaped, pushed |-> s.pushed]
        /\ [s EXCEPT !.quote = e] = [words |-> s.words, cur |-> s.cur, quote |-> e,
                                     escaped |-> s.escaped, pushed |-> s.pushed]
        /\ [s EXCEPT !.escaped = e] = [words |-> s.words, cur |-> s.cur, quote |-> s.quote,
                                       escaped |-> e, pushed |-> s.pushed]
        /\ [s EXCEPT !.pushed = e] = [words |-> s.words, cur |-> s.cur, quote |-> s.quote,
                                      escaped |-> s.escaped, pushed |-> e]
    BY <1>0 DEF Reader
  <1> QED
    BY <1>0, <1>1, ReaderIs

\* Fields are set together.
LEMMA ReaderTwo ==
    ASSUME NEW s, NEW W, NEW w, NEW q, NEW x, NEW p, Is(s, W, w, q, x, p), NEW e, NEW b, NEW f
    PROVE  /\ Is([s EXCEPT !.cur = e, !.pushed = b], W, e, q, x, b)
           /\ Is([s EXCEPT !.cur = e, !.escaped = b], W, e, q, b, p)
           /\ Is([s EXCEPT !.words = f, !.cur = e, !.pushed = b], f, e, q, x, b)
  <1>1. /\ [s EXCEPT !.cur = e, !.pushed = b] = [[s EXCEPT !.cur = e] EXCEPT !.pushed = b]
        /\ [s EXCEPT !.cur = e, !.escaped = b] = [[s EXCEPT !.cur = e] EXCEPT !.escaped = b]
        /\ [s EXCEPT !.words = f, !.cur = e, !.pushed = b]
           = [[[s EXCEPT !.words = f] EXCEPT !.cur = e] EXCEPT !.pushed = b]
    OBVIOUS
  <1>2. Is([s EXCEPT !.cur = e], W, e, q, x, p)
    BY ReaderSet
  <1>3. Is([s EXCEPT !.words = f], f, w, q, x, p)
    BY ReaderSet
  <1>4. Is([[s EXCEPT !.words = f] EXCEPT !.cur = e], f, e, q, x, p)
    BY <1>3, ReaderSet
  <1>5. Is([[s EXCEPT !.cur = e] EXCEPT !.pushed = b], W, e, q, x, b)
    BY <1>2, ReaderSet
  <1>6. Is([[s EXCEPT !.cur = e] EXCEPT !.escaped = b], W, e, q, b, p)
    BY <1>2, ReaderSet
  <1>7. Is([[[s EXCEPT !.words = f] EXCEPT !.cur = e] EXCEPT !.pushed = b], f, e, q, x, b)
    BY <1>4, ReaderSet
  <1> QED
    BY <1>1, <1>5, <1>6, <1>7

\* The reader is at w in a word, having read the words W, between quotes q or outside of any; or
\* in no word.
At(s, W, w, q) == \E p : Is(s, W, w, q, FALSE, p)
Free(s, W) == Is(s, W, <<>>, "none", FALSE, FALSE)

\* The fields of a reader.
LEMMA AtFields ==
    ASSUME NEW s, NEW W, NEW w, NEW q, At(s, W, w, q)
    PROVE  s.words = W /\ s.cur = w /\ s.quote = q /\ s.escaped = FALSE
  BY Zenon DEF At, Is

\* The characters that mean something else.
Marks == {"'", "\""}
Bar == "\\"
Blanks == {" ", NL}

\* Quotes, the escape and blanks are different characters.
LEMMA MarksApart ==
    ASSUME NEW q \in Marks
    PROVE  q # "none" /\ q # Bar /\ Bar # "none"
  BY Zenon DEF Marks, Bar

\* All that a command is made of.
Alphabet == STRING \union Marks \union Blanks \union {Bar}

\* A character that means itself is of the word.
LEMMA PlainChar ==
    ASSUME NEW s, NEW W, NEW w, NEW q, At(s, W, w, q),
           NEW c, c # q, c # Bar, q = "none" => c \notin Marks \union Blanks
    PROVE  At(ReadChar(s, c), W, Append(w, c), q)
  <1> PICK p : Is(s, W, w, q, FALSE, p)
    BY DEF At
  <1>1. s.words = W /\ s.cur = w /\ s.quote = q /\ s.escaped = FALSE
    BY AtFields
  <1>2. ReadChar(s, c) = [s EXCEPT !.cur = Append(s.cur, c), !.pushed = TRUE]
    BY <1>1 DEF ReadChar, White, Marks, Bar, Blanks
  <1>3. Is([s EXCEPT !.cur = Append(s.cur, c), !.pushed = TRUE], W, Append(s.cur, c), q, FALSE, TRUE)
    BY ReaderTwo
  <1>4. Is(ReadChar(s, c), W, Append(w, c), q, FALSE, TRUE)
    BY <1>1, <1>2, <1>3
  <1> QED
    BY <1>4, Zenon DEF At

\* Two of one each.
LEMMA PairJoined ==
    ASSUME NEW a, NEW b
    PROVE  <<a>> \o <<b>> = <<a, b>>
  <1>1. /\ <<a>> \in Seq({a, b}) /\ <<b>> \in Seq({a, b}) /\ <<a, b>> \in Seq({a, b})
        /\ Len(<<a>>) = 1 /\ Len(<<b>>) = 1 /\ Len(<<a, b>>) = 2
    OBVIOUS
  <1>2. <<a>> \o <<b>> \in Seq({a, b}) /\ Len(<<a>> \o <<b>>) = 2
        /\ (<<a>> \o <<b>>)[1] = a /\ (<<a>> \o <<b>>)[2] = b
    BY <1>1, ConcatProperties
  <1>3. \A i \in 1..2 : (<<a>> \o <<b>>)[i] = <<a, b>>[i]
    BY <1>2
  <1> QED
    BY <1>1, <1>2, <1>3, SeqEqual

\* So is one behind a backslash, whatever it is.
LEMMA EscapedChar ==
    ASSUME NEW s, NEW W, NEW w, NEW q, At(s, W, w, q), q # Bar, NEW c
    PROVE  \E u : Reads(s, <<Bar, c>>, u) /\ At(u, W, Append(w, c), q)
  <1> DEFINE v == ReadChar(s, Bar)
             u == ReadChar(v, c)
  <1> PICK p : Is(s, W, w, q, FALSE, p)
    BY DEF At
  <1>1. s.words = W /\ s.cur = w /\ s.quote = q /\ s.escaped = FALSE
    BY AtFields
  <1>2. Is(v, W, w, q, TRUE, p)
    <2>1. v = [s EXCEPT !.escaped = TRUE]
      BY <1>1 DEF ReadChar, Bar
    <2>2. Is([s EXCEPT !.escaped = TRUE], W, w, q, TRUE, p)
      BY ReaderSet
    <2> HIDE DEF v
    <2> QED
      BY <2>1, <2>2
  <1>5. Reads(s, <<Bar>>, v) /\ Reads(v, <<c>>, u)
    BY ReadsChar
  <1> HIDE DEF v
  <1>3. Is(u, W, Append(w, c), q, FALSE, p)
    <2>1. v.escaped = TRUE /\ v.cur = w
      BY <1>2, Zenon DEF Is
    <2>2. u = [v EXCEPT !.cur = Append(v.cur, c), !.escaped = FALSE]
      BY <2>1 DEF ReadChar
    <2>3. Is([v EXCEPT !.cur = Append(v.cur, c), !.escaped = FALSE], W, Append(v.cur, c), q,
             FALSE, p)
      BY <1>2, ReaderTwo
    <2> HIDE DEF u
    <2> QED
      BY <2>1, <2>2, <2>3
  <1> HIDE DEF u
  <1>4. At(u, W, Append(w, c), q)
    BY <1>3, Zenon DEF At
  <1>6. <<Bar>> \o <<c>> = <<Bar, c>>
    BY PairJoined
  <1>7. <<Bar>> \in Seq({Bar, c}) /\ <<c>> \in Seq({Bar, c})
    OBVIOUS
  <1>8. Reads(s, <<Bar, c>>, u)
    BY <1>5, <1>6, <1>7, ReadsOn
  <1> QED
    BY <1>4, <1>8

\* A quote opens and closes.
LEMMA QuoteChar ==
    ASSUME NEW s, NEW W, NEW w, NEW q \in Marks
    PROVE  /\ At(s, W, w, "none") => At(ReadChar(s, q), W, w, q)
           /\ At(s, W, w, q) => At(ReadChar(s, q), W, w, "none")
  <1>1. ASSUME At(s, W, w, "none") PROVE At(ReadChar(s, q), W, w, q)
    <2> PICK p : Is(s, W, w, "none", FALSE, p)
      BY <1>1 DEF At
    <2>1. s.quote = "none" /\ s.escaped = FALSE
      BY <1>1, AtFields
    <2>2. ReadChar(s, q) = [s EXCEPT !.quote = q]
      BY <2>1, MarksApart DEF ReadChar, Marks, Bar
    <2>3. Is([s EXCEPT !.quote = q], W, w, q, FALSE, p)
      BY ReaderSet
    <2>4. Is(ReadChar(s, q), W, w, q, FALSE, p)
      BY <2>2, <2>3
    <2> QED
      BY <2>4, Zenon DEF At
  <1>2. ASSUME At(s, W, w, q) PROVE At(ReadChar(s, q), W, w, "none")
    <2> PICK p : Is(s, W, w, q, FALSE, p)
      BY <1>2 DEF At
    <2>1. s.quote = q /\ s.escaped = FALSE
      BY <1>2, AtFields
    <2>2. ReadChar(s, q) = [s EXCEPT !.quote = "none"]
      BY <2>1, MarksApart DEF ReadChar, Marks, Bar
    <2>3. Is([s EXCEPT !.quote = "none"], W, w, "none", FALSE, p)
      BY ReaderSet
    <2>4. Is(ReadChar(s, q), W, w, "none", FALSE, p)
      BY <2>2, <2>3
    <2> QED
      BY <2>4, Zenon DEF At
  <1> QED
    BY <1>1, <1>2

\* The end of a word, and the end of none.
LEMMA WordCut ==
    ASSUME NEW s, NEW W
    PROVE  /\ \A w : At(s, W, w, "none") /\ w # <<>> => Free(CutWord(s), Append(W, w))
           /\ Free(s, W) => Free(CutWord(s), W)
  <1>1. ASSUME NEW w, At(s, W, w, "none"), w # <<>>
        PROVE  Free(CutWord(s), Append(W, w))
    <2> PICK p : Is(s, W, w, "none", FALSE, p)
      BY <1>1 DEF At
    <2>1. s.words = W /\ s.cur = w
      BY <1>1, AtFields
    <2>2. CutWord(s) = [s EXCEPT !.words = Append(s.words, s.cur), !.cur = <<>>, !.pushed = FALSE]
      BY <1>1, <2>1 DEF CutWord
    <2>3. Is([s EXCEPT !.words = Append(s.words, s.cur), !.cur = <<>>, !.pushed = FALSE],
             Append(s.words, s.cur), <<>>, "none", FALSE, FALSE)
      BY ReaderTwo
    <2> QED
      BY <2>1, <2>2, <2>3 DEF Free
  <1>2. ASSUME Free(s, W) PROVE Free(CutWord(s), W)
    <2>1. s.cur = <<>> /\ s.pushed = FALSE
      BY <1>2, Zenon DEF Free, Is
    <2>2. CutWord(s) = s
      BY <2>1 DEF CutWord
    <2> QED
      BY <1>2, <2>2
  <1> QED
    BY <1>1, <1>2

\* Whitespace ends a word, and there is none to end behind it.
LEMMA BlankChar ==
    ASSUME NEW s, NEW W, NEW c \in Blanks, s.quote = "none", s.escaped = FALSE
    PROVE  ReadChar(s, c) = CutWord(s)
  BY DEF ReadChar, White, NL, Blanks

\* A part of a sequence grows by an element.
LEMMA PartGrows ==
    ASSUME NEW S, NEW t \in Seq(S), NEW k \in Nat, k + 1 <= Len(t)
    PROVE  /\ SubSeq(t, 1, k) \in Seq(S) /\ t[k + 1] \in S
           /\ SubSeq(t, 1, k + 1) = Append(SubSeq(t, 1, k), t[k + 1])
  <1>1. Len(t) \in Nat /\ k + 1 \in 1..Len(t)
    BY LenProperties
  <1>2. t[k + 1] \in S
    BY <1>1, ElementOfSeq
  <1>3. SubSeq(t, 1, k) \in Seq(S) /\ Len(SubSeq(t, 1, k)) = k
        /\ \A i \in 1..k : SubSeq(t, 1, k)[i] = t[i]
    <2>1. \A i \in 1..k : t[i] \in S
      BY <1>1, ElementOfSeq
    <2> QED
      BY <2>1
  <1>4. SubSeq(t, 1, k + 1) \in Seq(S) /\ Len(SubSeq(t, 1, k + 1)) = k + 1
        /\ \A i \in 1..(k + 1) : SubSeq(t, 1, k + 1)[i] = t[i]
    <2>1. \A i \in 1..(k + 1) : t[i] \in S
      BY <1>1, ElementOfSeq
    <2> QED
      BY <2>1
  <1> DEFINE a == SubSeq(t, 1, k)
             b == SubSeq(t, 1, k + 1)
  <1> HIDE DEF a, b
  <1>5. /\ Append(a, t[k + 1]) \in Seq(S) /\ Len(Append(a, t[k + 1])) = k + 1
        /\ \A i \in 1..k : Append(a, t[k + 1])[i] = a[i]
        /\ Append(a, t[k + 1])[k + 1] = t[k + 1]
    BY <1>2, <1>3, AppendProperties DEF a
  <1>6. \A i \in 1..(k + 1) : b[i] = Append(a, t[k + 1])[i]
    BY <1>3, <1>4, <1>5 DEF a, b
  <1>7. b = Append(a, t[k + 1])
    BY <1>4, <1>5, <1>6, SeqEqual DEF b
  <1> QED
    BY <1>2, <1>3, <1>7 DEF a, b


\* Pieces joined, one after the other.
Chain(g, h, n) == g = [k \in 0..n |-> IF k = 0 THEN <<>> ELSE g[k - 1] \o h[k]]

\* A chain of parts of any length exists.
LEMMA ChainThere ==
    ASSUME NEW n \in Nat, NEW S, NEW h \in [1..n -> Seq(S)]
    PROVE  \E g : Chain(g, h, n)
  <1> DEFINE X == Seq(S)
             base == <<>>
             step == [p \in (1..n) \X X |-> p[2] \o h[p[1]]]
  <1>1. base \in X /\ step \in [(1..n) \X X -> X]
    <2>1. ASSUME NEW p \in (1..n) \X X PROVE p[2] \o h[p[1]] \in X
      <3>1. p[1] \in 1..n /\ p[2] \in Seq(S) /\ h[p[1]] \in Seq(S)
        OBVIOUS
      <3> QED
        BY <3>1, ConcatProperties
    <2> QED
      BY <2>1
  <1>2. \A i \in 1..n : \A x \in X : step[<<i, x>>] = x \o h[i]
    OBVIOUS
  <1> HIDE DEF step, X, base
  <1>3. PICK g \in [0..n -> X] : g[0] = base /\ \A i \in 1..n : g[i] = step[<<i, g[i - 1]>>]
    <2>1. PICK g \in [0..n -> X] : Recurs(g, base, step, n)
      BY <1>1, RecursionIn
    <2> QED
      BY <2>1 DEF Recurs
  <1>4. ASSUME NEW k \in 0..n PROVE g[k] = IF k = 0 THEN <<>> ELSE g[k - 1] \o h[k]
    <2>1. k # 0 => k \in 1..n /\ k - 1 \in 0..n
      OBVIOUS
    <2>2. k # 0 => g[k - 1] \in X
      BY <1>3, <2>1
    <2> QED
      BY <1>2, <1>3, <2>1, <2>2 DEF base
  <1>5. g = [k \in 0..n |-> g[k]]
    BY <1>3
  <1>6. Chain(g, h, n)
    BY <1>4, <1>5 DEF Chain
  <1> QED
    BY <1>6

\* What they are.
LEMMA ChainLinks ==
    ASSUME NEW n \in Nat, NEW S, NEW h, \A k \in 1..n : h[k] \in Seq(S), NEW g, Chain(g, h, n)
    PROVE  /\ g[0] = <<>>
           /\ \A k \in 1..n : g[k] = g[k - 1] \o h[k]
           /\ \A k \in 0..n : g[k] \in Seq(S)
  <1>1. \A k \in 0..n : g[k] = IF k = 0 THEN <<>> ELSE g[k - 1] \o h[k]
    BY DEF Chain
  <1>2. g[0] = <<>>
    BY <1>1
  <1>3. ASSUME NEW k \in 1..n PROVE g[k] = g[k - 1] \o h[k]
    <2>1. k \in 0..n /\ k # 0
      OBVIOUS
    <2> QED
      BY <1>1, <2>1
  <1> DEFINE Fine(k) == g[k] \in Seq(S)
             D == {k \in Nat : k <= n => Fine(k)}
  <1>4. Fine(0)
    BY <1>2, EmptySeq
  <1>5. ASSUME NEW k \in Nat, k + 1 <= n, Fine(k) PROVE Fine(k + 1)
    <2>1. k + 1 \in 1..n /\ (k + 1) - 1 = k
      BY <1>5
    <2>2. g[k + 1] = g[k] \o h[k + 1] /\ h[k + 1] \in Seq(S)
      BY <1>3, <2>1
    <2> QED
      BY <1>5, <2>2, ConcatProperties
  <1> HIDE DEF Fine
  <1>6. 0 \in D /\ \A k \in Nat : k \in D => k + 1 \in D
    BY <1>4, <1>5
  <1>7. ASSUME NEW k \in 0..n PROVE Fine(k)
    <2> HIDE DEF D
    <2>1. k \in D
      BY <1>6, SetInduction
    <2> QED
      BY <2>1 DEF D
  <1> QED
    BY <1>2, <1>3, <1>7 DEF Fine

\* The body of a quoted word.
Shown(c, style) == IF c \in {Bar, style} THEN <<Bar, c>> ELSE <<c>>

\* A shown character is one character, or two with its escape.
LEMMA ShownText ==
    ASSUME NEW c \in STRING, NEW style
    PROVE  Shown(c, style) \in Seq(Alphabet)
  <1>1. Bar \in Alphabet /\ c \in Alphabet
    BY DEF Alphabet
  <1>2. Shown(c, style) = <<Bar, c>> \/ Shown(c, style) = <<c>>
    BY Zenon DEF Shown, Bar
  <1>3. \A a, b \in Alphabet : <<a, b>> \in Seq(Alphabet) /\ <<b>> \in Seq(Alphabet)
    OBVIOUS
  <1> QED
    BY <1>1, <1>2, <1>3

-----------------------------------------------------------------------------
(* Answers.  What is kept of the collected lines is picked at their        *)
(* positions, so it stays in the order of the output.                      *)

\* No more than n positions are left of the two ends of a set.
LEMMA HeadTailFew ==
    ASSUME NEW m \in Nat, NEW S \in SUBSET (1..m), NEW n \in Nat
    PROVE  /\ HeadTail(S, n) \subseteq S
           /\ IsFiniteSet(HeadTail(S, n))
           /\ Cardinality(HeadTail(S, n)) \in Nat /\ Cardinality(HeadTail(S, n)) <= n
           /\ Cardinality(S) <= n => HeadTail(S, n) = S
  <1> DEFINE c == Cardinality(S)
             H == HeadTail(S, n)
             p == (n + 1) \div 2
             q == n \div 2
             I == (1..p) \union ((c - q + 1)..c)
             f == [e \in H |-> Place(S, e)]
  <1>1. IsFiniteSet(S) /\ c \in Nat
    BY PlaceStep
  <1>2. H \subseteq S
    BY DEF HeadTail
  <1>3. IsFiniteSet(H) /\ Cardinality(H) \in Nat /\ Cardinality(H) <= c
    <2> HIDE DEF H
    <2> QED
      BY <1>1, <1>2, FS_Subset, FS_CardinalityType
  <1>4. c <= n => H = S
    BY DEF HeadTail
  <1>5. ASSUME c > n PROVE Cardinality(H) <= n
    <2>1. p \in Nat /\ q \in Nat /\ p + q = n
      OBVIOUS
    <2>2. \A e \in H : Place(S, e) <= p \/ Place(S, e) > c - q
      BY <1>1, <1>5 DEF HeadTail
    <2> HIDE DEF p, q, H, c
    <2>3. \A e \in S : Place(S, e) \in 1..c /\ Nth(S, Place(S, e)) = e
      BY NthPlace DEF c
    <2>4. \A e \in H : Place(S, e) \in I
      BY <1>1, <1>2, <2>1, <2>2, <2>3
    <2>5. IsFiniteSet(1..p) /\ Cardinality(1..p) = p
      BY <2>1, FS_Interval
    <2>6. IsFiniteSet((c - q + 1)..c) /\ Cardinality((c - q + 1)..c) = q
      <3>1. c - q + 1 \in Int /\ c \in Int /\ (c - q + 1 > c => q = 0)
            /\ c - (c - q + 1) + 1 = q
        BY <1>1, <2>1
      <3> QED
        BY <2>1, <3>1, FS_Interval
    <2>7. IsFiniteSet(I) /\ Cardinality(I) <= n
      <3> DEFINE A == 1..p
                 B == (c - q + 1)..c
      <3>1. IsFiniteSet(A) /\ IsFiniteSet(B) /\ Cardinality(A) = p /\ Cardinality(B) = q
        BY <2>5, <2>6
      <3> HIDE DEF A, B
      <3>2. IsFiniteSet(A \union B)
            /\ Cardinality(A \union B) = Cardinality(A) + Cardinality(B) - Cardinality(A \intersect B)
        BY <3>1, FS_Union
      <3>3. Cardinality(A \intersect B) \in Nat
        <4>1. A \intersect B \in SUBSET A
          OBVIOUS
        <4> QED
          BY <3>1, <4>1, FS_Subset, FS_CardinalityType
      <3>4. IsFiniteSet(A \union B) /\ Cardinality(A \union B) <= n
        BY <2>1, <3>1, <3>2, <3>3
      <3> QED
        BY <3>4 DEF A, B
    <2> HIDE DEF I
    <2>8. f \in Injection(H, I)
      <3>1. f \in [H -> I]
        BY <2>4
      <3>2. ASSUME NEW a \in H, NEW b \in H, f[a] = f[b] PROVE a = b
        <4>1. Place(S, a) = Place(S, b) /\ a \in S /\ b \in S
          BY <1>2, <3>2
        <4> QED
          BY <2>3, <4>1
      <3> HIDE DEF f
      <3> QED
        BY <3>1, <3>2 DEF Injection, IsInjective
    <2>9. Cardinality(H) <= Cardinality(I)
      BY <2>7, <2>8, FS_Injection
    <2>10. Cardinality(I) \in Nat
      BY <2>7, FS_CardinalityType
    <2> QED
      BY <1>3, <2>7, <2>9, <2>10
  <1>6. Cardinality(H) <= n
    BY <1>1, <1>3, <1>5
  <1> QED
    BY <1>2, <1>3, <1>4, <1>6

\* What of a sequence stands at positions of it.
InPlace(s, S) ==
    /\ Len(Pick(s, S)) = Cardinality(S) /\ DOMAIN Pick(s, S) = 1..Cardinality(S)
    /\ \A k \in 1..Cardinality(S) : Nth(S, k) \in S /\ Pick(s, S)[k] = s[Nth(S, k)]
    /\ \A k, l \in 1..Cardinality(S) : k < l => Nth(S, k) < Nth(S, l)
    /\ \A e \in S : \E k \in 1..Cardinality(S) : Nth(S, k) = e

\* The kept lines, one by one.
LEMMA Picked ==
    ASSUME NEW s, NEW m \in Nat, NEW S \in SUBSET (1..m)
    PROVE  InPlace(s, S)
  <1>1. Cardinality(S) \in Nat
    BY PlaceStep
  <1>2. /\ \A k \in 1..Cardinality(S) : Nth(S, k) \in S
        /\ \A k, l \in 1..Cardinality(S) : k < l => Nth(S, k) < Nth(S, l)
        /\ \A e \in S : Place(S, e) \in 1..Cardinality(S) /\ Nth(S, Place(S, e)) = e
    BY NthPlace
  <1>3. \A e \in S : \E k \in 1..Cardinality(S) : Nth(S, k) = e
    BY <1>2
  <1>4. /\ DOMAIN Pick(s, S) = 1..Cardinality(S)
        /\ \A k \in 1..Cardinality(S) : Pick(s, S)[k] = s[Nth(S, k)]
    BY DEF Pick
  <1>5. Len(Pick(s, S)) = Cardinality(S)
    BY <1>1 DEF Pick
  <1> QED
    BY <1>1, <1>2, <1>3, <1>4, <1>5 DEF InPlace

\* A greatest member of positions.
LEMMA LastPosition ==
    ASSUME NEW m \in Nat, NEW S \in SUBSET (1..m), S # {}
    PROVE  Max(S) \in S /\ \A e \in S : e <= Max(S)
  <1>1. S \in SUBSET Nat /\ \A e \in S : e <= m
    OBVIOUS
  <1> QED
    BY <1>1, MaxMember

\* The two parts of what PickKept keeps beside the last signal.
Signals(s) == {i \in DOMAIN s : Signal(s[i])}

\* What is kept of too many signals: no more than the cap, the last one, and the
\* specific ones if they fit.
LEMMA PickKeptFew ==
    ASSUME NEW s, NEW m \in Nat, DOMAIN s = 1..m, Signals(s) # {}, TextAssumption
    PROVE  LET K == PickKept(s, Signals(s))
               specific == {i \in Signals(s) : s[i].class = "specific"}
           IN  /\ K \subseteq Signals(s) /\ Max(Signals(s)) \in K
               /\ Cardinality(K) \in Nat /\ Cardinality(K) <= KeptCap
               /\ Cardinality(specific) < KeptCap => specific \subseteq K
  <1> DEFINE S == Signals(s)
             z == Max(S)
             others(class) == {i \in S \ {z} : s[i].class = class}
             A == others("specific")
             B == others("generic")
             X == HeadTail(A, KeptCap - 1)
             Y == HeadTail(B, KeptCap - 1 - Cardinality(X))
             K == PickKept(s, S)
  <1>0. KeptCap \in Nat /\ KeptCap # 0 /\ KeptCap - 1 \in Nat
    BY DEF TextAssumption
  <1>1. S \in SUBSET (1..m)
    BY DEF Signals
  <1>2. K = {z} \union X \union Y
    BY DEF PickKept
  <1>3. A \in SUBSET (1..m) /\ B \in SUBSET (1..m) /\ A \subseteq S /\ B \subseteq S
    BY <1>1
  <1>4. z \in S
    BY <1>1, LastPosition
  <1> DEFINE specific == {i \in S : s[i].class = "specific"}
  <1>5. A \subseteq specific /\ specific \subseteq A \union {z}
    OBVIOUS
  <1>6. specific \in SUBSET (1..m)
    BY <1>1
  <1> HIDE DEF A, B, z, specific, S
  <1>7. /\ X \subseteq A /\ IsFiniteSet(X) /\ Cardinality(X) \in Nat /\ Cardinality(X) <= KeptCap - 1
        /\ Cardinality(A) <= KeptCap - 1 => X = A
    BY <1>0, <1>3, HeadTailFew
  <1> HIDE DEF X
  <1>8. KeptCap - 1 - Cardinality(X) \in Nat
    BY <1>0, <1>7
  <1>9. /\ Y \subseteq B /\ IsFiniteSet(Y) /\ Cardinality(Y) \in Nat
        /\ Cardinality(Y) <= KeptCap - 1 - Cardinality(X)
    <2> DEFINE r == KeptCap - 1 - Cardinality(X)
    <2>1. r \in Nat
      BY <1>8
    <2> HIDE DEF r
    <2>2. /\ HeadTail(B, r) \subseteq B /\ IsFiniteSet(HeadTail(B, r))
          /\ Cardinality(HeadTail(B, r)) \in Nat /\ Cardinality(HeadTail(B, r)) <= r
      BY <1>3, <2>1, HeadTailFew
    <2> QED
      BY <2>2 DEF r
  <1> HIDE DEF Y, K
  <1>10. K \subseteq S /\ z \in K
    BY <1>2, <1>3, <1>4, <1>7, <1>9
  <1>11. Cardinality(K) \in Nat /\ Cardinality(K) <= KeptCap
    <2>1. IsFiniteSet(X \union Y)
          /\ Cardinality(X \union Y) = Cardinality(X) + Cardinality(Y) - Cardinality(X \intersect Y)
      BY <1>7, <1>9, FS_Union
    <2>2. Cardinality(X \intersect Y) \in Nat
      <3>1. X \intersect Y \in SUBSET X
        OBVIOUS
      <3> QED
        BY <1>7, <3>1, FS_Subset, FS_CardinalityType
    <2>3. Cardinality(X \union Y) \in Nat /\ Cardinality(X \union Y) <= KeptCap - 1
      BY <1>0, <1>7, <1>9, <2>1, <2>2, FS_CardinalityType
    <2>4. Cardinality((X \union Y) \union {z}) \in Nat
          /\ Cardinality((X \union Y) \union {z}) <= Cardinality(X \union Y) + 1
      <3> DEFINE C == X \union Y
      <3>1. IsFiniteSet(C) /\ Cardinality(C) \in Nat
        BY <2>1, <2>3
      <3> HIDE DEF C
      <3>2. Cardinality(C \union {z}) = IF z \in C THEN Cardinality(C) ELSE Cardinality(C) + 1
        BY <3>1, FS_AddElement
      <3>3. Cardinality(C \union {z}) \in Nat /\ Cardinality(C \union {z}) <= Cardinality(C) + 1
        BY <3>1, <3>2
      <3> QED
        BY <3>3 DEF C
    <2>5. K = (X \union Y) \union {z}
      BY <1>2
    <2> QED
      BY <1>0, <2>3, <2>4, <2>5
  <1>12. ASSUME Cardinality(specific) < KeptCap PROVE specific \subseteq K
    <2>1. Cardinality(A) <= Cardinality(specific) /\ Cardinality(A) \in Nat
      <3>1. IsFiniteSet(specific)
        BY <1>6, PlaceStep
      <3> QED
        BY <1>5, <3>1, FS_Subset, FS_CardinalityType
    <2>2. Cardinality(specific) \in Nat
      BY <1>6, PlaceStep
    <2>3. X = A
      BY <1>0, <1>7, <1>12, <2>1, <2>2
    <2> QED
      BY <1>2, <1>5, <2>3
  <1> QED
    BY <1>10, <1>11, <1>12 DEF K, S, z, specific

\* How many lines are kept, and which are in any case.
LEMMA KeptFew ==
    ASSUME NEW s, NEW m \in Nat, DOMAIN s = 1..m, Len(s) = m, TextAssumption
    PROVE  LET K == Kept(s)
               S == Signals(s)
               specific == {i \in S : s[i].class = "specific"}
               last == {i \in 1..m : i > m - TailLines}
           IN  /\ K \in SUBSET (1..m)
               /\ Cardinality(K) \in Nat
               /\ Cardinality(K) <= IF S # {} THEN KeptCap ELSE TailLines
               /\ S # {} => Max(S) \in K
               /\ Cardinality(specific) < KeptCap => specific \subseteq K
               /\ S = {} /\ (\E i \in last : s[i].class # "noise") => last \subseteq K
  <1> DEFINE K == Kept(s)
             S == Signals(s)
             specific == {i \in S : s[i].class = "specific"}
             last == {i \in 1..m : i > m - TailLines}
  <1>1. S \in SUBSET (1..m) /\ specific \subseteq S
    BY DEF Signals
  <1>2. KeptCap \in Nat /\ KeptCap # 0 /\ TailLines \in Nat
    BY DEF TextAssumption
  <1>3. K = CASE Cardinality(S) > KeptCap -> PickKept(s, S)
              [] S # {} /\ Cardinality(S) <= KeptCap -> S
              [] S = {} /\ (\E i \in last : s[i].class # "noise") -> last
              [] OTHER -> {}
    BY DEF Kept, Signals
  <1>4. Cardinality(S) \in Nat
    BY <1>1, PlaceStep
  <1>5. Cardinality({}) = 0 /\ IsFiniteSet({})
    BY FS_EmptySet
  <1>6. CASE Cardinality(S) > KeptCap
    <2>1. S # {}
      <3> SUFFICES ASSUME S = {} PROVE FALSE
        OBVIOUS
      <3>1. Cardinality(S) = 0
        BY <1>5
      <3> HIDE DEF S
      <3> QED
        BY <1>2, <1>6, <3>1
    <2>2. K = PickKept(s, S)
      <3> HIDE DEF S, K, last
      <3> QED
        BY <1>2, <1>3, <1>4, <1>6, <2>1
    <2>3. /\ PickKept(s, S) \subseteq S /\ Max(S) \in PickKept(s, S)
          /\ Cardinality(PickKept(s, S)) \in Nat /\ Cardinality(PickKept(s, S)) <= KeptCap
          /\ Cardinality(specific) < KeptCap => specific \subseteq PickKept(s, S)
      BY <2>1, PickKeptFew
    <2> HIDE DEF K, S, specific, last
    <2>4. K \in SUBSET (1..m)
      BY <1>1, <2>2, <2>3
    <2> QED
      BY <2>1, <2>2, <2>3, <2>4 DEF K, S, specific, last
  <1>7. CASE S # {} /\ Cardinality(S) <= KeptCap
    <2>1. K = S
      BY <1>2, <1>3, <1>4, <1>7
    <2>2. Max(S) \in S
      BY <1>1, <1>7, LastPosition
    <2> HIDE DEF K, S, specific, last
    <2> QED
      BY <1>1, <1>4, <1>7, <2>1, <2>2 DEF K, S, specific, last
  <1>8. CASE S = {}
    <2>1. specific = {}
      BY <1>1, <1>8
    <2>2. K = IF \E i \in last : s[i].class # "noise" THEN last ELSE {}
      BY <1>2, <1>3, <1>5, <1>8
    <2>3. last \in SUBSET (1..m) /\ IsFiniteSet(last) /\ Cardinality(last) \in Nat
          /\ Cardinality(last) <= TailLines
      <3> DEFINE I == (m - TailLines + 1)..m
      <3>1. IsFiniteSet(I) /\ Cardinality(I) = TailLines
        <4>1. m - TailLines + 1 \in Int /\ m \in Int /\ (m - TailLines + 1 > m => TailLines = 0)
              /\ m - (m - TailLines + 1) + 1 = TailLines
          BY <1>2
        <4> QED
          BY <1>2, <4>1, FS_Interval
      <3>2. last \in SUBSET I /\ last \in SUBSET (1..m)
        BY <1>2
      <3> HIDE DEF last, I
      <3> QED
        BY <1>2, <3>1, <3>2, FS_Subset, FS_CardinalityType
    <2> HIDE DEF K, S, specific, last
    <2> QED
      BY <1>2, <1>5, <1>8, <2>1, <2>2, <2>3 DEF K, S, specific, last
  <1> QED
    BY <1>4, <1>6, <1>7, <1>8, <1>2

-----------------------------------------------------------------------------
(* Output.  The two ends of an output, with a mark between them where      *)
(* lines fell away.                                                        *)

Class == {"noise", "plain", "generic", "specific"}
Line == [at : Nat, class : Class]
Numbered(o) == o \in Seq(Line) /\ \A i \in 1..Len(o) : o[i].at = i
Ends(o) == {i \in 1..Len(o) : i <= HeadCap \/ i > Len(o) - TailCap}
LastOf(o) == {i \in 1..Len(o) : i > Len(o) - TailLines}

SignalEnds(o) == {i \in Ends(o) : Signal(o[i])}
SpecificEnds(o) == {i \in SignalEnds(o) : o[i].class = "specific"}
SpecificLines(s) == {i \in Signals(s) : s[i].class = "specific"}

-----------------------------------------------------------------------------
(* The pipe.  It holds the first lines of the output and the last ones, as *)
(* many of each as its caps let it.                                        *)

Held(P, Q, o) ==
    LET n == Len(o)
        h == Len(P)
        k == Len(Q)
    IN  /\ P \in Seq(Line) /\ Q \in Seq(Line)
        /\ h <= HeadCap /\ h <= n /\ (h < HeadCap => h = n)
        /\ k <= TailCap /\ k <= n - h /\ (k < TailCap => k = n - h)
        /\ \A i \in 1..h : P[i] = o[i]
        /\ \A i \in 1..k : Q[i] = o[(n - k) + i]
Piped(p, o) == Held(p.head, p.tail, o) /\ p.total = Len(o)

\* Two sequences put together.
LEMMA Appended ==
    ASSUME NEW S, NEW P \in Seq(S), NEW Q \in Seq(S)
    PROVE  /\ P \o Q \in Seq(S) /\ Len(P \o Q) = Len(P) + Len(Q)
           /\ \A i \in 1..Len(P) : (P \o Q)[i] = P[i]
           /\ \A i \in 1..Len(Q) : (P \o Q)[Len(P) + i] = Q[i]
  <1> DEFINE x == Len(P)
             y == Len(Q)
             r == P \o Q
  <1>1. x \in Nat /\ y \in Nat
    BY LenProperties
  <1>2. /\ r \in Seq(S) /\ Len(r) = x + y
        /\ \A i \in 1..(x + y) : r[i] = IF i <= x THEN P[i] ELSE Q[i - x]
    BY ConcatProperties
  <1> HIDE DEF x, y, r
  <1>3. ASSUME NEW i \in 1..x PROVE r[i] = P[i]
    BY <1>1, <1>2
  <1>4. ASSUME NEW i \in 1..y PROVE r[x + i] = Q[i]
    <2> DEFINE j == x + i
    <2>1. j \in 1..(x + y) /\ ~(j <= x) /\ j - x = i
      BY <1>1
    <2> HIDE DEF j
    <2>2. r[j] = Q[j - x]
      BY <1>2, <2>1
    <2> QED
      BY <2>1, <2>2 DEF j
  <1> QED
    BY <1>2, <1>3, <1>4 DEF x, y, r

\* The last elements of a sequence.
LEMMA EndingIs ==
    ASSUME NEW S, NEW t \in Seq(S), NEW c \in Nat
    PROVE  LET e == Len(Ending(t, c))
           IN  /\ Ending(t, c) \in Seq(S) /\ e \in Nat
               /\ e <= c /\ e <= Len(t) /\ (e < c => e = Len(t))
               /\ \A i \in 1..e : Ending(t, c)[i] = t[(Len(t) - e) + i]
  <1> DEFINE n == Len(t)
             E == Ending(t, c)
  <1>1. n \in Nat /\ \A i \in 1..n : t[i] \in S
    BY LenProperties, ElementOfSeq
  <1>2. CASE n <= c
    <2>1. E = t
      BY <1>2 DEF Ending
    <2>2. \A i \in 1..n : (n - n) + i = i
      BY <1>1
    <2> HIDE DEF E
    <2>3. /\ E \in Seq(S) /\ Len(E) = n
          /\ \A i \in 1..n : E[i] = t[(n - n) + i]
      BY <2>1, <2>2
    <2> HIDE DEF n
    <2> QED
      BY <1>1, <1>2, <2>3 DEF E, n
  <1>3. CASE ~(n <= c)
    <2> DEFINE a == n - c
    <2>1. a \in Nat /\ a + 1 \in Int /\ n - (a + 1) + 1 = c /\ a + 1 <= n + 1 /\ n - c = a
      BY <1>1, <1>3
    <2>2. E = SubSeq(t, a + 1, n)
      <3>1. n - c + 1 = a + 1
        OBVIOUS
      <3> QED
        BY <1>3, <3>1 DEF Ending
    <2> HIDE DEF a, E, n
    <2>3. \A i \in (a + 1)..n : t[i] \in S
      BY <1>1, <2>1
    <2>4. /\ SubSeq(t, a + 1, n) \in Seq(S)
          /\ Len(SubSeq(t, a + 1, n)) = IF a + 1 <= n THEN n - (a + 1) + 1 ELSE 0
          /\ \A i \in 1..(n - (a + 1) + 1) : SubSeq(t, a + 1, n)[i] = t[(a + 1) + i - 1]
      BY <1>1, <2>1, <2>3, SubSeqProperties
    <2>5. Len(E) = c /\ E \in Seq(S)
      BY <1>1, <1>3, <2>1, <2>2, <2>4
    <2>6. ASSUME NEW i \in 1..c PROVE E[i] = t[a + i]
      <3>1. i \in 1..(n - (a + 1) + 1) /\ (a + 1) + i - 1 = a + i
        BY <2>1
      <3> QED
        BY <2>2, <2>4, <3>1
    <2> DEFINE e == Len(E)
    <2>7. e = c /\ n - e = a
      BY <2>1, <2>5
    <2> HIDE DEF e
    <2>8. \A i \in 1..e : E[i] = t[(n - e) + i]
      BY <2>6, <2>7
    <2>9. e \in Nat /\ e <= c /\ e <= n /\ (e < c => e = n)
      BY <1>1, <1>3, <2>7
    <2> QED
      BY <2>5, <2>8, <2>9 DEF E, n, e
  <1> QED
    BY <1>2, <1>3

\* A read adds to the pipe what it adds to the output.
LEMMA HeldPush ==
    ASSUME TextAssumption, NEW o \in Seq(Line), NEW P, NEW Q, Held(P, Q, o), NEW c \in Seq(Line),
           NEW room \in Nat, room <= Len(c), room <= HeadCap - Len(P),
           room = Len(c) \/ room = HeadCap - Len(P)
    PROVE  Held(P \o SubSeq(c, 1, room),
                Ending(Q \o SubSeq(c, room + 1, Len(c)), TailCap), o \o c)
  <1> DEFINE n == Len(o)
             m == Len(c)
             h == Len(P)
             k == Len(Q)
             first == SubSeq(c, 1, room)
             rest == SubSeq(c, room + 1, m)
             t == Q \o rest
             head == P \o first
             tail == Ending(t, TailCap)
             all == o \o c
  <1>0. HeadCap \in Nat /\ TailCap \in Nat
    BY DEF TextAssumption
  <1>1. /\ n \in Nat /\ m \in Nat /\ h \in Nat /\ k \in Nat
        /\ \A i \in 1..m : c[i] \in Line
    BY LenProperties, ElementOfSeq DEF Held
  <1>2. /\ P \in Seq(Line) /\ Q \in Seq(Line)
        /\ h <= HeadCap /\ h <= n /\ (h < HeadCap => h = n)
        /\ k <= TailCap /\ k <= n - h /\ (k < TailCap => k = n - h)
        /\ \A i \in 1..h : P[i] = o[i]
        /\ \A i \in 1..k : Q[i] = o[(n - k) + i]
    BY DEF Held
  <1> HIDE DEF n, m, h, k
  <1>4. room \in Nat /\ room <= m /\ room <= HeadCap - h /\ (room = m \/ room = HeadCap - h)
    BY DEF m, h
  <1> DEFINE Sizes == /\ n \in Nat /\ m \in Nat /\ h \in Nat /\ k \in Nat
                      /\ room \in Nat /\ HeadCap \in Nat /\ TailCap \in Nat
                      /\ h <= HeadCap /\ h <= n /\ (h = HeadCap \/ h = n)
                      /\ k <= TailCap /\ h + k <= n /\ (k = TailCap \/ h + k = n)
                      /\ room <= m /\ h + room <= HeadCap /\ (room = m \/ h + room = HeadCap)
  <1>sizes. Sizes
    <2>1. h = HeadCap \/ h = n
      BY <1>0, <1>1, <1>2
    <2>2. h + k <= n /\ (k = TailCap \/ h + k = n)
      BY <1>0, <1>1, <1>2
    <2>3. h + room <= HeadCap /\ (room = m \/ h + room = HeadCap)
      BY <1>0, <1>1, <1>4
    <2> QED
      BY <1>0, <1>1, <1>2, <1>4, <2>1, <2>2, <2>3
  <1>5. /\ first \in Seq(Line) /\ Len(first) = room
        /\ \A i \in 1..room : first[i] = c[i]
    <2>1. \A i \in 1..room : c[i] \in Line
      BY <1>1, <1>4
    <2>2. /\ SubSeq(c, 1, room) \in Seq(Line)
          /\ Len(SubSeq(c, 1, room)) = IF 1 <= room THEN room - 1 + 1 ELSE 0
          /\ \A i \in 1..(room - 1 + 1) : SubSeq(c, 1, room)[i] = c[1 + i - 1]
      BY <1>4, <2>1, SubSeqProperties
    <2>3. ASSUME NEW i \in 1..room PROVE first[i] = c[i]
      <3>1. i \in 1..(room - 1 + 1) /\ 1 + i - 1 = i
        BY <1>4
      <3> QED
        BY <2>2, <3>1
    <2> QED
      BY <1>4, <2>2, <2>3
  <1>6. /\ rest \in Seq(Line) /\ Len(rest) = m - room
        /\ \A i \in 1..(m - room) : rest[i] = c[room + i]
    <2>1. \A i \in (room + 1)..m : c[i] \in Line
      BY <1>1, <1>4
    <2>2. /\ SubSeq(c, room + 1, m) \in Seq(Line)
          /\ Len(SubSeq(c, room + 1, m)) = IF room + 1 <= m THEN m - (room + 1) + 1 ELSE 0
          /\ \A i \in 1..(m - (room + 1) + 1) : SubSeq(c, room + 1, m)[i] = c[(room + 1) + i - 1]
      BY <1>1, <1>4, <2>1, SubSeqProperties
    <2>3. ASSUME NEW i \in 1..(m - room) PROVE rest[i] = c[room + i]
      <3>1. i \in 1..(m - (room + 1) + 1) /\ (room + 1) + i - 1 = room + i
        BY <1>1, <1>4
      <3> QED
        BY <2>2, <3>1
    <2>4. Len(rest) = m - room
      BY <1>1, <1>4, <2>2
    <2> QED
      BY <2>2, <2>3, <2>4
  <1> HIDE DEF first, rest
  <1>7. /\ head \in Seq(Line) /\ Len(head) = h + room
        /\ \A i \in 1..h : head[i] = P[i]
        /\ \A i \in 1..room : head[h + i] = first[i]
    <2>1. P \in Seq(Line) /\ first \in Seq(Line)
      BY <1>2, <1>5
    <2>2. /\ P \o first \in Seq(Line) /\ Len(P \o first) = Len(P) + Len(first)
          /\ \A i \in 1..Len(P) : (P \o first)[i] = P[i]
          /\ \A i \in 1..Len(first) : (P \o first)[Len(P) + i] = first[i]
      BY <2>1, Appended
    <2> QED
      BY <1>5, <2>2 DEF h
  <1>8. /\ t \in Seq(Line) /\ Len(t) = k + (m - room)
        /\ \A i \in 1..k : t[i] = Q[i]
        /\ \A i \in 1..(m - room) : t[k + i] = rest[i]
    <2>1. Q \in Seq(Line) /\ rest \in Seq(Line)
      BY <1>2, <1>6
    <2>2. /\ Q \o rest \in Seq(Line) /\ Len(Q \o rest) = Len(Q) + Len(rest)
          /\ \A i \in 1..Len(Q) : (Q \o rest)[i] = Q[i]
          /\ \A i \in 1..Len(rest) : (Q \o rest)[Len(Q) + i] = rest[i]
      BY <2>1, Appended
    <2> QED
      BY <1>6, <2>2 DEF k
  <1>9. /\ all \in Seq(Line) /\ Len(all) = n + m
        /\ \A i \in 1..n : all[i] = o[i]
        /\ \A i \in 1..m : all[n + i] = c[i]
    BY Appended DEF n, m
  <1> HIDE DEF t, all, head
  <1> DEFINE e == Len(tail)
  <1>10. /\ tail \in Seq(Line) /\ e \in Nat
         /\ e <= TailCap /\ e <= Len(t) /\ (e < TailCap => e = Len(t))
         /\ \A i \in 1..e : tail[i] = t[(Len(t) - e) + i]
    BY <1>0, <1>8, EndingIs
  <1> HIDE DEF tail, e
  <1>11. ASSUME NEW i \in 1..(h + room) PROVE head[i] = all[i]
    <2>1. CASE i <= h
      <3>1. i \in 1..h /\ i \in 1..n
        BY <1>sizes, <2>1
      <3> QED
        BY <1>2, <1>7, <1>9, <3>1
    <2>2. CASE ~(i <= h)
      <3> DEFINE j == i - h
      <3>1. j \in 1..room /\ j \in 1..m /\ h + j = i /\ n + j = i
        BY <1>sizes, <2>2
      <3> HIDE DEF j
      <3>2. head[i] = c[j]
        BY <1>5, <1>7, <3>1
      <3>3. all[i] = c[j]
        BY <1>9, <3>1
      <3> QED
        BY <3>2, <3>3
    <2> QED
      BY <2>1, <2>2
  <1>12. ASSUME NEW i \in 1..(k + (m - room)) PROVE t[i] = all[((n + m) - (k + (m - room))) + i]
    <2> DEFINE l == ((n + m) - (k + (m - room))) + i
    <2>1. CASE i <= k
      <3> DEFINE j == (n - k) + i
      <3>1. CASE room = 0
        <4>1. l = j /\ i \in 1..k /\ j \in 1..n
          BY <1>sizes, <2>1, <3>1
        <4> HIDE DEF l
        <4>2. t[i] = o[j]
          BY <1>2, <1>8, <4>1
        <4> HIDE DEF j
        <4>3. all[j] = o[j]
          BY <1>9, <4>1
        <4> QED
          BY <4>1, <4>2, <4>3 DEF l
      <3>2. CASE room # 0
        <4>1. h < HeadCap
          BY <1>sizes, <3>2
        <4>2. k = 0
          BY <1>sizes, <4>1
        <4> QED
          BY <2>1, <4>2
      <3> QED
        BY <3>1, <3>2
    <2>2. CASE ~(i <= k)
      <3> DEFINE x == i - k
                 j == room + x
      <3>1. /\ x \in 1..(m - room) /\ k + x = i /\ j \in 1..m /\ l = n + j
        <4>1. k \in Nat /\ m - room \in Nat /\ i \in Int /\ i > k /\ i <= k + (m - room)
          BY <1>sizes, <2>2
        <4>2. x \in Nat /\ x >= 1 /\ x <= m - room /\ k + x = i
          BY <4>1
        <4> HIDE DEF x
        <4>3. j \in 1..m /\ l = n + j
          BY <1>sizes, <4>1, <4>2
        <4> QED
          BY <4>2, <4>3
      <3> HIDE DEF x
      <3>2. t[i] = c[j]
        BY <1>6, <1>8, <3>1
      <3> HIDE DEF j, l
      <3>3. all[l] = c[j]
        BY <1>9, <3>1
      <3> QED
        BY <3>2, <3>3 DEF l
    <2> QED
      BY <2>1, <2>2
  <1> DEFINE x == k + (m - room)
             w == n + m
  <1>13. ASSUME NEW i \in 1..e PROVE tail[i] = all[(w - e) + i]
    <2> DEFINE j == (x - e) + i
    <2>1. x = Len(t) /\ x \in Nat /\ e <= x /\ w \in Nat
      BY <1>8, <1>10, <1>sizes
    <2>2. tail[i] = t[j]
      BY <1>10, <2>1
    <2>3. \A y \in 1..x : t[y] = all[(w - x) + y]
      BY <1>12
    <2> HIDE DEF x, w
    <2>4. j \in 1..x /\ (w - x) + j = (w - e) + i
      BY <1>10, <2>1
    <2> HIDE DEF j
    <2>5. t[j] = all[(w - x) + j]
      BY <2>3, <2>4
    <2> QED
      BY <2>2, <2>4, <2>5
  <1>14. /\ h + room <= HeadCap /\ h + room <= n + m /\ (h + room < HeadCap => h + room = n + m)
         /\ e <= TailCap /\ e <= (n + m) - (h + room)
         /\ (e < TailCap => e = (n + m) - (h + room))
    <2>1. e \in Nat /\ e <= TailCap /\ e <= k + (m - room) /\ (e < TailCap => e = k + (m - room))
      BY <1>8, <1>10
    <2>2. h + room <= n + m /\ (h + room < HeadCap => h + room = n + m)
      BY <1>sizes
    <2>3. k + (m - room) <= (n + m) - (h + room)
      BY <1>sizes
    <2>4. e < TailCap => k + (m - room) = (n + m) - (h + room)
      <3> SUFFICES ASSUME e < TailCap PROVE k + (m - room) = (n + m) - (h + room)
        OBVIOUS
      <3>1. k + (m - room) < TailCap
        BY <1>sizes, <2>1
      <3>2. k < TailCap /\ h + k = n
        BY <1>sizes, <3>1
      <3> QED
        BY <1>sizes, <3>2
    <2> QED
      BY <1>sizes, <2>1, <2>2, <2>3, <2>4
  <1> DEFINE hh == Len(head)
             nn == Len(all)
  <1>15. hh = h + room /\ nn = n + m /\ nn = w
    BY <1>7, <1>9
  <1> HIDE DEF hh, nn, w
  <1>16. /\ head \in Seq(Line) /\ tail \in Seq(Line)
         /\ hh <= HeadCap /\ hh <= nn /\ (hh < HeadCap => hh = nn)
         /\ e <= TailCap /\ e <= nn - hh /\ (e < TailCap => e = nn - hh)
         /\ \A i \in 1..hh : head[i] = all[i]
         /\ \A i \in 1..e : tail[i] = all[(nn - e) + i]
    <2>1. head \in Seq(Line) /\ tail \in Seq(Line)
      BY <1>7, <1>10
    <2>2. /\ hh <= HeadCap /\ hh <= nn /\ (hh < HeadCap => hh = nn)
          /\ e <= TailCap /\ e <= nn - hh /\ (e < TailCap => e = nn - hh)
      BY <1>14, <1>15
    <2>3. \A i \in 1..hh : head[i] = all[i]
      BY <1>11, <1>15
    <2>4. \A i \in 1..e : tail[i] = all[(nn - e) + i]
      BY <1>13, <1>15
    <2> QED
      BY <2>1, <2>2, <2>3, <2>4
  <1>17. Held(head, tail, all)
    BY <1>16 DEF Held, hh, nn, e
  <1> QED
    BY <1>17 DEF head, tail, all, t, first, rest, m

\* So does the pipe as a whole.
LEMMA PushPiped ==
    ASSUME TextAssumption, NEW o \in Seq(Line), NEW p, Piped(p, o), NEW c \in Seq(Line)
    PROVE  Piped(Push(p, c), o \o c)
  <1> DEFINE room == Min({HeadCap - Len(p.head), Len(c)})
             head == p.head \o SubSeq(c, 1, room)
             tail == Ending(p.tail \o SubSeq(c, room + 1, Len(c)), TailCap)
  <1>1. Held(p.head, p.tail, o) /\ p.total = Len(o)
    BY DEF Piped
  <1>2. /\ Push(p, c).head = head /\ Push(p, c).tail = tail
        /\ Push(p, c).total = p.total + Len(c)
    BY DEF Push
  <1>3. Held(head, tail, o \o c)
    <2> DEFINE h == Len(p.head)
               m == Len(c)
               x == Min({HeadCap - h, m})
    <2>1. HeadCap \in Nat /\ h \in Nat /\ h <= HeadCap /\ m \in Nat
      BY <1>1, LenProperties DEF TextAssumption, Held
    <2> HIDE DEF h, m
    <2>2. {HeadCap - h, m} \in SUBSET Nat /\ {HeadCap - h, m} # {}
      BY <2>1
    <2>3. x \in {HeadCap - h, m} /\ \A y \in {HeadCap - h, m} : x <= y
      BY <2>2, MinMember
    <2> HIDE DEF x
    <2>4. x \in Nat /\ x <= m /\ x <= HeadCap - h /\ (x = m \/ x = HeadCap - h)
      BY <2>2, <2>3
    <2>5. x = room
      BY DEF x, h, m
    <2> HIDE DEF room
    <2> QED
      BY <1>1, <2>4, <2>5, HeldPush DEF h, m
  <1>4. Len(o \o c) = Len(o) + Len(c)
    BY Appended
  <1> HIDE DEF head, tail
  <1> QED
    BY <1>1, <1>2, <1>3, <1>4 DEF Piped

=============================================================================
