-------------------------- MODULE FileToolsProofs --------------------------
(***************************************************************************)
(* What a reader of a file or a search gets to see, what an edit replaces, *)
(* where a write lands and what a command is told of its output, for every *)
(* text, file system, path and command, and every setting of the caps.     *)
(***************************************************************************)
EXTENDS FileTools, ToolTextProofs

(* How a path is walked.  Real is a recursion over the steps of the walk:  *)
(* it has a value because the walk can be continued by a step, whatever    *)
(* the file system is.                                                     *)

\* Names and characters.  The provers know no member of STRING, so the root's name is added.
Name == STRING \union {"w"}

WellMade(f) ==
    /\ IsFiniteSet(DOMAIN f)
    /\ <<>> \in DOMAIN f /\ f[<<>>].kind = "dir"
    /\ \A p \in DOMAIN f :
           /\ f[p].kind \in {"dir", "file", "link"}
           /\ f[p].kind = "file" => f[p] = File(f[p].text) /\ f[p].text \in Seq(Char)
           /\ f[p].kind = "link" => f[p].to.names \in Seq(Name)

Setout(p) == [err |-> "ok", path |-> <<>>, names |-> p, hops |-> MaxHops]
Longest(f) == Max({0} \union {Len(f[q].to.names) : q \in {r \in DOMAIN f : IsA(f, r, "link")}})
Steps(f, p) == Len(p) + MaxHops * Longest(f)

\* The first n steps of a walk from w.
Walk(f, w, n, g) == g = [i \in 0..n |-> IF i = 0 THEN w ELSE Onward(f, g[i - 1])]

\* A walk of any number of steps exists.
LEMMA WalkExists ==
    ASSUME NEW f, NEW w
    PROVE  \A n \in Nat : \E g : Walk(f, w, n, g)
  <1> DEFINE S == {n \in Nat : \E g : Walk(f, w, n, g)}
  <1>1. 0 \in S
    <2>1. Walk(f, w, 0, [i \in 0..0 |-> w])
      BY DEF Walk
    <2> QED
      BY <2>1
  <1>2. ASSUME NEW n \in Nat, n \in S PROVE n + 1 \in S
    <2>1. PICK g : Walk(f, w, n, g)
      BY <1>2
    <2> DEFINE h == [i \in 0..(n + 1) |-> IF i = n + 1 THEN Onward(f, g[n]) ELSE g[i]]
    <2>2. ASSUME NEW i \in 0..(n + 1)
          PROVE  h[i] = IF i = 0 THEN w ELSE Onward(f, h[i - 1])
      <3>1. CASE i = n + 1
        <4>1. i # 0 /\ i - 1 = n /\ n \in 0..(n + 1) /\ n # n + 1
          BY <3>1
        <4>2. h[n] = g[n]
          BY <4>1
        <4> QED
          BY <3>1, <4>1, <4>2
      <3>2. CASE i # n + 1
        <4>1. i \in 0..n /\ h[i] = g[i] /\ (i # 0 => i - 1 \in 0..n /\ h[i - 1] = g[i - 1])
          BY <3>2
        <4>2. g[i] = IF i = 0 THEN w ELSE Onward(f, g[i - 1])
          BY <2>1, <4>1 DEF Walk
        <4> QED
          BY <4>1, <4>2
      <3> QED
        BY <3>1, <3>2
    <2>3. h = [i \in 0..(n + 1) |-> h[i]]
      OBVIOUS
    <2> HIDE DEF h
    <2>4. Walk(f, w, n + 1, h)
      BY <2>2, <2>3 DEF Walk
    <2> QED
      BY <2>4
  <1>3. Nat \subseteq S
    <2> HIDE DEF S
    <2> QED
      BY <1>1, <1>2, SetInduction
  <1> QED
    BY <1>3

\* Real is where the walk has come to after all its steps.
LEMMA RealWalks ==
    ASSUME NEW f, NEW p, Steps(f, p) \in Nat
    PROVE  \E g : Walk(f, Setout(p), Steps(f, p), g) /\ Real(f, p) = g[Steps(f, p)]
  <1> DEFINE W == CHOOSE g : Walk(f, Setout(p), Steps(f, p), g)
  <1>1. Walk(f, Setout(p), Steps(f, p), W)
    BY WalkExists
  <1>2. Real(f, p) = W[Steps(f, p)]
    BY DEF Real, Walk, Steps, Longest, Setout
  <1> HIDE DEF W
  <1> QED
    BY <1>1, <1>2

\* There is a longest link target, for a tree is finite.
LEMMA LongestNat ==
    ASSUME FilesAssumption, NEW f, WellMade(f)
    PROVE  /\ Longest(f) \in Nat
           /\ \A q \in DOMAIN f : IsA(f, q, "link") => Len(f[q].to.names) <= Longest(f)
  <1> DEFINE links == {r \in DOMAIN f : IsA(f, r, "link")}
             lengths == {Len(f[q].to.names) : q \in links}
  <1>1. IsFiniteSet(links)
    BY FS_Subset DEF WellMade
  <1>2. \A q \in links : Len(f[q].to.names) \in Nat
    BY LenProperties DEF WellMade, IsA
  <1>3. [q \in links |-> Len(f[q].to.names)] \in [links -> Nat]
    BY <1>2
  <1>4. PICK b \in Nat : \A q \in links : [r \in links |-> Len(f[r].to.names)][q] <= b
    <2> HIDE DEF links
    <2> QED
      BY <1>1, <1>3, ImageBounded
  <1>5. \A n \in {0} \union lengths : n \in Nat /\ n <= b
    BY <1>2, <1>4
  <1> HIDE DEF lengths
  <1>6. /\ Max({0} \union lengths) \in {0} \union lengths
        /\ \A n \in {0} \union lengths : n <= Max({0} \union lengths)
    BY <1>5, MaxMember
  <1>7. Longest(f) = Max({0} \union lengths)
    BY DEF Longest, lengths
  <1>8. \A q \in links : Len(f[q].to.names) \in lengths
    BY DEF lengths
  <1> QED
    BY <1>5, <1>6, <1>7, <1>8

\* Two walks, of which one has one name more to go: side by side, or the shorter one is at its
\* end, or it has failed where the longer one fails as well.
Beside(w, v, last) ==
    /\ w.err = "ok" /\ v.err = "ok"
    /\ w.path = v.path /\ w.hops = v.hops
    /\ v.names \in Seq(Name) /\ w.names = Append(v.names, last)
Abreast(w, v, last) ==
    \/ Beside(w, v, last)
    \/ v.err = "ok" /\ v.names = <<>>
    \/ v.err \in {"notdir", "loop"}
    \/ w.err = "missing"

\* What a step looks at and changes.
Walker(w) == w = [err |-> w.err, path |-> w.path, names |-> w.names, hops |-> w.hops]

Ahead(w) == Into(w.path, Head(w.names))
Moving(w) == w.err = "ok" /\ w.names # <<>>

\* A step of a walk, field by field and case by case.
LEMMA OnwardFields ==
    ASSUME NEW f, NEW w, Walker(w)
    PROVE  /\ Walker(Onward(f, w))
           /\ ~Moving(w) => Onward(f, w) = w
           /\ Moving(w) /\ f[w.path].kind # "dir" => Onward(f, w).err = "notdir"
           /\ Moving(w) /\ f[w.path].kind = "dir" /\ Ahead(w) \notin DOMAIN f
              => /\ Onward(f, w).path = Ahead(w)
                 /\ Onward(f, w).err = IF Len(w.names) = 1 THEN "new" ELSE "missing"
           /\ Moving(w) /\ f[w.path].kind = "dir" /\ Ahead(w) \in DOMAIN f
              /\ f[Ahead(w)].kind # "link"
              => Onward(f, w) = [err |-> "ok", path |-> Ahead(w), names |-> Tail(w.names),
                                 hops |-> w.hops]
           /\ Moving(w) /\ f[w.path].kind = "dir" /\ Ahead(w) \in DOMAIN f
              /\ f[Ahead(w)].kind = "link" /\ w.hops = 0
              => Onward(f, w).err = "loop"
           /\ Moving(w) /\ f[w.path].kind = "dir" /\ Ahead(w) \in DOMAIN f
              /\ f[Ahead(w)].kind = "link" /\ w.hops # 0
              => Onward(f, w) = [err |-> "ok",
                                 path |-> IF f[Ahead(w)].to.abs THEN <<>> ELSE w.path,
                                 names |-> f[Ahead(w)].to.names \o Tail(w.names),
                                 hops |-> w.hops - 1]
  <1> DEFINE to == Ahead(w)
             gone == IF Len(w.names) = 1 THEN "new" ELSE "missing"
             at == IF f[to].to.abs THEN <<>> ELSE w.path
             names == f[to].to.names \o Tail(w.names)
  <1>1. CASE ~Moving(w)
    BY <1>1 DEF Onward, Moving
  <1>2. CASE Moving(w) /\ f[w.path].kind # "dir"
    <2>1. Onward(f, w) = [w EXCEPT !.err = "notdir"]
      BY <1>2 DEF Onward, Moving
    <2> QED
      BY <1>2, <2>1 DEF Walker
  <1>3. CASE Moving(w) /\ f[w.path].kind = "dir" /\ to \notin DOMAIN f
    <2>1. Onward(f, w) = [w EXCEPT !.err = gone, !.path = to]
      BY <1>3 DEF Onward, Moving, Ahead
    <2> HIDE DEF to, gone
    <2>2. Onward(f, w) = [err |-> gone, path |-> to, names |-> w.names, hops |-> w.hops]
      BY <2>1 DEF Walker
    <2> QED
      BY <1>3, <2>2 DEF Walker, to, gone
  <1>4. CASE Moving(w) /\ f[w.path].kind = "dir" /\ to \in DOMAIN f /\ f[to].kind # "link"
    <2>1. Onward(f, w) = [w EXCEPT !.path = to, !.names = Tail(@)]
      BY <1>4 DEF Onward, Moving, Ahead
    <2> HIDE DEF to
    <2>2. Onward(f, w) = [err |-> w.err, path |-> to, names |-> Tail(w.names), hops |-> w.hops]
      BY <2>1 DEF Walker
    <2> QED
      BY <1>4, <2>2 DEF Walker, Moving, to
  <1>5. CASE Moving(w) /\ f[w.path].kind = "dir" /\ to \in DOMAIN f /\ f[to].kind = "link"
             /\ w.hops = 0
    <2>1. Onward(f, w) = [w EXCEPT !.err = "loop", !.path = to]
      BY <1>5 DEF Onward, Moving, Ahead
    <2> HIDE DEF to
    <2>2. Onward(f, w) = [err |-> "loop", path |-> to, names |-> w.names, hops |-> w.hops]
      BY <2>1 DEF Walker
    <2> QED
      BY <1>5, <2>2 DEF Walker, to
  <1>6. CASE Moving(w) /\ f[w.path].kind = "dir" /\ to \in DOMAIN f /\ f[to].kind = "link"
             /\ w.hops # 0
    <2>1. Onward(f, w) = [w EXCEPT !.path = at, !.names = f[to].to.names \o Tail(@),
                                   !.hops = @ - 1]
      BY <1>6 DEF Onward, Moving, Ahead
    <2>2. names = f[to].to.names \o Tail(w.names)
      OBVIOUS
    <2> HIDE DEF to, at, names
    <2>3. Onward(f, w) = [err |-> w.err, path |-> at, names |-> names, hops |-> w.hops - 1]
      BY <2>1, <2>2 DEF Walker
    <2> QED
      BY <1>6, <2>3 DEF Walker, Moving, to, at, names
  <1> QED
    BY <1>1, <1>2, <1>3, <1>4, <1>5, <1>6

\* A name at the end stays at the end.
LEMMA LastStays ==
    ASSUME NEW S, NEW names \in Seq(S), names # <<>>, NEW last \in S
    PROVE  /\ Append(names, last) # <<>> /\ Len(Append(names, last)) # 1
           /\ Head(Append(names, last)) = Head(names)
           /\ Tail(names) \in Seq(S)
           /\ Tail(Append(names, last)) = Append(Tail(names), last)
  <1> DEFINE longer == Append(names, last)
  <1>1. Len(names) \in Nat \ {0} /\ names[1] = Head(names)
    BY EmptySeq
  <1>2. /\ longer \in Seq(S) /\ Len(longer) = Len(names) + 1
        /\ \A i \in 1..Len(names) : longer[i] = names[i]
        /\ longer[Len(names) + 1] = last
    BY AppendProperties
  <1>3. longer # <<>> /\ Len(longer) # 1 /\ Head(longer) = Head(names)
    BY <1>1, <1>2, EmptySeq
  <1>4. /\ Tail(names) \in Seq(S) /\ Len(Tail(names)) = Len(names) - 1
        /\ \A i \in 1..(Len(names) - 1) : Tail(names)[i] = names[i + 1]
    BY <1>1, HeadTailProperties
  <1> HIDE DEF longer
  <1>5. /\ Tail(longer) \in Seq(S) /\ Len(Tail(longer)) = Len(names)
        /\ \A i \in 1..Len(names) : Tail(longer)[i] = longer[i + 1]
    BY <1>1, <1>2, <1>3, HeadTailProperties
  <1>6. /\ Append(Tail(names), last) \in Seq(S)
        /\ Len(Append(Tail(names), last)) = Len(names)
        /\ \A i \in 1..(Len(names) - 1) : Append(Tail(names), last)[i] = Tail(names)[i]
        /\ Append(Tail(names), last)[Len(names)] = last
    BY <1>1, <1>4, AppendProperties
  <1>7. ASSUME NEW i \in 1..Len(names) PROVE Tail(longer)[i] = Append(Tail(names), last)[i]
    <2>1. CASE i = Len(names)
      BY <1>1, <1>2, <1>5, <1>6, <2>1
    <2>2. CASE i # Len(names)
      <3>1. i \in 1..(Len(names) - 1) /\ i + 1 \in 1..Len(names)
        BY <1>1, <2>2
      <3> QED
        BY <1>2, <1>4, <1>5, <1>6, <3>1
    <2> QED
      BY <2>1, <2>2
  <1>8. Tail(longer) = Append(Tail(names), last)
    BY <1>5, <1>6, <1>7, SeqEqual
  <1> QED
    BY <1>3, <1>4, <1>8 DEF longer

\* What a link brings in comes before the last name.
LEMMA AppendBehind ==
    ASSUME NEW S, NEW more \in Seq(S), NEW names \in Seq(S), NEW last \in S
    PROVE  /\ more \o names \in Seq(S)
           /\ more \o Append(names, last) = Append(more \o names, last)
  <1>1. \A s \in Seq(S) : Append(s, last) = s \o <<last>>
    BY AppendIsConcat
  <1>2. <<last>> \in Seq(S) /\ more \o names \in Seq(S)
    BY ConcatProperties
  <1> QED
    BY <1>1, <1>2, ConcatAssociative

\* A walk and one with one name less to go, a step further.
LEMMA StepsBeside ==
    ASSUME NEW f, WellMade(f), NEW w, NEW v, Walker(w), Walker(v),
           NEW last \in Name, Beside(w, v, last), v.names # <<>>
    PROVE  \/ Beside(Onward(f, w), Onward(f, v), last)
           \/ Onward(f, v).err \in {"notdir", "loop"}
           \/ Onward(f, v).err \in {"new", "missing"} /\ Onward(f, w).err = "missing"
  <1>1. /\ w.err = "ok" /\ v.err = "ok"
        /\ w.path = v.path /\ w.hops = v.hops
        /\ v.names \in Seq(Name) /\ w.names = Append(v.names, last)
    BY DEF Beside
  <1>2. /\ Moving(w) /\ Moving(v) /\ Ahead(w) = Ahead(v) /\ Len(w.names) # 1
        /\ Tail(v.names) \in Seq(Name) /\ Tail(w.names) = Append(Tail(v.names), last)
    BY <1>1, LastStays DEF Moving, Ahead, Into
  <1>3. CASE f[v.path].kind # "dir" \/ Ahead(v) \notin DOMAIN f
    BY <1>1, <1>2, <1>3, OnwardFields DEF Beside
  <1>4. CASE /\ f[v.path].kind = "dir" /\ Ahead(v) \in DOMAIN f
             /\ f[Ahead(v)].kind # "link"
    <2>1. Onward(f, v) = [err |-> "ok", path |-> Ahead(v), names |-> Tail(v.names),
                          hops |-> v.hops]
      BY <1>2, <1>4, OnwardFields
    <2>2. f[w.path].kind = "dir" /\ Ahead(w) \in DOMAIN f /\ f[Ahead(w)].kind # "link"
      BY <1>1, <1>2, <1>4
    <2>3. Onward(f, w) = [err |-> "ok", path |-> Ahead(w), names |-> Tail(w.names),
                          hops |-> w.hops]
      BY <1>2, <2>2, OnwardFields
    <2> QED
      BY <1>1, <1>2, <2>1, <2>3 DEF Beside
  <1>5. CASE /\ f[v.path].kind = "dir" /\ Ahead(v) \in DOMAIN f
             /\ f[Ahead(v)].kind = "link" /\ v.hops = 0
    <2>1. Onward(f, v).err = "loop"
      BY <1>2, <1>5, OnwardFields
    <2> QED
      BY <2>1 DEF Beside
  <1>6. CASE /\ f[v.path].kind = "dir" /\ Ahead(v) \in DOMAIN f
             /\ f[Ahead(v)].kind = "link" /\ v.hops # 0
    <2> DEFINE more == f[Ahead(v)].to.names
               at == IF f[Ahead(v)].to.abs THEN <<>> ELSE v.path
    <2>1. more \in Seq(Name)
      BY <1>6 DEF WellMade
    <2>2. Onward(f, v) = [err |-> "ok", path |-> at, names |-> more \o Tail(v.names),
                          hops |-> v.hops - 1]
      BY <1>2, <1>6, OnwardFields
    <2>3. Onward(f, w) = [err |-> "ok", path |-> at, names |-> more \o Tail(w.names),
                          hops |-> v.hops - 1]
      <3>1. /\ f[w.path].kind = "dir" /\ Ahead(w) \in DOMAIN f
            /\ f[Ahead(w)].kind = "link" /\ w.hops # 0
        BY <1>1, <1>2, <1>6
      <3>2. Onward(f, w) = [err |-> "ok",
                            path |-> IF f[Ahead(w)].to.abs THEN <<>> ELSE w.path,
                            names |-> f[Ahead(w)].to.names \o Tail(w.names),
                            hops |-> w.hops - 1]
        BY <1>2, <3>1, OnwardFields
      <3> QED
        BY <1>1, <1>2, <3>2
    <2> HIDE DEF more, at
    <2>4. /\ more \o Tail(v.names) \in Seq(Name)
          /\ more \o Append(Tail(v.names), last) = Append(more \o Tail(v.names), last)
      BY <1>2, <2>1, AppendBehind
    <2>5. more \o Tail(w.names) = Append(more \o Tail(v.names), last)
      BY <1>2, <2>4
    <2> DEFINE ahead == Onward(f, w)
               behind == Onward(f, v)
    <2>6. /\ ahead.err = "ok" /\ behind.err = "ok"
          /\ ahead.path = behind.path /\ ahead.hops = behind.hops
          /\ behind.names = more \o Tail(v.names) /\ ahead.names = more \o Tail(w.names)
      BY <2>2, <2>3
    <2> HIDE DEF ahead, behind
    <2>7. behind.names \in Seq(Name) /\ ahead.names = Append(behind.names, last)
      BY <2>4, <2>5, <2>6
    <2>8. Beside(ahead, behind, last)
      BY <2>6, <2>7 DEF Beside
    <2> QED
      BY <2>8 DEF ahead, behind
  <1> QED
    BY <1>3, <1>4, <1>5, <1>6

\* The walk along a path and that along its parent stay abreast.
LEMMA StepsAbreast ==
    ASSUME NEW f, WellMade(f), NEW w, NEW v, Walker(w), Walker(v),
           NEW last \in Name, Abreast(w, v, last)
    PROVE  Abreast(Onward(f, w), Onward(f, v), last)
  <1>1. CASE ~Beside(w, v, last) \/ v.names = <<>>
    <2>1. /\ ~Moving(w) => Onward(f, w) = w
          /\ ~Moving(v) => Onward(f, v) = v
      BY OnwardFields
    <2>2. w.err = "missing" \/ (v.err = "ok" /\ v.names = <<>>) \/ v.err \in {"notdir", "loop"}
      BY <1>1 DEF Abreast, Beside
    <2>3. CASE w.err = "missing"
      BY <2>1, <2>3 DEF Abreast, Moving
    <2>4. CASE (v.err = "ok" /\ v.names = <<>>) \/ v.err \in {"notdir", "loop"}
      BY <2>1, <2>4 DEF Abreast, Moving
    <2> QED
      BY <2>2, <2>3, <2>4
  <1>2. CASE Beside(w, v, last) /\ v.names # <<>>
    BY <1>2, StepsBeside DEF Abreast
  <1> QED
    BY <1>1, <1>2

\* A path is its parent and its last name.
LEMMA FrontLast ==
    ASSUME NEW S, NEW p \in Seq(S), p # <<>>
    PROVE  /\ Len(p) \in Nat \ {0} /\ p[Len(p)] \in S /\ Front(p) \in Seq(S)
           /\ Len(Front(p)) = Len(p) - 1 /\ p = Append(Front(p), p[Len(p)])
  <1>1. Len(p) \in Nat \ {0} /\ \A i \in 1..Len(p) : p[i] \in S
    BY EmptySeq, ElementOfSeq
  <1>2. /\ Front(p) \in Seq(S) /\ Len(Front(p)) = Len(p) - 1
        /\ \A i \in 1..(Len(p) - 1) : Front(p)[i] = p[i]
    <2>1. \A i \in 1..(Len(p) - 1) : p[i] \in S
      BY <1>1
    <2>2. 1 \in Int /\ Len(p) - 1 \in Int
      BY <1>1
    <2>3. /\ SubSeq(p, 1, Len(p) - 1) \in Seq(S)
          /\ Len(SubSeq(p, 1, Len(p) - 1)) = IF 1 <= Len(p) - 1 THEN (Len(p) - 1) - 1 + 1 ELSE 0
          /\ \A i \in 1..((Len(p) - 1) - 1 + 1) : SubSeq(p, 1, Len(p) - 1)[i] = p[1 + i - 1]
      BY <2>1, <2>2, SubSeqProperties
    <2>4. (Len(p) - 1) - 1 + 1 = Len(p) - 1 /\ \A i \in Int : 1 + i - 1 = i
      BY <1>1
    <2>5. Front(p) = SubSeq(p, 1, Len(p) - 1)
      BY DEF Front
    <2>6. Len(Front(p)) = Len(p) - 1
      <3>1. \A n \in Nat \ {0} : (IF 1 <= n - 1 THEN (n - 1) - 1 + 1 ELSE 0) = n - 1
        OBVIOUS
      <3> QED
        BY <1>1, <2>3, <2>5, <3>1
    <2>7. \A i \in 1..(Len(p) - 1) : Front(p)[i] = p[i]
      BY <2>3, <2>4, <2>5
    <2> QED
      BY <2>3, <2>5, <2>6, <2>7
  <1>3. p[Len(p)] \in S
    BY <1>1
  <1> DEFINE back == Append(Front(p), p[Len(p)])
  <1>4. /\ back \in Seq(S) /\ Len(back) = Len(p)
        /\ \A i \in 1..(Len(p) - 1) : back[i] = Front(p)[i]
        /\ back[Len(p)] = p[Len(p)]
    BY <1>1, <1>2, <1>3, AppendProperties
  <1> HIDE DEF back
  <1>5. ASSUME NEW i \in 1..Len(p) PROVE p[i] = back[i]
    <2>1. i = Len(p) \/ i \in 1..(Len(p) - 1)
      BY <1>1
    <2> QED
      BY <1>2, <1>4, <2>1
  <1>6. p = back
    BY <1>4, <1>5, SeqEqual
  <1> QED
    BY <1>1, <1>2, <1>3, <1>6 DEF back

\* If a path leads somewhere, it is not for want of its parent that it is refused.
LEMMA ParentThere ==
    ASSUME FilesAssumption, NEW f, WellMade(f), NEW p \in Seq(Name), p # <<>>,
           Real(f, p).err = "ok"
    PROVE  Real(f, Front(p)).err \notin {"new", "missing"}
  <1> DEFINE up == Front(p)
             last == p[Len(p)]
  <1>1. /\ Len(p) \in Nat \ {0} /\ last \in Name /\ up \in Seq(Name)
        /\ Len(up) = Len(p) - 1 /\ p = Append(up, last)
    BY FrontLast
  <1> DEFINE n == Steps(f, up)
  <1>2. n \in Nat /\ Steps(f, p) = n + 1
    <2>1. MaxHops \in Nat
      BY DEF FilesAssumption
    <2> DEFINE far == MaxHops * Longest(f)
    <2>2. far \in Nat
      BY <2>1, LongestNat
    <2>3. Steps(f, up) = Len(up) + far /\ Steps(f, p) = Len(p) + far
      BY DEF Steps
    <2> HIDE DEF far
    <2> QED
      BY <1>1, <2>2, <2>3
  <1> HIDE DEF up, last, n
  <1>3. PICK g : Walk(f, Setout(up), n, g) /\ Real(f, up) = g[n]
    BY <1>2, RealWalks DEF n
  <1>4. PICK h : Walk(f, Setout(p), n + 1, h) /\ Real(f, p) = h[n + 1]
    BY <1>2, RealWalks
  <1> DEFINE S == {i \in Nat : i <= n => /\ Walker(h[i]) /\ Walker(g[i])
                                         /\ Abreast(h[i], g[i], last)}
  <1>5. 0 \in S
    <2>1. h[0] = Setout(p) /\ g[0] = Setout(up)
      BY <1>2, <1>3, <1>4 DEF Walk
    <2> QED
      BY <1>1, <2>1 DEF Walker, Abreast, Beside, Setout
  <1>6. ASSUME NEW i \in Nat, i \in S PROVE i + 1 \in S
    <2> SUFFICES ASSUME i + 1 <= n
                 PROVE  /\ Walker(h[i + 1]) /\ Walker(g[i + 1])
                        /\ Abreast(h[i + 1], g[i + 1], last)
      OBVIOUS
    <2>1. /\ i + 1 \in 0..n /\ i + 1 \in 0..(n + 1) /\ i + 1 # 0 /\ (i + 1) - 1 = i
          /\ Walker(h[i]) /\ Walker(g[i]) /\ Abreast(h[i], g[i], last)
      BY <1>2, <1>6
    <2>2. h[i + 1] = Onward(f, h[i]) /\ g[i + 1] = Onward(f, g[i])
      <3>1. h[i + 1] = Onward(f, h[i])
        BY <1>4, <2>1 DEF Walk
      <3>2. g[i + 1] = Onward(f, g[i])
        BY <1>3, <2>1 DEF Walk
      <3> QED
        BY <3>1, <3>2
    <2>3. Walker(Onward(f, h[i])) /\ Walker(Onward(f, g[i]))
      BY <2>1, OnwardFields
    <2>4. Abreast(Onward(f, h[i]), Onward(f, g[i]), last)
      BY <1>1, <2>1, StepsAbreast
    <2> QED
      BY <2>2, <2>3, <2>4
  <1>7. n \in S
    <2> HIDE DEF S
    <2> QED
      BY <1>2, <1>5, <1>6, SetInduction
  <1>8. Walker(h[n]) /\ Abreast(h[n], g[n], last)
    BY <1>2, <1>7
  <1>9. h[n + 1] = Onward(f, h[n])
    <2>1. n + 1 \in 0..(n + 1) /\ n + 1 # 0 /\ (n + 1) - 1 = n
      BY <1>2
    <2> QED
      BY <1>4, <2>1 DEF Walk
  <1>10. g[n].err \in {"new", "missing"} => h[n + 1].err # "ok"
    <2> SUFFICES ASSUME g[n].err \in {"new", "missing"}, h[n + 1].err = "ok" PROVE FALSE
      OBVIOUS
    <2>1. \/ g[n].err = "ok" /\ h[n].err = "ok"
          \/ g[n].err = "ok" /\ g[n].names = <<>>
          \/ g[n].err \in {"notdir", "loop"}
          \/ h[n].err = "missing"
      BY <1>8 DEF Abreast, Beside
    <2>2. ~Moving(h[n]) => Onward(f, h[n]) = h[n]
      BY <1>8, OnwardFields
    <2> QED
      BY <1>9, <2>1, <2>2 DEF Moving
  <1> QED
    BY <1>3, <1>4, <1>10 DEF up

-----------------------------------------------------------------------------
(* What a write leaves of a path.  A walk is at names that are there, none *)
(* of them a link, or has failed; and where it leads a regular file may be *)
(* written without another walk being led elsewhere, for no link changes.  *)

Arrived(f, w) ==
    /\ w.err = "ok" => /\ w.path \in DOMAIN f /\ f[w.path].kind # "link"
                       /\ w.names \in Seq(Name)
    /\ w.err = "new" => w.path \notin DOMAIN f

\* A step leads to what is there and no link, or fails.
LEMMA OnwardArrived ==
    ASSUME NEW f, WellMade(f), NEW w, Walker(w), Arrived(f, w)
    PROVE  Walker(Onward(f, w)) /\ Arrived(f, Onward(f, w))
  <1>1. Walker(Onward(f, w))
    BY OnwardFields
  <1>2. CASE ~Moving(w)
    BY <1>1, <1>2, OnwardFields
  <1>3. CASE Moving(w) /\ f[w.path].kind # "dir"
    BY <1>1, <1>3, OnwardFields DEF Arrived
  <1>4. CASE Moving(w) /\ f[w.path].kind = "dir" /\ Ahead(w) \notin DOMAIN f
    BY <1>1, <1>4, OnwardFields DEF Arrived
  <1>5. CASE /\ Moving(w) /\ f[w.path].kind = "dir" /\ Ahead(w) \in DOMAIN f
             /\ f[Ahead(w)].kind # "link"
    <2>1. Onward(f, w) = [err |-> "ok", path |-> Ahead(w), names |-> Tail(w.names),
                          hops |-> w.hops]
      BY <1>5, OnwardFields
    <2>2. Tail(w.names) \in Seq(Name)
      BY <1>5, HeadTailProperties DEF Moving, Arrived
    <2> QED
      BY <1>1, <1>5, <2>1, <2>2 DEF Arrived
  <1>6. CASE /\ Moving(w) /\ f[w.path].kind = "dir" /\ Ahead(w) \in DOMAIN f
             /\ f[Ahead(w)].kind = "link" /\ w.hops = 0
    BY <1>1, <1>6, OnwardFields DEF Arrived
  <1>7. CASE /\ Moving(w) /\ f[w.path].kind = "dir" /\ Ahead(w) \in DOMAIN f
             /\ f[Ahead(w)].kind = "link" /\ w.hops # 0
    <2> DEFINE at == IF f[Ahead(w)].to.abs THEN <<>> ELSE w.path
               more == f[Ahead(w)].to.names \o Tail(w.names)
    <2>1. Onward(f, w) = [err |-> "ok", path |-> at, names |-> more, hops |-> w.hops - 1]
      BY <1>7, OnwardFields
    <2>2. at \in DOMAIN f /\ f[at].kind = "dir"
      <3>1. w.path \in DOMAIN f /\ <<>> \in DOMAIN f /\ f[<<>>].kind = "dir"
        BY <1>7 DEF Moving, Arrived, WellMade
      <3> QED
        BY <1>7, <3>1
    <2>3. more \in Seq(Name)
      <3>1. Tail(w.names) \in Seq(Name)
        BY <1>7, HeadTailProperties DEF Moving, Arrived
      <3>2. f[Ahead(w)].to.names \in Seq(Name)
        BY <1>7 DEF WellMade
      <3> QED
        BY <3>1, <3>2, ConcatProperties
    <2> HIDE DEF at, more
    <2> QED
      BY <1>1, <2>1, <2>2, <2>3 DEF Arrived
  <1> QED
    BY <1>2, <1>3, <1>4, <1>5, <1>6, <1>7

\* Two walks along the same names, the second where a regular file has been put at p.
Alongside(f, p, w, v) ==
    \/ w = v /\ (w.err = "ok" => w.path \in DOMAIN f) /\ (w.err = "new" => w.path # p)
    \/ /\ w.err = "new" /\ w.path = p
       /\ v.err = "ok" /\ v.path = p /\ v.names = <<>>
    \/ w.err \in {"missing", "notdir", "loop"}

\* Two walks alongside stay so: no link differs, and the file ends the one that met it as new.
LEMMA StepsAlongside ==
    ASSUME NEW f, WellMade(f), NEW p, p \in DOMAIN f => f[p].kind = "file", NEW x,
           NEW w, NEW v, Walker(w), Walker(v), Arrived(f, w), Alongside(f, p, w, v)
    PROVE  Alongside(f, p, Onward(f, w), Onward(Put(f, p, File(x)), v))
  <1> DEFINE g == Put(f, p, File(x))
             Same1 == w = v /\ (w.err = "ok" => w.path \in DOMAIN f) /\ (w.err = "new" => w.path # p)
  <1>1. /\ DOMAIN g = DOMAIN f \union {p}
        /\ g[p].kind = "file"
        /\ \A q \in DOMAIN f : q # p => g[q] = f[q]
        /\ \A q \in DOMAIN f : g[q].kind = f[q].kind
    BY DEF Put, File
  <1> SUFFICES Alongside(f, p, Onward(f, w), Onward(g, v))
    OBVIOUS
  <1> HIDE DEF g
  <1>2. CASE ~Same1 \/ ~Moving(w)
    <2>1. (~Moving(w) => Onward(f, w) = w) /\ (~Moving(v) => Onward(g, v) = v)
      BY OnwardFields
    <2>2. CASE w.err = "new" /\ w.path = p /\ v.err = "ok" /\ v.path = p /\ v.names = <<>>
      <3>1. Onward(f, w) = w /\ Onward(g, v) = v
        BY <2>1, <2>2 DEF Moving
      <3> QED
        BY <2>2, <3>1 DEF Alongside
    <2>3. CASE w.err \in {"missing", "notdir", "loop"}
      BY <2>1, <2>3 DEF Moving, Alongside
    <2>4. CASE Same1 /\ ~Moving(w)
      <3>1. Onward(f, w) = w /\ Onward(g, v) = v
        BY <2>1, <2>4
      <3> QED
        BY <2>4, <3>1 DEF Alongside
    <2> QED
      BY <1>2, <2>2, <2>3, <2>4 DEF Alongside
  <1>3. CASE Same1 /\ Moving(w)
    <2>1. /\ w = v /\ Moving(v) /\ w.path \in DOMAIN f /\ w.path \in DOMAIN g
          /\ g[w.path].kind = f[w.path].kind /\ Ahead(v) = Ahead(w)
      BY <1>1, <1>3 DEF Moving
    <2>2. CASE f[w.path].kind # "dir"
      BY <1>3, <2>1, <2>2, OnwardFields DEF Alongside
    <2>3. CASE f[w.path].kind = "dir" /\ Ahead(w) \notin DOMAIN f
      <3>1. /\ Onward(f, w).path = Ahead(w)
            /\ Onward(f, w).err = IF Len(w.names) = 1 THEN "new" ELSE "missing"
        BY <1>3, <2>3, OnwardFields
      <3>2. CASE Len(w.names) # 1
        BY <3>1, <3>2 DEF Alongside
      <3>3. CASE Len(w.names) = 1 /\ Ahead(w) = p
        <4>1. g[v.path].kind = "dir" /\ Ahead(v) \in DOMAIN g /\ g[Ahead(v)].kind # "link"
          BY <1>1, <2>1, <2>3, <3>3
        <4>2. Onward(g, v) = [err |-> "ok", path |-> p, names |-> Tail(v.names),
                              hops |-> v.hops]
          BY <2>1, <3>3, <4>1, OnwardFields
        <4>3. Tail(v.names) = <<>>
          <5>1. v.names \in Seq(Name) /\ v.names # <<>> /\ Len(v.names) = 1
            BY <1>3, <2>1, <3>3 DEF Moving, Arrived
          <5>2. Tail(v.names) \in Seq(Name) /\ Len(Tail(v.names)) = 0
            BY <5>1, HeadTailProperties
          <5> QED
            BY <5>2, EmptySeq
        <4> DEFINE w1 == Onward(f, w)
                   v1 == Onward(g, v)
        <4>4. /\ w1.err = "new" /\ w1.path = p
              /\ v1.err = "ok" /\ v1.path = p /\ v1.names = <<>>
          BY <3>1, <3>3, <4>2, <4>3
        <4> HIDE DEF w1, v1
        <4>5. Alongside(f, p, w1, v1)
          BY <4>4 DEF Alongside
        <4> QED
          BY <4>5 DEF w1, v1
      <3>4. CASE Len(w.names) = 1 /\ Ahead(w) # p
        <4>1. Ahead(v) \notin DOMAIN g /\ g[v.path].kind = "dir"
          BY <1>1, <2>1, <2>3, <3>4
        <4>2. Onward(g, v) = Onward(f, w)
          <5>1. Onward(f, w) = [w EXCEPT !.err = "new", !.path = Ahead(w)]
            BY <1>3, <2>3, <3>4 DEF Onward, Moving, Ahead
          <5>2. Onward(g, v) = [v EXCEPT !.err = "new", !.path = Ahead(v)]
            BY <2>1, <3>4, <4>1 DEF Onward, Moving, Ahead
          <5> QED
            BY <2>1, <5>1, <5>2
        <4> QED
          <5> DEFINE w1 == Onward(f, w)
          <5>1. w1.err = "new" /\ w1.path # p
            BY <3>1, <3>4
          <5> HIDE DEF w1
          <5>2. Alongside(f, p, w1, w1)
            BY <5>1 DEF Alongside
          <5> QED
            BY <4>2, <5>2 DEF w1
      <3> QED
        BY <3>2, <3>3, <3>4
    <2>4. CASE f[w.path].kind = "dir" /\ Ahead(w) \in DOMAIN f
      <3>1. /\ g[v.path].kind = "dir" /\ Ahead(v) \in DOMAIN g
            /\ g[Ahead(v)].kind = f[Ahead(w)].kind
            /\ f[Ahead(w)].kind = "link" => g[Ahead(v)] = f[Ahead(w)]
        BY <1>1, <2>1, <2>4
      <3>2. CASE f[Ahead(w)].kind # "link"
        <4>1. Onward(f, w) = [err |-> "ok", path |-> Ahead(w), names |-> Tail(w.names),
                              hops |-> w.hops]
          BY <1>3, <2>4, <3>2, OnwardFields
        <4>2. Onward(g, v) = [err |-> "ok", path |-> Ahead(v), names |-> Tail(v.names),
                              hops |-> v.hops]
          BY <2>1, <3>1, <3>2, OnwardFields
        <4> QED
          <5> DEFINE w1 == Onward(f, w)
          <5>1. w1.err = "ok" /\ w1.path \in DOMAIN f /\ Onward(g, v) = w1
            BY <2>1, <2>4, <4>1, <4>2
          <5> HIDE DEF w1
          <5>2. Alongside(f, p, w1, w1)
            BY <5>1 DEF Alongside
          <5> QED
            BY <5>1, <5>2 DEF w1
      <3>3. CASE f[Ahead(w)].kind = "link" /\ w.hops = 0
        BY <1>3, <2>4, <3>3, OnwardFields DEF Alongside
      <3>4. CASE f[Ahead(w)].kind = "link" /\ w.hops # 0
        <4>1. Onward(f, w) = [err |-> "ok",
                              path |-> IF f[Ahead(w)].to.abs THEN <<>> ELSE w.path,
                              names |-> f[Ahead(w)].to.names \o Tail(w.names),
                              hops |-> w.hops - 1]
          BY <1>3, <2>4, <3>4, OnwardFields
        <4>2. Onward(g, v) = [err |-> "ok",
                              path |-> IF g[Ahead(v)].to.abs THEN <<>> ELSE v.path,
                              names |-> g[Ahead(v)].to.names \o Tail(v.names),
                              hops |-> v.hops - 1]
          <5>1. v.hops # 0 /\ g[Ahead(v)].kind = "link"
            BY <2>1, <3>1, <3>4
          <5> QED
            BY <2>1, <3>1, <5>1, OnwardFields
        <4>3. Onward(g, v) = Onward(f, w)
          BY <2>1, <3>1, <3>4, <4>1, <4>2
        <4>4. Onward(f, w).err = "ok" /\ Onward(f, w).path \in DOMAIN f
          <5>1. <<>> \in DOMAIN f
            BY DEF WellMade
          <5> QED
            BY <2>1, <4>1, <5>1
        <4> QED
          <5> DEFINE w1 == Onward(f, w)
          <5> HIDE DEF w1
          <5>1. Alongside(f, p, w1, w1)
            BY <4>4 DEF Alongside, w1
          <5> QED
            BY <4>3, <5>1 DEF w1
      <3> QED
        BY <3>2, <3>3, <3>4
    <2> QED
      BY <2>2, <2>3, <2>4
  <1> QED
    BY <1>2, <1>3

\* A walk has finitely many steps.
LEMMA StepsNat ==
    ASSUME FilesAssumption, NEW f, WellMade(f), NEW q \in Seq(Name)
    PROVE  Steps(f, q) \in Nat
  <1>1. MaxHops \in Nat /\ Longest(f) \in Nat /\ Len(q) \in Nat
    BY LongestNat, LenProperties DEF FilesAssumption
  <1> QED
    BY <1>1 DEF Steps

\* Where a path leads is there and no link, or it leads nowhere.
LEMMA RealArrived ==
    ASSUME FilesAssumption, NEW f, WellMade(f), NEW q \in Seq(Name)
    PROVE  Arrived(f, Real(f, q))
  <1> DEFINE n == Steps(f, q)
  <1>1. n \in Nat
    BY StepsNat
  <1> HIDE DEF n
  <1>2. PICK g : Walk(f, Setout(q), n, g) /\ Real(f, q) = g[n]
    BY <1>1, RealWalks DEF n
  <1> DEFINE S == {i \in Nat : i <= n => Walker(g[i]) /\ Arrived(f, g[i])}
  <1>3. 0 \in S
    <2>1. g[0] = Setout(q)
      <3>1. 0 \in 0..n
        BY <1>1
      <3> HIDE DEF S
      <3> QED
        BY <1>2, <3>1 DEF Walk
    <2> QED
      BY <2>1 DEF Walker, Arrived, Setout, WellMade
  <1>4. ASSUME NEW i \in Nat, i \in S PROVE i + 1 \in S
    <2> SUFFICES ASSUME i + 1 <= n PROVE Walker(g[i + 1]) /\ Arrived(f, g[i + 1])
      OBVIOUS
    <2>1. i + 1 \in 0..n /\ i + 1 # 0 /\ (i + 1) - 1 = i /\ Walker(g[i]) /\ Arrived(f, g[i])
      BY <1>1, <1>4
    <2>2. g[i + 1] = Onward(f, g[(i + 1) - 1])
      <3> HIDE DEF S
      <3> QED
        BY <1>2, <2>1 DEF Walk
    <2> QED
      BY <2>1, <2>2, OnwardArrived
  <1>5. n \in S
    <2> HIDE DEF S
    <2> QED
      BY <1>1, <1>3, <1>4, SetInduction
  <1> QED
    BY <1>1, <1>2, <1>5

\* g is f but for the regular file with the text x that the path q now leads to.
Holds(f, q, x, g) ==
    /\ WellMade(g)
    /\ Real(g, q).err = "ok" /\ Real(g, q).path = Real(f, q).path
    /\ Real(f, q).path \in DOMAIN g /\ g[Real(f, q).path] = File(x)
    /\ DOMAIN g = DOMAIN f \union {Real(f, q).path}
    /\ \A r \in DOMAIN f : r # Real(f, q).path => g[r] = f[r]

\* A regular file written where a path leads is where it leads.
LEMMA RealPut ==
    ASSUME FilesAssumption, NEW f, WellMade(f), NEW q \in Seq(Name), NEW x \in Seq(Char),
           Real(f, q).err \in {"ok", "new"}, ~IsA(f, Real(f, q).path, "dir")
    PROVE  Holds(f, q, x, Put(f, Real(f, q).path, File(x)))
  <1> DEFINE p == Real(f, q).path
             g == Put(f, p, File(x))
             n == Steps(f, q)
  <1>1. p \in DOMAIN f => f[p].kind = "file"
    <2>1. Arrived(f, Real(f, q))
      BY RealArrived
    <2> QED
      BY <2>1 DEF Arrived, IsA, WellMade
  <1> HIDE DEF p
  <1>2. /\ DOMAIN g = DOMAIN f \union {p} /\ g[p] = File(x)
        /\ \A r \in DOMAIN f : r # p => g[r] = f[r]
    BY DEF Put
  <1> HIDE DEF g
  <1>3. File(x).kind = "file" /\ File(x).text = x
    BY DEF File
  <1>4. p # <<>>
    BY <1>1 DEF WellMade
  <1>5. WellMade(g)
    <2>1. IsFiniteSet(DOMAIN g)
      BY <1>2, FS_AddElement DEF WellMade
    <2>2. <<>> \in DOMAIN g /\ g[<<>>].kind = "dir"
      BY <1>2, <1>4 DEF WellMade
    <2>3. ASSUME NEW r \in DOMAIN g
          PROVE  /\ g[r].kind \in {"dir", "file", "link"}
                 /\ g[r].kind = "file" => g[r] = File(g[r].text) /\ g[r].text \in Seq(Char)
                 /\ g[r].kind = "link" => g[r].to.names \in Seq(Name)
      <3>1. CASE r = p
        BY <1>2, <1>3, <3>1
      <3>2. CASE r # p
        BY <1>2, <3>2 DEF WellMade
      <3> QED
        BY <3>1, <3>2
    <2> QED
      BY <2>1, <2>2, <2>3 DEF WellMade
  <1>6. Steps(g, q) = n
    <2> DEFINE L(h) == {r \in DOMAIN h : IsA(h, r, "link")}
    <2>1. \A r : r \in L(g) <=> r \in L(f)
      BY <1>1, <1>2, <1>3 DEF IsA
    <2>2. \A r \in L(f) : g[r] = f[r]
      BY <1>1, <1>2 DEF IsA
    <2>3. {Len(g[r].to.names) : r \in L(g)} = {Len(f[r].to.names) : r \in L(f)}
      <3> HIDE DEF L
      <3>1. L(g) = L(f)
        BY <2>1
      <3> QED
        BY <2>2, <3>1
    <2> QED
      BY <2>3 DEF Steps, Longest
  <1>7. n \in Nat
    BY StepsNat
  <1>8. PICK a : Walk(f, Setout(q), n, a) /\ Real(f, q) = a[n]
    BY <1>7, RealWalks
  <1>9. PICK b : Walk(g, Setout(q), n, b) /\ Real(g, q) = b[n]
    BY <1>6, <1>7, RealWalks
  <1> HIDE DEF n
  <1> DEFINE S == {i \in Nat : i <= n => /\ Walker(a[i]) /\ Walker(b[i]) /\ Arrived(f, a[i])
                                         /\ Alongside(f, p, a[i], b[i])}
  <1>10. 0 \in S
    <2>1. a[0] = Setout(q) /\ b[0] = Setout(q)
      BY <1>7, <1>8, <1>9 DEF Walk
    <2> QED
      BY <2>1 DEF Walker, Arrived, Alongside, Setout, WellMade
  <1>11. ASSUME NEW i \in Nat, i \in S PROVE i + 1 \in S
    <2> SUFFICES ASSUME i + 1 <= n
                 PROVE  /\ Walker(a[i + 1]) /\ Walker(b[i + 1]) /\ Arrived(f, a[i + 1])
                        /\ Alongside(f, p, a[i + 1], b[i + 1])
      OBVIOUS
    <2>1. /\ i + 1 \in 0..n /\ i + 1 # 0 /\ (i + 1) - 1 = i
          /\ Walker(a[i]) /\ Walker(b[i]) /\ Arrived(f, a[i]) /\ Alongside(f, p, a[i], b[i])
      BY <1>7, <1>11
    <2>2. a[i + 1] = Onward(f, a[i]) /\ b[i + 1] = Onward(g, b[i])
      <3> DEFINE k == i + 1
      <3>1. k \in 0..n /\ k # 0 /\ k - 1 = i
        BY <2>1
      <3> HIDE DEF k
      <3>2. a[k] = Onward(f, a[k - 1])
        BY <1>8, <3>1 DEF Walk
      <3>3. b[k] = Onward(g, b[k - 1])
        BY <1>9, <3>1 DEF Walk
      <3> QED
        BY <3>1, <3>2, <3>3 DEF k
    <2>3. Walker(a[i + 1]) /\ Walker(b[i + 1]) /\ Arrived(f, a[i + 1])
      <3>1. Walker(Onward(f, a[i])) /\ Arrived(f, Onward(f, a[i]))
        BY <2>1, OnwardArrived
      <3>2. Walker(Onward(g, b[i]))
        BY <2>1, OnwardFields
      <3> QED
        BY <2>2, <3>1, <3>2
    <2>4. Alongside(f, p, Onward(f, a[i]), Onward(g, b[i]))
      BY <1>1, <2>1, StepsAlongside DEF g
    <2> QED
      BY <2>2, <2>3, <2>4
  <1>12. n \in S
    <2> HIDE DEF S
    <2> QED
      BY <1>7, <1>10, <1>11, SetInduction
  <1>13. Arrived(f, a[n]) /\ Alongside(f, p, a[n], b[n])
    BY <1>7, <1>12
  <1>14. a[n].err \in {"ok", "new"} /\ a[n].path = p
    BY <1>8 DEF p
  <1>15. b[n].err = "ok" /\ b[n].path = p
    BY <1>13, <1>14 DEF Alongside
  <1> QED
    BY <1>2, <1>5, <1>9, <1>15 DEF p, g, Holds

\* The root of the host is its own normal form.
LEMMA NormNone == Norm(<<>>) = <<>>
  <1> DEFINE Upto(g) == g = [i \in 0..Len(<<>>) |->
                                IF i = 0 THEN <<>> ELSE Into(g[i - 1], <<>>[i])]
             upto == CHOOSE g : Upto(g)
  <1>1. Len(<<>>) = 0
    OBVIOUS
  <1>2. Upto([i \in 0..0 |-> <<>>])
    BY <1>1
  <1>3. Upto(upto)
    BY <1>2
  <1>4. upto[0] = <<>>
    BY <1>1, <1>3
  <1>5. Norm(<<>>) = upto[Len(<<>>)]
    BY DEF Norm
  <1> QED
    BY <1>1, <1>4, <1>5

-----------------------------------------------------------------------------
(* Hunks.  The spans a search may stand for are those of its matches, and  *)
(* an overlap of matches is one of spans.                                  *)

\* What is replaced is one meaning of the search, apart from which there is no other, if the
\* spans are those of its matches and an overlap of matches is one of spans.
LEMMA OneMeaning ==
    ASSUME NEW t, NEW s, Len(t) \in Nat, Len(s) \in Nat,
           NEW C, IsFiniteSet(C), NEW span,
           C = {span[i] : i \in Occurs(t, s)},
           \A i, j \in Occurs(t, s) : span[i] = span[j] => i = j,
           \A i, j \in Occurs(t, s) : j < i /\ i < j + Len(s) => ~Apart(span[j], span[i])
    PROVE  LET m == Min(Matches(t, s))
           IN  /\ Matches(t, s) = {} => C = {}
               /\ Cardinality(Matches(t, s)) = 1 =>
                      m \in Occurs(t, s) /\ \A d \in C : d # span[m] => ~Apart(span[m], d)
               /\ Cardinality(Matches(t, s)) # 1 => Cardinality(C) # 1
  <1> DEFINE O == Occurs(t, s)
             M == Matches(t, s)
  <1>1. /\ M \subseteq O /\ IsFiniteSet(M)
        /\ M = {} => O = {}
        /\ Cardinality(M) = 1 =>
               Min(M) \in O /\ \A i \in O : i # Min(M) => Min(M) < i /\ i < Min(M) + Len(s)
    BY MatchesCount, MatchesRule
  <1> HIDE DEF O, M
  <1>2. C = {span[i] : i \in O}
    BY DEF O
  <1>3. ASSUME Cardinality(M) = 1, NEW d \in C, d # span[Min(M)]
        PROVE  ~Apart(span[Min(M)], d)
    <2>1. PICK i \in O : d = span[i]
      BY <1>2
    <2>2. i # Min(M)
      BY <1>3, <2>1
    <2>3. Min(M) \in O /\ Min(M) < i /\ i < Min(M) + Len(s)
      BY <1>1, <1>3, <2>2
    <2> QED
      BY <2>1, <2>3 DEF O
  <1>4. ASSUME Cardinality(C) = 1 PROVE Cardinality(M) = 1
    <2>1. PICK c : C = {c}
      BY <1>4, FS_Singleton
    <2>2. PICK i \in O : c = span[i]
      BY <1>2, <2>1
    <2>3. \A j \in O : j = i
      <3>1. \A j \in O : span[j] = span[i]
        BY <1>2, <2>1, <2>2
      <3> QED
        BY <3>1 DEF O
    <2>4. M = {i}
      BY <1>1, <2>2, <2>3
    <2> QED
      BY <2>4, FS_Singleton
  <1> QED
    BY <1>1, <1>2, <1>3, <1>4 DEF O, M

Exact(t, s) == {<<i, i + Len(s)>> : i \in Occurs(t, s)}
Alike(t, s) == {c \in (1..(Len(t) + 1)) \X (1..(Len(t) + 1)) : Like(t, s, c[1], c[2])}

\* If the search matches once as it is, that is its one meaning.
LEMMA ExactMeaning ==
    ASSUME NEW t \in Seq(Char), NEW s \in Seq(Char)
    PROVE  LET m == Min(Matches(t, s))
               c == <<m, m + Len(s)>>
           IN  /\ Matches(t, s) = {} => Exact(t, s) = {}
               /\ Matches(t, s) # {} => Exact(t, s) # {}
               /\ Exact(t, s) = {} => s # <<>>
               /\ Cardinality(Matches(t, s)) = 1 =>
                      /\ c \in Exact(t, s) /\ \A d \in Exact(t, s) : d # c => ~Apart(c, d)
                      /\ m \in 1..(Len(t) + 1) /\ m + Len(s) \in 1..(Len(t) + 1)
               /\ Cardinality(Matches(t, s)) # 1 => Cardinality(Exact(t, s)) # 1
  <1> DEFINE O == Occurs(t, s)
             C == Exact(t, s)
             span == [i \in O |-> <<i, i + Len(s)>>]
             N == 1..(Len(t) + 1)
  <1>1. Len(t) \in Nat /\ Len(s) \in Nat
    BY LenProperties
  <1>2. \A i \in O : i \in N /\ i + Len(s) \in N
    BY <1>1 DEF Occurs
  <1>3. Matches(t, s) \subseteq O
    BY <1>1, MatchesRule
  <1>4. s = <<>> => 1 \in O
    <2> SUFFICES ASSUME s = <<>> PROVE 1 \in O
      OBVIOUS
    <2>1. Len(s) = 0 /\ SubSeq(t, 1, 0) = <<>>
      BY SubSeqEmpty
    <2>2. 1 \in 1..(Len(t) - Len(s) + 1) /\ 1 + Len(s) - 1 = 0
      BY <1>1, <2>1
    <2> QED
      BY <2>1, <2>2 DEF Occurs
  <1> HIDE DEF O
  <1>5. \A i \in O : span[i] = <<i, i + Len(s)>>
    OBVIOUS
  <1>6. C = {span[i] : i \in O}
    BY <1>5 DEF Exact, O
  <1>7. IsFiniteSet(C)
    <2>1. IsFiniteSet(N)
      BY <1>1, FS_Interval
    <2>2. IsFiniteSet(N \X N)
      BY <2>1, FS_Product
    <2>3. C \in SUBSET (N \X N)
      BY <1>2 DEF Exact, O
    <2> QED
      BY <2>2, <2>3, FS_Subset
  <1>8. \A i, j \in O : span[i] = span[j] => i = j
    BY <1>5
  <1>9. ASSUME NEW i \in O, NEW j \in O, j < i, i < j + Len(s) PROVE ~Apart(span[j], span[i])
    BY <1>1, <1>2, <1>5, <1>9 DEF Apart
  <1> HIDE DEF C, span
  <1> DEFINE M == Matches(t, s)
  <1>10. /\ M = {} => C = {}
         /\ Cardinality(M) = 1 =>
                Min(M) \in O /\ \A d \in C : d # span[Min(M)] => ~Apart(span[Min(M)], d)
         /\ Cardinality(M) # 1 => Cardinality(C) # 1
    BY <1>1, <1>6, <1>7, <1>8, <1>9, OneMeaning DEF O
  <1> HIDE DEF M
  <1>11. M # {} => C # {}
    BY <1>3, <1>6 DEF M
  <1>12. C = {} => s # <<>>
    BY <1>4, <1>6
  <1>13. Cardinality(M) = 1 => span[Min(M)] \in C /\ span[Min(M)] = <<Min(M), Min(M) + Len(s)>>
    BY <1>5, <1>6, <1>10
  <1> QED
    BY <1>2, <1>10, <1>11, <1>12, <1>13 DEF C, M

\* If it occurs nowhere, and once in the collapsed text, that match is its one meaning.
LEMMA AlikeMeaning ==
    ASSUME NEW t \in Seq(Char), NEW s \in Seq(Char), s # <<>>
    PROVE  LET hits == Matches(Collapse(t), Collapse(s))
               m == Min(hits)
               a == Nth(Origins(t), m)
               b == SpanEnd(t, m + Len(Collapse(s)) - 1)
               c == <<a, b>>
           IN  /\ Cardinality(hits) = 1 =>
                      /\ c \in Alike(t, s) /\ \A d \in Alike(t, s) : d # c => ~Apart(c, d)
                      /\ a \in 1..(Len(t) + 1) /\ b \in 1..(Len(t) + 1)
               /\ Cardinality(hits) # 1 => Cardinality(Alike(t, s)) # 1
  <1> DEFINE T == Collapse(t)
             n == Collapse(s)
             O == Occurs(T, n)
             F == Origins(t)
             C == Alike(t, s)
             end(k) == Stop(t, (k - 1) + Len(n))
             span == [k \in O |-> <<Nth(F, k), end(k)>>]
             N == 1..(Len(t) + 1)
  <1>1. /\ Len(t) \in Nat /\ F \in SUBSET (1..Len(t)) /\ Cardinality(F) \in Nat
        /\ T \in Seq(Ink) /\ Len(T) = Cardinality(F)
        /\ n \in Seq(Ink) /\ Len(n) \in Nat /\ Len(n) # 0
    BY Collapsed
  <1> HIDE DEF T, n, F
  <1>2. ASSUME NEW k \in O
        PROVE  /\ k \in 1..Cardinality(F) /\ (k - 1) + Len(n) \in 1..Cardinality(F)
               /\ k \in Nat /\ k <= (k - 1) + Len(n)
    <2>1. k \in Nat \ {0} /\ (k - 1) + Len(n) <= Len(T)
      BY <1>1, OccursAt
    <2> QED
      BY <1>1, <2>1
  <1> HIDE DEF O
  <1>3. \A k \in 1..Cardinality(F) :
            /\ SpanEnd(t, k) = Stop(t, k) /\ Stop(t, k) \in N
            /\ Nth(F, k) \in F /\ Nth(F, k) < Stop(t, k)
    BY SpanStops DEF F
  <1>4. \A k, l \in 1..Cardinality(F) : k < l => Nth(F, k) < Nth(F, l)
    BY <1>1, NthPlace
  <1>5. ASSUME NEW k \in O PROVE Nth(F, k) \in N /\ end(k) \in N /\ Nth(F, k) < end(k)
    <2> DEFINE l == (k - 1) + Len(n)
    <2>1. k \in 1..Cardinality(F) /\ l \in 1..Cardinality(F) /\ k <= l /\ k \in Nat
      BY <1>2
    <2> HIDE DEF l
    <2>2. Nth(F, k) \in F /\ Nth(F, l) \in F /\ Stop(t, l) \in N /\ Nth(F, l) < Stop(t, l)
      BY <1>3, <2>1
    <2>3. Nth(F, k) \in 1..Len(t) /\ Nth(F, l) \in 1..Len(t)
      BY <1>1, <2>2
    <2>4. k = l \/ Nth(F, k) < Nth(F, l)
      BY <1>4, <2>1
    <2> QED
      BY <1>1, <2>2, <2>3, <2>4 DEF l
  <1>6. \A k \in O : span[k] = <<Nth(F, k), end(k)>>
    OBVIOUS
  <1> HIDE DEF span, end
  <1>7. C = {span[k] : k \in O}
    <2>1. \A a, b \in N : Like(t, s, a, b) <=> \E k \in O : a = Nth(F, k) /\ b = end(k)
      BY LikeMatches DEF O, T, n, F, end
    <2>2. \A c : c \in C <=> \E k \in O : c = span[k]
      <3>1. ASSUME NEW c \in C PROVE \E k \in O : c = span[k]
        <4>1. c = <<c[1], c[2]>> /\ c[1] \in N /\ c[2] \in N /\ Like(t, s, c[1], c[2])
          BY DEF Alike
        <4> QED
          BY <1>6, <2>1, <4>1
      <3>2. ASSUME NEW k \in O PROVE span[k] \in C
        <4> DEFINE a == Nth(F, k)
                   b == end(k)
        <4>1. a \in N /\ b \in N /\ span[k] = <<a, b>>
          BY <1>5, <1>6
        <4>2. Like(t, s, a, b)
          BY <2>1, <4>1
        <4> HIDE DEF a, b
        <4> QED
          BY <4>1, <4>2 DEF Alike
      <3> QED
        BY <3>1, <3>2
    <2> QED
      BY <2>2
  <1>8. IsFiniteSet(C)
    <2>1. IsFiniteSet(N)
      BY <1>1, FS_Interval
    <2>2. IsFiniteSet(N \X N)
      BY <2>1, FS_Product
    <2>3. C \in SUBSET (N \X N)
      BY DEF Alike
    <2> QED
      BY <2>2, <2>3, FS_Subset
  <1>9. \A i, j \in O : span[i] = span[j] => i = j
    <2> SUFFICES ASSUME NEW i \in O, NEW j \in O, span[i] = span[j] PROVE i = j
      OBVIOUS
    <2>1. Nth(F, i) = Nth(F, j)
      BY <1>6
    <2>2. i \in 1..Cardinality(F) /\ j \in 1..Cardinality(F) /\ Nth(F, i) \in N
      BY <1>2, <1>5
    <2>3. ~(i < j) /\ ~(j < i)
      BY <1>4, <2>1, <2>2
    <2> QED
      BY <2>2, <2>3
  <1>10. ASSUME NEW i \in O, NEW j \in O, j < i, i < j + Len(n) PROVE ~Apart(span[j], span[i])
    <2> DEFINE l == (j - 1) + Len(n)
    <2>1. i \in 1..Cardinality(F) /\ j \in 1..Cardinality(F) /\ l \in 1..Cardinality(F)
          /\ j < i /\ i <= l
      <3>1. i \in 1..Cardinality(F) /\ j \in 1..Cardinality(F) /\ l \in 1..Cardinality(F)
            /\ i \in Nat /\ j \in Nat
        BY <1>2
      <3> QED
        BY <1>1, <1>10, <3>1
    <2>2. Nth(F, l) < end(j) /\ Nth(F, l) \in F /\ end(j) \in N
      <3> HIDE DEF l
      <3> QED
        BY <1>3, <2>1 DEF end, l
    <2> HIDE DEF l
    <2>3. Nth(F, j) < Nth(F, i) /\ (i = l \/ Nth(F, i) < Nth(F, l))
      BY <1>4, <2>1
    <2>4. Nth(F, i) \in N /\ Nth(F, j) \in N /\ Nth(F, i) < end(i) /\ end(i) \in N
      BY <1>5
    <2>5. Nth(F, l) \in 1..Len(t)
      BY <1>1, <2>2
    <2>6. Nth(F, i) < end(j) /\ Nth(F, j) < end(i)
      BY <1>1, <2>2, <2>3, <2>4, <2>5
    <2>7. ~(end(j) <= Nth(F, i)) /\ ~(end(i) <= Nth(F, j))
      BY <1>1, <2>2, <2>4, <2>6
    <2> QED
      BY <1>6, <2>7 DEF Apart
  <1> HIDE DEF C
  <1> DEFINE M == Matches(T, n)
  <1>11. /\ Cardinality(M) = 1 =>
                Min(M) \in O /\ \A d \in C : d # span[Min(M)] => ~Apart(span[Min(M)], d)
         /\ Cardinality(M) # 1 => Cardinality(C) # 1
    BY <1>1, <1>7, <1>8, <1>9, <1>10, OneMeaning DEF O
  <1> HIDE DEF M
  <1>12. ASSUME Cardinality(M) = 1
         PROVE  LET a == Nth(F, Min(M))
                    b == SpanEnd(t, Min(M) + Len(n) - 1)
                IN  span[Min(M)] = <<a, b>> /\ span[Min(M)] \in C /\ a \in N /\ b \in N
    <2>1. Min(M) \in O
      BY <1>11, <1>12
    <2>2. Min(M) \in Nat /\ Min(M) + Len(n) - 1 = (Min(M) - 1) + Len(n)
      BY <1>1, <1>2, <2>1
    <2>3. SpanEnd(t, (Min(M) - 1) + Len(n)) = end(Min(M))
      BY <1>2, <1>3, <2>1 DEF end
    <2>4. SpanEnd(t, Min(M) + Len(n) - 1) = end(Min(M))
      BY <2>2, <2>3
    <2> QED
      BY <1>5, <1>6, <1>7, <2>1, <2>4
  <1> QED
    BY <1>11, <1>12 DEF C, M, T, n, F

\* A text is not mistaken for none.
LEMMA Written ==
    ASSUME NEW t \in Seq(Char)
    PROVE  t # NoText
  <1> SUFFICES ASSUME t = NoText PROVE FALSE
    OBVIOUS
  <1>1. Len(t) = 1 /\ t[1] = "none"
    BY DEF NoText
  <1>2. t[1] \in Char
    BY <1>1, ElementOfSeq
  <1> QED
    BY <1>1, <1>2 DEF Char

\* A splice is a text.
LEMMA Spliced ==
    ASSUME NEW t \in Seq(Char), NEW r \in Seq(Char),
           NEW a \in 1..(Len(t) + 1), NEW b \in 1..(Len(t) + 1)
    PROVE  Splice(t, a, b, r) \in Seq(Char)
  <1>1. Len(t) \in Nat /\ \A i \in 1..Len(t) : t[i] \in Char
    BY LenProperties, ElementOfSeq
  <1>2. SubSeq(t, 1, a - 1) \in Seq(Char)
    <2>1. 1 \in Int /\ a - 1 \in Int /\ \A i \in 1..(a - 1) : t[i] \in Char
      BY <1>1
    <2> QED
      BY <2>1, SubSeqProperties
  <1>3. SubSeq(t, b, Len(t)) \in Seq(Char)
    <2>1. b \in Int /\ Len(t) \in Int /\ \A i \in b..Len(t) : t[i] \in Char
      BY <1>1
    <2> QED
      BY <2>1, SubSeqProperties
  <1> QED
    BY <1>2, <1>3, ConcatProperties DEF Splice

\* A hunk is applied to the single meaning of the search, and fails if there is not one.
LEMMA HunkApplied ==
    ASSUME NEW t \in Seq(Char), NEW s \in Seq(Char), NEW r \in Seq(Char)
    PROVE  LET made == ApplyHunk(t, s, r)
           IN  /\ made # NoText =>
                      /\ made \in Seq(Char)
                      /\ \E c \in Spans(t, s) :
                             /\ made = Splice(t, c[1], c[2], r)
                             /\ \A d \in Spans(t, s) : d # c => ~Apart(c, d)
               /\ made = NoText => Cardinality(Spans(t, s)) # 1
  <1> DEFINE exact == Matches(t, s)
             n == Collapse(s)
             hits == Matches(Collapse(t), n)
             made == ApplyHunk(t, s, r)
             Single(c) == /\ c \in Spans(t, s) /\ made = Splice(t, c[1], c[2], r)
                          /\ \A d \in Spans(t, s) : d # c => ~Apart(c, d)
  <1>1. Spans(t, s) = IF Exact(t, s) # {} THEN Exact(t, s) ELSE Alike(t, s)
    BY DEF Spans, Exact, Alike, Like
  <1>2. CASE Cardinality(exact) = 1
    <2> DEFINE a == Min(exact)
               b == a + Len(s)
    <2>1. exact # {}
      <3> SUFFICES ASSUME exact = {} PROVE FALSE
        OBVIOUS
      <3>1. Cardinality(exact) = 0
        BY FS_EmptySet
      <3> QED
        BY <1>2, <3>1
    <2>2. made = Splice(t, a, b, r)
      BY <1>2, <2>1 DEF ApplyHunk
    <2>3. /\ Exact(t, s) # {} /\ <<a, b>> \in Exact(t, s)
          /\ \A d \in Exact(t, s) : d # <<a, b>> => ~Apart(<<a, b>>, d)
          /\ a \in 1..(Len(t) + 1) /\ b \in 1..(Len(t) + 1)
      BY <1>2, <2>1, ExactMeaning
    <2> HIDE DEF a, b, made
    <2>4. made \in Seq(Char)
      BY <2>2, <2>3, Spliced
    <2>5. Single(<<a, b>>)
      BY <1>1, <2>2, <2>3
    <2> QED
      BY <2>4, <2>5, Written DEF made
  <1>3. CASE exact = {} /\ Cardinality(hits) = 1
    <2> DEFINE a == Nth(Origins(t), Min(hits))
               b == SpanEnd(t, Min(hits) + Len(n) - 1)
    <2>1. Cardinality(exact) # 1
      BY <1>3, FS_EmptySet
    <2>2. made = Splice(t, a, b, r)
      BY <1>3, <2>1 DEF ApplyHunk
    <2>3. Exact(t, s) = {} /\ s # <<>>
      BY <1>3, ExactMeaning
    <2>4. /\ <<a, b>> \in Alike(t, s)
          /\ \A d \in Alike(t, s) : d # <<a, b>> => ~Apart(<<a, b>>, d)
          /\ a \in 1..(Len(t) + 1) /\ b \in 1..(Len(t) + 1)
      BY <1>3, <2>3, AlikeMeaning
    <2> HIDE DEF a, b, made
    <2>5. made \in Seq(Char)
      BY <2>2, <2>4, Spliced
    <2>6. Single(<<a, b>>)
      BY <1>1, <2>2, <2>3, <2>4
    <2> QED
      BY <2>5, <2>6, Written DEF made
  <1>4. CASE Cardinality(exact) # 1 /\ ~(exact = {} /\ Cardinality(hits) = 1)
    <2>1. made = NoText
      BY <1>4 DEF ApplyHunk
    <2>2. CASE exact # {}
      BY <1>1, <1>4, <2>1, <2>2, ExactMeaning
    <2>3. CASE exact = {}
      <3>1. Exact(t, s) = {} /\ s # <<>> /\ Cardinality(hits) # 1
        BY <1>4, <2>3, ExactMeaning
      <3>2. Cardinality(Alike(t, s)) # 1
        BY <3>1, AlikeMeaning
      <3> QED
        BY <1>1, <2>1, <3>1, <3>2
    <2> QED
      BY <2>2, <2>3
  <1> QED
    BY <1>2, <1>3, <1>4

-----------------------------------------------------------------------------
(* The reader.                                                             *)

Called == \E scene \in Scenes : before \in scene.trees /\ req \in scene.calls

\* A call to view asks of a tree nobody has changed, in one step or in steps of its own.
ViewInv ==
    /\ Called
    /\ req.tool = "view" => /\ pc \in {"start", "done"}
                            /\ pc = "start" => status = "none"
                            /\ ~meddled => fs = before

\* Up to now a reader has seen the first lines, up to the offset it goes on at.
Counted(n) == [i \in 1..n |-> i]
Regular == Target.err = "ok" /\ IsA(fs, Target.path, "file")
Total == Len(Lines(fs[Target.path].text))
ReadInv ==
    req.tool = "view" /\ ~meddled /\ status # "denied" /\ Regular =>
        /\ req.paged /\ pc = "start" => next \in 1..(Total + 1) /\ answer = Counted(next - 1)
        /\ req.paged /\ pc = "done"
           => \/ answer = Counted(Total)
              \/ ~(Size(Target.path) <= ReadCap) /\ \E n \in 0..Total : answer = Counted(n)
        /\ ~req.paged /\ status = "ok" /\ ~answer.truncated
           => answer.content = fs[Target.path].text

\* A path of one name.
LEMMA OneName ==
    ASSUME NEW S, NEW x \in S
    PROVE  <<x>> \in Seq(S)
  OBVIOUS

\* The path of a call.
LEMMA PathTyped ==
    ASSUME req.path.names \in Seq(Name)
    PROVE  Path \in Seq(Name)
  <1>1. Workspace(req.path).names \in Seq(Name)
    <2>1. CASE req.path.abs /\ Len(req.path.names) > 1 /\ req.path.names[1] = "app"
      <3>1. req.path.names # <<>>
        BY <2>1, EmptySeq
      <3>2. Tail(req.path.names) \in Seq(Name)
        BY <3>1, HeadTailProperties
      <3> QED
        BY <2>1, <3>2 DEF Workspace
    <2>2. CASE ~(req.path.abs /\ Len(req.path.names) > 1 /\ req.path.names[1] = "app")
      BY <2>2 DEF Workspace
    <2> QED
      BY <2>1, <2>2
  <1>2. Root \in Seq(Name)
    <2>1. "w" \in Name
      BY DEF Name
    <2>2. <<"w">> \in Seq(Name)
      BY <2>1, OneName
    <2> QED
      BY <2>2 DEF Root
  <1>3. Root \o Workspace(req.path).names \in Seq(Name)
    BY <1>1, <1>2, ConcatProperties
  <1> QED
    BY <1>1, <1>3 DEF Path, Join

\* The facts about trees and calls, one at a time.
LEMMA CallTyped ==
    ASSUME FilesAssumption, Called, req.tool \in {"view", "edit"}
    PROVE  /\ WellMade(before) /\ Path \in Seq(Name) /\ Foreign \in Seq(Char)
           /\ req.tool = "view" => req.paged \in BOOLEAN /\ req.max \in Nat
           /\ req.tool = "edit" => req.search \in Seq(Char) /\ req.replace \in Seq(Char)
  <1>1. PICK scene \in Scenes : before \in scene.trees /\ req \in scene.calls
    BY DEF Called
  <1>2. /\ WellMade(before) /\ Foreign \in Seq(Char) /\ req.path.names \in Seq(Name)
        /\ req.tool = "view" => req.paged \in BOOLEAN /\ req.max \in Nat
        /\ req.tool = "edit" => req.search \in Seq(Char) /\ req.replace \in Seq(Char)
    <2>1. \A s \in Seq(STRING) : s \in Seq(Name)
      <3>1. STRING \subseteq Name
        BY DEF Name
      <3> QED
        BY <3>1, SeqMonotonic
    <2> QED
      BY <1>1, <2>1 DEF FilesAssumption, WellMade, File
  <1> QED
    BY <1>2, PathTyped

\* The same, of a call to view.
LEMMA ViewTyped ==
    ASSUME FilesAssumption, ViewInv, req.tool = "view"
    PROVE  /\ WellMade(before) /\ Path \in Seq(Name)
           /\ req.paged \in BOOLEAN /\ req.max \in Nat
  BY CallTyped DEF ViewInv

\* What is there is refused as denied or for its size only.
LEMMA RefusedFor ==
    ASSUME FilesAssumption, ViewInv, req.tool = "view", ~meddled, Regular,
           ~Readable(ResolveUnder(fs, req.path, FALSE))
    PROVE  ResolveUnder(fs, req.path, FALSE) = "denied"
           \/ (ResolveUnder(fs, req.path, FALSE) = "ok" /\ ~(Size(Target.path) <= ReadCap))
  <1>1. WellMade(fs) /\ Path \in Seq(Name)
    BY ViewTyped DEF ViewInv
  <1>2. CASE Path = <<>>
    <2>1. ~In(Root, Norm(Path))
      <3>1. Norm(Path) = <<>> /\ Len(Root) = 1 /\ Len(<<>>) = 0
        BY <1>2, NormNone DEF Root
      <3> QED
        BY <3>1 DEF In, IsPrefix
    <2> QED
      BY <2>1 DEF ResolveUnder, Path
  <1>3. CASE Path # <<>>
    <2>1. Real(fs, Front(Path)).err \notin {"new", "missing"}
      BY <1>1, <1>3, ParentThere DEF Regular, Target
    <2>2. SymlinkSafe(fs, Path, FALSE) \in {"ok", "denied"}
      BY <1>3, <2>1 DEF SymlinkSafe
    <2>3. ResolveUnder(fs, req.path, FALSE) \in {"ok", "denied"}
      BY <2>2 DEF ResolveUnder, Path
    <2> QED
      BY <2>3 DEF Readable, Regular, IsA
  <1> QED
    BY <1>2, <1>3

\* The cap of a page is a number of bytes.
LEMMA CapNat ==
    ASSUME TextAssumption, req.max \in Nat
    PROVE  Cap \in Nat
  <1>1. {req.max, ViewCap} \in SUBSET Nat /\ {req.max, ViewCap} # {}
    BY DEF TextAssumption
  <1> QED
    BY <1>1, MinMember DEF Cap

\* A page follows what has been seen.
LEMMA CountedOn ==
    ASSUME NEW n \in Nat, NEW more \in Nat
    PROVE  Counted(n) \o [i \in 1..more |-> n + i] = Counted(n + more)
  <1>1. Counted(n) \in Seq(Nat) /\ Len(Counted(n)) = n
    BY DEF Counted
  <1>2. [i \in 1..more |-> n + i] \in Seq(Nat) /\ Len([i \in 1..more |-> n + i]) = more
    OBVIOUS
  <1>3. Counted(n + more) \in Seq(Nat) /\ Len(Counted(n + more)) = n + more
    BY DEF Counted
  <1> DEFINE page == [i \in 1..more |-> n + i]
             whole == Counted(n) \o page
  <1>4. /\ whole \in Seq(Nat) /\ Len(whole) = n + more
        /\ \A i \in 1..(n + more) : whole[i] = IF i <= n THEN Counted(n)[i] ELSE page[i - n]
    <2>1. page \in Seq(Nat) /\ Len(page) = more
      BY <1>2
    <2> DEFINE seen == Counted(n)
    <2>2. seen \in Seq(Nat) /\ Len(seen) = n
      BY <1>1
    <2> HIDE DEF page, seen
    <2>3. /\ seen \o page \in Seq(Nat) /\ Len(seen \o page) = Len(seen) + Len(page)
          /\ \A i \in 1..(Len(seen) + Len(page)) :
                 (seen \o page)[i] = IF i <= Len(seen) THEN seen[i] ELSE page[i - Len(seen)]
      BY <2>1, <2>2, ConcatProperties
    <2>4. Len(seen) + Len(page) = n + more
      BY <2>1, <2>2
    <2> QED
      BY <2>1, <2>2, <2>3, <2>4 DEF seen
  <1>5. ASSUME NEW i \in 1..(n + more) PROVE whole[i] = Counted(n + more)[i]
    <2>1. Counted(n + more)[i] = i
      BY DEF Counted
    <2>2. CASE i <= n
      BY <1>4, <2>1, <2>2 DEF Counted
    <2>3. CASE ~(i <= n)
      <3>1. i - n \in 1..more /\ n + (i - n) = i
        BY <2>3
      <3>2. page[i - n] = i
        BY <3>1
      <3> HIDE DEF page, whole
      <3> QED
        BY <1>4, <2>1, <2>3, <3>2
    <2> QED
      BY <2>2, <2>3
  <1> HIDE DEF whole
  <1>6. whole = Counted(n + more)
    BY <1>3, <1>4, <1>5, SeqEqual
  <1> QED
    BY <1>6 DEF whole

\* The first lines are a beginning of all of them.
LEMMA CountedPrefix ==
    ASSUME NEW n \in Nat, NEW m \in 0..n
    PROVE  IsPrefix(Counted(m), Counted(n))
  <1>1. Len(Counted(m)) = m /\ Len(Counted(n)) = n
    BY DEF Counted
  <1>2. \A i \in 1..m : Counted(m)[i] = i /\ Counted(n)[i] = i /\ i \in Nat
    BY DEF Counted
  <1>3. /\ SubSeq(Counted(m), 1, m) \in Seq(Nat) /\ SubSeq(Counted(n), 1, m) \in Seq(Nat)
        /\ Len(SubSeq(Counted(m), 1, m)) = m /\ Len(SubSeq(Counted(n), 1, m)) = m
        /\ \A i \in 1..m : SubSeq(Counted(m), 1, m)[i] = i /\ SubSeq(Counted(n), 1, m)[i] = i
    BY <1>2
  <1>4. SubSeq(Counted(m), 1, m) = SubSeq(Counted(n), 1, m)
    BY <1>3, SeqEqual
  <1> QED
    BY <1>1, <1>4 DEF IsPrefix

\* Nothing a view does changes the tree.
LEMMA ViewSteps ==
    ASSUME ViewInv, [Next]_vars
    PROVE  ViewInv'
  <1>1. before' = before /\ req' = req
    BY DEF Next, vars, WriteStart, CreateLevel, ResolveAgain, WriteLook, Check, Save, EditStart,
           EditRead, ViewWhole, ViewNext, Search, ExecStart, Drain, Exit, Meddle, tree
  <1>2. req.tool # "view" \/
        \/ ViewWhole
        \/ ViewNext
        \/ Meddle
        \/ UNCHANGED vars
    BY DEF ViewInv, Next, WriteStart, CreateLevel, ResolveAgain, WriteLook, Check, Save, EditStart,
           EditRead, Search, ExecStart, Drain, Exit
  <1>3. CASE req.tool # "view"
    BY <1>1, <1>3 DEF ViewInv, Called
  <1>4. CASE ViewWhole \/ ViewNext
    <2>1. fs' = fs /\ meddled' = meddled /\ (pc' = "done" \/ (pc' = pc /\ status' = status))
      BY <1>4 DEF ViewWhole, ViewNext, tree, End, Refused
    <2> QED
      BY <1>1, <2>1 DEF ViewInv, Called
  <1>5. CASE Meddle
    BY <1>1, <1>5 DEF ViewInv, Called, Meddle
  <1>6. CASE UNCHANGED vars
    BY <1>1, <1>6 DEF ViewInv, Called, vars
  <1> QED
    BY <1>2, <1>3, <1>4, <1>5, <1>6

\* A reader who asks for pages.
LEMMA PageRead ==
    ASSUME TextAssumption, FilesAssumption, ViewInv, ReadInv, ViewNext
    PROVE  ReadInv'
  <1>1. /\ fs' = fs /\ meddled' = meddled /\ req' = req /\ Target' = Target
        /\ pc = "start" /\ req.tool = "view" /\ req.paged /\ status = "none"
    BY DEF ViewNext, tree, ViewInv, Target, Path
  <1>2. Regular' = Regular /\ Total' = Total /\ Size(Target.path)' = Size(Target.path)
    BY <1>1 DEF Regular, Total, Size
  <1> DEFINE Reached == /\ pc' = "start"
                           => next' \in 1..(Total + 1) /\ answer' = Counted(next' - 1)
                        /\ pc' = "done"
                           => \/ answer' = Counted(Total)
                              \/ ~(Size(Target.path) <= ReadCap)
                                 /\ \E n \in 0..Total : answer' = Counted(n)
  <1>3. ASSUME ~meddled, Regular, status' # "denied" PROVE Reached
    <2> DEFINE lines == Lines(fs[Target.path].text)
               page == ViewPage(lines, next, Cap)
               verdict == ResolveUnder(fs, req.path, FALSE)
    <2>1. next \in 1..(Total + 1) /\ answer = Counted(next - 1)
      BY <1>1, <1>3 DEF ReadInv
    <2>2. Total \in Nat /\ Total = Len(lines)
      <3>1. fs[Target.path].text \in Seq(Char)
        BY <1>1, <1>3, ViewTyped DEF WellMade, Regular, IsA, ViewInv
      <3> QED
        BY <3>1, LinesCounted DEF Total
    <2>3. CASE ~(Readable(verdict) /\ next <= Len(lines))
      <3>1. UNCHANGED shown /\ pc' = "done" /\ status' = IF verdict = "ok" THEN "failed"
                                   ELSE IF verdict = "noparent" THEN "failed" ELSE verdict
        BY <2>3 DEF ViewNext, Refused, End
      <3>2. answer' = Counted(next - 1)
        BY <2>1, <3>1 DEF shown
      <3>3. CASE Readable(verdict)
        <4>1. next = Total + 1
          <5>1. ~(next <= Len(lines))
            BY <2>3, <3>3, Zenon
          <5> HIDE DEF lines
          <5> QED
            BY <2>1, <2>2, <5>1
        <4>2. next - 1 = Total
          BY <2>2, <4>1
        <4> QED
          BY <3>1, <3>2, <4>2
      <3>4. CASE ~Readable(verdict)
        <4>1. ~(Size(Target.path) <= ReadCap)
          BY <1>1, <1>3, <3>1, <3>4, RefusedFor
        <4>2. next - 1 \in 0..Total
          BY <2>1, <2>2
        <4> QED
          BY <3>1, <3>2, <4>1, <4>2
      <3> QED
        BY <3>3, <3>4
    <2>4. CASE Readable(verdict) /\ next <= Len(lines)
      <3>1. /\ answer' = answer \o page.lines /\ next' = page.next
            /\ IF page.next = 0 THEN pc' = "done" ELSE pc' = "start"
        BY <1>1, <2>4 DEF ViewNext, End
      <3>2. Cap \in Nat
        BY <1>1, ViewTyped, CapNat
      <3>3. next \in 1..Len(lines) /\ Len(lines) \in Nat
        BY <2>1, <2>2, <2>4
      <3>4. PICK more \in 1..(Len(lines) - next + 1) :
                /\ page.lines = [i \in 1..more |-> next + i - 1]
                /\ \/ page.next = next + more
                   \/ page.next = 0 /\ next + more = Len(lines) + 1
        <4> HIDE DEF lines
        <4> QED
          BY <3>2, <3>3, PageShows
      <3>5. [i \in 1..more |-> next + i - 1] = [i \in 1..more |-> (next - 1) + i]
        BY <3>3
      <3> HIDE DEF lines, page
      <3>6. next - 1 \in Nat /\ more \in Nat /\ (next - 1) + more = next + more - 1
        BY <3>3, <3>4
      <3>7. answer' = Counted(next + more - 1)
        <4>1. answer' = Counted(next - 1) \o [i \in 1..more |-> (next - 1) + i]
          BY <2>1, <3>1, <3>4, <3>5
        <4>2. answer' = Counted((next - 1) + more)
          BY <3>6, <4>1, CountedOn
        <4> QED
          BY <3>6, <4>2
      <3>8. CASE page.next = next + more
        <4>1. pc' = "start" /\ next' = next + more
          BY <3>1, <3>3, <3>4, <3>8
        <4>2. next' \in 1..(Total + 1) /\ next' - 1 = next + more - 1
          BY <2>2, <3>3, <3>4, <4>1
        <4> QED
          BY <3>7, <4>1, <4>2
      <3>9. CASE page.next = 0 /\ next + more = Len(lines) + 1
        <4>1. pc' = "done"
          BY <3>1, <3>9
        <4>2. next + more - 1 = Total
          BY <2>2, <3>3, <3>4, <3>9
        <4> QED
          BY <3>7, <4>1, <4>2
      <3> QED
        BY <3>4, <3>8, <3>9
    <2> QED
      BY <2>3, <2>4
  <1> QED
    BY <1>1, <1>2, <1>3 DEF ReadInv

\* A reader who does not: what is shown uncut is all there is.
LEMMA WholeRead ==
    ASSUME TextAssumption, FilesAssumption, ViewInv, ViewWhole
    PROVE  ReadInv'
  <1>1. /\ fs' = fs /\ meddled' = meddled /\ req' = req /\ Target' = Target
        /\ pc = "start" /\ req.tool = "view" /\ ~req.paged
    BY DEF ViewWhole, tree, Target, Path
  <1> DEFINE t == fs[Target.path].text
             fitting == {n \in 0..Len(t) : Weight(SubSeq(t, 1, n)) <= Cap}
             k == Max(fitting)
             half == IF k < Len(t) /\ Weight(SubSeq(t, 1, k)) < Cap THEN <<"?">> ELSE <<>>
             head == SubSeq(t, 1, k) \o half
  <1>2. ASSUME ~meddled, Regular, status' = "ok", ~answer'.truncated
        PROVE  answer'.content = t
    <2>1. answer' = [content |-> SubSeq(head, 1, Min({Len(head), OutCap})),
                     truncated |-> Len(head) > OutCap \/ k < Len(t)]
      BY <1>2 DEF ViewWhole, Refused, End, Readable
    <2>2. t \in Seq(Char)
      BY <1>1, <1>2, ViewTyped DEF WellMade, Regular, IsA, ViewInv
    <2>3. Cap \in Nat
      BY <1>1, ViewTyped, CapNat
    <2> HIDE DEF t
    <2>4. Len(t) \in Nat /\ SubSeq(t, 1, Len(t)) = t
      BY <2>2, LenProperties, SubSeqFull
    <2>5. 0 \in fitting
      <3>1. SubSeq(t, 1, 0) = <<>>
        BY SubSeqEmpty
      <3>2. Weight(SubSeq(t, 1, 0)) = 0
        BY <3>1, WeightNone
      <3>3. Weight(SubSeq(t, 1, 0)) <= Cap
        BY <2>3, <3>2
      <3> QED
        BY <2>4, <3>3
    <2>6. k \in fitting
      <3>1. fitting \in SUBSET Nat /\ \A n \in fitting : n <= Len(t)
        BY <2>4
      <3> HIDE DEF fitting
      <3> QED
        BY <2>4, <2>5, <3>1, MaxMember
    <2>7. k \in 0..Len(t)
      BY <2>6
    <2> HIDE DEF k
    <2>8. k = Len(t) /\ ~(Len(head) > OutCap)
      <3>1. ~(k < Len(t)) /\ ~(Len(head) > OutCap)
        BY <1>2, <2>1
      <3> QED
        BY <2>4, <2>7, <3>1
    <2>9. head = t
      <3>1. half = <<>> /\ SubSeq(t, 1, k) = t
        BY <2>4, <2>8
      <3>2. t \o <<>> = t
        BY <2>2, ConcatEmptySeq
      <3> HIDE DEF half
      <3> QED
        BY <3>1, <3>2
    <2>10. Min({Len(head), OutCap}) = Len(t)
      <3>1. {Len(t), OutCap} \in SUBSET Nat /\ {Len(t), OutCap} # {} /\ Len(t) <= OutCap
        <4>1. ~(Len(t) > OutCap) /\ Len(t) \in Nat /\ OutCap \in Nat
          BY <2>4, <2>8, <2>9 DEF TextAssumption
        <4> QED
          BY <4>1
      <3>2. Min({Len(t), OutCap}) \in {Len(t), OutCap} /\ Min({Len(t), OutCap}) <= Len(t)
        BY <3>1, MinMember
      <3>3. Min({Len(t), OutCap}) = Len(t)
        BY <3>1, <3>2
      <3> QED
        BY <2>9, <3>3
    <2> QED
      BY <2>1, <2>4, <2>9, <2>10
  <1> QED
    BY <1>1, <1>2 DEF ReadInv, Regular

\* Each page follows what the reader has seen.
LEMMA ReadSteps ==
    ASSUME TextAssumption, FilesAssumption, ViewInv, ReadInv, [Next]_vars
    PROVE  ReadInv'
  <1>1. req' = req
    BY DEF Next, vars, WriteStart, CreateLevel, ResolveAgain, WriteLook, Check, Save, EditStart,
           EditRead, ViewWhole, ViewNext, Search, ExecStart, Drain, Exit, Meddle
  <1>2. req.tool # "view" \/
        \/ ViewWhole
        \/ ViewNext
        \/ Meddle
        \/ UNCHANGED vars
    BY DEF ViewInv, Next, WriteStart, CreateLevel, ResolveAgain, WriteLook, Check, Save, EditStart,
           EditRead, Search, ExecStart, Drain, Exit
  <1>3. CASE req.tool # "view"
    BY <1>1, <1>3 DEF ReadInv
  <1>4. CASE Meddle
    BY <1>4 DEF Meddle, ReadInv
  <1>5. CASE UNCHANGED vars
    BY <1>5 DEF vars, ReadInv, Regular, Total, Size, Target, Path
  <1> QED
    BY <1>2, <1>3, <1>4, <1>5, PageRead, WholeRead

\* A reader who follows the notices of view sees every line once and in order, and what a call
\* without an offset shows uncut is the whole file, for every text, every caps, every path and
\* every file system; in particular a file that is there is never refused for its parent.
THEOREM ReadsWholeAlways == Spec => []ReadsWhole
  <1>1. Init => ViewInv /\ ReadInv
    <2> SUFFICES ASSUME Init PROVE ViewInv /\ ReadInv
      OBVIOUS
    <2>1. ViewInv
      BY DEF Init, ViewInv, Called
    <2>2. req.tool = "view" /\ Regular => next \in 1..(Total + 1) /\ answer = Counted(next - 1)
      <3> SUFFICES ASSUME req.tool = "view", Regular
                   PROVE  next \in 1..(Total + 1) /\ answer = Counted(next - 1)
        OBVIOUS
      <3>1. fs = before /\ next = 1 /\ answer = <<>>
        BY DEF Init
      <3>2. fs[Target.path].text \in Seq(Char)
        BY <2>1, <3>1, FilesAssumption, ViewTyped DEF WellMade, Regular, IsA
      <3>3. Total \in Nat
        BY <3>2, LinesCounted DEF Total
      <3>4. Counted(0) = <<>>
        BY DEF Counted
      <3> QED
        BY <3>1, <3>3, <3>4
    <2> QED
      BY <2>1, <2>2 DEF Init, ReadInv
  <1>2. ViewInv /\ ReadInv /\ [Next]_vars => (ViewInv /\ ReadInv)'
    BY FilesAssumption, TextAssumption, ViewSteps, ReadSteps
  <1>3. ViewInv /\ ReadInv => ReadsWhole
    <2> SUFFICES ASSUME ViewInv, ReadInv, req.tool = "view", ~meddled, status # "denied",
                        Target.err = "ok", IsA(fs, Target.path, "file")
                 PROVE  ReadsWhole
      BY DEF ReadsWhole
    <2> DEFINE file == before[Target.path].text
               all == [i \in DOMAIN Lines(file) |-> i]
    <2>1. fs = before /\ Regular /\ pc \in {"start", "done"}
      BY DEF ViewInv, Regular
    <2>2. file \in Seq(Char)
      BY <2>1, FilesAssumption, ViewTyped DEF WellMade, IsA
    <2>3. Total \in Nat /\ all = Counted(Total)
      BY <2>1, <2>2, LinesCounted DEF Total, Counted
    <2>4. req.paged => \E n \in 0..Total : answer = Counted(n)
      <3>1. req.paged /\ pc = "start" => next - 1 \in 0..Total /\ answer = Counted(next - 1)
        BY <2>1, <2>3 DEF ReadInv
      <3> QED
        BY <2>1, <2>3, <3>1 DEF ReadInv
    <2>5. req.paged => IsPrefix(answer, all)
      BY <2>3, <2>4, CountedPrefix
    <2>6. req.paged /\ pc = "done" /\ Size(Target.path) <= ReadCap => answer = all
      BY <2>1, <2>3 DEF ReadInv
    <2>7. ~req.paged /\ status = "ok" /\ ~answer.truncated => answer.content = file
      BY <2>1 DEF ReadInv
    <2> QED
      BY <2>5, <2>6, <2>7 DEF ReadsWhole
  <1> QED
    BY <1>1, <1>2, <1>3, PTL DEF Spec

-----------------------------------------------------------------------------
(* The editor.                                                             *)

\* What an edit has read and means to write.
Hunked ==
    /\ orig \in Seq(Char) /\ new = ApplyHunk(orig, req.search, req.replace)
    /\ ~meddled => before[Target.path] = File(orig)

\* An edit under way is at a regular file which nobody else can take from its path; only the save
\* changes the tree, and that in one place.
EditInv ==
    /\ Called
    /\ req.tool = "edit" =>
        /\ WellMade(fs)
        /\ pc \in {"start", "read", "check", "save", "done"}
        /\ pc # "done" => status = "none"
        /\ pc \in {"start", "read"} => orig = NoText
        /\ pc \in {"read", "check", "save"} \/ status = "written" => Regular
        /\ orig # NoText => Hunked
        /\ pc \in {"check", "save"} \/ status = "written" => orig # NoText /\ new # NoText
        /\ status = "failed" /\ orig # NoText => new = NoText
        /\ status # "written" /\ ~meddled => fs = before
        /\ status = "written" =>
               /\ fs[Target.path] = File(new)
               /\ ~meddled => /\ DOMAIN fs = DOMAIN before \union {Target.path}
                              /\ \A p \in DOMAIN before : p # Target.path => fs[p] = before[p]

\* An edit goes on from what it finds to be no directory and small enough.
LEMMA EditStarts ==
    ASSUME FilesAssumption, EditInv, EditStart
    PROVE  EditInv'
  <1>1. /\ fs' = fs /\ before' = before /\ meddled' = meddled /\ req' = req
        /\ orig' = orig /\ new' = new /\ Target' = Target
        /\ pc = "start" /\ req.tool = "edit"
    BY DEF EditStart, tree, text, Target, Path
  <1>2. Called /\ WellMade(fs) /\ orig = NoText /\ status = "none" /\ (~meddled => fs = before)
    BY <1>1 DEF EditInv
  <1>3. \/ pc' = "done" /\ status' \in {"failed", "denied"}
        \/ /\ pc' = "read" /\ status' = status
           /\ Target.err = "ok" /\ fs[Target.path].kind # "dir"
    <2>1. ResolveUnder(fs, req.path, TRUE) \in {"ok", "denied", "noparent"}
      BY DEF ResolveUnder, SymlinkSafe
    <2> QED
      BY <2>1 DEF EditStart, End, Refused
  <1>4. pc' = "read" => Regular
    <2>1. Path \in Seq(Name)
      BY <1>1, <1>2, CallTyped
    <2>2. Arrived(fs, Target)
      BY <1>2, <2>1, RealArrived DEF Target
    <2> QED
      BY <1>2, <1>3, <2>2 DEF Arrived, Regular, IsA, WellMade
  <1> QED
    BY <1>1, <1>2, <1>3, <1>4 DEF EditInv, Called, Regular

\* It reads the file that is there.
LEMMA EditReads ==
    ASSUME FilesAssumption, EditInv, EditRead, req.tool = "edit"
    PROVE  EditInv'
  <1>1. /\ fs' = fs /\ before' = before /\ meddled' = meddled /\ req' = req
        /\ Target' = Target /\ pc = "read"
        /\ orig' = fs[Target.path].text
        /\ new' = ApplyHunk(fs[Target.path].text, req.search, req.replace)
    BY DEF EditRead, tree, Target, Path
  <1>2. Called /\ WellMade(fs) /\ Regular /\ status = "none" /\ (~meddled => fs = before)
    BY <1>1 DEF EditInv
  <1>3. \/ new' = NoText /\ pc' = "done" /\ status' = "failed"
        \/ new' # NoText /\ pc' \in {"check", "save"} /\ status' = status
    BY DEF EditRead, End
  <1>4. orig' \in Seq(Char) /\ fs[Target.path] = File(orig')
    BY <1>1, <1>2 DEF Regular, IsA, WellMade
  <1>5. orig' # NoText
    BY <1>4, Written
  <1>6. Hunked'
    BY <1>1, <1>2, <1>4 DEF Hunked
  <1> QED
    BY <1>1, <1>2, <1>3, <1>5, <1>6 DEF EditInv, Called, Regular

\* The save always finds the file, and puts the spliced text there.
LEMMA EditSaves ==
    ASSUME FilesAssumption, EditInv, Save, req.tool = "edit"
    PROVE  EditInv'
  <1>1. /\ before' = before /\ meddled' = meddled /\ req' = req /\ orig' = orig /\ new' = new
        /\ Path' = Path /\ pc = "save"
    BY DEF Save, text, Path
  <1>2. /\ Called /\ WellMade(fs) /\ Regular /\ status = "none" /\ (~meddled => fs = before)
        /\ orig # NoText /\ Hunked /\ new # NoText
    BY <1>1 DEF EditInv
  <1>3. Path \in Seq(Name) /\ req.search \in Seq(Char) /\ req.replace \in Seq(Char)
    BY <1>2, CallTyped
  <1>4. new \in Seq(Char)
    BY <1>2, <1>3, HunkApplied DEF Hunked
  <1>5. fs' = Put(fs, Target.path, File(new)) /\ pc' = "done" /\ status' = "written"
    BY <1>2 DEF Save, Regular, IsA, End
  <1>6. Real(fs, Path).err \in {"ok", "new"} /\ ~IsA(fs, Real(fs, Path).path, "dir")
    BY <1>2 DEF Regular, IsA, Target
  <1>7. /\ WellMade(fs') /\ Target'.err = "ok" /\ Target'.path = Target.path
        /\ Target.path \in DOMAIN fs' /\ fs'[Target.path] = File(new)
        /\ DOMAIN fs' = DOMAIN fs \union {Target.path}
        /\ \A p \in DOMAIN fs : p # Target.path => fs'[p] = fs[p]
    <2>1. Holds(fs, Path, new, Put(fs, Real(fs, Path).path, File(new)))
      BY <1>2, <1>3, <1>4, <1>6, RealPut
    <2>2. Holds(fs, Path, new, fs') /\ Target' = Real(fs', Path) /\ Target = Real(fs, Path)
      BY <1>1, <1>5, <2>1 DEF Target
    <2> QED
      BY <2>2 DEF Holds
  <1>8. Regular'
    BY <1>7 DEF Regular, IsA, File
  <1>9. Hunked'
    BY <1>1, <1>2, <1>7 DEF Hunked
  <1>10. ~meddled => /\ DOMAIN fs' = DOMAIN before \union {Target.path}
                     /\ \A p \in DOMAIN before : p # Target.path => fs'[p] = before[p]
    BY <1>2, <1>7
  <1> QED
    BY <1>1, <1>2, <1>5, <1>7, <1>8, <1>9, <1>10 DEF EditInv, Called

\* What the other process writes stays where it was, and is a regular file.
LEMMA EditMeddled ==
    ASSUME FilesAssumption, EditInv, Meddle, req.tool = "edit"
    PROVE  EditInv'
  <1>1. /\ before' = before /\ req' = req /\ orig' = orig /\ new' = new /\ pc' = pc
        /\ status' = status /\ Path' = Path /\ pc # "done" /\ meddled'
        /\ fs' = Put(fs, Target.path, File(Foreign))
        /\ Target.err \in {"ok", "new"} /\ ~IsA(fs, Target.path, "dir")
    BY DEF Meddle, text, Path
  <1>2. Called /\ WellMade(fs) /\ status = "none"
    BY <1>1 DEF EditInv
  <1>3. Path \in Seq(Name) /\ Foreign \in Seq(Char)
    BY <1>2, CallTyped
  <1>4. Real(fs, Path).err \in {"ok", "new"} /\ ~IsA(fs, Real(fs, Path).path, "dir")
    BY <1>1 DEF Target
  <1>5. /\ WellMade(fs') /\ Target'.err = "ok" /\ Target'.path = Target.path
        /\ Target.path \in DOMAIN fs' /\ fs'[Target.path] = File(Foreign)
    <2>1. Holds(fs, Path, Foreign, Put(fs, Real(fs, Path).path, File(Foreign)))
      BY <1>2, <1>3, <1>4, RealPut
    <2>2. Holds(fs, Path, Foreign, fs') /\ Target' = Real(fs', Path) /\ Target = Real(fs, Path)
      BY <1>1, <2>1 DEF Target
    <2> QED
      BY <2>2 DEF Holds
  <1>6. Regular'
    BY <1>5 DEF Regular, IsA, File
  <1>7. orig # NoText => Hunked'
    BY <1>1 DEF EditInv, Hunked
  <1> QED
    BY <1>1, <1>2, <1>5, <1>6, <1>7 DEF EditInv, Called

\* Every step keeps what is known of an edit.
LEMMA EditSteps ==
    ASSUME FilesAssumption, EditInv, [Next]_vars
    PROVE  EditInv'
  <1>1. before' = before /\ req' = req
    BY DEF Next, vars, WriteStart, CreateLevel, ResolveAgain, WriteLook, Check, Save, EditStart,
           EditRead, ViewWhole, ViewNext, Search, ExecStart, Drain, Exit, Meddle, tree
  <1>2. \/ req.tool # "edit"
        \/ EditStart \/ EditRead \/ Check \/ Save \/ Meddle
        \/ UNCHANGED vars
    BY DEF EditInv, Next, WriteStart, CreateLevel, ResolveAgain, WriteLook, ViewWhole, ViewNext,
           Search, ExecStart, Drain, Exit
  <1>3. CASE req.tool # "edit"
    BY <1>1, <1>3 DEF EditInv, Called
  <1>4. CASE Check
    <2>1. /\ fs' = fs /\ meddled' = meddled /\ orig' = orig /\ new' = new
          /\ Target' = Target /\ Regular' = Regular /\ Hunked' = Hunked /\ pc = "check"
          /\ (pc' = "save" /\ status' = status) \/ (pc' = "done" /\ status' = "vetoed")
      BY <1>1, <1>4 DEF Check, End, tree, text, Target, Path, Regular, Hunked
    <2> QED
      BY <1>1, <2>1 DEF EditInv, Called
  <1>5. CASE UNCHANGED vars
    <2>1. Target' = Target /\ Regular' = Regular /\ Hunked' = Hunked
      BY <1>5 DEF vars, Target, Path, Regular, Hunked
    <2> QED
      BY <1>5, <2>1 DEF EditInv, Called, vars
  <1> QED
    BY <1>2, <1>3, <1>4, <1>5, EditStarts, EditReads, EditSaves, EditMeddled

\* An edit replaces the one span its search can mean, exactly or up to whitespace, and touches
\* nothing else; it is made whenever there is just one: for every text, search and replacement,
\* every file system and path, and every instant at which another process writes the same file.
THEOREM EditOneSpanAlways == Spec => []EditOneSpan
  <1>1. Init => EditInv
    <2> SUFFICES ASSUME Init PROVE EditInv
      OBVIOUS
    <2>1. /\ fs = before /\ pc = "start" /\ status = "none" /\ orig = NoText /\ ~meddled
          /\ Called
      BY DEF Init, Called
    <2>2. req.tool = "edit" => WellMade(fs)
      BY <2>1, FilesAssumption, CallTyped
    <2> QED
      BY <2>1, <2>2 DEF EditInv
  <1>2. EditInv /\ [Next]_vars => EditInv'
    BY FilesAssumption, EditSteps
  <1>3. EditInv => EditOneSpan
    <2> SUFFICES ASSUME EditInv, pc = "done", req.tool = "edit" PROVE EditOneSpan
      BY DEF EditOneSpan
    <2>1. req.search \in Seq(Char) /\ req.replace \in Seq(Char)
      BY FilesAssumption, CallTyped DEF EditInv
    <2>2. status = "written" =>
              /\ fs[Target.path] = File(new)
              /\ \E c \in Spans(orig, req.search) :
                     /\ new = Splice(orig, c[1], c[2], req.replace)
                     /\ \A d \in Spans(orig, req.search) : d # c => ~Apart(c, d)
      BY <2>1, HunkApplied DEF EditInv, Hunked
    <2>3. status = "failed" /\ orig # NoText => Cardinality(Spans(orig, req.search)) # 1
      BY <2>1, HunkApplied DEF EditInv, Hunked
    <2>4. ~meddled => Untouched
      <3>1. CASE status # "written"
        BY <3>1 DEF EditInv, Untouched, Files, Same
      <3>2. CASE status = "written"
        <4> SUFFICES ASSUME ~meddled, NEW p \in Files(before) \union Files(fs), p # Target.path
                     PROVE  Same(fs, before, p)
          BY <3>2 DEF Untouched
        <4>1. /\ DOMAIN fs = DOMAIN before \union {Target.path}
              /\ \A q \in DOMAIN before : q # Target.path => fs[q] = before[q]
          BY <3>2 DEF EditInv
        <4> QED
          BY <4>1 DEF Same, Files
      <3> QED
        BY <3>1, <3>2
    <2>5. ~meddled /\ orig # NoText => before[Target.path] = File(orig)
      BY DEF EditInv, Hunked
    <2> QED
      BY <2>2, <2>3, <2>4, <2>5 DEF EditOneSpan
  <1> QED
    BY <1>1, <1>2, <1>3, PTL DEF Spec

-----------------------------------------------------------------------------
(* Words.  A command that spells its words is read word by word, each by   *)
(* its own kind.                                                           *)

\* The body of a quoted word, part by part.
LEMMA QuotedBody ==
    ASSUME NEW word \in Seq(Char), NEW style \in Marks
    PROVE  \E body :
               /\ Quoted(word, style) = <<style>> \o body[Len(word)] \o <<style>>
               /\ body[0] = <<>>
               /\ \A k \in 1..Len(word) : body[k] = body[k - 1] \o Shown(word[k], style)
               /\ \A k \in 0..Len(word) : body[k] \in Seq(Alphabet)
  <1> DEFINE n == Len(word)
             h == [k \in 1..n |-> Shown(word[k], style)]
             Body(g) == g = [k \in 0..n |->
                                 IF k = 0 THEN <<>>
                                 ELSE g[k - 1] \o IF word[k] \in {"\\", style}
                                                  THEN <<"\\", word[k]>> ELSE <<word[k]>>]
             body == CHOOSE g : Body(g)
  <1>1. n \in Nat
    BY LenProperties
  <1>2. h \in [1..n -> Seq(Alphabet)]
    <2>1. ASSUME NEW k \in 1..n PROVE Shown(word[k], style) \in Seq(Alphabet)
      <3>1. word[k] \in STRING
        BY ElementOfSeq DEF Char
      <3> QED
        BY <3>1, ShownText
    <2> QED
      BY <2>1
  <1>3. ASSUME NEW g PROVE Chain(g, h, n) => Body(g)
    <2>1. \A k \in 0..n : k # 0 => k \in 1..n
      BY <1>1
    <2>2. [k \in 0..n |-> IF k = 0 THEN <<>> ELSE g[k - 1] \o h[k]]
          = [k \in 0..n |-> IF k = 0 THEN <<>>
                            ELSE g[k - 1] \o IF word[k] \in {"\\", style}
                                             THEN <<"\\", word[k]>> ELSE <<word[k]>>]
      BY <2>1 DEF Shown, Bar
    <2> QED
      BY <2>2 DEF Chain
  <1>4. ASSUME NEW g PROVE Body(g) => Chain(g, h, n)
    <2>1. \A k \in 0..n : k # 0 => k \in 1..n
      BY <1>1
    <2>2. [k \in 0..n |-> IF k = 0 THEN <<>> ELSE g[k - 1] \o h[k]]
          = [k \in 0..n |-> IF k = 0 THEN <<>>
                            ELSE g[k - 1] \o IF word[k] \in {"\\", style}
                                             THEN <<"\\", word[k]>> ELSE <<word[k]>>]
      BY <2>1 DEF Shown, Bar
    <2> QED
      BY <2>2 DEF Chain
  <1>5. style # "none"
    BY MarksApart
  <1>6. Quoted(word, style) = <<style>> \o body[n] \o <<style>>
    BY <1>5 DEF Quoted
  <1>7. \A k \in 1..n : h[k] = Shown(word[k], style)
    OBVIOUS
  <1>8. \E g : Body(g)
    <2> HIDE DEF h, Body
    <2> QED
      BY <1>1, <1>2, <1>3, ChainThere
  <1>9. Body(body)
    <2> HIDE DEF Body
    <2> QED
      BY <1>8
  <1> HIDE DEF h, Body, body, n
  <1>10. /\ body[0] = <<>>
         /\ \A k \in 1..n : body[k] = body[k - 1] \o h[k]
         /\ \A k \in 0..n : body[k] \in Seq(Alphabet)
    <2>1. \A k \in 1..n : h[k] \in Seq(Alphabet)
      BY <1>2
    <2> QED
      BY <1>1, <1>4, <1>9, <2>1, ChainLinks
  <1>11. \A k \in 1..n : body[k] = body[k - 1] \o Shown(word[k], style)
    BY <1>7, <1>10
  <1> QED
    BY <1>6, <1>10, <1>11 DEF n


\* The first part and the last.
LEMMA PartWhole ==
    ASSUME NEW S, NEW t \in Seq(S)
    PROVE  SubSeq(t, 1, 0) = <<>> /\ SubSeq(t, 1, Len(t)) = t
  <1>1. Len(t) \in Nat /\ \A i \in 1..Len(t) : t[i] \in S
    BY LenProperties, ElementOfSeq
  <1>2. SubSeq(t, 1, 0) \in Seq(S) /\ Len(SubSeq(t, 1, 0)) = 0
    BY SubSeqProperties
  <1>3. SubSeq(t, 1, 0) = <<>>
    BY <1>2, EmptySeq
  <1>4. SubSeq(t, 1, Len(t)) \in Seq(S) /\ Len(SubSeq(t, 1, Len(t))) = Len(t)
        /\ \A i \in 1..Len(t) : SubSeq(t, 1, Len(t))[i] = t[i]
    BY <1>1, SubSeqProperties
  <1>5. SubSeq(t, 1, Len(t)) = t
    BY <1>4, SeqEqual
  <1> QED
    BY <1>3, <1>5

\* A quoted word is read as it is.
LEMMA QuotedReads ==
    ASSUME NEW s, NEW W, At(s, W, <<>>, "none"),
           NEW word \in Seq(Char), NEW style \in Marks
    PROVE  /\ Quoted(word, style) \in Seq(Alphabet)
           /\ \E u : Reads(s, Quoted(word, style), u) /\ At(u, W, word, "none")
  <1> DEFINE n == Len(word)
             v == ReadChar(s, style)
             part(k) == SubSeq(word, 1, k)
  <1>1. n \in Nat /\ style \in Alphabet /\ style # "none" /\ style # Bar
    BY LenProperties, MarksApart DEF Alphabet
  <1>2. PICK body :
            /\ Quoted(word, style) = <<style>> \o body[n] \o <<style>>
            /\ body[0] = <<>>
            /\ \A k \in 1..n : body[k] = body[k - 1] \o Shown(word[k], style)
            /\ \A k \in 0..n : body[k] \in Seq(Alphabet)
    BY QuotedBody
  <1>3. Reads(s, <<style>>, v)
    BY ReadsChar
  <1>4. At(v, W, <<>>, style)
    BY QuoteChar
  <1>5. part(0) = <<>> /\ part(n) = word
    BY PartWhole
  <1>6. ASSUME NEW k \in Nat, k + 1 <= n
        PROVE  word[k + 1] \in Char /\ part(k + 1) = Append(part(k), word[k + 1])
    BY <1>6, PartGrows
  <1> HIDE DEF part, v, n
  <1> DEFINE Led(k) == \E u : Reads(v, body[k], u) /\ At(u, W, part(k), style)
             D == {k \in Nat : k <= n => Led(k)}
  <1>7. 0 \in D
    <2>1. Reads(v, body[0], v) /\ At(v, W, part(0), style)
      BY <1>2, <1>4, <1>5, ReadsNone
    <2> QED
      BY <2>1
  <1>8. ASSUME NEW k \in Nat, k \in D PROVE k + 1 \in D
    <2> SUFFICES ASSUME k + 1 <= n
                 PROVE  Led(k + 1)
      <3> HIDE DEF Led
      <3> QED
        OBVIOUS
    <2> DEFINE c == word[k + 1]
    <2>1. k + 1 \in 1..n /\ (k + 1) - 1 = k /\ k \in 0..n /\ k <= n
      BY <1>1
    <2>2. PICK u : Reads(v, body[k], u) /\ At(u, W, part(k), style)
      <3>1. Led(k)
        <4> HIDE DEF Led
        <4> QED
          BY <1>8, <2>1
      <3> QED
        BY <3>1
    <2>3. c \in Char /\ part(k + 1) = Append(part(k), c)
      BY <1>6
    <2>4. body[k + 1] = body[k] \o Shown(c, style) /\ body[k] \in Seq(Alphabet)
      BY <1>2, <2>1
    <2> HIDE DEF c
    <2>5. Shown(c, style) \in Seq(Alphabet)
      BY <2>3, ShownText DEF Char
    <2>6. PICK t : Reads(u, Shown(c, style), t) /\ At(t, W, Append(part(k), c), style)
      <3>1. CASE c \in {Bar, style}
        <4>1. \E t : Reads(u, <<Bar, c>>, t) /\ At(t, W, Append(part(k), c), style)
          BY <1>1, <2>2, EscapedChar
        <4> QED
          BY <3>1, <4>1 DEF Shown
      <3>2. CASE c \notin {Bar, style}
        <4>1. At(ReadChar(u, c), W, Append(part(k), c), style)
          BY <1>1, <2>2, <3>2, PlainChar
        <4>2. Reads(u, <<c>>, ReadChar(u, c))
          BY ReadsChar
        <4> QED
          BY <3>2, <4>1, <4>2 DEF Shown
      <3> QED
        BY <3>1, <3>2
    <2>7. Reads(v, body[k] \o Shown(c, style), t)
      BY <2>2, <2>4, <2>5, <2>6, ReadsOn
    <2> QED
      BY <2>3, <2>4, <2>6, <2>7
  <1>9. n \in D
    <2> HIDE DEF D, Led
    <2> QED
      BY <1>1, <1>7, <1>8, SetInduction
  <1>10. PICK u : Reads(v, body[n], u) /\ At(u, W, word, style)
    BY <1>1, <1>5, <1>9
  <1> DEFINE z == ReadChar(u, style)
  <1>11. Reads(u, <<style>>, z) /\ At(z, W, word, "none")
    BY <1>10, QuoteChar, ReadsChar
  <1> HIDE DEF z
  <1>12. <<style>> \in Seq(Alphabet) /\ body[n] \in Seq(Alphabet)
    BY <1>1, <1>2
  <1>13. Reads(s, <<style>> \o body[n], u) /\ <<style>> \o body[n] \in Seq(Alphabet)
    BY <1>3, <1>10, <1>12, ReadsOn, ConcatProperties
  <1>14. Reads(s, (<<style>> \o body[n]) \o <<style>>, z)
         /\ (<<style>> \o body[n]) \o <<style>> \in Seq(Alphabet)
    BY <1>11, <1>12, <1>13, ReadsOn, ConcatProperties
  <1> QED
    BY <1>2, <1>11, <1>14

\* A word that needs no quotes too.
LEMMA PlainReads ==
    ASSUME NEW s, NEW W, At(s, W, <<>>, "none"),
           NEW word \in Seq(Char),
           \A k \in DOMAIN word : word[k] \notin Marks \union Blanks \union {Bar}
    PROVE  \E u : Reads(s, word, u) /\ At(u, W, word, "none")
  <1> DEFINE n == Len(word)
             part(k) == SubSeq(word, 1, k)
  <1>1. n \in Nat /\ DOMAIN word = 1..n
    BY LenProperties
  <1>5. part(0) = <<>> /\ part(n) = word
    BY PartWhole
  <1>6. ASSUME NEW k \in Nat, k + 1 <= n
        PROVE  /\ word[k + 1] \in Char /\ part(k) \in Seq(Char)
               /\ part(k + 1) = Append(part(k), word[k + 1])
    BY <1>6, PartGrows
  <1> HIDE DEF part, n
  <1> DEFINE Led(k) == \E u : Reads(s, part(k), u) /\ At(u, W, part(k), "none")
             D == {k \in Nat : k <= n => Led(k)}
  <1>7. 0 \in D
    <2>1. Reads(s, part(0), s) /\ At(s, W, part(0), "none")
      BY <1>5, ReadsNone
    <2> QED
      BY <2>1
  <1>8. ASSUME NEW k \in Nat, k \in D PROVE k + 1 \in D
    <2> SUFFICES ASSUME k + 1 <= n
                 PROVE  Led(k + 1)
      <3> HIDE DEF Led
      <3> QED
        OBVIOUS
    <2> DEFINE c == word[k + 1]
    <2>1. k + 1 \in DOMAIN word /\ k <= n
      BY <1>1
    <2>2. PICK u : Reads(s, part(k), u) /\ At(u, W, part(k), "none")
      <3>1. Led(k)
        <4> HIDE DEF Led
        <4> QED
          BY <1>8, <2>1
      <3> QED
        BY <3>1
    <2>3. /\ c \in Char /\ part(k) \in Seq(Char)
          /\ part(k + 1) = Append(part(k), c)
      BY <1>6
    <2>4. c \notin Marks \union Blanks \union {Bar}
      BY <2>1
    <2> HIDE DEF c
    <2>5. c # "none" /\ c # Bar /\ c \notin Marks \union Blanks
      BY <2>3, <2>4 DEF Char
    <2>6. At(ReadChar(u, c), W, Append(part(k), c), "none")
      BY <2>2, <2>5, PlainChar
    <2>7. Append(part(k), c) = part(k) \o <<c>> /\ <<c>> \in Seq(Char)
      BY <2>3, AppendIsConcat
    <2>8. Reads(u, <<c>>, ReadChar(u, c))
      BY ReadsChar
    <2>9. Reads(s, part(k) \o <<c>>, ReadChar(u, c))
      BY <2>2, <2>3, <2>7, <2>8, ReadsOn
    <2> QED
      BY <2>3, <2>6, <2>7, <2>9
  <1>9. n \in D
    <2> HIDE DEF D, Led
    <2> QED
      BY <1>1, <1>7, <1>8, SetInduction
  <1> QED
    BY <1>1, <1>5, <1>9

\* Whitespace between words, as much as there is.
LEMMA GapReads ==
    ASSUME NEW s, NEW W, NEW w, At(s, W, w, "none"), w # <<>>,
           NEW gap \in Seq(Blanks), gap # <<>>
    PROVE  \E u : Reads(s, gap, u) /\ Free(u, Append(W, w))
  <1> DEFINE n == Len(gap)
             part(k) == SubSeq(gap, 1, k)
  <1>1. n \in Nat /\ n # 0
    BY EmptySeq, LenProperties
  <1>5. part(0) = <<>> /\ part(n) = gap
    BY PartWhole
  <1>6. ASSUME NEW k \in Nat, k + 1 <= n
        PROVE  /\ gap[k + 1] \in Blanks /\ part(k) \in Seq(Blanks)
               /\ part(k + 1) = Append(part(k), gap[k + 1])
    BY <1>6, PartGrows
  <1> HIDE DEF part, n
  <1> DEFINE After(k, u) == IF k = 0 THEN u = s ELSE Free(u, Append(W, w))
             Led(k) == \E u : Reads(s, part(k), u) /\ After(k, u)
             D == {k \in Nat : k <= n => Led(k)}
  <1>7. 0 \in D
    <2>1. Reads(s, part(0), s) /\ After(0, s)
      BY <1>5, ReadsNone
    <2> QED
      BY <2>1
  <1>8. ASSUME NEW k \in Nat, k \in D PROVE k + 1 \in D
    <2> SUFFICES ASSUME k + 1 <= n
                 PROVE  Led(k + 1)
      <3> HIDE DEF Led
      <3> QED
        OBVIOUS
    <2> DEFINE c == gap[k + 1]
    <2>1. k <= n /\ k + 1 # 0
      BY <1>1
    <2>2. PICK u : Reads(s, part(k), u) /\ After(k, u)
      <3>1. Led(k)
        <4> HIDE DEF Led
        <4> QED
          BY <1>8, <2>1
      <3> QED
        BY <3>1
    <2>3. /\ c \in Blanks /\ part(k) \in Seq(Blanks)
          /\ part(k + 1) = Append(part(k), c)
      BY <1>6
    <2> HIDE DEF c
    <2>4. u.quote = "none" /\ u.escaped = FALSE /\ Free(CutWord(u), Append(W, w))
      <3>1. CASE k = 0
        BY <2>2, <3>1, AtFields, WordCut
      <3>2. CASE k # 0
        <4>1. Free(u, Append(W, w))
          BY <2>2, <3>2
        <4>2. Free(CutWord(u), Append(W, w))
          BY <4>1, WordCut
        <4>3. u.quote = "none" /\ u.escaped = FALSE
          BY <4>1, Zenon DEF Free, Is
        <4> QED
          BY <4>2, <4>3
      <3> QED
        BY <3>1, <3>2
    <2>5. ReadChar(u, c) = CutWord(u)
      BY <2>3, <2>4, BlankChar
    <2>7. Append(part(k), c) = part(k) \o <<c>> /\ <<c>> \in Seq(Blanks)
      BY <2>3, AppendIsConcat
    <2>8. Reads(u, <<c>>, ReadChar(u, c))
      BY ReadsChar
    <2>9. Reads(s, part(k) \o <<c>>, ReadChar(u, c))
      BY <2>2, <2>3, <2>7, <2>8, ReadsOn
    <2> QED
      BY <2>1, <2>3, <2>4, <2>5, <2>7, <2>9
  <1>9. n \in D
    <2> HIDE DEF D, Led
    <2> QED
      BY <1>1, <1>7, <1>8, SetInduction
  <1> QED
    BY <1>1, <1>5, <1>9

\* A sequence over a set is one over a larger set.
LEMMA SeqWider ==
    ASSUME NEW S, NEW T, S \subseteq T, NEW t \in Seq(S)
    PROVE  t \in Seq(T)
  <1>1. Len(t) \in Nat /\ t \in [1..Len(t) -> S]
    BY LenProperties
  <1>2. t \in [1..Len(t) -> T]
    BY <1>1
  <1> QED
    BY <1>1, <1>2

\* A word in its style.
Fair(word, style) ==
    \/ style \in Marks
    \/ style = "none" /\ \A k \in DOMAIN word : word[k] \notin Marks \union Blanks \union {Bar}

\* A spelled word is read as itself, whatever its style.
LEMMA WordReads ==
    ASSUME NEW s, NEW W, At(s, W, <<>>, "none"), NEW word \in Seq(Char), NEW style,
           Fair(word, style)
    PROVE  /\ Quoted(word, style) \in Seq(Alphabet)
           /\ \E u : Reads(s, Quoted(word, style), u) /\ At(u, W, word, "none")
  <1>1. CASE style \in Marks
    BY <1>1, QuotedReads
  <1>2. CASE style \notin Marks
    <2>1. style = "none" /\ \A k \in DOMAIN word : word[k] \notin Marks \union Blanks \union {Bar}
      BY <1>2 DEF Fair
    <2>2. Quoted(word, style) = word
      BY <2>1, Zenon DEF Quoted
    <2>3. \E u : Reads(s, word, u) /\ At(u, W, word, "none")
      BY <2>1, PlainReads
    <2>4. word \in Seq(Alphabet)
      <3>1. Char \subseteq Alphabet
        BY DEF Char, Alphabet
      <3> QED
        BY <3>1, SeqWider
    <2> QED
      BY <2>2, <2>3, <2>4
  <1> QED
    BY <1>1, <1>2

\* Words in their styles, with gaps between them.
Spelling(upto, words, styles, gap) ==
    /\ Spelled(words, styles, gap) = upto[Len(words)]
    /\ upto[0] = <<>>
    /\ \A k \in 1..Len(words) :
           upto[k] = upto[k - 1] \o ((IF k = 1 THEN <<>> ELSE gap) \o Quoted(words[k], styles[k]))
    /\ \A k \in 0..Len(words) : upto[k] \in Seq(Alphabet)

\* A command, word by word.
LEMMA SpelledBody ==
    ASSUME NEW words \in Seq(Seq(Char)), NEW styles, NEW gap \in Seq(Blanks),
           \A k \in 1..Len(words) : Quoted(words[k], styles[k]) \in Seq(Alphabet)
    PROVE  \E upto : Spelling(upto, words, styles, gap)
  <1> DEFINE n == Len(words)
             piece(k) == (IF k = 1 THEN <<>> ELSE gap) \o Quoted(words[k], styles[k])
             h == [k \in 1..n |-> piece(k)]
             Body(g) == g = [k \in 0..n |-> IF k = 0 THEN <<>> ELSE g[k - 1] \o piece(k)]
             upto == CHOOSE g : Body(g)
  <1>1. n \in Nat
    BY LenProperties
  <1>2. gap \in Seq(Alphabet)
    <2>1. Blanks \subseteq Alphabet
      BY DEF Alphabet
    <2> QED
      BY <2>1, SeqWider
  <1>3. ASSUME NEW k \in 1..n PROVE piece(k) \in Seq(Alphabet)
    <2>1. (IF k = 1 THEN <<>> ELSE gap) \in Seq(Alphabet)
      BY <1>2, EmptySeq
    <2> QED
      BY <2>1, ConcatProperties
  <1>4. Spelled(words, styles, gap) = upto[n]
    BY DEF Spelled
  <1> HIDE DEF piece, n
  <1>5. h \in [1..n -> Seq(Alphabet)] /\ \A k \in 1..n : h[k] = piece(k)
    BY <1>3
  <1> HIDE DEF h
  <1>6. [k \in 0..n |-> IF k = 0 THEN <<>> ELSE upto[k - 1] \o h[k]]
        = [k \in 0..n |-> IF k = 0 THEN <<>> ELSE upto[k - 1] \o piece(k)]
    <2> HIDE DEF upto
    <2>1. \A k \in 0..n : k # 0 => k \in 1..n
      BY <1>1
    <2> QED
      BY <1>5, <2>1
  <1>7. Body(upto)
    <2>1. PICK g : Chain(g, h, n)
      BY <1>1, <1>5, ChainThere
    <2>2. [k \in 0..n |-> IF k = 0 THEN <<>> ELSE g[k - 1] \o h[k]]
          = [k \in 0..n |-> IF k = 0 THEN <<>> ELSE g[k - 1] \o piece(k)]
      <3>1. \A k \in 0..n : k # 0 => k \in 1..n
        BY <1>1
      <3> QED
        BY <1>5, <3>1
    <2>3. Body(g)
      BY <2>1, <2>2 DEF Chain
    <2> HIDE DEF Body
    <2> QED
      BY <2>3
  <1>8. Chain(upto, h, n)
    <2> HIDE DEF upto
    <2> QED
      BY <1>6, <1>7 DEF Chain
  <1> HIDE DEF upto, Body
  <1>9. /\ upto[0] = <<>>
        /\ \A k \in 1..n : upto[k] = upto[k - 1] \o h[k]
        /\ \A k \in 0..n : upto[k] \in Seq(Alphabet)
    <2>1. \A k \in 1..n : h[k] \in Seq(Alphabet)
      BY <1>5
    <2> QED
      BY <1>1, <1>8, <2>1, ChainLinks
  <1>10. \A k \in 1..n : upto[k] = upto[k - 1] \o piece(k)
    BY <1>5, <1>9
  <1> QED
    BY <1>4, <1>9, <1>10 DEF n, piece, Spelling

\* A command that spells words is read as these words.
LEMMA SpelledSplit ==
    ASSUME NEW words \in Seq(Seq(Char) \ {<<>>}), words # <<>>, NEW styles,
           \A k \in DOMAIN words : Fair(words[k], styles[k]),
           NEW gap \in Seq(Blanks), gap # <<>>
    PROVE  /\ SplitCmd(Spelled(words, styles, gap)) = words
           /\ SplitCmd(Spelled(words, styles, gap) \o gap) = words
  <1> DEFINE n == Len(words)
             part(k) == SubSeq(words, 1, k)
             quoted(k) == Quoted(words[k], styles[k])
  <1>1. n \in Nat /\ n # 0 /\ DOMAIN words = 1..n
    BY EmptySeq, LenProperties
  <1>2. \A k \in 1..n : words[k] \in Seq(Char) /\ words[k] # <<>> /\ Fair(words[k], styles[k])
    BY <1>1, ElementOfSeq
  <1>3. part(0) = <<>> /\ part(n) = words
    BY PartWhole
  <1>4. \A k \in Nat : k + 1 <= n => part(k + 1) = Append(part(k), words[k + 1])
    BY PartGrows
  <1>5. At(Outside, <<>>, <<>>, "none")
    <2>1. Is(Outside, <<>>, <<>>, "none", FALSE, FALSE)
      BY ReaderIs DEF Outside
    <2> QED
      BY <2>1, Zenon DEF At
  <1> HIDE DEF part
  <1>6. ASSUME NEW s, NEW W, At(s, W, <<>>, "none"), NEW k \in 1..n
        PROVE  /\ quoted(k) \in Seq(Alphabet)
               /\ \E u : Reads(s, quoted(k), u) /\ At(u, W, words[k], "none")
    BY <1>2, <1>6, WordReads
  <1>7. \A k \in 1..n : quoted(k) \in Seq(Alphabet)
    BY <1>5, <1>6
  <1>8. words \in Seq(Seq(Char)) /\ gap \in Seq(Alphabet)
    <2>1. Seq(Char) \ {<<>>} \subseteq Seq(Char) /\ Blanks \subseteq Alphabet
      BY DEF Alphabet
    <2> QED
      BY <2>1, SeqWider
  <1>9. PICK upto :
            /\ Spelled(words, styles, gap) = upto[n]
            /\ upto[0] = <<>>
            /\ \A k \in 1..n :
                   upto[k] = upto[k - 1] \o ((IF k = 1 THEN <<>> ELSE gap) \o quoted(k))
            /\ \A k \in 0..n : upto[k] \in Seq(Alphabet)
    <2>1. \A k \in 1..Len(words) : Quoted(words[k], styles[k]) \in Seq(Alphabet)
      BY <1>7
    <2>2. \E upto : Spelling(upto, words, styles, gap)
      BY <1>8, <2>1, SpelledBody
    <2> QED
      BY <2>2 DEF Spelling
  <1> HIDE DEF quoted
  <1> DEFINE Led(k) == \E u : Reads(Outside, upto[k], u) /\ At(u, part(k - 1), words[k], "none")
             D == {k \in Nat : k + 1 <= n => Led(k + 1)}
  <1>10. Led(1)
    <2>1. PICK u : Reads(Outside, quoted(1), u) /\ At(u, part(0), words[1], "none")
      BY <1>1, <1>3, <1>5, <1>6
    <2>2. upto[1] = <<>> \o (<<>> \o quoted(1)) /\ quoted(1) \in Seq(Alphabet)
      <3>1. 1 \in 1..n /\ 1 - 1 = 0
        BY <1>1
      <3> HIDE DEF n
      <3> QED
        BY <1>7, <1>9, <3>1
    <2>3. upto[1] = quoted(1)
      BY <2>2
    <2> QED
      BY <2>1, <2>3
  <1>11. ASSUME NEW k \in Nat, k + 2 <= n, Led(k + 1) PROVE Led(k + 2)
    <2> DEFINE i == k + 1
               j == k + 2
    <2>1. i \in 1..n /\ j \in 1..n /\ j # 1 /\ i \in 0..n /\ j - 1 = i /\ i - 1 = k
      BY <1>1, <1>11
    <2>2. PICK u : Reads(Outside, upto[i], u) /\ At(u, part(k), words[i], "none")
      BY <1>11, <2>1
    <2>3. part(i) = Append(part(k), words[i])
      BY <1>4, <2>1
    <2> HIDE DEF i, j
    <2>4. words[i] # <<>>
      BY <1>2, <2>1
    <2>5. PICK v : Reads(u, gap, v) /\ Free(v, part(i))
      BY <2>2, <2>3, <2>4, GapReads
    <2>6. At(v, part(i), <<>>, "none")
      BY <2>5, Zenon DEF At, Free
    <2>7. PICK t : Reads(v, quoted(j), t) /\ At(t, part(i), words[j], "none")
      BY <1>6, <2>1, <2>6
    <2>8. quoted(j) \in Seq(Alphabet) /\ upto[i] \in Seq(Alphabet)
      BY <1>7, <1>9, <2>1
    <2>9. upto[j] = upto[i] \o (gap \o quoted(j))
      BY <1>9, <2>1
    <2>10. Reads(u, gap \o quoted(j), t) /\ gap \o quoted(j) \in Seq(Alphabet)
      BY <1>8, <2>5, <2>7, <2>8, ReadsOn, ConcatProperties
    <2>11. Reads(Outside, upto[j], t)
      BY <2>2, <2>8, <2>9, <2>10, ReadsOn
    <2>12. Led(j)
      BY <2>1, <2>7, <2>11
    <2> HIDE DEF Led
    <2> QED
      BY <2>12 DEF j
  <1> HIDE DEF Led
  <1>12. 0 \in D
    BY <1>10
  <1>13. ASSUME NEW k \in Nat, k \in D PROVE k + 1 \in D
    <2>1. k + 1 + 1 = k + 2 /\ (k + 2 <= n => k + 1 <= n)
      BY <1>1
    <2> QED
      BY <1>11, <1>13, <2>1
  <1>14. Led(n)
    <2> DEFINE k == n - 1
    <2>1. k \in Nat /\ k + 1 = n /\ k + 1 <= n
      BY <1>1
    <2> HIDE DEF D, k
    <2>2. k \in D
      BY <1>12, <1>13, <2>1, SetInduction
    <2> QED
      BY <2>1, <2>2 DEF D
  <1> DEFINE k == n - 1
  <1>15. k \in Nat /\ k + 1 = n /\ k + 1 <= n /\ n \in 1..n /\ n \in 0..n
    BY <1>1
  <1>16. PICK u : Reads(Outside, upto[n], u) /\ At(u, part(k), words[n], "none")
    BY <1>14 DEF Led
  <1> HIDE DEF k, n
  <1>17. Append(part(k), words[n]) = words /\ words[n] # <<>> /\ upto[n] \in Seq(Alphabet)
    BY <1>2, <1>3, <1>4, <1>9, <1>15
  <1>18. SplitCmd(upto[n]) = words
    <2>1. Free(CutWord(u), words)
      <3>1. Free(CutWord(u), Append(part(k), words[n]))
        BY <1>16, <1>17, WordCut
      <3> QED
        BY <1>17, <3>1
    <2>2. CutWord(u).words = words
      BY <2>1, Zenon DEF Free, Is
    <2> QED
      BY <1>16, <1>17, <2>2, ReadsCommand
  <1>19. SplitCmd(upto[n] \o gap) = words
    <2>1. PICK v : Reads(u, gap, v) /\ Free(v, words)
      BY <1>16, <1>17, GapReads
    <2>2. Reads(Outside, upto[n] \o gap, v) /\ upto[n] \o gap \in Seq(Alphabet)
      BY <1>8, <1>16, <1>17, <2>1, ReadsOn, ConcatProperties
    <2>3. Free(CutWord(v), words)
      BY <2>1, WordCut
    <2>4. CutWord(v).words = words
      BY <2>3, Zenon DEF Free, Is
    <2> QED
      BY <2>2, <2>4, ReadsCommand
  <1> QED
    BY <1>9, <1>18, <1>19

\* What a call that says its words is read as.
LEMMA SpeltSplit ==
    ASSUME NEW r, Spelt(r), r.words # <<>>
    PROVE  SplitCmd(r.cmd) = r.words
  <1>1. /\ r.words \in Seq(Seq(Char) \ {<<>>})
        /\ r.gap \in Seq(Blanks) /\ r.gap # <<>>
        /\ r.cmd \in {Spelled(r.words, r.styles, r.gap), Spelled(r.words, r.styles, r.gap) \o r.gap}
    BY Zenon DEF Spelt, Blanks
  <1>2. ASSUME NEW k \in DOMAIN r.words PROVE Fair(r.words[k], r.styles[k])
    <2>1. \/ r.styles[k] \in Marks
          \/ /\ r.styles[k] = "none"
             /\ {r.words[k][i] : i \in DOMAIN r.words[k]} \intersect {" ", NL, "'", "\"", "\\"} = {}
      BY Zenon DEF Spelt, Marks
    <2>2. ASSUME {r.words[k][i] : i \in DOMAIN r.words[k]} \intersect {" ", NL, "'", "\"", "\\"} = {},
                 NEW i \in DOMAIN r.words[k]
          PROVE  r.words[k][i] \notin Marks \union Blanks \union {Bar}
      BY <2>2, Zenon DEF Marks, Blanks, Bar
    <2> QED
      BY <2>1, <2>2, Zenon DEF Fair
  <1>3. /\ SplitCmd(Spelled(r.words, r.styles, r.gap)) = r.words
        /\ SplitCmd(Spelled(r.words, r.styles, r.gap) \o r.gap) = r.words
    BY <1>1, <1>2, SpelledSplit
  <1> QED
    BY <1>1, <1>3

-----------------------------------------------------------------------------
(* Answers.  What is collected is the two ends of an output, with a mark   *)
(* between them where lines fell away.                                     *)

\* The collected lines: lines of the ends in their order, all of them; the last ones last.
Collects(s, o) ==
    /\ Len(s) \in Nat /\ DOMAIN s = 1..Len(s)
    /\ \A i \in 1..Len(s) :
           s[i] = Omission \/ (s[i].at \in Ends(o) /\ s[i] = o[s[i].at])
    /\ \A i, j \in 1..Len(s) :
           i < j /\ s[i] # Omission /\ s[j] # Omission => s[i].at < s[j].at
    /\ \A e \in Ends(o) : \E i \in 1..Len(s) : s[i] = o[e]
    /\ \A e \in LastOf(o) : \E i \in 1..Len(s) : i > Len(s) - TailLines /\ s[i] = o[e]

\* What an answer must tell of an output.
Told(a, o) ==
    LET said == {i \in DOMAIN a : a[i] # Omission}
        signals == SignalEnds(o)
        specific == SpecificEnds(o)
        told == {a[i].at : i \in said}
    IN  /\ \A i \in said : a[i] = o[a[i].at]
        /\ \A i, j \in said : i < j => a[i].at < a[j].at
        /\ Len(a) <= IF signals # {} THEN KeptCap ELSE TailLines
        /\ signals # {} => Max(signals) \in told
        /\ Cardinality(specific) < KeptCap => specific \subseteq told
        /\ signals = {} /\ (\E i \in LastOf(o) : o[i].class # "noise") => LastOf(o) \subseteq told

\* The omission is no signal and no line of an output.
LEMMA OmissionApart ==
    ASSUME NEW o, Numbered(o), NEW e \in 1..Len(o)
    PROVE  /\ o[e] # Omission /\ o[e].at = e /\ o[e].class \in Class
           /\ ~Signal(Omission)
  <1>1. o[e] \in Line /\ o[e].at = e /\ e \in Nat /\ e # 0
    <2>1. Len(o) \in Nat
      BY LenProperties DEF Numbered
    <2> QED
      BY <2>1, ElementOfSeq DEF Numbered
  <1>2. Omission.at = 0 /\ Omission.class = "plain"
    BY DEF Omission
  <1>3. o[e].class \in Class
    BY <1>1 DEF Line
  <1> HIDE DEF Omission
  <1>4. o[e] # Omission
    BY <1>1, <1>2
  <1>5. ~Signal(Omission)
    BY <1>2 DEF Signal
  <1> QED
    BY <1>1, <1>3, <1>4, <1>5

\* The signals among the collected lines are the signals of the ends.
LEMMA SignalsCollected ==
    ASSUME NEW o, Numbered(o), NEW s, Collects(s, o)
    PROVE  /\ \A i \in Signals(s) : s[i] # Omission /\ s[i].at \in SignalEnds(o) /\ s[i] = o[s[i].at]
           /\ \A e \in SignalEnds(o) : \E i \in Signals(s) : s[i] = o[e] /\ s[i].at = e
           /\ SignalEnds(o) # {} <=> Signals(s) # {}
           /\ SignalEnds(o) # {} => s[Max(Signals(s))].at = Max(SignalEnds(o))
  <1> DEFINE signals == SignalEnds(o)
             S == Signals(s)
  <1>1. ASSUME NEW i \in S
        PROVE  i \in 1..Len(s) /\ s[i] # Omission /\ s[i].at \in signals /\ s[i] = o[s[i].at]
    <2>1. i \in 1..Len(s) /\ Signal(s[i])
      BY DEF Signals, Collects
    <2>2. ASSUME s[i] = Omission PROVE FALSE
      <3>1. \A e \in Ends(o) : e \in 1..Len(o)
        BY DEF Ends
      <3>2. ~Signal(Omission)
        BY DEF Signal, Omission
      <3> QED
        BY <2>1, <2>2, <3>2
    <2>3. s[i].at \in Ends(o) /\ s[i] = o[s[i].at]
      BY <2>1, <2>2 DEF Collects
    <2> QED
      BY <2>1, <2>2, <2>3 DEF SignalEnds
  <1>2. ASSUME NEW e \in signals PROVE \E i \in S : s[i] = o[e] /\ s[i].at = e
    <2>1. e \in Ends(o) /\ e \in 1..Len(o) /\ Signal(o[e])
      BY DEF Ends, SignalEnds
    <2>2. PICK i \in 1..Len(s) : s[i] = o[e]
      BY <2>1 DEF Collects
    <2>3. o[e].at = e
      BY <2>1, OmissionApart
    <2>4. i \in S
      BY <2>1, <2>2 DEF Signals, Collects
    <2> QED
      BY <2>2, <2>3, <2>4
  <1>3. Len(o) \in Nat /\ Len(s) \in Nat
    BY LenProperties DEF Numbered, Collects
  <1>4. signals \in SUBSET (1..Len(o)) /\ S \in SUBSET (1..Len(s))
    BY DEF Ends, Signals, Collects, SignalEnds
  <1> HIDE DEF signals, S
  <1>5. signals # {} <=> S # {}
    BY <1>1, <1>2
  <1>6. ASSUME signals # {} PROVE s[Max(S)].at = Max(signals)
    <2> DEFINE z == Max(S)
               y == Max(signals)
    <2>1. z \in S /\ \A i \in S : i <= z
      BY <1>3, <1>4, <1>5, <1>6, LastPosition
    <2>2. y \in signals /\ \A e \in signals : e <= y
      BY <1>3, <1>4, <1>6, LastPosition
    <2> HIDE DEF z, y
    <2>3. PICK i \in S : s[i].at = y
      BY <1>2, <2>2
    <2>4. /\ i <= z /\ i \in 1..Len(s) /\ z \in 1..Len(s)
          /\ s[i] # Omission /\ s[z] # Omission /\ s[z].at \in signals
      BY <1>1, <2>1, <2>3
    <2>5. i < z => s[i].at < s[z].at
      BY <2>4 DEF Collects
    <2>6. s[z].at <= y /\ s[z].at \in Nat /\ y \in Nat /\ i \in Nat /\ z \in Nat
      BY <1>3, <1>4, <2>2, <2>4
    <2>7. s[z].at = y
      BY <2>3, <2>4, <2>5, <2>6
    <2> QED
      BY <2>7 DEF z, y
  <1> QED
    BY <1>1, <1>2, <1>5, <1>6 DEF signals, S

\* There are no more specific signals among the collected lines than in the output.
LEMMA SpecificCollected ==
    ASSUME NEW o, Numbered(o), NEW s, Collects(s, o)
    PROVE  /\ Cardinality(SpecificLines(s)) \in Nat /\ Cardinality(SpecificEnds(o)) \in Nat
           /\ Cardinality(SpecificLines(s)) <= Cardinality(SpecificEnds(o))
           /\ \A e \in SpecificEnds(o) : \E i \in SpecificLines(s) : s[i] = o[e] /\ s[i].at = e
  <1> DEFINE signals == SignalEnds(o)
             there == SpecificEnds(o)
             here == SpecificLines(s)
             f == [i \in here |-> s[i].at]
  <1>1. Len(o) \in Nat /\ Len(s) \in Nat
    BY LenProperties DEF Numbered, Collects
  <1>2. there \in SUBSET (1..Len(o)) /\ here \in SUBSET (1..Len(s))
    BY DEF Ends, Signals, Collects, SignalEnds, SpecificEnds, SpecificLines
  <1>3. /\ \A i \in Signals(s) : s[i] # Omission /\ s[i].at \in signals /\ s[i] = o[s[i].at]
        /\ \A e \in signals : \E i \in Signals(s) : s[i] = o[e] /\ s[i].at = e
    BY SignalsCollected
  <1> HIDE DEF signals
  <1>4. \A e \in there : \E i \in here : s[i] = o[e] /\ s[i].at = e
    BY <1>3 DEF SpecificEnds, SpecificLines, signals
  <1>5. \A i \in here : s[i] # Omission /\ s[i].at \in there
    BY <1>3 DEF SpecificEnds, SpecificLines, signals
  <1> HIDE DEF there, here
  <1>6. /\ IsFiniteSet(there) /\ Cardinality(there) \in Nat
        /\ IsFiniteSet(here) /\ Cardinality(here) \in Nat
    BY <1>1, <1>2, PlaceStep
  <1>7. f \in Injection(here, there)
    <2>1. f \in [here -> there]
      BY <1>5
    <2>2. ASSUME NEW i \in here, NEW j \in here, f[i] = f[j] PROVE i = j
      <3>1. /\ i \in 1..Len(s) /\ j \in 1..Len(s) /\ s[i].at = s[j].at
            /\ s[i] # Omission /\ s[j] # Omission
            /\ s[i].at \in 1..Len(o)
        BY <1>2, <1>5, <2>2
      <3>2. ~(i < j) /\ ~(j < i)
        BY <1>1, <3>1 DEF Collects
      <3> QED
        BY <1>1, <3>1, <3>2
    <2> HIDE DEF f
    <2> QED
      BY <2>1, <2>2 DEF Injection, IsInjective
  <1>8. Cardinality(here) <= Cardinality(there)
    BY <1>6, <1>7, FS_Injection
  <1> QED
    BY <1>4, <1>6, <1>8 DEF here, there

\* What is condensed of the collected lines tells of the output what it must.
LEMMA CondensedTells ==
    ASSUME TextAssumption, NEW o, Numbered(o), NEW s, Collects(s, o)
    PROVE  Told(Condense(s), o)
  <1> DEFINE m == Len(s)
             K == Kept(s)
             a == Condense(s)
             c == Cardinality(K)
             S == Signals(s)
             tail == {i \in 1..m : i > m - TailLines}
             here == SpecificLines(s)
             said == {i \in DOMAIN a : a[i] # Omission}
             signals == SignalEnds(o)
             there == SpecificEnds(o)
             told == {a[i].at : i \in said}
  <1>1. m \in Nat /\ DOMAIN s = 1..m /\ Len(o) \in Nat
    BY LenProperties DEF Numbered, Collects
  <1>2. /\ K \in SUBSET (1..m) /\ c \in Nat
        /\ c <= IF S # {} THEN KeptCap ELSE TailLines
        /\ S # {} => Max(S) \in K
        /\ Cardinality(here) < KeptCap => here \subseteq K
        /\ S = {} /\ (\E i \in tail : s[i].class # "noise") => tail \subseteq K
    BY <1>1, KeptFew DEF SpecificLines
  <1>3. a = Pick(s, K)
    BY DEF Condense
  <1> HIDE DEF K, a
  <1>4. /\ Len(a) = c /\ DOMAIN a = 1..c
        /\ \A k \in 1..c : Nth(K, k) \in K /\ a[k] = s[Nth(K, k)]
        /\ \A k, l \in 1..c : k < l => Nth(K, k) < Nth(K, l)
        /\ \A e \in K : \E k \in 1..c : Nth(K, k) = e
    <2>1. InPlace(s, K)
      <3>1. m \in Nat /\ K \in SUBSET (1..m)
        BY <1>1, <1>2
      <3> HIDE DEF m
      <3> QED
        BY <3>1, Picked
    <2> QED
      BY <1>3, <2>1 DEF InPlace
  <1> HIDE DEF m, c
  <1>5. ASSUME NEW i \in said PROVE a[i] = o[a[i].at]
    <2>1. i \in 1..c /\ a[i] = s[Nth(K, i)] /\ Nth(K, i) \in 1..m /\ a[i] # Omission
      BY <1>2, <1>4
    <2> QED
      BY <2>1 DEF Collects, m
  <1>6. ASSUME NEW i \in said, NEW j \in said, i < j PROVE a[i].at < a[j].at
    <2>1. /\ i \in 1..c /\ a[i] = s[Nth(K, i)] /\ Nth(K, i) \in 1..m /\ a[i] # Omission
          /\ j \in 1..c /\ a[j] = s[Nth(K, j)] /\ Nth(K, j) \in 1..m /\ a[j] # Omission
      BY <1>2, <1>4
    <2>2. Nth(K, i) < Nth(K, j)
      BY <1>4, <1>6, <2>1
    <2> QED
      BY <2>1, <2>2 DEF Collects, m
  <1>7. ASSUME NEW i \in K, s[i] # Omission PROVE s[i].at \in told
    <2>1. PICK k \in 1..c : Nth(K, k) = i
      BY <1>4
    <2>2. k \in said /\ a[k].at = s[i].at
      BY <1>4, <1>7, <2>1
    <2> QED
      BY <2>2
  <1> HIDE DEF said, told
  <1>8. /\ \A i \in S : s[i] # Omission /\ s[i].at \in signals
        /\ signals # {} <=> S # {}
        /\ signals # {} => s[Max(S)].at = Max(signals)
    BY SignalsCollected
  <1>9. /\ Cardinality(here) \in Nat /\ Cardinality(there) \in Nat
        /\ Cardinality(here) <= Cardinality(there)
        /\ \A e \in there : \E i \in here : s[i] = o[e] /\ s[i].at = e
    BY SpecificCollected
  <1>10. here \subseteq S /\ S \subseteq 1..m
    BY <1>1 DEF Signals, SpecificLines
  <1>11. ASSUME signals # {} PROVE Max(signals) \in told
    <2> DEFINE z == Max(S)
    <2>1. S # {} /\ s[z].at = Max(signals) /\ z \in K
      BY <1>2, <1>8, <1>11
    <2>2. z \in S
      <3> HIDE DEF S
      <3> QED
        BY <1>1, <1>10, <2>1, LastPosition
    <2> HIDE DEF z, S, signals
    <2>3. s[z].at \in told
      BY <1>7, <1>8, <2>1, <2>2
    <2> QED
      BY <2>1, <2>3
  <1>12. ASSUME Cardinality(there) < KeptCap, NEW e \in there PROVE e \in told
    <2>1. here \subseteq K
      <3>1. KeptCap \in Nat
        BY DEF TextAssumption
      <3> HIDE DEF here, there
      <3> QED
        BY <1>2, <1>9, <1>12, <3>1
    <2>2. PICK i \in here : s[i] = o[e] /\ s[i].at = e
      BY <1>9
    <2> HIDE DEF here, S
    <2>3. s[i] # Omission /\ i \in K
      BY <1>8, <1>10, <2>1
    <2> QED
      BY <1>7, <2>2, <2>3
  <1>13. ASSUME signals = {}, NEW d \in LastOf(o), o[d].class # "noise", NEW e \in LastOf(o)
         PROVE  e \in told
    <2>1. S = {}
      BY <1>8, <1>13
    <2>2. \A x \in LastOf(o) : \E i \in tail : s[i] = o[x]
      BY DEF Collects, m
    <2>3. PICK i \in tail : s[i] = o[d]
      BY <1>13, <2>2
    <2>4. tail \subseteq K
      BY <1>2, <1>13, <2>1, <2>3
    <2>5. PICK j \in tail : s[j] = o[e]
      BY <1>13, <2>2
    <2>6. e \in 1..Len(o)
      BY <1>13 DEF LastOf
    <2>7. s[j] # Omission /\ s[j].at = e
      BY <2>5, <2>6, OmissionApart
    <2> HIDE DEF tail
    <2> QED
      BY <1>7, <2>4, <2>5, <2>7
  <1>14. Len(a) <= IF signals # {} THEN KeptCap ELSE TailLines
    <2> HIDE DEF S, signals
    <2> QED
      BY <1>2, <1>4, <1>8
  <1> QED
    <2> HIDE DEF here, S, tail
    <2> QED
      BY <1>5, <1>6, <1>11, <1>12, <1>13, <1>14 DEF Told, said, told, a

\* What is collected of a pipe.
LEMMA PipedCollects ==
    ASSUME TextAssumption, Numbered(out), Piped(pipe, out)
    PROVE  Collects(Collected, out)
  <1> DEFINE n == Len(out)
             P == pipe.head
             Q == pipe.tail
             h == Len(P)
             k == Len(Q)
             s == Collected
             N == Len(s)
             cut == Dropped(pipe) > 0
             d == n - N
  <1>0. /\ HeadCap \in Nat /\ TailCap \in Nat /\ TailLines \in Nat /\ TailLines <= TailCap
        /\ n \in Nat /\ h \in Nat /\ k \in Nat
    BY LenProperties DEF TextAssumption, Numbered, Piped, Held
  <1>1. /\ P \in Seq(Line) /\ Q \in Seq(Line)
        /\ h <= HeadCap /\ h <= n /\ (h < HeadCap => h = n)
        /\ k <= TailCap /\ k <= n - h /\ (k < TailCap => k = n - h)
        /\ \A i \in 1..h : P[i] = out[i]
        /\ \A i \in 1..k : Q[i] = out[(n - k) + i]
    BY DEF Piped, Held
  <1>2. pipe.total = n /\ Dropped(pipe) = n - h - k
    BY DEF Piped, Dropped
  <1>3. s = IF cut THEN P \o <<Omission>> \o Q ELSE P \o Q
    BY DEF Collected
  <1> HIDE DEF n, P, Q, h, k, cut
  <1>4. cut <=> h + k < n
    BY <1>0, <1>2 DEF cut
  <1>5. \A e \in 1..n : out[e] # Omission /\ out[e].at = e
    BY OmissionApart DEF n
  <1> HIDE DEF s
  <1>6. /\ N \in Nat /\ N = IF cut THEN h + 1 + k ELSE n
        /\ DOMAIN s = 1..N
        /\ \A i \in 1..h : s[i] = out[i]
        /\ cut => s[h + 1] = Omission
        /\ \A i \in 1..k : s[(N - k) + i] = out[(n - k) + i]
    <2>1. CASE cut
      <3> DEFINE a == P \o <<Omission>>
                 T == Line \union {Omission}
      <3>1. P \in Seq(T) /\ Q \in Seq(T) /\ <<Omission>> \in Seq(T)
            /\ Len(<<Omission>>) = 1 /\ <<Omission>>[1] = Omission
        <4>1. Line \subseteq T
          OBVIOUS
        <4>2. \A x \in T : <<x>> \in Seq(T) /\ Len(<<x>>) = 1 /\ <<x>>[1] = x
          OBVIOUS
        <4> HIDE DEF T
        <4>3. P \in Seq(T) /\ Q \in Seq(T)
          BY <1>1, <4>1, SeqMonotonic
        <4> QED
          BY <4>2, <4>3 DEF T
      <3> HIDE DEF T
      <3>2. /\ a \in Seq(T) /\ Len(a) = h + 1
            /\ \A i \in 1..h : a[i] = P[i]
            /\ \A i \in 1..1 : a[h + i] = <<Omission>>[i]
        BY <3>1, Appended DEF h
      <3>3. s = a \o Q
        BY <1>3, <2>1
      <3> HIDE DEF a
      <3>4. /\ s \in Seq(T) /\ N = (h + 1) + k
            /\ \A i \in 1..(h + 1) : s[i] = a[i]
            /\ \A i \in 1..k : s[(h + 1) + i] = Q[i]
        <4>1. /\ a \o Q \in Seq(T) /\ Len(a \o Q) = Len(a) + Len(Q)
              /\ \A i \in 1..Len(a) : (a \o Q)[i] = a[i]
              /\ \A i \in 1..Len(Q) : (a \o Q)[Len(a) + i] = Q[i]
          <5>1. a \in Seq(T) /\ Q \in Seq(T)
            BY <3>1, <3>2
          <5> QED
            BY <5>1, Appended
        <4> QED
          BY <3>2, <3>3, <4>1 DEF k
      <3>5. N \in Nat /\ DOMAIN s = 1..N /\ N - k = h + 1
        BY <1>0, <3>4, LenProperties
      <3> HIDE DEF N
      <3>6. ASSUME NEW i \in 1..h PROVE s[i] = out[i]
        <4>1. i \in 1..(h + 1)
          BY <1>0
        <4> QED
          BY <1>1, <3>2, <3>4, <4>1
      <3>7. s[h + 1] = Omission
        <4>1. h + 1 \in 1..(h + 1) /\ 1 \in 1..1
          BY <1>0
        <4> QED
          BY <3>1, <3>2, <3>4, <4>1
      <3>8. \A i \in 1..k : s[(N - k) + i] = out[(n - k) + i]
        BY <1>1, <3>4, <3>5
      <3> QED
        BY <2>1, <3>4, <3>5, <3>6, <3>7, <3>8
    <2>2. CASE ~cut
      <3>1. n = h + k
        BY <1>0, <1>1, <1>4, <2>2
      <3>2. s = P \o Q
        BY <1>3, <2>2
      <3>3. /\ s \in Seq(Line) /\ N = h + k
            /\ \A i \in 1..h : s[i] = P[i]
            /\ \A i \in 1..k : s[h + i] = Q[i]
        BY <1>1, <3>2, Appended DEF h, k
      <3>4. N \in Nat /\ DOMAIN s = 1..N /\ N - k = h
        BY <1>0, <3>3, LenProperties
      <3> HIDE DEF N
      <3>5. \A i \in 1..h : s[i] = out[i]
        BY <1>1, <3>3
      <3>6. \A i \in 1..k : s[(N - k) + i] = out[(n - k) + i]
        BY <1>1, <3>3, <3>4
      <3> QED
        BY <2>2, <3>1, <3>3, <3>4, <3>5, <3>6
    <2> QED
      BY <2>1, <2>2
  <1> HIDE DEF N
  <1> DEFINE from(e) == IF e <= h THEN e ELSE e - d
             kept(e) == e \in 1..n /\ (e <= h \/ e > n - k)
  <1>7. ASSUME NEW i \in 1..N
        PROVE  \/ s[i] = Omission /\ cut /\ i = h + 1
               \/ \E e \in 1..n : kept(e) /\ i = from(e) /\ s[i] = out[e]
    <2>1. CASE i <= h
      <3>1. i \in 1..h /\ i \in 1..n
        BY <1>0, <1>1, <2>1
      <3> QED
        BY <1>6, <2>1, <3>1
    <2>2. CASE i > h /\ i <= N - k
      BY <1>0, <1>1, <1>4, <1>6, <2>2
    <2>3. CASE i > h /\ i > N - k
      <3> DEFINE j == i - (N - k)
                 e == (n - k) + j
      <3>1. j \in 1..k /\ (N - k) + j = i
        BY <1>0, <1>6, <2>3
      <3>2. e \in 1..n /\ e > n - k /\ e - d = i /\ e > h
        BY <1>0, <1>1, <1>6, <3>1
      <3>3. s[i] = out[e]
        <4> HIDE DEF j
        <4> QED
          BY <1>6, <3>1
      <3> HIDE DEF e, d
      <3> QED
        BY <1>0, <3>2, <3>3
    <2> QED
      BY <1>0, <1>6, <2>1, <2>2, <2>3
  <1>8. ASSUME NEW e \in 1..n, kept(e)
        PROVE  from(e) \in 1..N /\ s[from(e)] = out[e] /\ (e > n - k => N - from(e) <= n - e)
    <2>1. CASE e <= h
      <3>1. e \in 1..h /\ from(e) = e /\ e \in 1..N
        BY <1>0, <1>1, <1>4, <1>6, <2>1
      <3>2. e > n - k => N - e <= n - e
        BY <1>0, <1>1, <1>4, <1>6, <2>1
      <3> QED
        BY <1>6, <3>1, <3>2
    <2>2. CASE ~(e <= h)
      <3> DEFINE j == e - (n - k)
      <3>1. j \in 1..k /\ (n - k) + j = e /\ (N - k) + j = e - d /\ from(e) = e - d
        BY <1>0, <1>1, <1>6, <1>8, <2>2
      <3>2. e - d \in 1..N /\ N - (e - d) <= n - e
        <4>1. e \in Nat /\ e <= n /\ e > n - k /\ e > h /\ h + k <= n
          BY <1>0, <1>1, <1>8, <2>2
        <4>2. CASE cut
          <5>1. N = h + 1 + k
            BY <1>6, <4>2
          <5> QED
            BY <1>0, <4>1, <5>1
        <4>3. CASE ~cut
          <5>1. N = n
            BY <1>6, <4>3
          <5> QED
            BY <1>0, <4>1, <5>1
        <4> QED
          BY <4>2, <4>3
      <3> HIDE DEF j, d
      <3> QED
        BY <1>6, <3>1, <3>2
    <2> QED
      BY <2>1, <2>2
  <1>9. \A e, f \in 1..n : kept(e) /\ kept(f) /\ from(e) < from(f) => e < f
    BY <1>0, <1>1, <1>4, <1>6
  <1>10. \A e \in 1..n : kept(e) <=> e <= HeadCap \/ e > n - TailCap
    <2> SUFFICES ASSUME NEW e \in 1..n PROVE kept(e) <=> e <= HeadCap \/ e > n - TailCap
      OBVIOUS
    <2>1. e \in Nat /\ e <= n
      BY <1>0
    <2>2. e <= h <=> e <= HeadCap
      BY <1>0, <1>1, <2>1
    <2>3. CASE k = TailCap
      BY <2>1, <2>2, <2>3
    <2>4. CASE k # TailCap
      <3>1. k < TailCap /\ k = n - h
        BY <1>0, <1>1, <2>4
      <3>2. e > n - k <=> e > h
        BY <1>0, <2>1, <3>1
      <3>3. kept(e)
        BY <1>0, <2>1, <3>2
      <3>4. e <= h \/ e > n - TailCap
        BY <1>0, <2>1, <3>1
      <3> QED
        BY <2>2, <3>3, <3>4
    <2> QED
      BY <2>3, <2>4
  <1>11. \A e \in 1..n : e > n - TailLines => kept(e) /\ (e > n - k \/ (e <= h /\ h + k = n))
    <2> SUFFICES ASSUME NEW e \in 1..n, e > n - TailLines
                 PROVE  kept(e) /\ (e > n - k \/ (e <= h /\ h + k = n))
      OBVIOUS
    <2>1. e \in Nat /\ e <= n
      BY <1>0
    <2>2. CASE k = TailCap
      <3>1. e > n - k
        BY <1>0, <2>1, <2>2
      <3> QED
        BY <3>1
    <2>3. CASE k # TailCap
      <3>1. k = n - h
        BY <1>0, <1>1, <2>3
      <3>2. h + k = n /\ (e <= h \/ e > n - k)
        BY <1>0, <2>1, <3>1
      <3> QED
        BY <3>2
    <2> QED
      BY <2>2, <2>3
  <1> HIDE DEF kept, from
  <1>12. \A i \in 1..N : s[i] = Omission \/ (s[i].at \in Ends(out) /\ s[i] = out[s[i].at])
    <2> SUFFICES ASSUME NEW i \in 1..N, s[i] # Omission
                 PROVE  s[i].at \in Ends(out) /\ s[i] = out[s[i].at]
      OBVIOUS
    <2>1. PICK e \in 1..n : kept(e) /\ s[i] = out[e]
      BY <1>7
    <2>2. out[e].at = e /\ s[i].at = e
      BY <1>5, <2>1
    <2>3. e \in Ends(out)
      BY <1>10, <2>1 DEF Ends, n
    <2> QED
      BY <2>1, <2>2, <2>3
  <1>13. \A i, j \in 1..N : i < j /\ s[i] # Omission /\ s[j] # Omission => s[i].at < s[j].at
    <2> SUFFICES ASSUME NEW i \in 1..N, NEW j \in 1..N, i < j, s[i] # Omission, s[j] # Omission
                 PROVE  s[i].at < s[j].at
      OBVIOUS
    <2>1. PICK e \in 1..n : kept(e) /\ i = from(e) /\ s[i] = out[e]
      BY <1>7
    <2>2. PICK f \in 1..n : kept(f) /\ j = from(f) /\ s[j] = out[f]
      BY <1>7
    <2>3. s[i].at = e /\ s[j].at = f
      BY <1>5, <2>1, <2>2
    <2> QED
      BY <1>9, <2>1, <2>2, <2>3
  <1>14. \A e \in Ends(out) : \E i \in 1..N : s[i] = out[e]
    <2> SUFFICES ASSUME NEW e \in Ends(out) PROVE \E i \in 1..N : s[i] = out[e]
      OBVIOUS
    <2>1. e \in 1..n /\ kept(e)
      BY <1>10 DEF Ends, n
    <2> QED
      BY <1>8, <2>1
  <1>15. \A e \in LastOf(out) : \E i \in 1..N : i > N - TailLines /\ s[i] = out[e]
    <2> SUFFICES ASSUME NEW e \in LastOf(out)
                 PROVE  \E i \in 1..N : i > N - TailLines /\ s[i] = out[e]
      OBVIOUS
    <2>1. e \in 1..n /\ e > n - TailLines
      BY DEF LastOf, n
    <2>2. kept(e) /\ (e > n - k \/ (e <= h /\ h + k = n))
      BY <1>11, <2>1
    <2>3. from(e) \in 1..N /\ s[from(e)] = out[e] /\ (e > n - k => N - from(e) <= n - e)
      BY <1>8, <2>1, <2>2
    <2>4. from(e) > N - TailLines
      <3>1. CASE e > n - k
        <4> DEFINE x == from(e)
        <4> HIDE DEF x
        <4>1. x \in 1..N /\ N - x <= n - e
          BY <2>3, <3>1 DEF x
        <4>2. x > N - TailLines
          BY <1>0, <1>6, <2>1, <4>1
        <4> QED
          BY <4>2 DEF x
      <3>2. CASE e <= h /\ h + k = n
        <4>1. from(e) = e /\ N = n
          BY <1>0, <1>1, <1>4, <1>6, <3>2 DEF from
        <4> QED
          BY <2>1, <4>1
      <3> QED
        BY <2>2, <3>1, <3>2
    <2> QED
      BY <2>3, <2>4
  <1>16. /\ N \in Nat /\ DOMAIN s = 1..N
    BY <1>6
  <1> QED
    BY <1>12, <1>13, <1>14, <1>15, <1>16 DEF Collects, s, N

-----------------------------------------------------------------------------
(* exec: the words, the pipe and the answer *)

ExecInv ==
    /\ Called
    /\ req.tool = "exec" =>
        /\ pc \in {"start", "run", "done"}
        /\ pc # "done" => status = "none"
        /\ Numbered(out)
        /\ Piped(pipe, out)
        /\ pc = "run" \/ status \in {"ok", "red"} => new = SplitCmd(req.cmd)
        /\ status \in {"ok", "red"} => Told(answer, out)

\* A read goes on with the numbering of the lines.
LEMMA ChunkRead ==
    ASSUME TextAssumption, Numbered(out), Piped(pipe, out),
           NEW classes \in Chunks, Drain(classes)
    PROVE  Numbered(out') /\ Piped(pipe', out')
  <1> DEFINE m == Len(classes)
             n == Len(out)
             c == [i \in DOMAIN classes |-> [at |-> Len(out) + i, class |-> classes[i]]]
  <1>1. classes \in Seq(Class)
    <2>1. \A x \in Class : <<x>> \in Seq(Class)
      OBVIOUS
    <2>2. \A x, y \in Class : <<x, y>> \in Seq(Class)
      OBVIOUS
    <2>3. {"noise", "plain", "generic", "specific"} = Class
      BY DEF Class
    <2>4. CASE classes \in {<<x>> : x \in Class}
      BY <2>1, <2>4
    <2>5. CASE classes \in {"plain", "specific"} \X {"generic", "specific"}
      <3>1. \E x, y \in Class : classes = <<x, y>>
        BY <2>5 DEF Class
      <3> QED
        BY <2>2, <3>1
    <2> QED
      BY <2>3, <2>4, <2>5 DEF Chunks
  <1>2. m \in Nat /\ DOMAIN classes = 1..m /\ \A i \in 1..m : classes[i] \in Class
    BY <1>1, LenProperties, ElementOfSeq
  <1>3. out \in Seq(Line) /\ n \in Nat /\ \A i \in 1..n : out[i].at = i
    BY LenProperties DEF Numbered
  <1>4. out' = out \o c /\ pipe' = Push(pipe, c)
    BY DEF Drain
  <1> HIDE DEF m
  <1>5. /\ c = [i \in 1..m |-> [at |-> n + i, class |-> classes[i]]]
        /\ \A i \in 1..m : c[i] \in Line /\ c[i].at = n + i
    BY <1>2, <1>3 DEF Line
  <1> HIDE DEF c, n
  <1>6. c \in Seq(Line) /\ Len(c) = m
    <2>1. c \in [1..m -> Line]
      BY <1>2, <1>5
    <2> QED
      BY <1>2, <2>1, LenProperties
  <1>7. Piped(pipe', out')
    BY <1>3, <1>4, <1>6, PushPiped
  <1>8. /\ out' \in Seq(Line) /\ Len(out') = n + m
        /\ \A i \in 1..n : out'[i] = out[i]
        /\ \A i \in 1..m : out'[n + i] = c[i]
    <2>1. /\ out \o c \in Seq(Line) /\ Len(out \o c) = Len(out) + Len(c)
          /\ \A i \in 1..Len(out) : (out \o c)[i] = out[i]
          /\ \A i \in 1..Len(c) : (out \o c)[Len(out) + i] = c[i]
      <3>1. out \in Seq(Line) /\ c \in Seq(Line)
        BY <1>3, <1>6
      <3> QED
        BY <3>1, Appended
    <2> QED
      BY <1>4, <1>6, <2>1 DEF n
  <1>9. ASSUME NEW i \in 1..(n + m) PROVE out'[i].at = i
    <2>1. CASE i <= n
      <3>1. i \in 1..n
        BY <1>3, <2>1
      <3> QED
        BY <1>3, <1>8, <3>1
    <2>2. CASE ~(i <= n)
      <3> DEFINE j == i - n
      <3>1. j \in 1..m /\ n + j = i
        BY <1>2, <1>3, <2>2
      <3> HIDE DEF j
      <3> QED
        BY <1>5, <1>8, <3>1
    <2> QED
      BY <2>1, <2>2
  <1> QED
    BY <1>7, <1>8, <1>9 DEF Numbered

\* Every step keeps what is known of a command.
LEMMA ExecSteps ==
    ASSUME FilesAssumption, TextAssumption, ExecInv, [Next]_vars
    PROVE  ExecInv'
  <1>1. before' = before /\ req' = req
    BY DEF Next, vars, WriteStart, CreateLevel, ResolveAgain, WriteLook, Check, Save, EditStart,
           EditRead, ViewWhole, ViewNext, Search, ExecStart, Drain, Exit, Meddle, tree
  <1>2. \/ req.tool # "exec"
        \/ ExecStart \/ (\E classes \in Chunks : Drain(classes)) \/ Exit
        \/ UNCHANGED vars
    BY DEF ExecInv, Next, WriteStart, CreateLevel, ResolveAgain, WriteLook, Check, Save, EditStart,
           EditRead, ViewWhole, ViewNext, Search, Meddle
  <1>3. CASE req.tool # "exec"
    BY <1>1, <1>3 DEF ExecInv, Called
  <1>4. CASE req.tool = "exec" /\ ExecStart
    <2>1. /\ new' = SplitCmd(req.cmd) /\ pipe' = pipe /\ out' = out /\ pc = "start"
          /\ \/ pc' = "done" /\ status' \in {"failed", "denied"}
             \/ pc' = "run" /\ status' = status
      BY <1>4 DEF ExecStart, End, child
    <2>2. Called /\ status = "none" /\ Numbered(out) /\ Piped(pipe, out)
      BY <1>4, <2>1 DEF ExecInv
    <2> QED
      BY <1>1, <2>1, <2>2 DEF ExecInv, Called
  <1>5. CASE req.tool = "exec" /\ \E classes \in Chunks : Drain(classes)
    <2>1. PICK classes \in Chunks : Drain(classes)
      BY <1>5
    <2>2. /\ new' = new /\ pc' = pc /\ status' = status /\ pc = "run"
      BY <2>1 DEF Drain, text
    <2>3. Called /\ status = "none" /\ new = SplitCmd(req.cmd) /\ Numbered(out) /\ Piped(pipe, out)
      BY <1>5, <2>2 DEF ExecInv
    <2>4. Numbered(out') /\ Piped(pipe', out')
      BY <2>1, <2>3, ChunkRead
    <2> QED
      BY <1>1, <2>2, <2>3, <2>4 DEF ExecInv, Called
  <1>6. CASE req.tool = "exec" /\ Exit
    <2>1. /\ new' = new /\ pipe' = pipe /\ out' = out /\ pc = "run" /\ pc' = "done"
          /\ answer' = Condense(Collected)
      BY <1>6 DEF Exit, End, child, text
    <2>2. Called /\ new = SplitCmd(req.cmd) /\ Numbered(out) /\ Piped(pipe, out)
      BY <1>6, <2>1 DEF ExecInv
    <2>3. Told(Condense(Collected), out)
      BY <2>2, PipedCollects, CondensedTells
    <2> QED
      BY <1>1, <2>1, <2>2, <2>3 DEF ExecInv, Called
  <1>7. CASE UNCHANGED vars
    BY <1>7 DEF ExecInv, Called, vars
  <1> QED
    BY <1>2, <1>3, <1>4, <1>5, <1>6, <1>7

\* A command is spawned with the words that were quoted, whatever characters they are made of; and
\* whatever it writes, in reads of whatever size, its answer is made of lines of it in their order,
\* within the cap, with the last signal of the two ends that are kept for certain, with every
\* specific one while there is room, and with the last lines if there is no signal.
THEOREM ExecFaithfulAlways == Spec => []ExecFaithful
  <1>1. Init => ExecInv
    <2> SUFFICES ASSUME Init PROVE ExecInv
      OBVIOUS
    <2>1. /\ pc = "start" /\ status = "none" /\ Called
          /\ pipe = EmptyPipe /\ out = <<>>
      BY DEF Init, Called
    <2>2. Numbered(out)
      <3>1. <<>> \in Seq(Line) /\ Len(<<>>) = 0
        OBVIOUS
      <3> QED
        BY <2>1, <3>1 DEF Numbered
    <2>3. Piped(pipe, out)
      <3>1. pipe.head = <<>> /\ pipe.tail = <<>> /\ pipe.total = 0
        BY <2>1 DEF EmptyPipe
      <3>2. <<>> \in Seq(Line) /\ Len(<<>>) = 0 /\ HeadCap \in Nat /\ TailCap \in Nat
        BY TextAssumption DEF TextAssumption
      <3> QED
        BY <2>1, <3>1, <3>2 DEF Piped, Held
    <2> QED
      BY <2>1, <2>2, <2>3 DEF ExecInv
  <1>2. ExecInv /\ [Next]_vars => ExecInv'
    BY FilesAssumption, TextAssumption, ExecSteps
  <1>3. ExecInv => ExecFaithful
    <2> SUFFICES ASSUME ExecInv, pc = "done", req.tool = "exec", status \in {"ok", "red"}
                 PROVE  ExecFaithful
      BY DEF ExecFaithful
    <2>1. Told(answer, out) /\ new = SplitCmd(req.cmd) /\ Called /\ Numbered(out)
      BY DEF ExecInv
    <2>2. req.words # <<>> => new = req.words
      <3> SUFFICES ASSUME req.words # <<>> PROVE new = req.words
        OBVIOUS
      <3>1. Spelt(req)
        BY <2>1, FilesAssumption DEF FilesAssumption, Called
      <3>2. SplitCmd(req.cmd) = req.words
        BY <3>1, SpeltSplit
      <3> QED
        BY <2>1, <3>2
    <2>3. DOMAIN out = 1..Len(out)
      BY <2>1, LenProperties DEF Numbered
    <2> QED
      BY <2>1, <2>2, <2>3 DEF ExecFaithful, Told, Ends, LastOf, SignalEnds, SpecificEnds
  <1> QED
    BY <1>1, <1>2, <1>3, PTL DEF Spec

-----------------------------------------------------------------------------
(* The normal form of a path.                                              *)

\* A set of sequences with the empty one and, with each, all that are longer by one.
LEMMA SeqInduction ==
    ASSUME NEW S, NEW D, <<>> \in D,
           \A s \in Seq(S), e \in S : s \in D => Append(s, e) \in D
    PROVE  \A s \in Seq(S) : s \in D
  <1> DEFINE Long(n) == \A s \in Seq(S) : Len(s) = n => s \in D
             N == {n \in Nat : Long(n)}
  <1>1. Long(0)
    BY EmptySeq
  <1>2. ASSUME NEW n \in Nat, Long(n) PROVE Long(n + 1)
    <2> SUFFICES ASSUME NEW s \in Seq(S), Len(s) = n + 1 PROVE s \in D
      OBVIOUS
    <2>1. s # <<>>
      BY EmptySeq
    <2>2. /\ Front(s) \in Seq(S) /\ s[Len(s)] \in S
          /\ Len(Front(s)) = Len(s) - 1 /\ s = Append(Front(s), s[Len(s)])
      BY <2>1, FrontLast
    <2>3. Front(s) \in D
      <3>1. Len(Front(s)) = n
        BY <2>2
      <3> QED
        BY <1>2, <2>2, <3>1
    <2> QED
      BY <2>2, <2>3
  <1> HIDE DEF Long
  <1>3. 0 \in N /\ \A n \in Nat : n \in N => n + 1 \in N
    BY <1>1, <1>2
  <1>4. ASSUME NEW n \in Nat PROVE Long(n)
    <2> HIDE DEF N
    <2>1. n \in N
      BY <1>3, SetInduction
    <2> QED
      BY <2>1 DEF N
  <1> QED
    BY <1>4, LenProperties DEF Long

Plain == Name \ {".."}

\* A name further there are plain names only.
LEMMA IntoPlain ==
    ASSUME NEW q \in Seq(Plain), NEW x \in Name
    PROVE  Into(q, x) \in Seq(Plain)
  <1>1. CASE x # ".."
    BY <1>1, AppendProperties DEF Into, Plain
  <1>2. CASE x = ".." /\ q = <<>>
    BY <1>2 DEF Into
  <1>3. CASE x = ".." /\ q # <<>>
    BY <1>3, FrontLast DEF Into
  <1> QED
    BY <1>1, <1>2, <1>3

\* The normal forms of what a path begins with.
Normal(p, g) ==
    /\ \A i \in 0..Len(p) : g[i] \in Seq(Plain)
    /\ g[0] = <<>> /\ \A i \in 1..Len(p) : g[i] = Into(g[i - 1], p[i])

LEMMA NormUpto ==
    ASSUME NEW p \in Seq(Name)
    PROVE  \E g : Normal(p, g) /\ Norm(p) = g[Len(p)]
  <1> DEFINE n == Len(p)
             X == Seq(Plain)
             step == [e \in (1..n) \X X |-> Into(e[2], p[e[1]])]
             Body(g) == g = [i \in 0..n |-> IF i = 0 THEN <<>> ELSE Into(g[i - 1], p[i])]
             upto == CHOOSE g : Body(g)
  <1>1. n \in Nat
    BY LenProperties
  <1>2. Norm(p) = upto[n]
    BY DEF Norm
  <1>3. step \in [(1..n) \X X -> X]
    <2>1. ASSUME NEW e \in (1..n) \X X PROVE Into(e[2], p[e[1]]) \in X
      <3>1. e[1] \in 1..n /\ e[2] \in Seq(Plain)
        OBVIOUS
      <3>2. p[e[1]] \in Name
        BY <3>1, ElementOfSeq
      <3> QED
        BY <3>1, <3>2, IntoPlain
    <2> QED
      BY <2>1
  <1>4. <<>> \in X
    BY EmptySeq
  <1>5. \A i \in 1..n : \A q \in X : step[<<i, q>>] = Into(q, p[i])
    OBVIOUS
  <1> HIDE DEF step, X, n
  <1>6. PICK g \in [0..n -> X] : g[0] = <<>> /\ \A i \in 1..n : g[i] = step[<<i, g[i - 1]>>]
    <2>1. PICK g \in [0..n -> X] : Recurs(g, <<>>, step, n)
      BY <1>1, <1>3, <1>4, RecursionIn
    <2> QED
      BY <2>1 DEF Recurs
  <1>7. Body(g)
    <2>1. ASSUME NEW i \in 0..n PROVE g[i] = IF i = 0 THEN <<>> ELSE Into(g[i - 1], p[i])
      <3>1. i # 0 => i \in 1..n /\ i - 1 \in 0..n
        BY <1>1
      <3>2. i # 0 => g[i - 1] \in X
        BY <1>6, <3>1
      <3> QED
        BY <1>5, <1>6, <3>1, <3>2
    <2>2. g = [i \in 0..n |-> g[i]]
      BY <1>6
    <2> QED
      BY <2>1, <2>2
  <1>8. Body(upto)
    <2> HIDE DEF Body
    <2> QED
      BY <1>7
  <1> HIDE DEF upto
  <1>9. \A i \in 0..n : upto[i] = IF i = 0 THEN <<>> ELSE Into(upto[i - 1], p[i])
    BY <1>8
  <1> HIDE DEF Body
  <1>10. upto[0] = <<>> /\ \A i \in 1..n : upto[i] = Into(upto[i - 1], p[i])
    <2>1. 0 \in 0..n /\ \A i \in 1..n : i \in 0..n /\ i # 0
      BY <1>1
    <2> QED
      BY <1>9, <2>1
  <1> DEFINE Fine(i) == upto[i] \in Seq(Plain)
             D == {i \in Nat : i <= n => Fine(i)}
  <1>11. Fine(0)
    BY <1>10, EmptySeq
  <1>12. ASSUME NEW i \in Nat, i + 1 <= n, Fine(i) PROVE Fine(i + 1)
    <2>1. i + 1 \in 1..n /\ (i + 1) - 1 = i
      BY <1>1, <1>12
    <2>2. upto[i + 1] = Into(upto[i], p[i + 1]) /\ p[i + 1] \in Name
      <3>1. p[i + 1] \in Name
        BY <2>1, ElementOfSeq DEF n
      <3> QED
        BY <1>10, <2>1, <3>1
    <2> QED
      BY <1>12, <2>2, IntoPlain
  <1> HIDE DEF Fine
  <1>13. 0 \in D /\ \A i \in Nat : i \in D => i + 1 \in D
    BY <1>1, <1>11, <1>12
  <1>14. ASSUME NEW i \in 0..n PROVE Fine(i)
    <2> HIDE DEF D
    <2>1. i \in Nat /\ i <= n
      BY <1>1
    <2>2. i \in D
      BY <1>13, <2>1, SetInduction
    <2> QED
      BY <2>1, <2>2 DEF D
  <1> QED
    BY <1>2, <1>10, <1>14 DEF Fine, Normal, n

\* One name more.
LEMMA NormOn ==
    ASSUME NEW p \in Seq(Name), NEW x \in Name
    PROVE  Norm(p) \in Seq(Plain) /\ Norm(Append(p, x)) = Into(Norm(p), x)
  <1> DEFINE n == Len(p)
             q == Append(p, x)
  <1>1. n \in Nat
    BY LenProperties
  <1>2. q \in Seq(Name) /\ Len(q) = n + 1 /\ q[n + 1] = x /\ \A i \in 1..n : q[i] = p[i]
    BY AppendProperties
  <1> HIDE DEF q
  <1>3. PICK g : Normal(p, g) /\ Norm(p) = g[n]
    BY NormUpto
  <1>4. PICK h : Normal(q, h) /\ Norm(q) = h[n + 1]
    BY <1>2, NormUpto
  <1> HIDE DEF n
  <1>5. g[0] = <<>> /\ \A i \in 1..n : g[i] = Into(g[i - 1], p[i])
    BY <1>3 DEF Normal, n
  <1>6. h[0] = <<>> /\ \A i \in 1..(n + 1) : h[i] = Into(h[i - 1], q[i])
    BY <1>2, <1>4 DEF Normal
  <1>7. g[n] \in Seq(Plain)
    BY <1>1, <1>3 DEF Normal, n
  <1> DEFINE D == {i \in Nat : i <= n => g[i] = h[i]}
  <1>8. 0 \in D
    BY <1>5, <1>6
  <1>9. ASSUME NEW i \in Nat, i \in D PROVE i + 1 \in D
    <2> SUFFICES ASSUME i + 1 <= n PROVE g[i + 1] = h[i + 1]
      OBVIOUS
    <2>1. i + 1 \in 1..n /\ i + 1 \in 1..(n + 1) /\ (i + 1) - 1 = i /\ i <= n
      BY <1>1
    <2>2. g[i] = h[i]
      BY <1>9, <2>1
    <2> HIDE DEF D
    <2> QED
      BY <1>2, <1>5, <1>6, <2>1, <2>2
  <1>10. g[n] = h[n]
    <2>1. n \in D
      <3> HIDE DEF D
      <3> QED
        BY <1>1, <1>8, <1>9, SetInduction
    <2> QED
      BY <1>1, <2>1
  <1>11. h[n + 1] = Into(h[n], x)
    <2>1. n + 1 \in 1..(n + 1) /\ (n + 1) - 1 = n
      BY <1>1
    <2> QED
      BY <1>2, <1>6, <2>1
  <1> QED
    BY <1>3, <1>4, <1>7, <1>10, <1>11 DEF q

\* A path of plain names is its own normal form, and there is no name in a normal form that is not
\* in the path.
LEMMA NormPlain ==
    ASSUME NEW p \in Seq(Plain)
    PROVE  Norm(p) = p
  <1> DEFINE D == {s \in Seq(Plain) : Norm(s) = s}
  <1>1. <<>> \in D
    BY NormNone, EmptySeq
  <1>2. ASSUME NEW s \in Seq(Plain), NEW e \in Plain, s \in D PROVE Append(s, e) \in D
    <2>1. s \in Seq(Name) /\ e \in Name /\ e # ".."
      <3>1. Plain \subseteq Name
        BY DEF Plain
      <3> QED
        BY <3>1, SeqMonotonic DEF Plain
    <2>2. Norm(Append(s, e)) = Into(Norm(s), e)
      BY <2>1, NormOn
    <2>3. Into(s, e) = Append(s, e)
      BY <2>1 DEF Into
    <2>4. Append(s, e) \in Seq(Plain)
      BY AppendProperties
    <2> QED
      BY <1>2, <2>2, <2>3, <2>4
  <1>3. \A s \in Seq(Plain) : s \in D
    <2> HIDE DEF D
    <2> QED
      BY <1>1, <1>2, SeqInduction
  <1> QED
    BY <1>3

LEMMA NormNames ==
    ASSUME NEW p \in Seq(Name)
    PROVE  ToSet(Norm(p)) \subseteq ToSet(p)
  <1> DEFINE D == {s \in Seq(Name) : \A i \in 1..Len(Norm(s)) : \E j \in 1..Len(s) : Norm(s)[i] = s[j]}
  <1>1. <<>> \in D
    BY NormNone, EmptySeq
  <1>2. ASSUME NEW s \in Seq(Name), NEW e \in Name, s \in D PROVE Append(s, e) \in D
    <2> DEFINE t == Append(s, e)
               q == Norm(s)
    <2>1. q \in Seq(Plain) /\ Norm(t) = Into(q, e)
      BY NormOn
    <2>2. /\ t \in Seq(Name) /\ Len(t) = Len(s) + 1 /\ t[Len(s) + 1] = e
          /\ \A i \in 1..Len(s) : t[i] = s[i]
      BY AppendProperties
    <2>3. Len(s) \in Nat /\ Len(q) \in Nat
      BY <2>1, LenProperties
    <2>4. \A i \in 1..Len(q) : \E j \in 1..Len(t) : q[i] = t[j]
      <3>1. \A i \in 1..Len(q) : \E j \in 1..Len(s) : q[i] = s[j]
        BY <1>2
      <3>2. \A j \in 1..Len(s) : j \in 1..Len(t) /\ t[j] = s[j]
        BY <2>2, <2>3
      <3> QED
        BY <3>1, <3>2
    <2> HIDE DEF t, q, D
    <2>5. ASSUME NEW i \in 1..Len(Into(q, e)) PROVE \E j \in 1..Len(t) : Into(q, e)[i] = t[j]
      <3>1. CASE e # ".."
        <4>1. Into(q, e) = Append(q, e) /\ e \in Plain
          BY <3>1 DEF Into, Plain
        <4>2. /\ Len(Append(q, e)) = Len(q) + 1 /\ Append(q, e)[Len(q) + 1] = e
              /\ \A k \in 1..Len(q) : Append(q, e)[k] = q[k]
          BY <2>1, <4>1, AppendProperties
        <4>3. CASE i = Len(q) + 1
          <5>1. Len(s) + 1 \in 1..Len(t)
            BY <2>2, <2>3
          <5> QED
            BY <2>2, <4>1, <4>2, <4>3, <5>1
        <4>4. CASE i # Len(q) + 1
          <5>1. i \in 1..Len(q)
            BY <2>3, <4>1, <4>2, <4>4
          <5> QED
            BY <2>4, <4>1, <4>2, <5>1
        <4> QED
          BY <4>3, <4>4
      <3>2. CASE e = ".." /\ q = <<>>
        BY <2>4, <3>2 DEF Into
      <3>3. CASE e = ".." /\ q # <<>>
        <4>1. Into(q, e) = Front(q)
          BY <3>3 DEF Into
        <4>2. /\ Front(q) \in Seq(Plain) /\ Len(Front(q)) = Len(q) - 1 /\ q[Len(q)] \in Plain
              /\ q = Append(Front(q), q[Len(q)])
          BY <2>1, <3>3, FrontLast
        <4>3. \A k \in 1..Len(Front(q)) : Append(Front(q), q[Len(q)])[k] = Front(q)[k]
          BY <4>2, AppendProperties
        <4>4. i \in 1..Len(q) /\ Front(q)[i] = q[i]
          BY <2>3, <4>1, <4>2, <4>3
        <4> QED
          BY <2>4, <4>1, <4>4
      <3> QED
        BY <3>1, <3>2, <3>3
    <2> QED
      BY <2>1, <2>2, <2>5 DEF D, t
  <1>3. p \in D
    <2> HIDE DEF D
    <2> QED
      BY <1>1, <1>2, SeqInduction
  <1>4. DOMAIN Norm(p) = 1..Len(Norm(p)) /\ DOMAIN p = 1..Len(p)
    BY NormOn, LenProperties
  <1> QED
    BY <1>3, <1>4 DEF ToSet

-----------------------------------------------------------------------------
(* Where a walk ends.  It does after as many steps as Real takes, for each *)
(* step takes a name away, or a link that brings in the longest target at  *)
(* most.                                                                   *)

ComesTo(f, w, z) == \E n \in Nat : \E g : Walk(f, w, n, g) /\ g[n] = z /\ ~Moving(z)

\* The steps of a walk, one by one.
LEMMA WalkSteps ==
    ASSUME NEW f, NEW w, NEW n \in Nat, NEW g, Walk(f, w, n, g)
    PROVE  g[0] = w /\ \A i \in Nat : i + 1 <= n => g[i + 1] = Onward(f, g[i])
  <1>1. \A i \in 0..n : g[i] = IF i = 0 THEN w ELSE Onward(f, g[i - 1])
    BY DEF Walk
  <1>2. g[0] = w
    BY <1>1
  <1>3. ASSUME NEW i \in Nat, i + 1 <= n PROVE g[i + 1] = Onward(f, g[i])
    <2>1. i + 1 \in 0..n /\ i + 1 # 0 /\ (i + 1) - 1 = i
      BY <1>3
    <2> QED
      BY <1>1, <2>1
  <1> QED
    BY <1>2, <1>3

\* A walk that has ended stays.
LEMMA WalkStays ==
    ASSUME NEW f, NEW w, ~Moving(w)
    PROVE  Onward(f, w) = w
  BY DEF Onward, Moving

\* Two walks from the same place, the one no longer than the other and at its end.
LEMMA WalksMeet ==
    ASSUME NEW f, NEW w, NEW n \in Nat, NEW m \in Nat, n <= m,
           NEW g, Walk(f, w, n, g), ~Moving(g[n]), NEW h, Walk(f, w, m, h)
    PROVE  h[m] = g[n]
  <1>1. g[0] = w /\ \A i \in Nat : i + 1 <= n => g[i + 1] = Onward(f, g[i])
    BY WalkSteps
  <1>2. h[0] = w /\ \A i \in Nat : i + 1 <= m => h[i + 1] = Onward(f, h[i])
    BY WalkSteps
  <1>3. Onward(f, g[n]) = g[n]
    BY WalkStays
  <1> DEFINE D == {i \in Nat : i <= m => h[i] = IF i <= n THEN g[i] ELSE g[n]}
  <1>4. 0 \in D
    BY <1>1, <1>2
  <1>5. ASSUME NEW i \in Nat, i \in D PROVE i + 1 \in D
    <2> SUFFICES ASSUME i + 1 <= m PROVE h[i + 1] = IF i + 1 <= n THEN g[i + 1] ELSE g[n]
      OBVIOUS
    <2>1. h[i] = (IF i <= n THEN g[i] ELSE g[n]) /\ h[i + 1] = Onward(f, h[i])
      BY <1>2, <1>5
    <2> HIDE DEF D
    <2>2. CASE i + 1 <= n
      BY <1>1, <2>1, <2>2
    <2>3. CASE ~(i + 1 <= n)
      <3>1. h[i] = g[n]
        <4>1. i = n \/ ~(i <= n)
          BY <2>3
        <4> QED
          BY <2>1, <4>1
      <3> QED
        BY <1>3, <2>1, <2>3, <3>1
    <2> QED
      BY <2>2, <2>3
  <1>6. m \in D
    <2> HIDE DEF D
    <2> QED
      BY <1>4, <1>5, SetInduction
  <1>7. m <= n => m = n
    OBVIOUS
  <1> QED
    BY <1>6, <1>7

\* A walk ends in one place.
LEMMA EndsOnce ==
    ASSUME NEW f, NEW w, NEW z, NEW y, ComesTo(f, w, z), ComesTo(f, w, y)
    PROVE  z = y
  <1>1. PICK n \in Nat : \E g : Walk(f, w, n, g) /\ g[n] = z /\ ~Moving(z)
    BY DEF ComesTo
  <1>2. PICK g : Walk(f, w, n, g) /\ g[n] = z /\ ~Moving(z)
    BY <1>1
  <1>3. PICK m \in Nat : \E h : Walk(f, w, m, h) /\ h[m] = y /\ ~Moving(y)
    BY DEF ComesTo
  <1>4. PICK h : Walk(f, w, m, h) /\ h[m] = y /\ ~Moving(y)
    BY <1>3
  <1>5. CASE n <= m
    BY <1>2, <1>4, <1>5, WalksMeet
  <1>6. CASE m <= n
    BY <1>2, <1>4, <1>6, WalksMeet
  <1> QED
    BY <1>5, <1>6

\* A walk ends where it would from its next step on.
LEMMA EndsAfter ==
    ASSUME NEW f, NEW w, NEW z, ComesTo(f, w, z)
    PROVE  ComesTo(f, Onward(f, w), z)
  <1>0. PICK n \in Nat : \E g : Walk(f, w, n, g) /\ g[n] = z /\ ~Moving(z)
    BY DEF ComesTo
  <1>1. PICK g : Walk(f, w, n, g) /\ g[n] = z /\ ~Moving(z)
    BY <1>0
  <1>2. PICK h : Walk(f, Onward(f, w), n, h)
    BY WalkExists
  <1>3. g[0] = w /\ \A i \in Nat : i + 1 <= n => g[i + 1] = Onward(f, g[i])
    BY <1>1, WalkSteps
  <1>4. /\ h[0] = Onward(f, w)
        /\ \A i \in Nat : i + 1 <= n => h[i + 1] = Onward(f, h[i])
    BY <1>2, WalkSteps
  <1> DEFINE D == {i \in Nat : i <= n => h[i] = Onward(f, g[i])}
  <1>5. 0 \in D
    BY <1>3, <1>4
  <1>6. ASSUME NEW i \in Nat, i \in D PROVE i + 1 \in D
    <2> SUFFICES ASSUME i + 1 <= n PROVE h[i + 1] = Onward(f, g[i + 1])
      OBVIOUS
    <2>1. h[i] = Onward(f, g[i])
      BY <1>6
    <2> HIDE DEF D
    <2> QED
      BY <1>3, <1>4, <2>1
  <1>7. n \in D
    <2> HIDE DEF D
    <2> QED
      BY <1>5, <1>6, SetInduction
  <1>8. h[n] = Onward(f, g[n])
    BY <1>7
  <1>9. h[n] = z
    BY <1>1, <1>8, WalkStays
  <1> QED
    BY <1>1, <1>2, <1>9 DEF ComesTo

\* What a step that does not end a walk takes: a name, or a link with its longest target for it.
LEMMA StepTakes ==
    ASSUME NEW f, WellMade(f), NEW L \in Nat,
           \A q \in DOMAIN f : IsA(f, q, "link") => Len(f[q].to.names) <= L,
           NEW w, Walker(w), Arrived(f, w), Moving(w), Moving(Onward(f, w))
    PROVE  /\ Len(w.names) \in Nat \ {0} /\ Len(Onward(f, w).names) \in Nat
           /\ \/ /\ Onward(f, w).hops = w.hops
                 /\ Len(Onward(f, w).names) <= Len(w.names) - 1
              \/ /\ w.hops # 0 /\ Onward(f, w).hops = w.hops - 1
                 /\ Len(Onward(f, w).names) <= L + (Len(w.names) - 1)
  <1> DEFINE v == Onward(f, w)
  <1>1. w.names \in Seq(Name) /\ w.names # <<>>
    BY DEF Moving, Arrived
  <1>2. /\ Len(w.names) \in Nat \ {0} /\ Len(Tail(w.names)) = Len(w.names) - 1
        /\ Tail(w.names) \in Seq(Name)
    BY <1>1, EmptySeq, HeadTailProperties
  <1>3. v.err = "ok"
    BY DEF Moving
  <1>4. f[w.path].kind = "dir" /\ Ahead(w) \in DOMAIN f
    <2>1. f[w.path].kind # "dir" => v.err = "notdir"
      BY OnwardFields
    <2>2. f[w.path].kind = "dir" /\ Ahead(w) \notin DOMAIN f => v.err \in {"new", "missing"}
      BY OnwardFields
    <2> QED
      BY <1>3, <2>1, <2>2
  <1>5. CASE f[Ahead(w)].kind # "link"
    <2>1. v = [err |-> "ok", path |-> Ahead(w), names |-> Tail(w.names), hops |-> w.hops]
      BY <1>4, <1>5, OnwardFields
    <2> HIDE DEF v
    <2>2. v.hops = w.hops /\ Len(v.names) = Len(w.names) - 1
      BY <1>2, <2>1
    <2> QED
      BY <1>2, <2>2 DEF v
  <1>6. CASE f[Ahead(w)].kind = "link"
    <2> DEFINE more == f[Ahead(w)].to.names
    <2>1. w.hops # 0
      BY <1>3, <1>4, <1>6, OnwardFields
    <2>2. v = [err |-> "ok", path |-> IF f[Ahead(w)].to.abs THEN <<>> ELSE w.path,
               names |-> more \o Tail(w.names), hops |-> w.hops - 1]
      BY <1>4, <1>6, <2>1, OnwardFields
    <2>3. more \in Seq(Name) /\ Len(more) <= L
      BY <1>4, <1>6 DEF WellMade, IsA
    <2> HIDE DEF v, more
    <2>4. Len(more) \in Nat /\ Len(more \o Tail(w.names)) = Len(more) + Len(Tail(w.names))
      BY <1>2, <2>3, LenProperties, ConcatProperties
    <2>5. Len(v.names) = Len(more) + (Len(w.names) - 1)
      BY <1>2, <2>2, <2>4
    <2>6. Len(v.names) \in Nat /\ Len(v.names) <= L + (Len(w.names) - 1)
      BY <1>2, <2>3, <2>4, <2>5
    <2> QED
      BY <1>2, <2>1, <2>2, <2>6 DEF v
  <1> QED
    BY <1>5, <1>6

\* A walk with so many steps before it as its names and its hops may take comes to its end.
LEMMA EndsWithin ==
    ASSUME NEW f, WellMade(f), NEW L \in Nat,
           \A q \in DOMAIN f : IsA(f, q, "link") => Len(f[q].to.names) <= L,
           NEW most \in Nat, NEW far, \A h \in 0..most : far[h] \in Nat,
           \A h \in 0..most : h # 0 => far[h] = far[h - 1] + L,
           NEW w, Walker(w), Arrived(f, w), w.hops \in 0..most,
           NEW n \in Nat, n = Len(w.names) + far[w.hops], NEW g, Walk(f, w, n, g)
    PROVE  ~Moving(g[n])
  <1> DEFINE Left(v, i) == v.hops \in 0..most /\ Len(v.names) + far[v.hops] + i <= n
             Good(i) == Walker(g[i]) /\ Arrived(f, g[i]) /\ (Moving(g[i]) => Left(g[i], i))
             D == {i \in Nat : i <= n => Good(i)}
  <1>1. g[0] = w /\ \A i \in Nat : i + 1 <= n => g[i + 1] = Onward(f, g[i])
    BY WalkSteps
  <1>2. Good(0)
    <2>1. Moving(w) => Left(w, 0)
      <3>1. Moving(w) => Len(w.names) \in Nat
        BY LenProperties DEF Arrived, Moving
      <3> QED
        BY <3>1
    <2> QED
      BY <1>1, <2>1
  <1>3. ASSUME NEW v, Walker(v), Arrived(f, v), NEW i \in Nat, Moving(v), Left(v, i),
               Moving(Onward(f, v))
        PROVE  Left(Onward(f, v), i + 1)
    <2> DEFINE u == Onward(f, v)
               a == Len(v.names)
               b == Len(u.names)
    <2>1. /\ a \in Nat /\ b \in Nat
          /\ \/ u.hops = v.hops /\ b <= a - 1
             \/ v.hops # 0 /\ u.hops = v.hops - 1 /\ b <= L + (a - 1)
      <3> HIDE DEF Left
      <3> QED
        BY <1>3, StepTakes
    <2>2. v.hops \in 0..most /\ a + far[v.hops] + i <= n
      BY <1>3
    <2> HIDE DEF a, b, u
    <2> SUFFICES u.hops \in 0..most /\ b + far[u.hops] + (i + 1) <= n
      BY DEF u, b
    <2>3. CASE u.hops = v.hops /\ b <= a - 1
      <3> DEFINE x == far[v.hops]
      <3>1. x \in Nat /\ u.hops \in 0..most /\ far[u.hops] = x
        BY <2>2, <2>3
      <3>2. a + x + i <= n
        BY <2>2
      <3> HIDE DEF x
      <3>3. b + x + (i + 1) <= n
        BY <2>1, <2>3, <3>1, <3>2
      <3> QED
        BY <3>1, <3>3
    <2>4. CASE v.hops # 0 /\ u.hops = v.hops - 1 /\ b <= L + (a - 1)
      <3>1. v.hops - 1 \in 0..most /\ far[v.hops] = far[v.hops - 1] + L
        <4> DEFINE h == v.hops
        <4>1. h \in 0..most /\ h # 0
          BY <2>2, <2>4
        <4> HIDE DEF h
        <4>2. h - 1 \in 0..most /\ far[h] = far[h - 1] + L
          BY <4>1
        <4> QED
          BY <4>2 DEF h
      <3> DEFINE x == far[v.hops - 1]
      <3>2. x \in Nat
        BY <3>1
      <3>3. a + (x + L) + i <= n
        BY <2>2, <3>1
      <3>4. u.hops \in 0..most /\ far[u.hops] = x
        BY <2>4, <3>1
      <3> HIDE DEF x
      <3>5. b + x + (i + 1) <= n
        BY <2>1, <2>4, <3>2, <3>3
      <3>6. b + far[u.hops] + (i + 1) <= n
        BY <3>4, <3>5
      <3> QED
        BY <3>4, <3>6
    <2> QED
      BY <2>1, <2>3, <2>4
  <1>4. ASSUME NEW i \in Nat, i + 1 <= n, Good(i) PROVE Good(i + 1)
    <2>1. g[i + 1] = Onward(f, g[i])
      BY <1>1, <1>4
    <2>2. Walker(g[i]) /\ Arrived(f, g[i]) /\ (Moving(g[i]) => Left(g[i], i))
      BY <1>4
    <2> HIDE DEF Left
    <2>3. Walker(Onward(f, g[i])) /\ Arrived(f, Onward(f, g[i]))
      BY <2>2, OnwardArrived
    <2>4. Moving(Onward(f, g[i])) => Moving(g[i])
      BY WalkStays
    <2>5. Moving(Onward(f, g[i])) => Left(Onward(f, g[i]), i + 1)
      BY <1>3, <2>2, <2>4
    <2> QED
      BY <2>1, <2>3, <2>5
  <1> HIDE DEF Good
  <1>5. 0 \in D /\ \A i \in Nat : i \in D => i + 1 \in D
    BY <1>2, <1>4
  <1>6. Good(n)
    <2>1. n \in D
      <3> HIDE DEF D
      <3> QED
        BY <1>5, SetInduction
    <2> QED
      BY <2>1
  <1> SUFFICES ASSUME Moving(g[n]) PROVE FALSE
    OBVIOUS
  <1>7. g[n].hops \in 0..most /\ Len(g[n].names) + far[g[n].hops] + n <= n
    BY <1>6 DEF Good
  <1>8. Len(g[n].names) \in Nat \ {0}
    BY <1>6, EmptySeq DEF Good, Moving, Arrived
  <1>9. far[g[n].hops] \in Nat
    BY <1>7
  <1> QED
    BY <1>7, <1>8, <1>9

\* Real takes as many steps as its path and all the links it may follow can bring in.
LEMMA RealEnds ==
    ASSUME FilesAssumption, NEW f, WellMade(f), NEW p \in Seq(Name)
    PROVE  ComesTo(f, Setout(p), Real(f, p))
  <1> DEFINE L == Longest(f)
             n == Steps(f, p)
             far == [h \in 0..MaxHops |-> h * L]
  <1>1. /\ L \in Nat /\ MaxHops \in Nat /\ Len(p) \in Nat
        /\ \A q \in DOMAIN f : IsA(f, q, "link") => Len(f[q].to.names) <= L
    BY LongestNat, LenProperties DEF FilesAssumption
  <1> HIDE FilesAssumption
  <1>2. /\ \A h \in 0..MaxHops : far[h] \in Nat
        /\ \A h \in 0..MaxHops : h # 0 => far[h] = far[h - 1] + L
    <2> HIDE DEF L
    <2>1. ASSUME NEW h \in 0..MaxHops PROVE h * L \in Nat
      <3>1. h \in Nat /\ L \in Nat
        BY <1>1
      <3> QED
        BY <3>1
    <2>2. ASSUME NEW h \in 0..MaxHops, h # 0
          PROVE  h - 1 \in 0..MaxHops /\ h * L = (h - 1) * L + L
      <3>1. h - 1 \in 0..MaxHops /\ h \in Int /\ L \in Int
        BY <1>1, <2>2
      <3> QED
        BY <3>1
    <2> QED
      BY <2>1, <2>2
  <1>3. n = Len(p) + far[MaxHops]
    BY <1>1 DEF Steps
  <1> HIDE DEF L, far
  <1>4. n \in Nat
    BY <1>1, <1>2, <1>3
  <1>5. PICK g : Walk(f, Setout(p), n, g) /\ Real(f, p) = g[n]
    BY <1>4, RealWalks
  <1> HIDE DEF n
  <1> DEFINE w == Setout(p)
  <1>6. /\ Walker(w) /\ Arrived(f, w) /\ w.hops \in 0..MaxHops /\ n = Len(w.names) + far[w.hops]
    BY <1>1, <1>3 DEF Setout, Walker, Arrived, WellMade
  <1>7. ~Moving(g[n])
    <2>1. Walk(f, w, n, g)
      BY <1>5
    <2> HIDE DEF w
    <2> QED
      BY <1>1, <1>2, <1>4, <1>6, <2>1, EndsWithin
  <1> QED
    BY <1>4, <1>5, <1>7 DEF ComesTo

-----------------------------------------------------------------------------
(* Straight ways.  A path that meets no link leads to its normal form, if  *)
(* what it names on the way are directories.                               *)

\* What comes after the first k of a sequence.
Rest(s, k) == SubSeq(s, k + 1, Len(s))

LEMMA CutBehind ==
    ASSUME NEW S, NEW s \in Seq(S), NEW k \in Nat, k < Len(s)
    PROVE  /\ SubSeq(s, 1, k) \in Seq(S) /\ s[k + 1] \in S
           /\ SubSeq(s, 1, k + 1) = Append(SubSeq(s, 1, k), s[k + 1])
           /\ Rest(s, k) \in Seq(S) /\ Rest(s, k) # <<>> /\ Len(Rest(s, k)) = Len(s) - k
           /\ Head(Rest(s, k)) = s[k + 1] /\ Tail(Rest(s, k)) = Rest(s, k + 1)
  <1> DEFINE n == Len(s)
  <1>1. n \in Nat /\ \A i \in 1..n : s[i] \in S
    BY LenProperties, ElementOfSeq
  <1> HIDE DEF n
  <1>2. k + 1 \in 1..n
    BY <1>1 DEF n
  <1>3. s[k + 1] \in S
    BY <1>1, <1>2
  <1>4. SubSeq(s, 1, k) \in Seq(S)
    <2>1. \A i \in 1..k : s[i] \in S
      BY <1>1, <1>2
    <2>2. 1 \in Int /\ k \in Int
      OBVIOUS
    <2> QED
      BY <2>1, <2>2, SubSeqProperties
  <1>5. SubSeq(s, 1, k + 1) = Append(SubSeq(s, 1, k), s[k + 1])
    <2>1. 1 \in 1..Len(s) /\ k + 1 \in 1..Len(s) /\ (k + 1) - 1 = k
      BY <1>1, <1>2 DEF n
    <2>2. SubSeq(s, 1, k + 1) = SubSeq(s, 1, (k + 1) - 1) \o <<s[k + 1]>>
      BY <2>1, SubSeqRecursiveSecond
    <2>3. Append(SubSeq(s, 1, k), s[k + 1]) = SubSeq(s, 1, k) \o <<s[k + 1]>>
      BY <1>3, <1>4, AppendIsConcat
    <2> QED
      BY <2>1, <2>2, <2>3
  <1>6. Rest(s, k) \in Seq(S) /\ Len(Rest(s, k)) = n - k
    <2>1. \A i \in (k + 1)..n : s[i] \in S
      BY <1>1
    <2>2. k + 1 \in Int /\ n \in Int
      BY <1>1
    <2>3. /\ SubSeq(s, k + 1, n) \in Seq(S)
          /\ Len(SubSeq(s, k + 1, n)) = IF k + 1 <= n THEN n - (k + 1) + 1 ELSE 0
      BY <2>1, <2>2, SubSeqProperties
    <2>4. k + 1 <= n /\ n - (k + 1) + 1 = n - k
      BY <1>1, <1>2
    <2> QED
      BY <2>3, <2>4 DEF Rest, n
  <1>7. Rest(s, k) # <<>>
    BY <1>1, <1>2, <1>6, EmptySeq
  <1>8. Head(Rest(s, k)) = s[k + 1] /\ Tail(Rest(s, k)) = Rest(s, k + 1)
    <2>1. k + 1 \in 1..Len(s) /\ Len(s) \in (k + 1)..Len(s) /\ (k + 1) + 1 = k + 2
      BY <1>1, <1>2 DEF n
    <2> QED
      BY <2>1, HeadTailOfSubSeq DEF Rest
  <1> QED
    BY <1>3, <1>4, <1>5, <1>6, <1>7, <1>8 DEF n

\* None of a sequence, and all of it.
LEMMA NoneAndAll ==
    ASSUME NEW S, NEW s \in Seq(S)
    PROVE  /\ SubSeq(s, 1, 0) = <<>> /\ Rest(s, 0) = s
           /\ SubSeq(s, 1, Len(s)) = s /\ Rest(s, Len(s)) = <<>>
  <1>1. Len(s) \in Nat
    BY LenProperties
  <1>2. SubSeq(s, 1, 0) = <<>>
    BY SubSeqEmpty
  <1>3. SubSeq(s, 1, Len(s)) = s
    BY SubSeqFull
  <1>4. SubSeq(s, Len(s) + 1, Len(s)) = <<>>
    <2>1. Len(s) + 1 \in Int /\ Len(s) \in Int /\ Len(s) < Len(s) + 1
      BY <1>1
    <2> QED
      BY <2>1, SubSeqEmpty
  <1> QED
    BY <1>2, <1>3, <1>4 DEF Rest

\* A walk that does not move has come to its end.
LEMMA EndsHere ==
    ASSUME NEW f, NEW w, ~Moving(w)
    PROVE  ComesTo(f, w, w)
  <1>1. PICK g : Walk(f, w, 0, g)
    BY WalkExists
  <1>2. g[0] = w
    BY <1>1, WalkSteps
  <1> QED
    BY <1>1, <1>2 DEF ComesTo

\* A walk at q with r to come and no link behind it.
Stands(q, r) == [err |-> "ok", path |-> q, names |-> r, hops |-> MaxHops]
Begun(s, k) == Norm(SubSeq(s, 1, k))

\* What a walk along s may come to when it meets no link.
Straight(f, s, z) ==
    \/ z.err = "ok" /\ z.path = Norm(s) /\ \A k \in 0..(Len(s) - 1) : IsA(f, Begun(s, k), "dir")
    \/ /\ z.err = "new" /\ z.path = Norm(s) /\ Norm(s) \notin DOMAIN f
       /\ \A k \in 0..(Len(s) - 1) : IsA(f, Begun(s, k), "dir")
    \/ z.err = "missing" /\ \E k \in 1..(Len(s) - 1) : Begun(s, k) \notin DOMAIN f
    \/ z.err = "notdir" /\ \E k \in 0..(Len(s) - 1) : /\ Begun(s, k) \in DOMAIN f
                                                      /\ f[Begun(s, k)].kind # "dir"

LEMMA StraightWays ==
    ASSUME NEW f, WellMade(f), NEW s \in Seq(Name), NEW z, ComesTo(f, Setout(s), z),
           \A k \in 1..Len(s) : ~IsA(f, Begun(s, k), "link")
    PROVE  Straight(f, s, z)
  <1> DEFINE n == Len(s)
             Dirs(k) == \A j \in 0..(k - 1) : IsA(f, Begun(s, j), "dir")
             On(k) == /\ ComesTo(f, Stands(Begun(s, k), Rest(s, k)), z)
                      /\ Begun(s, k) \in DOMAIN f /\ Dirs(k)
             D == {k \in Nat : k <= n => On(k) \/ Straight(f, s, z)}
  <1>1. n \in Nat /\ SubSeq(s, 1, n) = s /\ Rest(s, n) = <<>>
    BY LenProperties, NoneAndAll
  <1>2. On(0)
    <2>1. SubSeq(s, 1, 0) = <<>> /\ Rest(s, 0) = s
      BY NoneAndAll
    <2>2. Begun(s, 0) = <<>>
      BY <2>1, NormNone DEF Begun
    <2>3. Stands(Begun(s, 0), Rest(s, 0)) = Setout(s)
      BY <2>1, <2>2 DEF Stands, Setout
    <2> QED
      BY <2>2, <2>3 DEF WellMade
  <1> HIDE DEF n
  <1>3. ASSUME NEW k \in Nat, k + 1 <= n, On(k) PROVE On(k + 1) \/ Straight(f, s, z)
    <2> DEFINE q == Begun(s, k)
               r == Rest(s, k)
               w == Stands(q, r)
               to == Begun(s, k + 1)
    <2>1. k < Len(s) /\ k \in 0..(n - 1)
      BY <1>1, <1>3 DEF n
    <2>2. /\ SubSeq(s, 1, k) \in Seq(Name) /\ s[k + 1] \in Name
          /\ SubSeq(s, 1, k + 1) = Append(SubSeq(s, 1, k), s[k + 1])
          /\ r # <<>> /\ Len(r) = n - k /\ Head(r) = s[k + 1] /\ Tail(r) = Rest(s, k + 1)
      BY <2>1, CutBehind DEF n
    <2>3. to = Into(q, s[k + 1])
      BY <2>2, NormOn DEF Begun
    <2>4. ComesTo(f, w, z) /\ q \in DOMAIN f /\ Dirs(k)
      BY <1>3
    <2> HIDE DEF Dirs, On, D
    <2>5. Walker(w) /\ Moving(w) /\ w.path = q /\ w.names = r /\ w.hops = MaxHops /\ Ahead(w) = to
      BY <2>2, <2>3 DEF Stands, Walker, Moving, Ahead
    <2>6. ComesTo(f, Onward(f, w), z)
      BY <2>4, EndsAfter
    <2> HIDE DEF q, r, w, to
    <2>7. ~Moving(Onward(f, w)) => z = Onward(f, w)
      BY <2>6, EndsHere, EndsOnce
    <2>8. CASE f[q].kind # "dir"
      <3>1. Onward(f, w).err = "notdir"
        BY <2>5, <2>8, OnwardFields
      <3>2. z.err = "notdir"
        BY <2>7, <3>1 DEF Moving
      <3> QED
        BY <2>1, <2>4, <2>8, <3>2 DEF Straight, q, n
    <2>9. CASE f[q].kind = "dir" /\ to \notin DOMAIN f
      <3>1. /\ Onward(f, w).path = to
            /\ Onward(f, w).err = IF Len(r) = 1 THEN "new" ELSE "missing"
        BY <2>5, <2>9, OnwardFields
      <3>2. z = Onward(f, w)
        BY <2>7, <3>1 DEF Moving
      <3>3. CASE Len(r) = 1
        <4>1. k + 1 = n /\ k = n - 1
          <5> DEFINE m == Len(r)
          <5>1. m = 1 /\ m = n - k /\ n \in Nat
            BY <1>1, <2>2, <3>3
          <5> HIDE DEF m
          <5> QED
            BY <5>1
        <4>2. to = Norm(s)
          BY <1>1, <4>1 DEF to, Begun
        <4>3. ASSUME NEW j \in 0..(n - 1) PROVE IsA(f, Begun(s, j), "dir")
          <5>1. j = k \/ j \in 0..(k - 1)
            BY <1>1, <4>1
          <5>2. IsA(f, q, "dir")
            BY <2>4, <2>9 DEF IsA
          <5> QED
            BY <2>4, <5>1, <5>2 DEF q, Dirs
        <4> QED
          BY <2>9, <3>1, <3>2, <3>3, <4>2, <4>3 DEF Straight, n
      <3>4. CASE Len(r) # 1
        <4>1. k + 1 \in 1..(n - 1)
          BY <1>1, <1>3, <2>2, <3>4
        <4> QED
          BY <2>9, <3>1, <3>2, <3>4, <4>1 DEF Straight, n, to
      <3> QED
        BY <3>3, <3>4
    <2>10. CASE f[q].kind = "dir" /\ to \in DOMAIN f
      <3>1. f[to].kind # "link"
        <4>1. k + 1 \in 1..Len(s)
          BY <1>1, <1>3 DEF n
        <4> QED
          BY <2>10, <4>1 DEF IsA, to
      <3>2. Onward(f, w) = [err |-> "ok", path |-> to, names |-> Tail(r), hops |-> MaxHops]
        BY <2>5, <2>10, <3>1, OnwardFields
      <3>3. Onward(f, w) = Stands(to, Rest(s, k + 1))
        BY <2>2, <3>2 DEF Stands
      <3>4. Dirs(k + 1)
        <4> SUFFICES ASSUME NEW j \in 0..((k + 1) - 1) PROVE IsA(f, Begun(s, j), "dir")
          BY DEF Dirs
        <4>1. j = k \/ j \in 0..(k - 1)
          OBVIOUS
        <4>2. IsA(f, q, "dir")
          BY <2>4, <2>10 DEF IsA
        <4> QED
          BY <2>4, <4>1, <4>2 DEF q, Dirs
      <3>5. On(k + 1)
        BY <2>6, <2>10, <3>3, <3>4 DEF On, to
      <3> QED
        BY <3>5
    <2> QED
      BY <2>8, <2>9, <2>10
  <1> HIDE DEF On
  <1>4. 0 \in D /\ \A k \in Nat : k \in D => k + 1 \in D
    BY <1>1, <1>2, <1>3
  <1>5. On(n) \/ Straight(f, s, z)
    <2> HIDE DEF D
    <2>1. n \in D
      BY <1>1, <1>4, SetInduction
    <2> QED
      BY <1>1, <2>1 DEF D
  <1>6. ASSUME On(n) PROVE Straight(f, s, z)
    <2> DEFINE w == Stands(Norm(s), <<>>)
    <2>1. ComesTo(f, w, z) /\ Dirs(n)
      BY <1>1, <1>6 DEF On, Begun
    <2>2. ComesTo(f, w, w)
      BY EndsHere DEF Moving, Stands
    <2>3. z = w
      <3> HIDE DEF w
      <3> QED
        BY <2>1, <2>2, EndsOnce
    <2>4. z.err = "ok" /\ z.path = Norm(s)
      BY <2>3 DEF Stands
    <2> QED
      BY <2>1, <2>4 DEF Straight, n
  <1> QED
    BY <1>5, <1>6

-----------------------------------------------------------------------------
(* Two walks that end alike.  The one along a path goes on where the one   *)
(* along its parent has ended, and one that has met more links ends where  *)
(* one that has met fewer does, if not in a loop.                          *)

\* What is known of a path that Real has followed.
LEMMA RealKnown ==
    ASSUME FilesAssumption, NEW f, WellMade(f), NEW p \in Seq(Name)
    PROVE  ComesTo(f, Setout(p), Real(f, p)) /\ Arrived(f, Real(f, p))
  BY RealEnds, RealArrived

\* The last name is still to come when the walk along the names before it has ended.
LEMMA LastToGo ==
    ASSUME FilesAssumption, NEW f, WellMade(f), NEW u \in Seq(Name), NEW last \in Name,
           NEW up, ComesTo(f, Setout(u), up), up.err = "ok",
           NEW t, ComesTo(f, Setout(Append(u, last)), t)
    PROVE  ComesTo(f, [err |-> "ok", path |-> up.path, names |-> <<last>>, hops |-> up.hops], t)
  <1> DEFINE Longer(v) == [err |-> "ok", path |-> v.path, names |-> Append(v.names, last),
                           hops |-> v.hops]
             Good(v) == v.err = "ok" => v.names \in Seq(Name) /\ ComesTo(f, Longer(v), t)
  <1>1. PICK n \in Nat : \E g : Walk(f, Setout(u), n, g) /\ g[n] = up /\ ~Moving(up)
    BY DEF ComesTo
  <1>2. PICK g : Walk(f, Setout(u), n, g) /\ g[n] = up /\ ~Moving(up)
    BY <1>1
  <1>3. g[0] = Setout(u) /\ \A i \in Nat : i + 1 <= n => g[i + 1] = Onward(f, g[i])
    <2> DEFINE w == Setout(u)
    <2>1. Walk(f, w, n, g)
      BY <1>2
    <2> HIDE DEF w
    <2>2. g[0] = w /\ \A i \in Nat : i + 1 <= n => g[i + 1] = Onward(f, g[i])
      BY <2>1, WalkSteps
    <2> QED
      BY <2>2 DEF w
  <1>4. Walker(Setout(u)) /\ Good(Setout(u))
    <2>1. Longer(Setout(u)) = Setout(Append(u, last))
      BY DEF Setout
    <2> QED
      BY <2>1 DEF Setout, Walker
  <1>5. ASSUME NEW v, Walker(v), Good(v) PROVE Walker(Onward(f, v)) /\ Good(Onward(f, v))
    <2> DEFINE w == Longer(v)
               v1 == Onward(f, v)
               w1 == Onward(f, w)
    <2>1. Walker(v1)
      BY <1>5, OnwardFields
    <2>2. CASE ~Moving(v)
      BY <1>5, <2>2, WalkStays
    <2>3. CASE Moving(v)
      <3> SUFFICES ASSUME v1.err = "ok" PROVE v1.names \in Seq(Name) /\ ComesTo(f, Longer(v1), t)
        BY <2>1
      <3>1. v.err = "ok" /\ v.names # <<>> /\ v.names \in Seq(Name) /\ ComesTo(f, w, t)
        BY <1>5, <2>3 DEF Moving
      <3>2. Walker(w) /\ Beside(w, v, last)
        BY <3>1 DEF Walker, Beside
      <3>3. Beside(w1, v1, last)
        <4>1. \/ Beside(w1, v1, last)
              \/ v1.err \in {"notdir", "loop"}
              \/ v1.err \in {"new", "missing"} /\ w1.err = "missing"
          <5> HIDE DEF w
          <5> QED
            BY <1>5, <3>1, <3>2, StepsBeside
        <4> QED
          BY <4>1
      <3>4. Walker(w1)
        BY <3>2, OnwardFields
      <3>5. ComesTo(f, w1, t)
        <4> HIDE DEF w
        <4> QED
          BY <3>1, EndsAfter
      <3> HIDE DEF w1, v1
      <3>6. w1 = Longer(v1) /\ v1.names \in Seq(Name)
        BY <3>3, <3>4 DEF Beside, Walker
      <3> QED
        BY <3>5, <3>6
    <2> QED
      BY <2>1, <2>2, <2>3
  <1> HIDE DEF Good
  <1> DEFINE D == {i \in Nat : i <= n => Walker(g[i]) /\ Good(g[i])}
  <1>6. 0 \in D
    BY <1>3, <1>4
  <1>7. ASSUME NEW i \in Nat, i \in D PROVE i + 1 \in D
    <2> SUFFICES ASSUME i + 1 <= n PROVE Walker(g[i + 1]) /\ Good(g[i + 1])
      OBVIOUS
    <2>1. Walker(g[i]) /\ Good(g[i]) /\ g[i + 1] = Onward(f, g[i])
      BY <1>3, <1>7
    <2> HIDE DEF D
    <2> QED
      BY <1>5, <2>1
  <1>8. Good(up)
    <2>1. n \in D
      <3> HIDE DEF D
      <3> QED
        BY <1>6, <1>7, SetInduction
    <2> QED
      BY <1>2, <2>1
  <1>9. up.names = <<>> /\ ComesTo(f, Longer(up), t)
    BY <1>2, <1>8 DEF Good, Moving
  <1>10. Append(<<>>, last) = <<last>>
    OBVIOUS
  <1> QED
    BY <1>9, <1>10

\* The same place and the same names, but fewer links that may be followed.
Fewer(w, v) ==
    \/ w.err = "loop"
    \/ /\ w.err = v.err /\ w.path = v.path /\ w.names = v.names
       /\ w.err = "ok" => w.hops \in Nat /\ v.hops \in Nat /\ w.hops <= v.hops

LEMMA StepsFewer ==
    ASSUME NEW f, NEW w, NEW v, Walker(w), Walker(v), Fewer(w, v)
    PROVE  Fewer(Onward(f, w), Onward(f, v))
  <1>1. CASE ~Moving(w)
    <2>1. Onward(f, w) = w
      BY <1>1, WalkStays
    <2>2. w.err = "loop" \/ ~Moving(v)
      BY <1>1 DEF Fewer, Moving
    <2>3. CASE w.err = "loop"
      BY <2>1, <2>3 DEF Fewer
    <2>4. CASE ~Moving(v)
      BY <2>1, <2>4, WalkStays
    <2> QED
      BY <2>2, <2>3, <2>4
  <1>2. CASE Moving(w)
    <2>1. /\ w.err = v.err /\ w.path = v.path /\ w.names = v.names
          /\ w.hops \in Nat /\ v.hops \in Nat /\ w.hops <= v.hops
          /\ Moving(v) /\ Ahead(w) = Ahead(v)
      BY <1>2 DEF Fewer, Moving, Ahead
    <2>2. CASE f[w.path].kind # "dir"
      <3>1. Onward(f, w) = [w EXCEPT !.err = "notdir"] /\ Onward(f, v) = [v EXCEPT !.err = "notdir"]
        BY <1>2, <2>1, <2>2 DEF Onward, Moving
      <3>2. /\ Onward(f, w).err = "notdir" /\ Onward(f, w).path = w.path
            /\ Onward(f, w).names = w.names
            /\ Onward(f, v).err = "notdir" /\ Onward(f, v).path = v.path
            /\ Onward(f, v).names = v.names
        BY <3>1 DEF Walker
      <3> QED
        BY <2>1, <3>2 DEF Fewer
    <2>3. CASE f[w.path].kind = "dir" /\ Ahead(w) \notin DOMAIN f
      <3> DEFINE gone == IF Len(w.names) = 1 THEN "new" ELSE "missing"
      <3>1. /\ Onward(f, w) = [w EXCEPT !.err = gone, !.path = Ahead(w)]
            /\ Onward(f, v) = [v EXCEPT !.err = gone, !.path = Ahead(w)]
        BY <1>2, <2>1, <2>3 DEF Onward, Moving, Ahead
      <3>2. gone # "ok"
        OBVIOUS
      <3> HIDE DEF gone
      <3>3. /\ Onward(f, w).err = gone /\ Onward(f, w).path = Ahead(w)
            /\ Onward(f, w).names = w.names
            /\ Onward(f, v).err = gone /\ Onward(f, v).path = Ahead(w)
            /\ Onward(f, v).names = v.names
        BY <3>1 DEF Walker
      <3> QED
        BY <2>1, <3>2, <3>3 DEF Fewer
    <2>4. CASE f[w.path].kind = "dir" /\ Ahead(w) \in DOMAIN f /\ f[Ahead(w)].kind # "link"
      <3>1. /\ Onward(f, w) = [err |-> "ok", path |-> Ahead(w), names |-> Tail(w.names),
                               hops |-> w.hops]
            /\ Onward(f, v) = [err |-> "ok", path |-> Ahead(v), names |-> Tail(v.names),
                               hops |-> v.hops]
        BY <1>2, <2>1, <2>4, OnwardFields
      <3> QED
        BY <2>1, <3>1 DEF Fewer
    <2>5. CASE f[w.path].kind = "dir" /\ Ahead(w) \in DOMAIN f /\ f[Ahead(w)].kind = "link"
      <3>1. CASE w.hops = 0
        BY <1>2, <2>5, <3>1, OnwardFields DEF Fewer
      <3>2. CASE w.hops # 0
        <4> DEFINE at == IF f[Ahead(w)].to.abs THEN <<>> ELSE w.path
                   names == f[Ahead(w)].to.names \o Tail(w.names)
        <4>1. v.hops # 0
          BY <2>1, <3>2
        <4>2. Onward(f, w) = [err |-> "ok", path |-> at, names |-> names, hops |-> w.hops - 1]
          BY <1>2, <2>5, <3>2, OnwardFields
        <4>3. Onward(f, v) = [err |-> "ok", path |-> at, names |-> names, hops |-> v.hops - 1]
          <5>1. /\ Moving(v) /\ f[v.path].kind = "dir" /\ Ahead(v) \in DOMAIN f
                /\ f[Ahead(v)].kind = "link"
            BY <2>1, <2>5
          <5>2. Onward(f, v) = [err |-> "ok",
                                path |-> IF f[Ahead(v)].to.abs THEN <<>> ELSE v.path,
                                names |-> f[Ahead(v)].to.names \o Tail(v.names),
                                hops |-> v.hops - 1]
            BY <4>1, <5>1, OnwardFields
          <5> QED
            BY <2>1, <5>2
        <4> HIDE DEF at, names
        <4>4. w.hops - 1 \in Nat /\ v.hops - 1 \in Nat /\ w.hops - 1 <= v.hops - 1
          BY <2>1, <3>2, <4>1
        <4> QED
          BY <4>2, <4>3, <4>4 DEF Fewer
      <3> QED
        BY <3>1, <3>2
    <2> QED
      BY <2>2, <2>3, <2>4, <2>5
  <1> QED
    BY <1>1, <1>2

LEMMA EndsFewer ==
    ASSUME NEW f, NEW w, NEW v, Walker(w), Walker(v), Fewer(w, v),
           NEW z, ComesTo(f, w, z), NEW y, ComesTo(f, v, y)
    PROVE  Fewer(z, y)
  <1>1. PICK n \in Nat : \E g : Walk(f, w, n, g) /\ g[n] = z /\ ~Moving(z)
    BY DEF ComesTo
  <1>2. PICK m \in Nat : \E g : Walk(f, v, m, g) /\ g[m] = y /\ ~Moving(y)
    BY DEF ComesTo
  <1> DEFINE k == n + m
  <1>3. k \in Nat /\ n <= k /\ m <= k
    OBVIOUS
  <1> HIDE DEF k
  <1>4. PICK g : Walk(f, w, k, g)
    BY <1>3, WalkExists
  <1>5. PICK h : Walk(f, v, k, h)
    BY <1>3, WalkExists
  <1>6. g[k] = z
    <2>1. PICK a : Walk(f, w, n, a) /\ a[n] = z /\ ~Moving(z)
      BY <1>1
    <2> QED
      BY <1>3, <1>4, <2>1, WalksMeet
  <1>7. h[k] = y
    <2>1. PICK a : Walk(f, v, m, a) /\ a[m] = y /\ ~Moving(y)
      BY <1>2
    <2> QED
      BY <1>3, <1>5, <2>1, WalksMeet
  <1>8. g[0] = w /\ \A i \in Nat : i + 1 <= k => g[i + 1] = Onward(f, g[i])
    BY <1>3, <1>4, WalkSteps
  <1>9. h[0] = v /\ \A i \in Nat : i + 1 <= k => h[i + 1] = Onward(f, h[i])
    BY <1>3, <1>5, WalkSteps
  <1> DEFINE D == {i \in Nat : i <= k => Walker(g[i]) /\ Walker(h[i]) /\ Fewer(g[i], h[i])}
  <1>10. 0 \in D
    BY <1>8, <1>9
  <1>11. ASSUME NEW i \in Nat, i \in D PROVE i + 1 \in D
    <2> SUFFICES ASSUME i + 1 <= k
                 PROVE  Walker(g[i + 1]) /\ Walker(h[i + 1]) /\ Fewer(g[i + 1], h[i + 1])
      OBVIOUS
    <2>1. i <= k
      BY <1>3
    <2>2. Walker(g[i]) /\ Walker(h[i]) /\ Fewer(g[i], h[i])
      BY <1>11, <2>1
    <2> HIDE DEF D
    <2>3. Walker(Onward(f, g[i])) /\ Walker(Onward(f, h[i]))
      BY <2>2, OnwardFields
    <2> QED
      BY <1>8, <1>9, <2>2, <2>3, StepsFewer
  <1>12. k \in D
    <2> HIDE DEF D
    <2> QED
      BY <1>3, <1>10, <1>11, SetInduction
  <1> QED
    BY <1>3, <1>6, <1>7, <1>12

-----------------------------------------------------------------------------
(* Trees in which what is there is in a directory, and where a walk in one *)
(* of them can be.                                                         *)

Closed(f) == \A p \in DOMAIN f \ {<<>>} : IsA(f, Front(p), "dir")

Orderly(f, w) ==
    /\ Walker(w) /\ Arrived(f, w)
    /\ w.path \in Seq(Plain) /\ w.hops \in 0..MaxHops
    /\ w.err = "new" => w.path # <<>> /\ IsA(f, Front(w.path), "dir")

LEMMA FrontAppend ==
    ASSUME NEW S, NEW s \in Seq(S), NEW e \in S
    PROVE  /\ Append(s, e) \in Seq(S) /\ Append(s, e) # <<>>
           /\ Front(Append(s, e)) = s /\ Append(s, e)[Len(Append(s, e))] = e
  <1> DEFINE p == Append(s, e)
  <1>1. p \in Seq(S) /\ p # <<>> /\ Len(p) = Len(s) + 1 /\ p[Len(s) + 1] = e
    BY AppendProperties
  <1> HIDE DEF p
  <1>2. Front(p) \in Seq(S) /\ p[Len(p)] \in S /\ p = Append(Front(p), p[Len(p)])
    BY <1>1, FrontLast
  <1>3. Append(Front(p), p[Len(p)]) = Append(s, e)
    BY <1>2 DEF p
  <1>4. Front(p) = s
    BY <1>2, <1>3, AppendInjective
  <1> QED
    BY <1>1, <1>4 DEF p

\* Below what is there are directories only.
LEMMA ClosedPrefix ==
    ASSUME NEW f, Closed(f), NEW q \in Seq(Name), q \in DOMAIN f, NEW k \in 0..(Len(q) - 1)
    PROVE  IsA(f, SubSeq(q, 1, k), "dir")
  <1> DEFINE Below(s) == s \in DOMAIN f => \A j \in 0..(Len(s) - 1) : IsA(f, SubSeq(s, 1, j), "dir")
             D == {s \in Seq(Name) : Below(s)}
  <1>1. <<>> \in D
    BY EmptySeq
  <1>2. ASSUME NEW s \in Seq(Name), NEW e \in Name, s \in D PROVE Append(s, e) \in D
    <2> DEFINE t == Append(s, e)
    <2>1. t \in Seq(Name) /\ t # <<>> /\ Front(t) = s
      BY FrontAppend
    <2>2. Len(t) = Len(s) + 1 /\ Len(s) \in Nat
      BY AppendProperties, LenProperties
    <2>3. \A j \in 0..Len(s) : SubSeq(t, 1, j) = SubSeq(s, 1, j)
      <3>1. ASSUME NEW j \in 1..Len(s) PROVE SubSeq(t, 1, j) = SubSeq(s, 1, j)
        <4>1. t = s \o <<e>> /\ <<e>> \in Seq(Name)
          BY AppendIsConcat
        <4>2. 1 \in 1..Len(s) /\ j \in 1..Len(s)
          BY <2>2
        <4> HIDE DEF t
        <4>3. SubSeq(s \o <<e>>, 1, j) = SubSeq(s, 1, j)
          BY <4>1, <4>2, SubSeqOfConcat1
        <4> QED
          BY <4>1, <4>3
      <3>2. SubSeq(t, 1, 0) = <<>> /\ SubSeq(s, 1, 0) = <<>>
        BY <2>1, NoneAndAll
      <3>3. \A j \in 0..Len(s) : j = 0 \/ j \in 1..Len(s)
        BY <2>2
      <3> QED
        BY <3>1, <3>2, <3>3
    <2> HIDE DEF t
    <2>4. ASSUME t \in DOMAIN f, NEW j \in 0..(Len(t) - 1) PROVE IsA(f, SubSeq(t, 1, j), "dir")
      <3>1. IsA(f, s, "dir") /\ s \in DOMAIN f
        BY <2>1, <2>4 DEF Closed, IsA
      <3>2. \A i \in 0..(Len(s) - 1) : IsA(f, SubSeq(s, 1, i), "dir")
        BY <1>2, <3>1
      <3>3. j = Len(s) \/ j \in 0..(Len(s) - 1)
        BY <2>2
      <3>4. SubSeq(t, 1, j) = SubSeq(s, 1, j)
        BY <2>2, <2>3, <3>3
      <3>5. SubSeq(s, 1, Len(s)) = s
        BY NoneAndAll
      <3> QED
        BY <3>1, <3>2, <3>3, <3>4, <3>5
    <2> QED
      BY <2>1, <2>4 DEF t
  <1>3. q \in D
    <2> HIDE DEF D
    <2> QED
      BY <1>1, <1>2, SeqInduction
  <1> QED
    BY <1>3

\* Plain names and names.
LEMMA PlainNames ==
    ASSUME NEW q \in Seq(Plain)
    PROVE  q \in Seq(Name)
  BY SeqMonotonic DEF Plain

\* A step leads to where a walk can be.
LEMMA OnwardOrderly ==
    ASSUME MaxHops \in Nat, NEW f, WellMade(f), Closed(f), NEW w, Orderly(f, w)
    PROVE  Orderly(f, Onward(f, w))
  <1> DEFINE v == Onward(f, w)
  <1>1. /\ Walker(w) /\ Arrived(f, w) /\ w.path \in Seq(Plain) /\ w.hops \in 0..MaxHops
    BY DEF Orderly
  <1>2. Walker(v) /\ Arrived(f, v)
    BY <1>1, OnwardArrived
  <1>3. CASE ~Moving(w)
    BY <1>3, WalkStays
  <1>4. CASE Moving(w)
    <2>1. Head(w.names) \in Name
      BY <1>1, <1>4, HeadTailProperties DEF Moving, Arrived
    <2>2. Ahead(w) \in Seq(Plain)
      BY <1>1, <2>1, IntoPlain DEF Ahead
    <2>3. CASE f[w.path].kind # "dir"
      <3>1. v = [w EXCEPT !.err = "notdir"]
        BY <1>4, <2>3 DEF Onward, Moving
      <3>2. v.err = "notdir" /\ v.path = w.path /\ v.hops = w.hops
        BY <1>1, <3>1 DEF Walker
      <3> QED
        BY <1>1, <1>2, <3>2 DEF Orderly
    <2>4. CASE f[w.path].kind = "dir" /\ Ahead(w) \notin DOMAIN f
      <3> DEFINE gone == IF Len(w.names) = 1 THEN "new" ELSE "missing"
      <3>1. v = [w EXCEPT !.err = gone, !.path = Ahead(w)]
        BY <1>4, <2>4 DEF Onward, Moving, Ahead
      <3> HIDE DEF gone
      <3>2. v.path = Ahead(w) /\ v.hops = w.hops
        BY <1>1, <3>1 DEF Walker
      <3>3. w.path \in DOMAIN f
        BY <1>1, <1>4 DEF Moving, Arrived
      <3>4. Ahead(w) # <<>> /\ IsA(f, Front(Ahead(w)), "dir")
        <4>1. CASE Head(w.names) # ".."
          <5>1. Ahead(w) = Append(w.path, Head(w.names)) /\ Head(w.names) \in Plain
            BY <2>1, <4>1 DEF Ahead, Into, Plain
          <5>2. Ahead(w) # <<>> /\ Front(Ahead(w)) = w.path
            BY <1>1, <5>1, FrontAppend
          <5> QED
            BY <2>4, <3>3, <5>2 DEF IsA
        <4>2. CASE Head(w.names) = ".."
          <5>1. w.path # <<>> => Front(w.path) \in DOMAIN f
            BY <3>3 DEF Closed, IsA
          <5>2. Ahead(w) \in DOMAIN f
            BY <3>3, <4>2, <5>1 DEF Ahead, Into
          <5> QED
            BY <2>4, <5>2
        <4> QED
          BY <4>1, <4>2
      <3> QED
        BY <1>1, <1>2, <2>2, <3>2, <3>4 DEF Orderly
    <2>5. CASE f[w.path].kind = "dir" /\ Ahead(w) \in DOMAIN f /\ f[Ahead(w)].kind # "link"
      <3>1. v = [err |-> "ok", path |-> Ahead(w), names |-> Tail(w.names), hops |-> w.hops]
        BY <1>1, <1>4, <2>5, OnwardFields
      <3>2. v.err = "ok" /\ v.path = Ahead(w) /\ v.hops = w.hops
        BY <3>1
      <3> QED
        BY <1>1, <1>2, <2>2, <3>2 DEF Orderly
    <2>6. CASE f[w.path].kind = "dir" /\ Ahead(w) \in DOMAIN f /\ f[Ahead(w)].kind = "link"
      <3>1. CASE w.hops = 0
        <4>1. v = [w EXCEPT !.err = "loop", !.path = Ahead(w)]
          BY <1>4, <2>6, <3>1 DEF Onward, Moving, Ahead
        <4>2. v.err = "loop" /\ v.path = Ahead(w) /\ v.hops = w.hops
          BY <1>1, <4>1 DEF Walker
        <4> QED
          BY <1>1, <1>2, <2>2, <4>2 DEF Orderly
      <3>2. CASE w.hops # 0
        <4>1. v = [err |-> "ok", path |-> IF f[Ahead(w)].to.abs THEN <<>> ELSE w.path,
                   names |-> f[Ahead(w)].to.names \o Tail(w.names), hops |-> w.hops - 1]
          BY <1>1, <1>4, <2>6, <3>2, OnwardFields
        <4>2. v.err = "ok" /\ v.path \in {<<>>, w.path} /\ v.hops = w.hops - 1
          BY <4>1
        <4>3. w.hops - 1 \in 0..MaxHops /\ <<>> \in Seq(Plain)
          BY <1>1, <3>2
        <4> HIDE DEF v
        <4>4. v.path \in Seq(Plain) /\ v.hops \in 0..MaxHops /\ v.err # "new"
          BY <1>1, <4>2, <4>3
        <4> QED
          BY <1>2, <4>4 DEF Orderly, v
      <3> QED
        BY <3>1, <3>2
    <2> QED
      BY <2>3, <2>4, <2>5, <2>6
  <1> QED
    BY <1>3, <1>4

\* So does a whole walk, and Real.
LEMMA EndOrderly ==
    ASSUME MaxHops \in Nat, NEW f, WellMade(f), Closed(f), NEW w, Orderly(f, w),
           NEW z, ComesTo(f, w, z)
    PROVE  Orderly(f, z)
  <1>1. PICK n \in Nat : \E g : Walk(f, w, n, g) /\ g[n] = z /\ ~Moving(z)
    BY DEF ComesTo
  <1>2. PICK g : Walk(f, w, n, g) /\ g[n] = z /\ ~Moving(z)
    BY <1>1
  <1>3. g[0] = w /\ \A i \in Nat : i + 1 <= n => g[i + 1] = Onward(f, g[i])
    <2>1. Walk(f, w, n, g)
      BY <1>2
    <2> QED
      BY <2>1, WalkSteps
  <1> DEFINE D == {i \in Nat : i <= n => Orderly(f, g[i])}
  <1>4. 0 \in D
    BY <1>3
  <1>5. ASSUME NEW i \in Nat, i \in D PROVE i + 1 \in D
    <2> SUFFICES ASSUME i + 1 <= n PROVE Orderly(f, g[i + 1])
      OBVIOUS
    <2>1. Orderly(f, g[i]) /\ g[i + 1] = Onward(f, g[i])
      BY <1>3, <1>5
    <2> HIDE DEF D
    <2> QED
      BY <2>1, OnwardOrderly
  <1>6. n \in D
    <2> HIDE DEF D
    <2> QED
      BY <1>4, <1>5, SetInduction
  <1> QED
    BY <1>2, <1>6

LEMMA RealOrderly ==
    ASSUME FilesAssumption, NEW f, WellMade(f), Closed(f), NEW p \in Seq(Name)
    PROVE  Orderly(f, Real(f, p))
  <1>1. MaxHops \in Nat
    BY DEF FilesAssumption
  <1> DEFINE w == Setout(p)
  <1>2. ComesTo(f, w, Real(f, p))
    BY RealEnds
  <1>3. Orderly(f, w)
    <2>1. <<>> \in Seq(Plain) /\ MaxHops \in 0..MaxHops
      BY <1>1
    <2> QED
      BY <2>1 DEF Orderly, Walker, Arrived, Setout, WellMade
  <1> HIDE DEF w
  <1> QED
    BY <1>1, <1>2, <1>3, EndOrderly

\* A name before others.
LEMMA OneAhead ==
    ASSUME NEW S, NEW e \in S, NEW r \in Seq(S)
    PROVE  /\ <<e>> \o r \in Seq(S) /\ <<e>> \o r # <<>>
           /\ Head(<<e>> \o r) = e /\ Tail(<<e>> \o r) = r
  <1> DEFINE s == <<e>> \o r
  <1>1. <<e>> \in Seq(S) /\ Len(<<e>>) = 1 /\ <<e>>[1] = e /\ Len(r) \in Nat
    BY LenProperties
  <1>2. /\ s \in Seq(S) /\ Len(s) = 1 + Len(r)
        /\ \A i \in 1..(1 + Len(r)) : s[i] = IF i <= 1 THEN <<e>>[i] ELSE r[i - 1]
    <2>1. /\ s \in Seq(S) /\ Len(s) = Len(<<e>>) + Len(r)
          /\ \A i \in 1..(Len(<<e>>) + Len(r)) :
                 s[i] = IF i <= Len(<<e>>) THEN <<e>>[i] ELSE r[i - Len(<<e>>)]
      BY <1>1, ConcatProperties
    <2> QED
      BY <1>1, <2>1
  <1> HIDE DEF s
  <1>3. s # <<>> /\ s[1] = e /\ Head(s) = s[1]
    BY <1>1, <1>2, EmptySeq
  <1>4. /\ Tail(s) \in Seq(S) /\ Len(Tail(s)) = Len(s) - 1
        /\ \A i \in 1..Len(Tail(s)) : Tail(s)[i] = s[i + 1]
    BY <1>2, <1>3, HeadTailProperties
  <1>5. Len(Tail(s)) = Len(r)
    BY <1>1, <1>2, <1>4
  <1>6. ASSUME NEW i \in 1..Len(r) PROVE Tail(s)[i] = r[i]
    <2>1. i + 1 \in 1..(1 + Len(r)) /\ ~(i + 1 <= 1) /\ (i + 1) - 1 = i
      BY <1>1
    <2>2. s[i + 1] = r[i]
      BY <1>2, <2>1
    <2> QED
      BY <1>4, <1>5, <2>2
  <1>7. Tail(s) = r
    BY <1>4, <1>5, <1>6, SeqEqual
  <1> QED
    BY <1>2, <1>3, <1>7 DEF s

\* A walk goes down the directories it is told.
LEMMA WalkDown ==
    ASSUME NEW f, WellMade(f), Closed(f), NEW z, NEW q \in Seq(Plain), IsA(f, q, "dir"),
           NEW r \in Seq(Name), ComesTo(f, Setout(q \o r), z)
    PROVE  ComesTo(f, Stands(q, r), z)
  <1> DEFINE Down(s) == \A x \in Seq(Name) : IsA(f, s, "dir") /\ ComesTo(f, Setout(s \o x), z)
                                             => ComesTo(f, Stands(s, x), z)
             D == {s \in Seq(Plain) : Down(s)}
  <1>1. <<>> \in D
    <2> SUFFICES ASSUME NEW x \in Seq(Name), ComesTo(f, Setout(<<>> \o x), z)
                 PROVE  ComesTo(f, Stands(<<>>, x), z)
      BY EmptySeq
    <2>1. <<>> \o x = x
      BY ConcatEmptySeq
    <2>2. Setout(<<>> \o x) = Stands(<<>>, x)
      BY <2>1 DEF Setout, Stands
    <2> QED
      BY <2>2
  <1>2. ASSUME NEW s \in Seq(Plain), NEW e \in Plain, s \in D PROVE Append(s, e) \in D
    <2> DEFINE t == Append(s, e)
    <2>1. t \in Seq(Plain) /\ t # <<>> /\ Front(t) = s
      BY FrontAppend
    <2>2. ASSUME NEW x \in Seq(Name), IsA(f, t, "dir"), ComesTo(f, Setout(t \o x), z)
          PROVE  ComesTo(f, Stands(t, x), z)
      <3> DEFINE y == <<e>> \o x
                 w == Stands(s, y)
      <3>1. e \in Name /\ e # ".." /\ s \in Seq(Name)
        BY PlainNames DEF Plain
      <3>2. y \in Seq(Name) /\ y # <<>> /\ Head(y) = e /\ Tail(y) = x
        BY <3>1, OneAhead
      <3>3. t \o x = s \o y
        <4>1. t = s \o <<e>> /\ <<e>> \in Seq(Name)
          BY <3>1, AppendIsConcat
        <4>2. (s \o <<e>>) \o x = s \o (<<e>> \o x)
          BY <3>1, <4>1, ConcatAssociative
        <4> HIDE DEF t
        <4> QED
          BY <4>1, <4>2
      <3>4. IsA(f, s, "dir")
        <4> HIDE DEF t
        <4> QED
          BY <2>1, <2>2 DEF Closed, IsA
      <3> HIDE DEF y
      <3>5. ComesTo(f, w, z)
        <4>1. ComesTo(f, Setout(s \o y), z)
          BY <2>2, <3>3
        <4> QED
          BY <1>2, <3>2, <3>4, <4>1
      <3>6. ComesTo(f, Onward(f, w), z)
        <4> HIDE DEF w
        <4> QED
          BY <3>5, EndsAfter
      <3>7. /\ Walker(w) /\ Moving(w) /\ w.path = s /\ w.names = y /\ w.hops = MaxHops
            /\ Ahead(w) = t
        BY <3>1, <3>2 DEF Stands, Walker, Moving, Ahead, Into
      <3> HIDE DEF w, t
      <3>8. f[w.path].kind = "dir" /\ Ahead(w) \in DOMAIN f /\ f[Ahead(w)].kind # "link"
        BY <2>2, <3>4, <3>7 DEF IsA
      <3>9. Onward(f, w) = [err |-> "ok", path |-> t, names |-> x, hops |-> MaxHops]
        <4>1. Onward(f, w) = [err |-> "ok", path |-> Ahead(w), names |-> Tail(w.names),
                              hops |-> w.hops]
          BY <3>7, <3>8, OnwardFields
        <4> QED
          BY <3>2, <3>7, <4>1
      <3> QED
        BY <3>6, <3>9 DEF Stands
    <2> HIDE DEF t
    <2> QED
      BY <2>1, <2>2 DEF t
  <1>3. q \in D
    <2> HIDE DEF D
    <2> QED
      BY <1>1, <1>2, SeqInduction
  <1> QED
    BY <1>3

-----------------------------------------------------------------------------
(* Plain paths, and what is in the workspace.                              *)

\* The beginning of a plain path.
LEMMA PlainPart ==
    ASSUME NEW S, NEW q \in Seq(S), NEW k \in 0..Len(q)
    PROVE  /\ SubSeq(q, 1, k) \in Seq(S) /\ Len(SubSeq(q, 1, k)) = k
           /\ \A i \in 1..k : SubSeq(q, 1, k)[i] = q[i]
           /\ \A j \in 0..k : SubSeq(SubSeq(q, 1, k), 1, j) = SubSeq(q, 1, j)
  <1> DEFINE n == Len(q)
             s == SubSeq(q, 1, k)
  <1>1. n \in Nat /\ \A i \in 1..n : q[i] \in S
    BY LenProperties, ElementOfSeq
  <1>2. /\ s \in Seq(S) /\ Len(s) = (IF 1 <= k THEN k - 1 + 1 ELSE 0)
        /\ \A i \in 1..(k - 1 + 1) : s[i] = q[1 + i - 1]
    <2>1. 1 \in Int /\ k \in Int /\ \A i \in 1..k : q[i] \in S
      BY <1>1
    <2> QED
      BY <2>1, SubSeqProperties
  <1>3. Len(s) = k /\ \A i \in 1..k : s[i] = q[i]
    <2>1. k - 1 + 1 = k /\ (IF 1 <= k THEN k - 1 + 1 ELSE 0) = k
      OBVIOUS
    <2>2. \A i \in 1..k : 1 + i - 1 = i
      OBVIOUS
    <2> HIDE DEF s
    <2> QED
      BY <1>2, <2>1, <2>2
  <1>4. ASSUME NEW j \in 0..k PROVE SubSeq(s, 1, j) = SubSeq(q, 1, j)
    <2>1. CASE j = 0
      BY <2>1, SubSeqEmpty
    <2>2. CASE j # 0
      <3>1. /\ 1 \in 1..n /\ k \in 1..n /\ 1 \in 1..(k - 1 + 1) /\ j \in 1..(k - 1 + 1)
            /\ 1 + 1 - 1 = 1 /\ 1 + j - 1 = j
        BY <1>1, <2>2
      <3>2. SubSeq(SubSeq(q, 1, k), 1, j) = SubSeq(q, 1 + 1 - 1, 1 + j - 1)
        BY <3>1, SubSeqOfSubSeq
      <3> QED
        BY <3>1, <3>2
    <2> QED
      BY <2>1, <2>2
  <1> HIDE DEF s
  <1> QED
    BY <1>2, <1>3, <1>4 DEF s

\* Every directory of q that is there is one.
Unblocked(f, q) ==
    /\ \A k \in 0..(Len(q) - 1) : SubSeq(q, 1, k) \in DOMAIN f => IsA(f, SubSeq(q, 1, k), "dir")
    /\ ~IsA(f, q, "link")

LEMMA PlainReal ==
    ASSUME FilesAssumption, NEW f, WellMade(f), Closed(f), NEW q \in Seq(Plain), q # <<>>,
           Unblocked(f, q)
    PROVE  /\ Front(q) \in DOMAIN f
              => /\ Real(f, q).path = q
                 /\ Real(f, q).err = IF q \in DOMAIN f THEN "ok" ELSE "new"
           /\ Front(q) \notin DOMAIN f => Real(f, q).err \in {"new", "missing"}
           /\ Real(f, q).err # "missing" => Real(f, q).path = q
  <1> DEFINE z == Real(f, q)
             n == Len(q)
  <1>1. q \in Seq(Name) /\ n \in Nat \ {0} /\ Front(q) \in Seq(Name)
    BY PlainNames, FrontLast
  <1>2. \A k \in 0..n : Begun(q, k) = SubSeq(q, 1, k)
    BY PlainPart, NormPlain DEF Begun
  <1>3. SubSeq(q, 1, n) = q /\ SubSeq(q, 1, n - 1) = Front(q) /\ Norm(q) = q
    BY NoneAndAll, NormPlain DEF Front
  <1>4. \A k \in 1..n : ~IsA(f, Begun(q, k), "link")
    <2> TAKE k \in 1..n
    <2>1. k = n \/ k \in 0..(n - 1)
      BY <1>1
    <2>2. Begun(q, k) = SubSeq(q, 1, k)
      BY <1>1, <1>2
    <2> QED
      BY <1>3, <2>1, <2>2 DEF Unblocked, IsA
  <1>5. ComesTo(f, Setout(q), z) /\ Arrived(f, z)
    BY <1>1, RealKnown
  <1>6. Straight(f, q, z)
    <2> HIDE DEF z, n
    <2> QED
      BY <1>1, <1>4, <1>5, StraightWays DEF n
  <1>8. Front(q) \in DOMAIN f => \A k \in 0..(n - 1) : SubSeq(q, 1, k) \in DOMAIN f
    <2> SUFFICES ASSUME Front(q) \in DOMAIN f, NEW k \in 0..(n - 1)
                 PROVE  SubSeq(q, 1, k) \in DOMAIN f
      OBVIOUS
    <2>1. CASE k = n - 1
      BY <1>3, <2>1
    <2>2. CASE k # n - 1
      <3>1. Len(Front(q)) = n - 1 /\ SubSeq(Front(q), 1, k) = SubSeq(q, 1, k)
        <4>1. n - 1 \in 0..Len(q) /\ k \in 0..(n - 1)
          BY <1>1
        <4>2. /\ Len(SubSeq(q, 1, n - 1)) = n - 1
              /\ \A j \in 0..(n - 1) : SubSeq(SubSeq(q, 1, n - 1), 1, j) = SubSeq(q, 1, j)
          <5> HIDE DEF n
          <5> QED
            BY <4>1, PlainPart
        <4> QED
          BY <1>3, <4>1, <4>2
      <3>2. k \in 0..(Len(Front(q)) - 1)
        BY <1>1, <2>2, <3>1
      <3> QED
        BY <1>1, <3>1, <3>2, ClosedPrefix DEF IsA
    <2> QED
      BY <2>1, <2>2
  <1>9. z.err # "notdir"
    <2> SUFFICES ASSUME NEW k \in 0..(n - 1), Begun(q, k) \in DOMAIN f, f[Begun(q, k)].kind # "dir"
                 PROVE  FALSE
      BY <1>6 DEF Straight
    <2>1. Begun(q, k) = SubSeq(q, 1, k)
      BY <1>1, <1>2
    <2> QED
      BY <2>1 DEF Unblocked, IsA
  <1>10. z.err \in {"ok", "new", "missing"}
    BY <1>6, <1>9 DEF Straight
  <1>11. z.err = "ok" => Front(q) \in DOMAIN f
    <2>1. z.err = "ok" => IsA(f, Begun(q, n - 1), "dir")
      BY <1>1, <1>6 DEF Straight
    <2>2. n - 1 \in 0..n
      BY <1>1
    <2> QED
      BY <1>2, <1>3, <2>1, <2>2 DEF IsA
  <1>12. z.err \in {"ok", "new"} => z.path = q
    BY <1>3, <1>6 DEF Straight
  <1>13. z.err = "ok" => q \in DOMAIN f
    BY <1>5, <1>12 DEF Arrived
  <1>14. z.err = "new" => q \notin DOMAIN f
    BY <1>5, <1>12 DEF Arrived
  <1>15. z.err = "missing" => Front(q) \notin DOMAIN f
    <2> SUFFICES ASSUME z.err = "missing", Front(q) \in DOMAIN f PROVE FALSE
      OBVIOUS
    <2>1. PICK k \in 1..(n - 1) : Begun(q, k) \notin DOMAIN f
      BY <1>6 DEF Straight
    <2>2. Begun(q, k) = SubSeq(q, 1, k) /\ k \in 0..(n - 1)
      BY <1>1, <1>2
    <2> QED
      BY <1>8, <2>1, <2>2
  <1> QED
    BY <1>10, <1>11, <1>12, <1>13, <1>14, <1>15

LEMMA RootNames ==
    /\ "w" \in Plain /\ "w" \in Name /\ Root \in Seq(Plain) /\ Root \in Seq(Name)
    /\ Len(Root) = 1 /\ Root[1] = "w" /\ Root # <<>>
  <1>1. "w" \in Plain /\ "w" \in Name
    BY DEF Plain, Name
  <1>2. <<"w">> \in Seq(Plain) /\ <<"w">> \in Seq(Name)
    BY <1>1, OneName
  <1>3. Len(<<"w">>) = 1 /\ <<"w">>[1] = "w"
    OBVIOUS
  <1> QED
    BY <1>1, <1>2, <1>3 DEF Root

\* What is in the workspace has its name first.
LEMMA InRoot ==
    ASSUME NEW p \in Seq(Name)
    PROVE  In(Root, p) <=> p # <<>> /\ p[1] = "w"
  <1>1. Len(p) \in Nat /\ (p # <<>> <=> Len(p) # 0)
    BY LenProperties, EmptySeq
  <1>2. CASE p = <<>>
    <2>1. Len(p) = 0
      BY <1>2
    <2> QED
      BY <1>2, <2>1, RootNames DEF In, IsPrefix
  <1>3. CASE p # <<>>
    <2> DEFINE s == SubSeq(p, 1, 1)
    <2>1. 1 \in 0..Len(p) /\ 1 \in 1..1
      BY <1>1, <1>3
    <2>2. s \in Seq(Name) /\ Len(s) = 1 /\ s[1] = p[1]
      BY <2>1, PlainPart
    <2>3. SubSeq(Root, 1, Len(Root)) = Root
      BY RootNames, SubSeqFull
    <2>4. In(Root, p) <=> Root = s
      BY <1>1, <1>3, <2>3, RootNames DEF In, IsPrefix
    <2> HIDE DEF s
    <2>5. s[1] = "w" => Root = s
      <3> SUFFICES ASSUME s[1] = "w" PROVE Root = s
        OBVIOUS
      <3>1. \A i \in 1..1 : Root[i] = s[i]
        BY RootNames
      <3> QED
        BY <2>2, <3>1, RootNames, SeqEqual
    <2>6. Root = s => s[1] = "w"
      BY RootNames
    <2> QED
      BY <1>3, <2>2, <2>4, <2>5, <2>6
  <1> QED
    BY <1>2, <1>3

\* There, .git is anywhere in the path.
LEMMA GitThere ==
    ASSUME NEW p \in Seq(Name), In(Root, p)
    PROVE  HasGit(p) <=> ".git" \in ToSet(p)
  <1> DEFINE n == Len(p)
             r == Rel(p)
  <1>1. p # <<>> /\ p[1] = "w"
    BY InRoot
  <1>2. n \in Nat \ {0}
    BY <1>1, LenProperties, EmptySeq
  <1>3. r = SubSeq(p, 2, n)
    BY RootNames DEF Rel
  <1>4. r \in Seq(Name) /\ Len(r) = n - 1 /\ \A i \in 1..(n - 1) : r[i] = p[i + 1]
    <2>1. r = Tail(p)
      BY <1>1, <1>3, TailIsSubSeq
    <2>2. Tail(p) \in Seq(Name) /\ Len(Tail(p)) = n - 1 /\ \A i \in 1..Len(Tail(p)) : Tail(p)[i] = p[i + 1]
      BY <1>1, HeadTailProperties
    <2> HIDE DEF r
    <2> QED
      BY <2>1, <2>2
  <1> HIDE DEF r
  <1>5. DOMAIN r = 1..(n - 1) /\ DOMAIN p = 1..n
    BY <1>2, <1>4, LenProperties
  <1>6. ".git" # "w"
    OBVIOUS
  <1>7. ASSUME ".git" \in ToSet(r) PROVE ".git" \in ToSet(p)
    <2>1. PICK i \in 1..(n - 1) : r[i] = ".git"
      BY <1>5, <1>7 DEF ToSet
    <2>2. i + 1 \in 1..n /\ p[i + 1] = ".git"
      BY <1>2, <1>4, <2>1
    <2> QED
      BY <1>5, <2>2 DEF ToSet
  <1>8. ASSUME ".git" \in ToSet(p) PROVE ".git" \in ToSet(r)
    <2>1. PICK i \in 1..n : p[i] = ".git"
      BY <1>5, <1>8 DEF ToSet
    <2>2. i # 1
      BY <1>1, <1>6, <2>1
    <2>3. i - 1 \in 1..(n - 1) /\ (i - 1) + 1 = i
      BY <1>2, <2>2
    <2>4. r[i - 1] = ".git"
      BY <1>4, <2>1, <2>3
    <2> QED
      BY <1>5, <2>3, <2>4 DEF ToSet
  <1> QED
    BY <1>7, <1>8 DEF HasGit, r

-----------------------------------------------------------------------------
(* What is put where nothing was, or a file over a file, leads no walk     *)
(* elsewhere that was not in want of it.                                   *)

\* All that f has is in g, of the same kind, and the links are the same.
Within(f, g) ==
    \A q \in DOMAIN f : /\ q \in DOMAIN g /\ g[q].kind = f[q].kind
                        /\ f[q].kind = "link" => g[q] = f[q]

LEMMA StepsSteady ==
    ASSUME NEW f, NEW g, Within(f, g), NEW w, Walker(w), Arrived(f, w)
    PROVE  Onward(f, w).err \in {"new", "missing"} \/ Onward(g, w) = Onward(f, w)
  <1>1. CASE ~Moving(w)
    BY <1>1, WalkStays
  <1>2. CASE Moving(w) /\ f[w.path].kind # "dir"
    <2>1. w.path \in DOMAIN f
      BY <1>2 DEF Moving, Arrived
    <2>2. g[w.path].kind # "dir"
      BY <1>2, <2>1 DEF Within
    <2> QED
      BY <1>2, <2>2 DEF Onward, Moving
  <1>3. CASE Moving(w) /\ f[w.path].kind = "dir" /\ Ahead(w) \notin DOMAIN f
    BY <1>3, OnwardFields
  <1>4. CASE Moving(w) /\ f[w.path].kind = "dir" /\ Ahead(w) \in DOMAIN f
    <2>1. w.path \in DOMAIN f
      BY <1>4 DEF Moving, Arrived
    <2>2. g[w.path].kind = "dir" /\ Ahead(w) \in DOMAIN g /\ g[Ahead(w)].kind = f[Ahead(w)].kind
      BY <1>4, <2>1 DEF Within
    <2>3. CASE f[Ahead(w)].kind # "link"
      <3>1. Onward(f, w) = [err |-> "ok", path |-> Ahead(w), names |-> Tail(w.names),
                            hops |-> w.hops]
        BY <1>4, <2>3, OnwardFields
      <3>2. Onward(g, w) = [err |-> "ok", path |-> Ahead(w), names |-> Tail(w.names),
                            hops |-> w.hops]
        BY <1>4, <2>2, <2>3, OnwardFields
      <3> QED
        BY <3>1, <3>2
    <2>4. CASE f[Ahead(w)].kind = "link" /\ w.hops = 0
      BY <1>4, <2>2, <2>4 DEF Onward, Moving, Ahead
    <2>5. CASE f[Ahead(w)].kind = "link" /\ w.hops # 0
      <3>1. g[Ahead(w)] = f[Ahead(w)]
        BY <1>4, <2>5 DEF Within
      <3>0. Moving(w) /\ g[w.path].kind = "dir" /\ Ahead(w) \in DOMAIN g /\ g[Ahead(w)].kind = "link"
        BY <1>4, <2>2, <2>5
      <3>2. Onward(f, w) = [err |-> "ok", path |-> IF f[Ahead(w)].to.abs THEN <<>> ELSE w.path,
                            names |-> f[Ahead(w)].to.names \o Tail(w.names), hops |-> w.hops - 1]
        BY <1>4, <2>5, OnwardFields
      <3>3. Onward(g, w) = [err |-> "ok", path |-> IF g[Ahead(w)].to.abs THEN <<>> ELSE w.path,
                            names |-> g[Ahead(w)].to.names \o Tail(w.names), hops |-> w.hops - 1]
        BY <2>5, <3>0, OnwardFields
      <3> QED
        BY <3>1, <3>2, <3>3
    <2> QED
      BY <2>3, <2>4, <2>5
  <1> QED
    BY <1>1, <1>2, <1>3, <1>4

LEMMA EndsSteady ==
    ASSUME NEW f, WellMade(f), NEW g, Within(f, g), NEW w, Walker(w), Arrived(f, w),
           NEW z, ComesTo(f, w, z), z.err \notin {"new", "missing"}
    PROVE  ComesTo(g, w, z)
  <1>1. PICK n \in Nat : \E a : Walk(f, w, n, a) /\ a[n] = z /\ ~Moving(z)
    BY DEF ComesTo
  <1>2. PICK a : Walk(f, w, n, a) /\ a[n] = z /\ ~Moving(z)
    BY <1>1
  <1>3. a[0] = w /\ \A i \in Nat : i + 1 <= n => a[i + 1] = Onward(f, a[i])
    <2>1. Walk(f, w, n, a)
      BY <1>2
    <2> QED
      BY <2>1, WalkSteps
  <1>4. PICK b : Walk(g, w, n, b)
    BY WalkExists
  <1>5. b[0] = w /\ \A i \in Nat : i + 1 <= n => b[i + 1] = Onward(g, b[i])
    BY <1>4, WalkSteps
  <1> DEFINE Near(i) == /\ Walker(a[i]) /\ Arrived(f, a[i])
                        /\ a[i].err \in {"new", "missing"} \/ b[i] = a[i]
             D == {i \in Nat : i <= n => Near(i)}
  <1>6. 0 \in D
    BY <1>3, <1>5
  <1>7. ASSUME NEW i \in Nat, i \in D PROVE i + 1 \in D
    <2> SUFFICES ASSUME i + 1 <= n PROVE Near(i + 1)
      OBVIOUS
    <2>1. i <= n
      OBVIOUS
    <2>2. /\ Walker(a[i]) /\ Arrived(f, a[i])
          /\ a[i].err \in {"new", "missing"} \/ b[i] = a[i]
          /\ a[i + 1] = Onward(f, a[i]) /\ b[i + 1] = Onward(g, b[i])
      BY <1>3, <1>5, <1>7, <2>1
    <2> DEFINE v == a[i]
    <2> HIDE DEF v, D
    <2>3. Walker(Onward(f, v)) /\ Arrived(f, Onward(f, v))
      BY <2>2, OnwardArrived DEF v
    <2>4. CASE v.err \in {"new", "missing"}
      <3>1. Onward(f, v) = v
        BY <2>4, WalkStays DEF Moving
      <3> QED
        BY <2>2, <2>3, <2>4, <3>1 DEF v
    <2>5. CASE b[i] = v
      <3>1. Onward(f, v).err \in {"new", "missing"} \/ Onward(g, v) = Onward(f, v)
        BY <2>2, StepsSteady DEF v
      <3> QED
        BY <2>2, <2>3, <2>5, <3>1 DEF v
    <2> QED
      BY <2>2, <2>4, <2>5 DEF v
  <1>8. n \in D
    <2> HIDE DEF D
    <2> QED
      BY <1>6, <1>7, SetInduction
  <1>9. b[n] = z
    BY <1>2, <1>8
  <1> QED
    BY <1>2, <1>4, <1>9 DEF ComesTo

LEMMA RealSteady ==
    ASSUME FilesAssumption, NEW f, WellMade(f), NEW g, WellMade(g), Within(f, g),
           NEW p \in Seq(Name), Real(f, p).err \notin {"new", "missing"}
    PROVE  Real(g, p) = Real(f, p)
  <1> DEFINE w == Setout(p)
             z == Real(f, p)
  <1>1. Walker(w) /\ Arrived(f, w)
    BY DEF Walker, Arrived, Setout, WellMade
  <1>2. ComesTo(f, w, z) /\ ComesTo(g, w, Real(g, p))
    BY RealEnds
  <1> HIDE DEF w, z
  <1>3. ComesTo(g, w, z)
    BY <1>1, <1>2, EndsSteady DEF z
  <1> QED
    BY <1>2, <1>3, EndsOnce DEF z

\* What a tree keeps: its links name nothing new that they should not.
Ordered(f) ==
    /\ WellMade(f) /\ Closed(f) /\ DOMAIN f \subseteq Seq(Name) /\ IsA(f, Root, "dir")
    /\ \A p \in DOMAIN f : f[p].kind = "link" => Plainly(f, p)

\* One more directory, or a file.
Placed(f, p, node) ==
    /\ p \in Seq(Plain) /\ p # <<>> /\ IsA(f, Front(p), "dir")
    /\ \/ node = Dir /\ p \notin DOMAIN f
       \/ \E x \in Seq(Char) : node = File(x) /\ (p \in DOMAIN f => f[p].kind = "file")

Grows(f, p, node, g) ==
    /\ WellMade(g) /\ Within(f, g) /\ DOMAIN g = DOMAIN f \union {p} /\ g[p] = node
    /\ \A r \in DOMAIN f : r # p => g[r] = f[r]
    /\ node.kind # "link"

LEMMA PutWithin ==
    ASSUME NEW f, WellMade(f), NEW p, NEW node, Placed(f, p, node)
    PROVE  Grows(f, p, node, Put(f, p, node))
  <1> DEFINE g == Put(f, p, node)
  <1>1. DOMAIN g = DOMAIN f \union {p} /\ g[p] = node /\ \A r \in DOMAIN f : r # p => g[r] = f[r]
    BY DEF Put
  <1> HIDE DEF g
  <1>2. /\ node.kind \in {"dir", "file"}
        /\ node.kind = "file" => node = File(node.text) /\ node.text \in Seq(Char)
        /\ p \in DOMAIN f => f[p].kind = "file" /\ node.kind = "file"
    <2>1. CASE node = Dir /\ p \notin DOMAIN f
      BY <2>1 DEF Dir
    <2>2. CASE \E x \in Seq(Char) : node = File(x) /\ (p \in DOMAIN f => f[p].kind = "file")
      <3>1. PICK x \in Seq(Char) : node = File(x) /\ (p \in DOMAIN f => f[p].kind = "file")
        BY <2>2
      <3>2. File(x).kind = "file" /\ File(x).text = x
        BY DEF File
      <3> QED
        BY <3>1, <3>2
    <2> QED
      BY <2>1, <2>2 DEF Placed
  <1>3. WellMade(g)
    <2>1. IsFiniteSet(DOMAIN g)
      BY <1>1, FS_AddElement DEF WellMade
    <2>2. <<>> \in DOMAIN g /\ g[<<>>].kind = "dir"
      BY <1>1 DEF WellMade, Placed
    <2>3. ASSUME NEW r \in DOMAIN g
          PROVE  /\ g[r].kind \in {"dir", "file", "link"}
                 /\ g[r].kind = "file" => g[r] = File(g[r].text) /\ g[r].text \in Seq(Char)
                 /\ g[r].kind = "link" => g[r].to.names \in Seq(Name)
      <3>1. CASE r = p
        BY <1>1, <1>2, <3>1
      <3>2. CASE r # p
        BY <1>1, <3>2 DEF WellMade
      <3> QED
        BY <3>1, <3>2
    <2> QED
      BY <2>1, <2>2, <2>3 DEF WellMade
  <1>4. Within(f, g)
    <2> SUFFICES ASSUME NEW q \in DOMAIN f
                 PROVE  /\ q \in DOMAIN g /\ g[q].kind = f[q].kind
                        /\ f[q].kind = "link" => g[q] = f[q]
      BY DEF Within
    <2> QED
      BY <1>1, <1>2
  <1> QED
    BY <1>1, <1>2, <1>3, <1>4 DEF g, Grows

LEMMA PutOrdered ==
    ASSUME FilesAssumption, NEW f, Ordered(f), NEW p, NEW node, Placed(f, p, node)
    PROVE  Ordered(Put(f, p, node))
  <1> DEFINE g == Put(f, p, node)
  <1>1. Grows(f, p, node, g)
    <2>1. WellMade(f)
      BY DEF Ordered
    <2> QED
      BY <2>1, PutWithin
  <1> HIDE DEF g
  <1>0. /\ WellMade(g) /\ Within(f, g) /\ DOMAIN g = DOMAIN f \union {p} /\ g[p] = node
        /\ \A r \in DOMAIN f : r # p => g[r] = f[r]
        /\ node.kind # "link"
    BY <1>1 DEF Grows
  <1>2. \A q : IsA(f, q, "dir") => IsA(g, q, "dir")
    BY <1>0 DEF IsA, Within
  <1>3. Closed(g)
    BY <1>0, <1>2 DEF Closed, Placed, Ordered
  <1>4. DOMAIN g \subseteq Seq(Name)
    BY <1>0, PlainNames DEF Ordered, Placed
  <1>5. ASSUME NEW r \in DOMAIN g, g[r].kind = "link" PROVE Plainly(g, r)
    <2>1. r \in DOMAIN f /\ g[r] = f[r] /\ f[r].kind = "link"
      BY <1>0, <1>5
    <2> DEFINE to == Pointed(f, r)
    <2>2. Pointed(g, r) = to
      BY <2>1 DEF Pointed
    <2>3. to \in Seq(Name)
      <3>1. f[r].to.names \in Seq(Name) /\ r \in Seq(Name) /\ r # <<>>
        BY <2>1 DEF Ordered, WellMade
      <3>2. Front(r) \in Seq(Name)
        BY <3>1, FrontLast
      <3>3. Front(r) \o f[r].to.names \in Seq(Name)
        BY <3>1, <3>2, ConcatProperties
      <3> QED
        BY <3>1, <3>3 DEF Pointed
    <2> HIDE DEF to
    <2>4. SUFFICES ASSUME Real(g, to).err \in {"new", "missing"}
                   PROVE  /\ \A k \in 1..Len(to) : ~IsA(g, Norm(SubSeq(to, 1, k)), "link")
                          /\ ".git" \in ToSet(to) => In(Root, to)
      BY <2>2 DEF Plainly
    <2>5. Real(f, to).err \in {"new", "missing"}
      BY <1>0, <2>3, <2>4, RealSteady DEF Ordered
    <2>6. /\ \A k \in 1..Len(to) : ~IsA(f, Norm(SubSeq(to, 1, k)), "link")
          /\ ".git" \in ToSet(to) => In(Root, to)
      BY <2>1, <2>5 DEF Ordered, Plainly, to
    <2>7. \A q : IsA(g, q, "link") => IsA(f, q, "link")
      BY <1>0 DEF IsA
    <2> QED
      BY <2>6, <2>7
  <1> QED
    BY <1>0, <1>2, <1>3, <1>4, <1>5 DEF Ordered, g

-----------------------------------------------------------------------------
(* What symlink_safe lets through.                                         *)

\* A name, not .git, in a directory of the workspace that .git is not above of.
LEMMA SafeBelow ==
    ASSUME NEW q \in Seq(Name), In(Root, q), ~HasGit(q), NEW x \in Name, x # ".git"
    PROVE  In(Root, Append(q, x)) /\ ~HasGit(Append(q, x))
  <1> DEFINE p == Append(q, x)
             n == Len(q)
  <1>1. q # <<>> /\ q[1] = "w" /\ ".git" \notin ToSet(q) /\ n \in Nat \ {0}
    BY InRoot, GitThere, EmptySeq
  <1>2. p \in Seq(Name) /\ Len(p) = n + 1 /\ (\A i \in 1..n : p[i] = q[i]) /\ p[n + 1] = x
    BY AppendProperties
  <1> HIDE DEF p
  <1>3. DOMAIN p = 1..(n + 1) /\ DOMAIN q = 1..n
    BY <1>2, LenProperties
  <1>4. p # <<>> /\ p[1] = "w"
    BY <1>1, <1>2, EmptySeq
  <1>5. ".git" \notin ToSet(p)
    <2> SUFFICES ASSUME NEW i \in 1..(n + 1), p[i] = ".git" PROVE FALSE
      BY <1>3 DEF ToSet
    <2>1. i \in 1..n \/ i = n + 1
      BY <1>1
    <2>2. CASE i \in 1..n
      BY <1>1, <1>2, <1>3, <2>2 DEF ToSet
    <2>3. CASE i = n + 1
      BY <1>2, <2>3
    <2> QED
      BY <2>1, <2>2, <2>3
  <1> QED
    BY <1>2, <1>4, <1>5, InRoot, GitThere DEF p

SafeAt(q) == In(Root, q) /\ ~HasGit(q)

\* What symlink_safe has looked at.
LEMMA SafeParent ==
    ASSUME NEW f, NEW p, p # <<>>, Norm(p) # Root, SymlinkSafe(f, p, TRUE) = "ok"
    PROVE  LET up == Real(f, Front(p))
               at == Append(up.path, Last(p))
               to == f[at].to
               resolved == IF to.abs THEN to.names ELSE up.path \o to.names
               real == IF Real(f, resolved).err = "ok" THEN Real(f, resolved).path ELSE resolved
           IN  /\ up.err = "ok" /\ In(Root, Norm(up.path)) /\ ~HasGit(up.path)
               /\ IsA(f, at, "link") => In(Root, Norm(real)) /\ ~HasGit(real)
  BY DEF SymlinkSafe

\* One name further from a directory of the workspace, no link there.
LEMMA SafeStep ==
    ASSUME NEW f, Ordered(f), NEW q \in Seq(Plain), q \in DOMAIN f, SafeAt(q),
           NEW x \in Name, x # ".git", ~IsA(f, Into(q, x), "dir")
    PROVE  x # ".." /\ Into(q, x) = Append(q, x) /\ SafeAt(Append(q, x))
  <1>1. q \in Seq(Name) /\ q # <<>>
    BY PlainNames, InRoot DEF SafeAt
  <1>2. x # ".."
    BY <1>1 DEF Into, Ordered, Closed
  <1>3. SafeAt(Append(q, x))
    BY <1>1, SafeBelow DEF SafeAt
  <1> QED
    BY <1>2, <1>3 DEF Into

\* A walk with one name to go.
LEMMA LastLeads ==
    ASSUME NEW f, NEW w, Walker(w), Moving(w), Len(w.names) = 1, Tail(w.names) = <<>>,
           NEW t, ComesTo(f, w, t), t.err \in {"ok", "new"}, ~IsA(f, Ahead(w), "link")
    PROVE  t.path = Ahead(w)
  <1> DEFINE v == Onward(f, w)
  <1>1. ComesTo(f, v, t) /\ (~Moving(v) => t = v)
    <2>1. ComesTo(f, v, t)
      BY EndsAfter
    <2> HIDE DEF v
    <2> QED
      BY <2>1, EndsHere, EndsOnce
  <1>2. CASE f[w.path].kind # "dir"
    <2>1. v.err = "notdir"
      BY <1>2, OnwardFields
    <2> QED
      BY <1>1, <2>1 DEF Moving
  <1>3. CASE f[w.path].kind = "dir" /\ Ahead(w) \notin DOMAIN f
    <2>1. v.err = "new" /\ v.path = Ahead(w)
      BY <1>3, OnwardFields
    <2> QED
      BY <1>1, <2>1 DEF Moving
  <1>4. CASE f[w.path].kind = "dir" /\ Ahead(w) \in DOMAIN f
    <2>1. f[Ahead(w)].kind # "link"
      BY <1>4 DEF IsA
    <2>2. v = [err |-> "ok", path |-> Ahead(w), names |-> Tail(w.names), hops |-> w.hops]
      BY <1>4, <2>1, OnwardFields
    <2>3. v.path = Ahead(w) /\ v.names = <<>>
      BY <2>2
    <2> QED
      BY <1>1, <2>3 DEF Moving
  <1> QED
    BY <1>2, <1>3, <1>4

\* The same, at a link.
LEMMA LastFollows ==
    ASSUME NEW f, NEW w, Walker(w), Moving(w), Tail(w.names) = <<>>, IsA(f, w.path, "dir"),
           NEW t, ComesTo(f, w, t), t.err \in {"ok", "new"}, IsA(f, Ahead(w), "link"),
           f[Ahead(w)].to.names \in Seq(Name)
    PROVE  /\ w.hops # 0
           /\ ComesTo(f, [err |-> "ok", path |-> IF f[Ahead(w)].to.abs THEN <<>> ELSE w.path,
                          names |-> f[Ahead(w)].to.names, hops |-> w.hops - 1], t)
  <1> DEFINE v == Onward(f, w)
  <1>1. ComesTo(f, v, t) /\ (~Moving(v) => t = v)
    <2>1. ComesTo(f, v, t)
      BY EndsAfter
    <2> HIDE DEF v
    <2> QED
      BY <2>1, EndsHere, EndsOnce
  <1>2. f[w.path].kind = "dir" /\ Ahead(w) \in DOMAIN f /\ f[Ahead(w)].kind = "link"
    BY DEF IsA
  <1>3. w.hops # 0
    <2> SUFFICES ASSUME w.hops = 0 PROVE FALSE
      OBVIOUS
    <2>1. v.err = "loop"
      BY <1>2, OnwardFields
    <2> QED
      BY <1>1, <2>1 DEF Moving
  <1>4. v = [err |-> "ok", path |-> IF f[Ahead(w)].to.abs THEN <<>> ELSE w.path,
             names |-> f[Ahead(w)].to.names \o Tail(w.names), hops |-> w.hops - 1]
    BY <1>2, <1>3, OnwardFields
  <1>5. f[Ahead(w)].to.names \o Tail(w.names) = f[Ahead(w)].to.names
    BY ConcatEmptySeq
  <1> QED
    BY <1>1, <1>3, <1>4, <1>5

\* A link in the last place, followed from there.
LEMMA SafeLink ==
    ASSUME FilesAssumption, NEW f, Ordered(f), NEW q \in Seq(Plain), IsA(f, q, "dir"),
           NEW x \in Name, IsA(f, Append(q, x), "link"),
           NEW to, to = Pointed(f, Append(q, x)), NEW y, y = Real(f, to),
           In(Root, Norm(IF y.err = "ok" THEN y.path ELSE to)),
           ~HasGit(IF y.err = "ok" THEN y.path ELSE to),
           NEW hops \in 0..MaxHops,
           NEW t, ComesTo(f, [err |-> "ok", path |-> q, names |-> <<x>>, hops |-> hops], t),
           t.err \in {"ok", "new"}, x # ".."
    PROVE  SafeAt(t.path)
  <1> DEFINE s == <<x>>
             w == [err |-> "ok", path |-> q, names |-> s, hops |-> hops]
             at == Append(q, x)
             names == f[at].to.names
             from == IF f[at].to.abs THEN <<>> ELSE q
             v == [err |-> "ok", path |-> from, names |-> names, hops |-> hops - 1]
             u == Stands(from, names)
  <1>1. /\ at \in DOMAIN f /\ f[at].kind = "link" /\ names \in Seq(Name) /\ WellMade(f) /\ Closed(f)
        /\ Plainly(f, at) /\ q \in Seq(Name) /\ from \in Seq(Plain) /\ IsA(f, from, "dir")
        /\ MaxHops \in Nat /\ <<>> \in Seq(Name)
    <2>1. WellMade(f) /\ Closed(f) /\ at \in DOMAIN f /\ f[at].kind = "link"
      BY DEF Ordered, IsA
    <2>2. Plainly(f, at)
      BY <2>1 DEF Ordered
    <2>3. IsA(f, from, "dir") /\ from \in Seq(Plain)
      BY <2>1 DEF WellMade, IsA
    <2> QED
      BY <2>1, <2>2, <2>3, PlainNames DEF WellMade, FilesAssumption
  <1>2. Front(at) = q
    BY <1>1, FrontAppend
  <1>3. to \in Seq(Name) /\ ComesTo(f, Setout(from \o names), y)
    <2>1. to = from \o names
      <3>1. <<>> \o names = names
        BY <1>1, ConcatEmptySeq
      <3> QED
        BY <1>2, <3>1 DEF Pointed
    <2>2. from \o names \in Seq(Name)
      <3>1. from \in Seq(Name)
        BY <1>1
      <3> HIDE DEF from, names
      <3> QED
        BY <1>1, <3>1, ConcatProperties
    <2> HIDE DEF from, names
    <2> QED
      BY <1>1, <2>1, <2>2, RealEnds
  <1> HIDE DEF from, names
  <1>4. ComesTo(f, u, y)
    BY <1>1, <1>3, WalkDown
  <1>0. s # <<>> /\ Head(s) = x /\ Tail(s) = <<>>
    OBVIOUS
  <1>5. ComesTo(f, w, t)
    OBVIOUS
  <1> HIDE DEF s
  <1>6. /\ Walker(w) /\ Moving(w) /\ w.path = q /\ w.names = s /\ w.hops = hops
        /\ Ahead(w) = at
    BY <1>0 DEF Walker, Moving, Ahead, Into
  <1> HIDE DEF w
  <1>7. IsA(f, w.path, "dir") /\ IsA(f, Ahead(w), "link") /\ f[Ahead(w)].to.names \in Seq(Name)
    BY <1>1, <1>6 DEF names
  <1>8. hops # 0 /\ ComesTo(f, v, t)
    <2>1. /\ w.hops # 0
          /\ ComesTo(f, [err |-> "ok", path |-> IF f[Ahead(w)].to.abs THEN <<>> ELSE w.path,
                         names |-> f[Ahead(w)].to.names, hops |-> w.hops - 1], t)
      BY <1>0, <1>5, <1>6, <1>7, LastFollows
    <2> QED
      BY <1>6, <2>1 DEF from, names
  <1>10. Fewer(t, y)
    <2>1. Walker(v) /\ Walker(u) /\ Fewer(v, u)
      <3>1. hops - 1 \in Nat /\ hops - 1 <= MaxHops
        BY <1>1, <1>8
      <3> QED
        BY <1>1, <3>1 DEF Walker, Stands, Fewer
    <2> HIDE DEF v, u
    <2> QED
      BY <1>4, <1>8, <2>1, EndsFewer
  <1>11. t.err = y.err /\ t.path = y.path
    BY <1>10 DEF Fewer
  <1>12. CASE y.err = "ok"
    <2>1. Orderly(f, y)
      BY <1>1, <1>3, RealOrderly
    <2>2. y.path \in Seq(Plain)
      BY <2>1 DEF Orderly
    <2>3. Norm(y.path) = y.path
      BY <2>2, NormPlain
    <2> QED
      BY <1>11, <1>12, <2>3 DEF SafeAt
  <1>13. CASE y.err = "new"
    <2>1. /\ \A k \in 1..Len(to) : ~IsA(f, Norm(SubSeq(to, 1, k)), "link")
          /\ ".git" \in ToSet(to) => In(Root, to)
      BY <1>1, <1>13 DEF Plainly
    <2>2. ComesTo(f, Setout(to), y)
      BY <1>1, <1>3, RealEnds
    <2>3. Straight(f, to, y)
      BY <1>1, <1>3, <2>1, <2>2, StraightWays DEF Begun
    <2>4. y.path = Norm(to)
      BY <1>13, <2>3 DEF Straight
    <2>5. Norm(to) \in Seq(Name) /\ ToSet(Norm(to)) \subseteq ToSet(to) /\ In(Root, Norm(to))
          /\ ~HasGit(to)
      <3>1. Norm(to) \in Seq(Plain)
        BY <1>3, RootNames, NormOn
      <3> QED
        BY <1>3, <1>13, <3>1, PlainNames, NormNames
    <2>6. ~HasGit(Norm(to))
      <3> SUFFICES ASSUME HasGit(Norm(to)) PROVE FALSE
        OBVIOUS
      <3>1. ".git" \in ToSet(Norm(to))
        BY <2>5, GitThere
      <3>2. ".git" \in ToSet(to) /\ In(Root, to)
        BY <2>1, <2>5, <3>1
      <3> QED
        BY <1>3, <2>5, <3>2, GitThere
    <2> QED
      BY <1>11, <2>4, <2>5, <2>6 DEF SafeAt
  <1> QED
    BY <1>11, <1>12, <1>13

\* What passes leads, if anywhere, to a place in the workspace and not in .git.
LEMMA SafeTarget ==
    ASSUME FilesAssumption, NEW f, Ordered(f), NEW p \in Seq(Name), p # <<>>, Norm(p) # Root,
           ".git" \notin ToSet(p), SymlinkSafe(f, p, TRUE) = "ok",
           Real(f, p).err \in {"ok", "new"}, ~IsA(f, Real(f, p).path, "dir")
    PROVE  SafeAt(Real(f, p).path)
  <1> DEFINE t == Real(f, p)
             up == Real(f, Front(p))
             x == p[Len(p)]
             s == <<x>>
             w == [err |-> "ok", path |-> up.path, names |-> s, hops |-> up.hops]
             at == Append(up.path, x)
             to == Pointed(f, at)
             y == Real(f, to)
             real == IF y.err = "ok" THEN y.path ELSE to
  <1>1. Front(p) \in Seq(Name) /\ x \in Name /\ p = Append(Front(p), x) /\ x # ".git"
    <2>1. Front(p) \in Seq(Name) /\ x \in Name /\ p = Append(Front(p), x) /\ Len(p) \in 1..Len(p)
      BY FrontLast
    <2>2. x \in ToSet(p)
      BY <2>1, LenProperties DEF ToSet
    <2> QED
      BY <2>1, <2>2
  <1>2. WellMade(f) /\ Closed(f) /\ MaxHops \in Nat
    BY DEF Ordered, FilesAssumption
  <1>3. Orderly(f, up) /\ ComesTo(f, Setout(Front(p)), up) /\ ComesTo(f, Setout(Append(Front(p), x)), t)
    BY <1>1, <1>2, RealOrderly, RealEnds
  <1>4. up.err = "ok" /\ In(Root, Norm(up.path)) /\ ~HasGit(up.path)
    BY SafeParent
  <1>5. /\ up.path \in Seq(Plain) /\ up.path \in DOMAIN f /\ f[up.path].kind # "link"
        /\ up.hops \in 0..MaxHops /\ SafeAt(up.path)
    <2>1. up.path \in Seq(Plain) /\ up.path \in DOMAIN f /\ f[up.path].kind # "link" /\ up.hops \in 0..MaxHops
      BY <1>3, <1>4 DEF Orderly, Arrived
    <2>2. Norm(up.path) = up.path
      BY <2>1, NormPlain
    <2> QED
      BY <1>4, <2>1, <2>2 DEF SafeAt
  <1>6. Front(at) = up.path /\ at # <<>>
    <2>1. up.path \in Seq(Name)
      BY <1>5, PlainNames
    <2> HIDE DEF up, x
    <2> QED
      BY <1>1, <2>1, FrontAppend
  <1>7. IsA(f, at, "link") => In(Root, Norm(real)) /\ ~HasGit(real)
    <2>1. to = IF f[at].to.abs THEN f[at].to.names ELSE up.path \o f[at].to.names
      BY <1>6 DEF Pointed
    <2>2. Last(p) = x
      BY DEF Last
    <2> DEFINE over == IF f[at].to.abs THEN f[at].to.names ELSE up.path \o f[at].to.names
    <2>3. IsA(f, at, "link")
          => LET reached == IF Real(f, over).err = "ok" THEN Real(f, over).path ELSE over
             IN  In(Root, Norm(reached)) /\ ~HasGit(reached)
      BY SafeParent DEF Last
    <2>4. to = over
      BY <2>1
    <2> HIDE DEF over, to
    <2> QED
      BY <2>3, <2>4
  <1>0. s # <<>> /\ Head(s) = x /\ Tail(s) = <<>> /\ Len(s) = 1
    OBVIOUS
  <1> HIDE DEF up, t, x
  <1>8. ComesTo(f, w, t)
    BY <1>1, <1>2, <1>3, <1>4, LastToGo
  <1>9. /\ Walker(w) /\ Moving(w) /\ w.path = up.path /\ w.names = s /\ w.hops = up.hops
        /\ Ahead(w) = Into(up.path, x)
    <2> HIDE DEF s
    <2> QED
      BY <1>0 DEF Walker, Moving, Ahead
  <1>10. t.err \in {"ok", "new"} /\ ~IsA(f, t.path, "dir")
    BY DEF t
  <1> DEFINE q == up.path
  <1>11. q \in Seq(Plain) /\ q \in DOMAIN f /\ SafeAt(q) /\ t.path = Into(q, x) => SafeAt(t.path)
    <2> SUFFICES ASSUME q \in Seq(Plain), q \in DOMAIN f, SafeAt(q), t.path = Into(q, x)
                 PROVE  SafeAt(t.path)
      OBVIOUS
    <2> HIDE DEF q
    <2>1. ~IsA(f, Into(q, x), "dir")
      BY <1>10
    <2> QED
      BY <1>1, <2>1, SafeStep
  <1> HIDE DEF w, s
  <1>12. CASE ~IsA(f, Ahead(w), "link")
    <2>1. t.path = Ahead(w)
      BY <1>0, <1>8, <1>9, <1>10, <1>12, LastLeads
    <2> QED
      BY <1>5, <1>9, <1>11, <2>1 DEF t
  <1>13. CASE IsA(f, Ahead(w), "link")
    <2>1. ~IsA(f, Into(q, x), "dir")
      BY <1>9, <1>13 DEF IsA
    <2>2. x # ".." /\ Into(q, x) = Append(q, x)
      <3>1. q \in Seq(Plain) /\ q \in DOMAIN f /\ SafeAt(q)
        BY <1>5
      <3> HIDE DEF q
      <3> QED
        BY <1>1, <2>1, <3>1, SafeStep
    <2>3. IsA(f, at, "link")
      BY <1>9, <1>13, <2>2
    <2>4. IsA(f, q, "dir")
      <3>1. at \in DOMAIN f \ {<<>>}
        BY <1>6, <2>3 DEF IsA
      <3> QED
        BY <1>2, <1>6, <3>1 DEF Closed
    <2>5. In(Root, Norm(real)) /\ ~HasGit(real)
      BY <1>7, <2>3
    <2>6. SafeAt(t.path)
      <3> DEFINE hops == up.hops
      <3>1. /\ q \in Seq(Plain) /\ IsA(f, q, "dir") /\ IsA(f, Append(q, x), "link")
            /\ hops \in 0..MaxHops
            /\ ComesTo(f, [err |-> "ok", path |-> q, names |-> <<x>>, hops |-> hops], t)
        BY <1>5, <1>8, <2>3, <2>4 DEF w, s
      <3> HIDE DEF q, hops
      <3> QED
        BY <1>1, <1>10, <2>2, <2>5, <3>1, SafeLink DEF q
    <2> QED
      BY <2>6 DEF t
  <1> QED
    BY <1>12, <1>13

-----------------------------------------------------------------------------
(* The writer.                                                             *)

\* The facts about the trees and about calls to write.
LEMMA NamesAre ==
    \A s \in Seq(STRING) : s \in Seq(Name)
  <1>1. STRING \subseteq Name
    BY DEF Name
  <1> QED
    BY <1>1, SeqMonotonic

LEMMA TreesOrdered ==
    ASSUME FilesAssumption, WritesAssumption, Called
    PROVE  Ordered(before)
  <1>1. PICK scene \in Scenes : before \in scene.trees
    BY DEF Called
  <1>2. WellMade(before)
    BY <1>1, NamesAre DEF FilesAssumption, WellMade, File
  <1>3. /\ DOMAIN before \subseteq Seq(STRING) /\ IsA(before, Root, "dir")
        /\ \A p \in DOMAIN before \ {<<>>} : IsA(before, Front(p), "dir")
        /\ \A p \in DOMAIN before : before[p].kind = "link" => Plainly(before, p)
    BY <1>1 DEF WritesAssumption
  <1> QED
    BY <1>2, <1>3, NamesAre DEF Ordered, Closed

LEMMA WriteTyped ==
    ASSUME FilesAssumption, WritesAssumption, Called, req.tool = "write"
    PROVE  /\ Ordered(before) /\ Path \in Seq(Name) /\ Norm(Path) # Root
           /\ req.content \in Seq(Char) /\ Foreign \in Seq(Char)
           /\ req.path.names \in Seq(Name) /\ req.path.abs \in BOOLEAN
  <1>1. PICK scene \in Scenes : before \in scene.trees /\ req \in scene.calls
    BY DEF Called
  <1>2. /\ req.path.names \in Seq(Name) /\ req.path.abs \in BOOLEAN /\ req.content \in Seq(Char)
        /\ Norm(Path) # Root
    BY <1>1, NamesAre DEF WritesAssumption, Path
  <1> QED
    BY <1>2, TreesOrdered, PathTyped DEF FilesAssumption

\* A file put where a path leads is what the path leads to, and the tree keeps its order.
LEMMA FileLands ==
    ASSUME FilesAssumption, NEW f, Ordered(f), NEW p \in Seq(Name), NEW x \in Seq(Char),
           Real(f, p).err \in {"ok", "new"}, ~IsA(f, Real(f, p).path, "dir"),
           NEW g, g = Put(f, Real(f, p).path, File(x))
    PROVE  /\ Ordered(g) /\ Grows(f, Real(f, p).path, File(x), g)
           /\ Real(g, p).err = "ok" /\ Real(g, p).path = Real(f, p).path
  <1> DEFINE z == Real(f, p)
  <1>1. WellMade(f) /\ Closed(f)
    BY DEF Ordered
  <1>2. Orderly(f, z)
    BY <1>1, RealOrderly
  <1>3. Placed(f, z.path, File(x))
    <2> HIDE DEF z
    <2>1. z.err \in {"ok", "new"} /\ ~IsA(f, z.path, "dir")
      BY DEF z
    <2>2. z.path \in Seq(Plain)
      BY <1>2 DEF Orderly
    <2>3. CASE z.err = "ok"
      <3>1. z.path \in DOMAIN f /\ f[z.path].kind = "file"
        BY <1>1, <1>2, <2>1, <2>3 DEF Orderly, Arrived, IsA, WellMade
      <3>2. z.path # <<>>
        BY <1>1, <3>1 DEF WellMade
      <3> QED
        BY <1>1, <2>2, <3>1, <3>2 DEF Placed, Closed
    <2>4. CASE z.err = "new"
      <3>1. z.path \notin DOMAIN f /\ z.path # <<>> /\ IsA(f, Front(z.path), "dir")
        BY <1>2, <2>4 DEF Orderly, Arrived
      <3> QED
        BY <2>2, <3>1 DEF Placed
    <2> QED
      BY <2>1, <2>3, <2>4
  <1>4. Ordered(g) /\ Grows(f, z.path, File(x), g)
    <2>1. g = Put(f, z.path, File(x))
      OBVIOUS
    <2> HIDE DEF z
    <2> QED
      BY <1>1, <1>3, <2>1, PutOrdered, PutWithin
  <1>5. Holds(f, p, x, g)
    BY <1>1, RealPut
  <1> QED
    BY <1>4, <1>5 DEF Holds

\* Where the path leads a file may be put.
Guarded ==
    Target.err \in {"ok", "new"} /\ ~IsA(fs, Target.path, "dir") => SafeAt(Target.path)

\* What was there is there, and there is nothing more than directories, but for the file written.
Struck(p) == status = "written" /\ p = Target.path
Spared ==
    /\ \A p \in DOMAIN before : p \in DOMAIN fs /\ (fs[p] = before[p] \/ Struck(p))
    /\ \A p \in DOMAIN fs \ DOMAIN before : fs[p].kind = "dir" \/ Struck(p)

\* A write asks again what the path leads to whenever it has made a directory; from then on only
\* the file there can change.
WriteInv ==
    /\ Called
    /\ req.tool = "write" =>
        /\ pc \in {"start", "parents", "look", "check", "save", "done"}
        /\ pc # "done" => status = "none"
        /\ pc # "start" => new = req.content
        /\ pc = "parents" => cur \in Seq(Name) /\ todo \in Seq(Name)
        /\ pc \in {"look", "check", "save"} \/ status = "written" => Guarded
        /\ status # "written" => Ordered(fs)
        /\ status = "written" => Target.err = "ok" /\ fs[Target.path] = File(new)
        /\ ~meddled => Spared

LEMMA ResolvedGuards ==
    ASSUME FilesAssumption, WritesAssumption, Called, req.tool = "write", Ordered(fs),
           ResolveUnder(fs, req.path, TRUE) = "ok"
    PROVE  Guarded
  <1>1. Path \in Seq(Name) /\ Norm(Path) # Root
    BY WriteTyped
  <1>2. In(Root, Norm(Path)) /\ ".git" \notin ToSet(Path) /\ SymlinkSafe(fs, Path, TRUE) = "ok"
    BY DEF ResolveUnder, Path
  <1>3. Path # <<>>
    <2>1. CASE Path = <<>>
      <3>1. Norm(Path) = <<>> /\ <<>> \in Seq(Name)
        BY <2>1, NormNone
      <3> QED
        BY <1>2, <3>1, InRoot
    <2> QED
      BY <2>1
  <1> DEFINE p == Path
  <1> HIDE DEF p
  <1>4. Real(fs, p).err \in {"ok", "new"} /\ ~IsA(fs, Real(fs, p).path, "dir")
        => SafeAt(Real(fs, p).path)
    BY <1>1, <1>2, <1>3, SafeTarget DEF p
  <1> QED
    BY <1>4 DEF Guarded, Target, p

\* All but the last name, if there is one.
LEMMA FrontTyped ==
    ASSUME NEW S, NEW s \in Seq(S)
    PROVE  Front(s) \in Seq(S)
  <1>1. CASE s = <<>>
    <2>1. Len(s) - 1 < 1 /\ Len(s) - 1 \in Int
      BY <1>1
    <2>2. Front(s) = <<>>
      BY <2>1, SubSeqEmpty DEF Front
    <2> QED
      BY <2>2
  <1> QED
    BY <1>1, FrontLast

LEMMA WriteStarts ==
    ASSUME FilesAssumption, WritesAssumption, WriteInv, WriteStart
    PROVE  WriteInv'
  <1>1. /\ fs' = fs /\ before' = before /\ meddled' = meddled /\ req' = req /\ new' = req.content
        /\ pc = "start" /\ req.tool = "write" /\ Target' = Target
    BY DEF WriteStart, tree, Target, Path
  <1>2. Called /\ Ordered(fs) /\ status = "none" /\ (~meddled => Spared)
    BY <1>1 DEF WriteInv
  <1>3. \/ pc' = "done" /\ status' \in {"failed", "denied"}
        \/ pc' = "look" /\ status' = status /\ ResolveUnder(fs, req.path, TRUE) = "ok"
        \/ /\ pc' = "parents" /\ status' = status
           /\ cur' = (IF req.path.abs THEN <<>> ELSE Root) /\ todo' = Front(req.path.names)
    BY DEF WriteStart, End
  <1>4. Guarded' = Guarded /\ (ResolveUnder(fs, req.path, TRUE) = "ok" => Guarded)
    BY <1>1, <1>2, ResolvedGuards DEF Guarded
  <1>5. pc' = "parents" => cur' \in Seq(Name) /\ todo' \in Seq(Name)
    <2>1. Front(req.path.names) \in Seq(Name)
      BY <1>1, <1>2, WriteTyped, FrontTyped
    <2>2. <<>> \in Seq(Name)
      OBVIOUS
    <2> QED
      BY <1>3, <2>1, <2>2, RootNames
  <1>6. ~meddled' => Spared'
    BY <1>1, <1>2, <1>3 DEF Spared, Struck
  <1> QED
    BY <1>1, <1>2, <1>3, <1>4, <1>5, <1>6 DEF WriteInv, Called

\* A level that is made is where nothing was, in a directory.
LEMMA LevelPlaced ==
    ASSUME FilesAssumption, Ordered(fs), cur \in Seq(Name), NEW x \in Name, x # "..",
           Real(fs, cur).err = "ok", fs[Real(fs, cur).path].kind = "dir",
           Append(Real(fs, cur).path, x) \notin DOMAIN fs
    PROVE  Placed(fs, Append(Real(fs, cur).path, x), Dir)
  <1> DEFINE up == Real(fs, cur)
  <1>1. Orderly(fs, up)
    BY RealOrderly DEF Ordered
  <1>2. up.path \in Seq(Plain) /\ up.path \in DOMAIN fs
    BY <1>1 DEF Orderly, Arrived
  <1> DEFINE q == up.path
  <1> HIDE DEF q
  <1>3. x \in Plain
    BY DEF Plain
  <1>4. q \in Seq(Plain) /\ IsA(fs, q, "dir")
    BY <1>2 DEF q, IsA
  <1>5. Append(q, x) \in Seq(Plain) /\ Append(q, x) # <<>> /\ Front(Append(q, x)) = q
    BY <1>3, <1>4, FrontAppend
  <1>6. Append(q, x) \notin DOMAIN fs
    BY DEF q
  <1>7. Placed(fs, Append(q, x), Dir)
    BY <1>4, <1>5, <1>6 DEF Placed
  <1> QED
    BY <1>7 DEF q

LEMMA LevelCreated ==
    ASSUME FilesAssumption, WritesAssumption, WriteInv, CreateLevel, req.tool = "write"
    PROVE  WriteInv'
  <1> DEFINE x == Head(todo)
             up == Real(fs, cur)
             open == up.err = "ok" /\ fs[up.path].kind = "dir"
             at == Append(up.path, x)
             there == open /\ (x = ".." \/ at \in DOMAIN fs)
  <1>1. /\ before' = before /\ meddled' = meddled /\ req' = req /\ new' = new
        /\ pc = "parents" /\ todo # <<>>
    BY DEF CreateLevel, text
  <1>2. /\ Called /\ Ordered(fs) /\ status = "none" /\ (~meddled => Spared) /\ new = req.content
        /\ cur \in Seq(Name) /\ todo \in Seq(Name)
    BY <1>1 DEF WriteInv
  <1>3. x \in Name /\ Tail(todo) \in Seq(Name)
    BY <1>1, <1>2, HeadTailProperties
  <1>4. CASE fs' = fs /\ pc' = "done" /\ status' = "failed"
    <2>1. ~meddled => Spared'
      BY <1>1, <1>2, <1>4 DEF Spared, Struck
    <2> QED
      BY <1>1, <1>2, <1>4, <2>1 DEF WriteInv, Called
  <1>5. CASE /\ open /\ fs' = (IF there THEN fs ELSE Put(fs, at, Dir))
             /\ cur' = Append(cur, x) /\ todo' = Tail(todo)
             /\ \/ pc' = "parents" /\ status' = "none"
                \/ pc' = "done" /\ status' \in {"failed", "denied"}
    <2>1. cur' \in Seq(Name) /\ todo' \in Seq(Name)
      BY <1>2, <1>3, <1>5, AppendProperties
    <2>2. CASE there
      <3>1. fs' = fs
        BY <1>5, <2>2
      <3>2. ~meddled => Spared'
        BY <1>1, <1>2, <1>5, <3>1 DEF Spared, Struck
      <3> HIDE DEF open, there, x
      <3> QED
        BY <1>1, <1>2, <1>5, <2>1, <3>1, <3>2 DEF WriteInv, Called
    <2>3. CASE ~there
      <3>1. fs' = Put(fs, at, Dir) /\ x # ".." /\ at \notin DOMAIN fs
        BY <1>5, <2>3
      <3>2. Placed(fs, at, Dir)
        BY <1>2, <1>3, <1>5, <3>1, LevelPlaced
      <3> HIDE DEF at
      <3>3. Ordered(fs') /\ Grows(fs, at, Dir, fs')
        BY <1>2, <3>1, <3>2, PutOrdered, PutWithin DEF Ordered
      <3>4. ~meddled => Spared'
        <4>1. DOMAIN fs' = DOMAIN fs \union {at} /\ \A r \in DOMAIN fs : r # at => fs'[r] = fs[r]
          BY <3>3 DEF Grows
        <4>2. fs'[at].kind = "dir"
          BY <3>3 DEF Grows, Dir
        <4> SUFFICES ASSUME ~meddled
                     PROVE  /\ \A p \in DOMAIN before : p \in DOMAIN fs' /\ fs'[p] = before[p]
                            /\ \A p \in DOMAIN fs' \ DOMAIN before : fs'[p].kind = "dir"
          BY <1>1 DEF Spared
        <4>3. \A p \in DOMAIN before : p \in DOMAIN fs /\ fs[p] = before[p]
          BY <1>2 DEF Spared, Struck
        <4>4. \A p \in DOMAIN fs \ DOMAIN before : fs[p].kind = "dir"
          BY <1>2 DEF Spared, Struck
        <4> QED
          BY <3>1, <4>1, <4>2, <4>3, <4>4
      <3> HIDE DEF open, there, x
      <3> QED
        BY <1>1, <1>2, <1>5, <2>1, <3>3, <3>4 DEF WriteInv, Called
    <2> QED
      BY <2>2, <2>3
  <1>6. \/ fs' = fs /\ pc' = "done" /\ status' = "failed"
        \/ /\ open /\ fs' = (IF there THEN fs ELSE Put(fs, at, Dir))
           /\ cur' = Append(cur, x) /\ todo' = Tail(todo)
           /\ \/ pc' = "parents" /\ status' = "none"
              \/ pc' = "done" /\ status' \in {"failed", "denied"}
    <2> DEFINE made == IF there THEN fs ELSE Put(fs, at, Dir)
               verdict == SymlinkSafe(made, Append(cur, x), TRUE)
    <2>1. verdict \in {"ok", "denied", "noparent"}
      BY DEF SymlinkSafe
    <2>2. \/ fs' = fs /\ End("failed")
          \/ /\ open /\ fs' = made /\ cur' = Append(cur, x) /\ todo' = Tail(todo)
             /\ IF verdict = "ok" THEN UNCHANGED <<pc, status>> ELSE Refused(verdict)
      BY DEF CreateLevel
    <2> HIDE DEF verdict, made, open, x
    <2>3. CASE fs' = fs /\ End("failed")
      BY <2>3 DEF End
    <2>4. CASE /\ open /\ fs' = made /\ cur' = Append(cur, x) /\ todo' = Tail(todo)
               /\ IF verdict = "ok" THEN UNCHANGED <<pc, status>> ELSE Refused(verdict)
      <3>1. \/ pc' = "parents" /\ status' = "none"
            \/ pc' = "done" /\ status' \in {"failed", "denied"}
        BY <1>1, <1>2, <2>1, <2>4 DEF End, Refused
      <3> QED
        BY <2>4, <3>1 DEF made
    <2> QED
      BY <2>2, <2>3, <2>4
  <1> QED
    BY <1>4, <1>5, <1>6

LEMMA WriteSaves ==
    ASSUME FilesAssumption, WritesAssumption, WriteInv, Save, req.tool = "write"
    PROVE  WriteInv'
  <1>1. /\ before' = before /\ meddled' = meddled /\ req' = req /\ new' = new
        /\ Path' = Path /\ pc = "save"
    BY DEF Save, text, Path
  <1>2. /\ Called /\ Ordered(fs) /\ status = "none" /\ (~meddled => Spared) /\ new = req.content
        /\ Guarded
    BY <1>1 DEF WriteInv
  <1>3. Path \in Seq(Name) /\ req.content \in Seq(Char)
    BY <1>2, WriteTyped
  <1> DEFINE reached == Target.err \in {"ok", "new"} /\ ~IsA(fs, Target.path, "dir")
  <1>4. CASE ~reached
    <2>1. fs' = fs /\ pc' = "done" /\ status' = "failed"
      BY <1>4 DEF Save, End
    <2>2. ~meddled => Spared'
      BY <1>1, <1>2, <2>1 DEF Spared, Struck
    <2> QED
      BY <1>1, <1>2, <2>1, <2>2 DEF WriteInv, Called
  <1>5. CASE reached
    <2> DEFINE at == Target.path
    <2>1. fs' = Put(fs, at, File(new)) /\ pc' = "done" /\ status' = "written"
      BY <1>5 DEF Save, End
    <2>2. /\ Grows(fs, at, File(new), fs') /\ Target'.err = "ok" /\ Target'.path = at
      <3>1. Real(fs, Path).err \in {"ok", "new"} /\ ~IsA(fs, Real(fs, Path).path, "dir")
        BY <1>5 DEF Target
      <3>2. fs' = Put(fs, Real(fs, Path).path, File(new))
        BY <2>1 DEF Target
      <3>3. /\ Grows(fs, Real(fs, Path).path, File(new), fs')
            /\ Real(fs', Path).err = "ok" /\ Real(fs', Path).path = Real(fs, Path).path
        BY <1>2, <1>3, <3>1, <3>2, FileLands
      <3> QED
        BY <1>1, <3>3 DEF Target
    <2>3. SafeAt(at)
      BY <1>2, <1>5 DEF Guarded
    <2> HIDE DEF at
    <2>4. /\ DOMAIN fs' = DOMAIN fs \union {at} /\ fs'[at] = File(new)
          /\ \A r \in DOMAIN fs : r # at => fs'[r] = fs[r]
      BY <2>2 DEF Grows
    <2>5. Guarded'
      BY <2>2, <2>3 DEF Guarded
    <2>6. ~meddled => Spared'
      <3> SUFFICES ASSUME ~meddled
                   PROVE  /\ \A p \in DOMAIN before : p \in DOMAIN fs' /\ (fs'[p] = before[p] \/ p = at)
                          /\ \A p \in DOMAIN fs' \ DOMAIN before : fs'[p].kind = "dir" \/ p = at
        BY <1>1, <2>1, <2>2 DEF Spared, Struck
      <3>1. \A p \in DOMAIN before : p \in DOMAIN fs /\ fs[p] = before[p]
        BY <1>2 DEF Spared, Struck
      <3>2. \A p \in DOMAIN fs \ DOMAIN before : fs[p].kind = "dir"
        BY <1>2 DEF Spared, Struck
      <3> QED
        BY <2>4, <3>1, <3>2
    <2> QED
      BY <1>1, <1>2, <2>1, <2>2, <2>4, <2>5, <2>6 DEF WriteInv, Called
  <1> QED
    BY <1>4, <1>5

LEMMA WriteMeddled ==
    ASSUME FilesAssumption, WritesAssumption, WriteInv, Meddle, req.tool = "write"
    PROVE  WriteInv'
  <1>1. /\ before' = before /\ req' = req /\ new' = new /\ pc' = pc /\ cur' = cur /\ todo' = todo
        /\ status' = status /\ Path' = Path /\ pc # "done" /\ meddled'
        /\ fs' = Put(fs, Target.path, File(Foreign))
        /\ Target.err \in {"ok", "new"} /\ ~IsA(fs, Target.path, "dir")
    BY DEF Meddle, text, dirs, Path
  <1>2. Called /\ Ordered(fs) /\ status = "none"
    BY <1>1 DEF WriteInv
  <1>3. Path \in Seq(Name) /\ Foreign \in Seq(Char)
    BY <1>2, WriteTyped
  <1>4. Ordered(fs') /\ Target'.path = Target.path
    <2>1. Real(fs, Path).err \in {"ok", "new"} /\ ~IsA(fs, Real(fs, Path).path, "dir")
      BY <1>1 DEF Target
    <2>2. fs' = Put(fs, Real(fs, Path).path, File(Foreign))
      BY <1>1 DEF Target
    <2>3. Ordered(fs') /\ Real(fs', Path).path = Real(fs, Path).path
      BY <1>2, <1>3, <2>1, <2>2, FileLands
    <2> QED
      BY <1>1, <2>3 DEF Target
  <1>5. Guarded => Guarded'
    BY <1>1, <1>4 DEF Guarded
  <1> QED
    BY <1>1, <1>2, <1>4, <1>5 DEF WriteInv, Called

LEMMA WriteSteps ==
    ASSUME FilesAssumption, WritesAssumption, WriteInv, [Next]_vars
    PROVE  WriteInv'
  <1>1. before' = before /\ req' = req
    BY DEF Next, vars, WriteStart, CreateLevel, ResolveAgain, WriteLook, Check, Save, EditStart,
           EditRead, ViewWhole, ViewNext, Search, ExecStart, Drain, Exit, Meddle, tree
  <1>2. \/ req.tool # "write"
        \/ WriteStart \/ CreateLevel \/ ResolveAgain \/ WriteLook \/ Check \/ Save \/ Meddle
        \/ UNCHANGED vars
    BY DEF WriteInv, Next, EditStart, EditRead, ViewWhole, ViewNext, Search, ExecStart, Drain, Exit
  <1>3. CASE req.tool # "write"
    BY <1>1, <1>3 DEF WriteInv, Called
  <1>4. CASE /\ req.tool = "write" /\ pc \in {"parents", "look", "check"}
             /\ fs' = fs /\ meddled' = meddled /\ new' = new
             /\ \/ pc' = "done" /\ status' \in {"failed", "denied", "vetoed"}
                \/ /\ pc' \in {"look", "check", "save"} /\ status' = status
                   /\ pc = "parents" => ResolveUnder(fs, req.path, TRUE) = "ok"
    <2>1. /\ Called /\ Ordered(fs) /\ status = "none" /\ (~meddled => Spared) /\ new = req.content
          /\ pc # "parents" => Guarded
      BY <1>4 DEF WriteInv
    <2>2. Guarded' = Guarded
      BY <1>1, <1>4 DEF Guarded, Target, Path
    <2>3. pc' # "done" => Guarded
      BY <1>4, <2>1, ResolvedGuards
    <2>4. ~meddled => Spared'
      BY <1>1, <1>4, <2>1 DEF Spared, Struck
    <2> QED
      BY <1>1, <1>4, <2>1, <2>2, <2>3, <2>4 DEF WriteInv, Called
  <1>5. CASE req.tool = "write" /\ (ResolveAgain \/ WriteLook \/ Check)
    <2>1. ResolveUnder(fs, req.path, TRUE) \in {"ok", "denied", "noparent"}
      BY DEF ResolveUnder, SymlinkSafe
    <2>2. /\ pc \in {"parents", "look", "check"} /\ fs' = fs /\ meddled' = meddled /\ new' = new
      BY <1>5 DEF ResolveAgain, WriteLook, Check, tree, text
    <2>3. \/ pc' = "done" /\ status' \in {"failed", "denied", "vetoed"}
          \/ /\ pc' \in {"look", "check", "save"} /\ status' = status
             /\ pc = "parents" => ResolveUnder(fs, req.path, TRUE) = "ok"
      BY <1>5, <2>1 DEF ResolveAgain, WriteLook, Check, End, Refused
    <2> QED
      BY <1>4, <1>5, <2>2, <2>3
  <1>6. CASE UNCHANGED vars
    <2>1. Guarded' = Guarded /\ Spared' = Spared /\ Target' = Target
      BY <1>6 DEF vars, Guarded, Spared, Struck, Target, Path
    <2> QED
      BY <1>6, <2>1 DEF WriteInv, Called, vars
  <1> QED
    BY <1>2, <1>3, <1>5, <1>6, WriteStarts, LevelCreated, WriteSaves, WriteMeddled

-----------------------------------------------------------------------------
(* The writer of an ordinary path.                                         *)

Way == Front(Path)

\* What WriteLands promises to write, if no file there is too big.
Wanted ==
    /\ req.tool = "write" /\ ~TooBig(req.content, ReplaceCap)
    /\ \/ ~req.path.abs /\ Ordinary(req.path.names)
       \/ /\ Workspace(req.path) # req.path /\ Way \in DOMAIN before
          /\ Ordinary(Tail(req.path.names))

\* The directories on a way are directories, where they are there.
Paved(f, w) ==
    \A k \in 0..Len(w) : SubSeq(w, 1, k) \in DOMAIN f => IsA(f, SubSeq(w, 1, k), "dir")

\* Such a path, in a tree.
Clear(f, p) == Paved(f, Front(p)) /\ ~IsA(f, p, "link")

LEMMA FrontParts ==
    ASSUME NEW S, NEW p \in Seq(S), p # <<>>
    PROVE  /\ Front(p) \in Seq(S) /\ Len(Front(p)) = Len(p) - 1 /\ Len(p) \in Nat \ {0}
           /\ \A k \in 0..(Len(p) - 1) : SubSeq(Front(p), 1, k) = SubSeq(p, 1, k)
           /\ SubSeq(Front(p), 1, Len(p) - 1) = Front(p)
  <1>1. Front(p) \in Seq(S) /\ Len(Front(p)) = Len(p) - 1 /\ Len(p) \in Nat \ {0}
    BY FrontLast
  <1> DEFINE n == Len(p) - 1
  <1>2. n \in 0..Len(p)
    BY <1>1
  <1> HIDE DEF n
  <1>3. \A k \in 0..n : SubSeq(SubSeq(p, 1, n), 1, k) = SubSeq(p, 1, k)
    BY <1>2, PlainPart
  <1>4. Front(p) = SubSeq(p, 1, n)
    BY DEF Front, n
  <1>5. SubSeq(Front(p), 1, n) = Front(p)
    BY <1>1, NoneAndAll DEF n
  <1> QED
    BY <1>1, <1>3, <1>4, <1>5 DEF n

LEMMA ClearWays ==
    ASSUME NEW f, NEW p \in Seq(Plain), p # <<>>, Clear(f, p)
    PROVE  Unblocked(f, p) /\ Unblocked(f, Front(p))
  <1> DEFINE q == Front(p)
             n == Len(p) - 1
  <1>1. /\ q \in Seq(Plain) /\ Len(q) = n /\ n \in Nat
        /\ \A k \in 0..n : SubSeq(q, 1, k) = SubSeq(p, 1, k)
        /\ SubSeq(q, 1, n) = q
    BY FrontParts
  <1>2. \A k \in 0..n : SubSeq(q, 1, k) \in DOMAIN f => IsA(f, SubSeq(q, 1, k), "dir")
    BY <1>1 DEF Clear, Paved
  <1>3. Unblocked(f, p)
    BY <1>1, <1>2 DEF Unblocked, Clear
  <1>4. ~IsA(f, q, "link")
    <2>1. n \in 0..n
      BY <1>1
    <2> HIDE DEF n
    <2>2. SubSeq(q, 1, n) \in DOMAIN f => IsA(f, SubSeq(q, 1, n), "dir")
      BY <1>2, <2>1
    <2>3. SubSeq(q, 1, n) = q
      BY <1>1
    <2> HIDE DEF q
    <2> QED
      BY <2>2, <2>3 DEF IsA
  <1>5. n \in 0..n /\ \A k \in 0..(n - 1) : k \in 0..n
    BY <1>1
  <1>6. Unblocked(f, q)
    BY <1>1, <1>2, <1>4, <1>5 DEF Unblocked
  <1> QED
    BY <1>3, <1>6

\* A plain path that is there leads to itself, one that is not to nothing.
LEMMA PlainThere ==
    ASSUME FilesAssumption, NEW f, Ordered(f), NEW q \in Seq(Plain), q # <<>>, Unblocked(f, q)
    PROVE  IF q \in DOMAIN f THEN Real(f, q).err = "ok" /\ Real(f, q).path = q
                             ELSE Real(f, q).err \in {"new", "missing"}
  <1>1. WellMade(f) /\ Closed(f)
    BY DEF Ordered
  <1>2. q \in DOMAIN f => Front(q) \in DOMAIN f
    BY <1>1 DEF Closed, IsA
  <1> QED
    BY <1>1, <1>2, PlainReal

\* Of a clear path symlink_safe asks only whether its directory is there.
LEMMA ClearVerdict ==
    ASSUME FilesAssumption, NEW f, Ordered(f), NEW p \in Seq(Plain), p # <<>>, p # Root,
           Front(p) # <<>>, SafeAt(Front(p)), Clear(f, p)
    PROVE  SymlinkSafe(f, p, TRUE) = IF Front(p) \in DOMAIN f THEN "ok" ELSE "noparent"
  <1> DEFINE q == Front(p)
             up == Real(f, q)
             last == p[Len(p)]
  <1>1. Norm(p) # Root /\ Last(p) = last
    BY NormPlain DEF Last
  <1>2. q \in Seq(Plain) /\ p = Append(q, last)
    BY FrontLast
  <1>3. Norm(q) = q
    BY <1>2, NormPlain
  <1>4. IF q \in DOMAIN f THEN up.err = "ok" /\ up.path = q ELSE up.err \in {"new", "missing"}
    <2>1. Unblocked(f, q)
      BY ClearWays
    <2> HIDE DEF q
    <2>2. q # <<>>
      BY DEF q
    <2> QED
      BY <1>2, <2>1, <2>2, PlainThere
  <1>5. CASE q \notin DOMAIN f
    BY <1>1, <1>4, <1>5 DEF SymlinkSafe
  <1>6. CASE q \in DOMAIN f
    <2>1. up.err = "ok" /\ up.path = q /\ In(Root, Norm(up.path)) /\ ~HasGit(up.path)
      BY <1>3, <1>4, <1>6 DEF SafeAt
    <2>2. ~IsA(f, Append(up.path, Last(p)), "link")
      BY <1>1, <1>2, <2>1 DEF Clear
    <2> HIDE DEF last
    <2> QED
      BY <1>1, <1>6, <2>1, <2>2 DEF SymlinkSafe
  <1> QED
    BY <1>5, <1>6

\* Names below the root.
LEMMA RootPart ==
    ASSUME NEW n \in Seq(Name)
    PROVE  /\ Root \o n \in Seq(Name) /\ Len(Root \o n) = Len(n) + 1 /\ Root \o n # <<>>
           /\ (Root \o n)[1] = "w" /\ Tail(Root \o n) = n /\ Rel(Root \o n) = n
           /\ ToSet(Root \o n) \subseteq {"w"} \union ToSet(n)
           /\ \A k \in 0..Len(n) : SubSeq(Root \o n, 1, k + 1) = Root \o SubSeq(n, 1, k)
  <1> DEFINE p == Root \o n
  <1>1. Len(n) \in Nat /\ DOMAIN n = 1..Len(n)
    BY LenProperties
  <1>2. ASSUME NEW s \in Seq(Name)
        PROVE  /\ Root \o s \in Seq(Name) /\ Len(Root \o s) = 1 + Len(s)
               /\ \A i \in 1..(1 + Len(s)) : (Root \o s)[i] = IF i <= 1 THEN Root[i] ELSE s[i - 1]
    <2>1. /\ Root \o s \in Seq(Name) /\ Len(Root \o s) = Len(Root) + Len(s)
          /\ \A i \in 1..(Len(Root) + Len(s)) :
                 (Root \o s)[i] = IF i <= Len(Root) THEN Root[i] ELSE s[i - Len(Root)]
      BY RootNames, ConcatProperties
    <2> QED
      BY <2>1, RootNames
  <1>3. /\ p \in Seq(Name) /\ Len(p) = Len(n) + 1
        /\ \A i \in 1..(1 + Len(n)) : p[i] = IF i <= 1 THEN Root[i] ELSE n[i - 1]
    BY <1>1, <1>2
  <1>4. p # <<>> /\ p[1] = "w"
    BY <1>1, <1>3, RootNames, EmptySeq
  <1>5. Tail(p) = n
    <2>1. Root = <<"w">>
      BY DEF Root
    <2> QED
      BY <2>1, RootNames, OneAhead
  <1>6. Rel(p) = n
    BY <1>3, <1>4, <1>5, RootNames, TailIsSubSeq DEF Rel
  <1> HIDE DEF p
  <1>7. ASSUME NEW x \in ToSet(p) PROVE x = "w" \/ x \in ToSet(n)
    <2>1. DOMAIN p = 1..(Len(n) + 1)
      BY <1>3, LenProperties
    <2>2. PICK i \in 1..(Len(n) + 1) : p[i] = x
      BY <2>1 DEF ToSet
    <2>3. CASE i = 1
      BY <1>4, <2>2, <2>3
    <2>4. CASE i # 1
      <3>1. i - 1 \in 1..Len(n) /\ p[i] = n[i - 1]
        BY <1>1, <1>3, <2>4
      <3> QED
        BY <1>1, <2>2, <3>1 DEF ToSet
    <2> QED
      BY <2>3, <2>4
  <1>8. ASSUME NEW k \in 0..Len(n) PROVE SubSeq(p, 1, k + 1) = Root \o SubSeq(n, 1, k)
    <2> DEFINE s == SubSeq(n, 1, k)
               a == SubSeq(p, 1, k + 1)
               b == Root \o s
    <2>1. s \in Seq(Name) /\ Len(s) = k /\ \A i \in 1..k : s[i] = n[i]
      BY PlainPart
    <2>2. k + 1 \in 0..Len(p)
      BY <1>1, <1>3
    <2>3. a \in Seq(Name) /\ Len(a) = k + 1 /\ \A i \in 1..(k + 1) : a[i] = p[i]
      <3> DEFINE m == k + 1
      <3> HIDE DEF m
      <3>1. m \in 0..Len(p)
        BY <2>2 DEF m
      <3>2. SubSeq(p, 1, m) \in Seq(Name) /\ Len(SubSeq(p, 1, m)) = m
            /\ \A i \in 1..m : SubSeq(p, 1, m)[i] = p[i]
        BY <1>3, <3>1, PlainPart
      <3> QED
        BY <3>2 DEF m
    <2>4. /\ b \in Seq(Name) /\ Len(b) = 1 + k
          /\ \A i \in 1..(1 + k) : b[i] = IF i <= 1 THEN Root[i] ELSE s[i - 1]
      <3> HIDE DEF s
      <3> QED
        BY <1>2, <2>1
    <2> HIDE DEF a, b, s
    <2>5. ASSUME NEW i \in 1..(k + 1) PROVE a[i] = b[i]
      <3>1. i \in 1..(1 + Len(n)) /\ i \in 1..(1 + k)
        BY <1>1
      <3>2. i <= 1 \/ i - 1 \in 1..k
        OBVIOUS
      <3> QED
        BY <1>3, <2>1, <2>3, <2>4, <3>1, <3>2
    <2>6. a = b
      BY <2>3, <2>4, <2>5, SeqEqual
    <2> QED
      BY <2>6 DEF a, b, s
  <1> QED
    BY <1>3, <1>4, <1>5, <1>6, <1>7, <1>8 DEF p

\* What an ordinary spelling leads through and to.
LEMMA OrdinaryPath ==
    ASSUME Ordered(before), NEW n \in Seq(Name), Ordinary(n)
    PROVE  LET p == Root \o n
           IN  /\ p \in Seq(Plain) /\ p # <<>> /\ p # Root /\ Front(p) # <<>>
               /\ In(Root, p) /\ ".git" \notin ToSet(p) /\ ~Denied(Rel(p)) /\ SafeAt(Front(p))
               /\ Clear(before, p) /\ (p \in DOMAIN before => before[p].kind = "file")
  <1> DEFINE p == Root \o n
             q == Front(p)
             m == Len(n)
  <1>1. /\ p \in Seq(Name) /\ Len(p) = m + 1 /\ p # <<>> /\ p[1] = "w" /\ Rel(p) = n
        /\ ToSet(p) \subseteq {"w"} \union ToSet(n)
        /\ \A k \in 0..m : SubSeq(p, 1, k + 1) = Root \o SubSeq(n, 1, k)
    BY RootPart
  <1>2. /\ n # <<>> /\ ".." \notin ToSet(n) /\ ".git" \notin ToSet(n) /\ ~Denied(n)
        /\ \A k \in 1..m : Root \o SubSeq(n, 1, k) \in DOMAIN before
               => before[Root \o SubSeq(n, 1, k)].kind = IF k < m THEN "dir" ELSE "file"
    BY DEF Ordinary
  <1>3. m \in Nat \ {0} /\ SubSeq(n, 1, m) = n
    BY <1>2, LenProperties, EmptySeq, NoneAndAll
  <1> HIDE DEF p, m
  <1>4. ".git" \notin ToSet(p) /\ ".." \notin ToSet(p)
    <2>1. "w" # ".git" /\ "w" # ".."
      OBVIOUS
    <2> QED
      BY <1>1, <1>2, <2>1
  <1>5. p \in Seq(Plain)
    <2>1. ASSUME NEW i \in 1..Len(p) PROVE p[i] \in Plain
      <3>1. p[i] \in Name /\ p[i] \in ToSet(p)
        BY <1>1, LenProperties, ElementOfSeq DEF ToSet
      <3> QED
        BY <1>4, <3>1 DEF Plain
    <2> QED
      BY <1>1, <2>1, SeqWider
  <1>6. p # Root /\ In(Root, p)
    BY <1>1, <1>3, RootNames, InRoot
  <1>7. /\ q \in Seq(Plain) /\ Len(q) = m
        /\ \A k \in 0..m : SubSeq(q, 1, k) = SubSeq(p, 1, k)
    <2>1. (m + 1) - 1 = m
      BY <1>3
    <2>2. /\ q \in Seq(Plain) /\ Len(q) = Len(p) - 1
          /\ \A k \in 0..(Len(p) - 1) : SubSeq(q, 1, k) = SubSeq(p, 1, k)
      BY <1>1, <1>5, FrontParts
    <2>3. Len(p) - 1 = m
      BY <1>1, <2>1
    <2> QED
      BY <2>2, <2>3
  <1>8. q # <<>> /\ SafeAt(q)
    <2>1. q \in Seq(Name) /\ q # <<>>
      BY <1>3, <1>7, PlainNames, EmptySeq
    <2>2. \A i \in 1..m : q[i] = p[i]
      <3>1. p = Append(q, p[Len(p)])
        BY <1>1, FrontLast
      <3> DEFINE a == Append(q, p[Len(p)])
      <3>2. p[Len(p)] \in Plain
        BY <1>1, <1>5, FrontLast
      <3>3. \A i \in 1..Len(q) : a[i] = q[i]
        BY <1>7, <3>2, AppendProperties
      <3> HIDE DEF a
      <3>4. p = a
        BY <3>1 DEF a
      <3> QED
        BY <1>7, <3>3, <3>4
    <2>3. q[1] = "w"
      BY <1>1, <1>3, <2>2
    <2>4. ".git" \notin ToSet(q)
      <3> SUFFICES ASSUME ".git" \in ToSet(q) PROVE FALSE
        OBVIOUS
      <3>1. DOMAIN q = 1..m /\ DOMAIN p = 1..(m + 1)
        BY <1>1, <1>3, <1>7, LenProperties
      <3>2. PICK i \in 1..m : q[i] = ".git"
        BY <3>1 DEF ToSet
      <3>3. p[i] = ".git" /\ i \in DOMAIN p
        BY <1>3, <2>2, <3>1, <3>2
      <3> QED
        BY <1>4, <3>3 DEF ToSet
    <2> QED
      BY <2>1, <2>3, <2>4, InRoot, GitThere DEF SafeAt
  <1>9. \A k \in 0..m : SubSeq(q, 1, k) \in DOMAIN before => IsA(before, SubSeq(q, 1, k), "dir")
    <2> SUFFICES ASSUME NEW k \in 0..m, SubSeq(q, 1, k) \in DOMAIN before
                 PROVE  before[SubSeq(q, 1, k)].kind = "dir"
      BY DEF IsA
    <2>1. CASE k = 0
      <3>1. SubSeq(q, 1, k) = <<>>
        BY <1>7, <2>1, NoneAndAll
      <3> QED
        BY <3>1 DEF Ordered, WellMade
    <2>2. CASE k = 1
      <3>1. 0 \in 0..m /\ 0 + 1 = 1
        BY <1>3
      <3>2. SubSeq(p, 1, 0 + 1) = Root \o SubSeq(n, 1, 0)
        BY <1>1, <3>1
      <3>3. SubSeq(n, 1, 0) = <<>> /\ Root \o <<>> = Root
        BY RootNames, NoneAndAll, ConcatEmptySeq
      <3>4. SubSeq(q, 1, k) = Root
        BY <1>7, <2>2, <3>1, <3>2, <3>3
      <3> QED
        BY <3>4 DEF Ordered, IsA
    <2>3. CASE k # 0 /\ k # 1
      <3> DEFINE j == k - 1
      <3>1. j \in 1..m /\ j \in 0..m /\ j < m /\ j + 1 = k
        BY <1>3, <2>3
      <3> HIDE DEF j
      <3>2. SubSeq(q, 1, k) = Root \o SubSeq(n, 1, j)
        BY <1>1, <1>7, <3>1
      <3> QED
        BY <1>2, <3>1, <3>2
    <2> QED
      BY <2>1, <2>2, <2>3
  <1>10. p \in DOMAIN before => before[p].kind = "file"
    <2>1. m \in 1..m /\ ~(m < m) /\ Root \o SubSeq(n, 1, m) = p
      BY <1>3 DEF p
    <2> QED
      BY <1>2, <2>1
  <1>11. Clear(before, p)
    BY <1>7, <1>9, <1>10 DEF Clear, Paved, IsA
  <1> QED
    BY <1>1, <1>2, <1>4, <1>5, <1>6, <1>8, <1>10, <1>11 DEF p

\* Of a path below the root, what is between the two ends.
LEMMA RootWay ==
    ASSUME NEW n \in Seq(Name), n # <<>>
    PROVE  LET w == Front(Root \o n)
           IN  Len(w) \in Nat \ {0} /\ SubSeq(w, 1, 1) = Root /\ Rest(w, 1) = Front(n)
  <1> DEFINE p == Root \o n
             s == Front(n)
             k == Len(n) - 1
  <1>1. k \in 0..Len(n) /\ k + 1 = Len(n)
    BY LenProperties, EmptySeq
  <1>2. s \in Seq(Name) /\ Len(s) = k /\ s = SubSeq(n, 1, k)
    BY FrontParts DEF Front
  <1>3. Len(p) = Len(n) + 1 /\ SubSeq(p, 1, k + 1) = Root \o SubSeq(n, 1, k)
    BY <1>1, RootPart
  <1> HIDE DEF k, s
  <1>4. Front(p) = Root \o s
    <2>1. Front(p) = SubSeq(p, 1, Len(p) - 1)
      BY DEF Front
    <2> HIDE DEF p
    <2>2. Len(p) - 1 = k + 1
      BY <1>1, <1>3
    <2> QED
      BY <1>2, <1>3, <2>1, <2>2
  <1> DEFINE w == Root \o s
  <1>5. Len(w) = Len(s) + 1 /\ Rel(w) = s /\ SubSeq(w, 1, 0 + 1) = Root \o SubSeq(s, 1, 0)
    <2>1. 0 \in 0..Len(s)
      BY <1>1, <1>2
    <2> QED
      BY <1>2, <2>1, RootPart
  <1>6. SubSeq(w, 1, 1) = Root
    <2>1. 0 + 1 = 1 /\ SubSeq(s, 1, 0) = <<>> /\ Root \o <<>> = Root
      BY <1>2, RootNames, NoneAndAll, ConcatEmptySeq
    <2> HIDE DEF w
    <2> QED
      BY <1>5, <2>1
  <1>7. Rest(w, 1) = s
    BY <1>5, RootNames DEF Rel, Rest
  <1>8. Len(w) \in Nat \ {0}
    BY <1>1, <1>2, <1>5
  <1> QED
    BY <1>4, <1>6, <1>7, <1>8 DEF s, p

\* The path of such a write.
LEMMA WantedPath ==
    ASSUME FilesAssumption, WritesAssumption, Called, Wanted
    PROVE  /\ Path \in Seq(Plain) /\ Path # <<>> /\ Path # Root /\ Way # <<>>
           /\ In(Root, Path) /\ ".git" \notin ToSet(Path) /\ ~Denied(Rel(Path)) /\ SafeAt(Way)
           /\ Clear(before, Path) /\ (Path \in DOMAIN before => before[Path].kind = "file")
           /\ req.path.abs => Way \in DOMAIN before
           /\ ~req.path.abs => /\ Len(Way) \in Nat \ {0} /\ SubSeq(Way, 1, 1) = Root
                               /\ Rest(Way, 1) = Front(req.path.names)
  <1> DEFINE names == req.path.names
  <1>1. Ordered(before) /\ names \in Seq(Name) /\ req.tool = "write"
    BY WriteTyped DEF Wanted
  <1>2. CASE ~req.path.abs /\ Ordinary(names)
    <2>1. Path = Root \o names
      BY <1>2 DEF Path, Join, Workspace
    <2>2. names # <<>>
      BY <1>2 DEF Ordinary
    <2> HIDE DEF names
    <2> QED
      BY <1>1, <1>2, <2>1, <2>2, OrdinaryPath, RootWay DEF Way, names
  <1>3. CASE /\ Workspace(req.path) # req.path /\ Way \in DOMAIN before
             /\ Ordinary(Tail(names))
    <2>1. /\ req.path.abs /\ Len(names) > 1
          /\ Workspace(req.path) = [abs |-> FALSE, names |-> Tail(names)]
      BY <1>3 DEF Workspace
    <2>2. Path = Root \o Tail(names)
      BY <2>1 DEF Path, Join
    <2>3. Tail(names) \in Seq(Name)
      BY <1>1, <2>1, HeadTailProperties, EmptySeq
    <2> DEFINE n == Tail(names)
    <2> HIDE DEF n, names
    <2> QED
      BY <1>1, <1>3, <2>1, <2>2, <2>3, OrdinaryPath DEF Way, n
  <1> QED
    BY <1>2, <1>3 DEF Wanted

\* What is above a place in the workspace, not above the workspace.
LEMMA SafePart ==
    ASSUME NEW p \in Seq(Name), SafeAt(p), NEW k \in 1..Len(p)
    PROVE  SafeAt(SubSeq(p, 1, k))
  <1> DEFINE s == SubSeq(p, 1, k)
             n == Len(p)
  <1>1. p[1] = "w" /\ ".git" \notin ToSet(p) /\ n \in Nat
    BY InRoot, GitThere, LenProperties DEF SafeAt
  <1>2. s \in Seq(Name) /\ Len(s) = k /\ \A i \in 1..k : s[i] = p[i]
    <2>1. k \in 0..Len(p)
      BY <1>1
    <2> QED
      BY <2>1, PlainPart
  <1> HIDE DEF s
  <1>3. DOMAIN s = 1..k /\ DOMAIN p = 1..n
    BY <1>2, LenProperties
  <1>4. s # <<>> /\ s[1] = "w"
    BY <1>1, <1>2, EmptySeq
  <1>5. ".git" \notin ToSet(s)
    <2> SUFFICES ASSUME NEW i \in 1..k, s[i] = ".git" PROVE FALSE
      BY <1>3 DEF ToSet
    <2>1. i \in 1..n /\ p[i] = ".git"
      BY <1>1, <1>2
    <2> QED
      BY <1>1, <1>3, <2>1 DEF ToSet
  <1> QED
    BY <1>2, <1>4, <1>5, InRoot, GitThere DEF s, SafeAt

\* Of such a path resolve_under asks whether its directory is there, too.
LEMMA ClearAnswer ==
    ASSUME FilesAssumption, WritesAssumption, Called, Wanted, Ordered(fs), Clear(fs, Path)
    PROVE  ResolveUnder(fs, req.path, TRUE) = IF Way \in DOMAIN fs THEN "ok" ELSE "noparent"
  <1>1. /\ Path \in Seq(Plain) /\ Path # <<>> /\ Path # Root /\ Way # <<>>
        /\ In(Root, Path) /\ ".git" \notin ToSet(Path) /\ ~Denied(Rel(Path)) /\ SafeAt(Way)
    BY WantedPath
  <1>2. Norm(Path) = Path
    BY <1>1, NormPlain
  <1>3. ResolveUnder(fs, req.path, TRUE)
        = IF ~In(Root, Norm(Path)) \/ Denied(Rel(Norm(Path))) \/ ".git" \in ToSet(Path)
          THEN "denied" ELSE SymlinkSafe(fs, Path, TRUE)
    BY DEF ResolveUnder, Path
  <1>4. SymlinkSafe(fs, Path, TRUE) = IF Way \in DOMAIN fs THEN "ok" ELSE "noparent"
    <2> DEFINE p == Path
    <2> HIDE DEF p
    <2>1. SymlinkSafe(fs, p, TRUE) = IF Front(p) \in DOMAIN fs THEN "ok" ELSE "noparent"
      BY <1>1, ClearVerdict DEF Way, p
    <2> QED
      BY <2>1 DEF Way, p
  <1> QED
    BY <1>1, <1>2, <1>3, <1>4

\* Once its directory is there, such a path leads to itself.
LEMMA ClearTarget ==
    ASSUME FilesAssumption, WritesAssumption, Called, Wanted, Ordered(fs), Clear(fs, Path),
           Way \in DOMAIN fs
    PROVE  /\ Target.path = Path
           /\ Target.err = IF Path \in DOMAIN fs THEN "ok" ELSE "new"
  <1>1. Path \in Seq(Plain) /\ Path # <<>>
    BY WantedPath
  <1> DEFINE p == Path
  <1> HIDE DEF p
  <1>2. Unblocked(fs, p)
    BY <1>1, ClearWays DEF p
  <1>3. /\ Real(fs, p).path = p
        /\ Real(fs, p).err = IF p \in DOMAIN fs THEN "ok" ELSE "new"
    <2>1. p \in Seq(Plain) /\ p # <<>> /\ Front(p) \in DOMAIN fs
      BY <1>1 DEF Way, p
    <2> QED
      BY <1>2, <2>1, PlainReal DEF Ordered
  <1> QED
    BY <1>3 DEF Target, p

\* The next level of a way in the workspace, in the tree it is missing from or not.
Level(f, w, j, g) ==
    LET c == SubSeq(w, 1, j)
        d == SubSeq(w, 1, j + 1)
    IN  /\ w[j + 1] \in Plain /\ d = Append(c, w[j + 1])
        /\ c \in Seq(Plain) /\ d \in Seq(Plain) /\ c # <<>> /\ d # <<>> /\ Front(d) = c
        /\ Len(c) = j /\ Len(d) = j + 1
        /\ SafeAt(c) /\ SafeAt(d)
        /\ Real(f, c).err = "ok" /\ Real(f, c).path = c /\ IsA(f, c, "dir")
        /\ Ordered(g) /\ Paved(g, w) /\ IsA(g, d, "dir")
        /\ DOMAIN g = DOMAIN f \union {d} /\ \A r \in DOMAIN f : r # d => g[r] = f[r]

LEMMA LevelMade ==
    ASSUME FilesAssumption, NEW f, Ordered(f), NEW w \in Seq(Plain), Paved(f, w), SafeAt(w),
           NEW j \in Nat, 1 <= j, j < Len(w), SubSeq(w, 1, j) \in DOMAIN f,
           NEW g, g = IF SubSeq(w, 1, j + 1) \in DOMAIN f THEN f ELSE Put(f, SubSeq(w, 1, j + 1), Dir)
    PROVE  Level(f, w, j, g)
  <1> DEFINE c == SubSeq(w, 1, j)
             m == j + 1
             d == SubSeq(w, 1, m)
             n == Len(w)
  <1>1. n \in Nat /\ w \in Seq(Name) /\ j \in 0..n /\ m \in 0..n /\ j \in 1..n /\ m \in 1..n
    BY LenProperties, PlainNames
  <1>2. w[m] \in Plain /\ d = Append(c, w[m])
    BY CutBehind
  <1> HIDE DEF m, n
  <1>3. /\ c \in Seq(Plain) /\ Len(c) = j /\ \A k \in 0..j : SubSeq(c, 1, k) = SubSeq(w, 1, k)
    BY <1>1, PlainPart DEF n
  <1>4. d \in Seq(Plain) /\ Len(d) = m
    BY <1>1, PlainPart DEF n
  <1>5. SafeAt(c) /\ SafeAt(d)
    BY <1>1, SafePart DEF n
  <1>6. c # <<>> /\ d # <<>>
    <2>1. Len(c) # 0 /\ Len(d) # 0
      BY <1>3, <1>4 DEF m
    <2> QED
      BY <2>1, EmptySeq
  <1>7. IsA(f, c, "dir")
    BY <1>1 DEF Paved, n
  <1> HIDE DEF c, d
  <1>8. Front(d) = c
    BY <1>2, <1>3, FrontAppend
  <1>9. Real(f, c).err = "ok" /\ Real(f, c).path = c
    <2>1. Unblocked(f, c)
      <3>1. \A k \in 0..(Len(c) - 1) : k \in 0..n /\ k \in 0..j
        BY <1>1, <1>3
      <3>2. \A k \in 0..(Len(c) - 1) : SubSeq(c, 1, k) \in DOMAIN f => IsA(f, SubSeq(c, 1, k), "dir")
        BY <1>3, <3>1 DEF Paved, n
      <3>3. ~IsA(f, c, "link")
        BY <1>7 DEF IsA
      <3> QED
        BY <3>2, <3>3 DEF Unblocked
    <2>2. c \in DOMAIN f
      BY <1>7 DEF IsA
    <2> QED
      BY <1>3, <1>6, <2>1, <2>2, PlainThere
  <1>10. g = IF d \in DOMAIN f THEN f ELSE Put(f, d, Dir)
    BY DEF d, m
  <1>11. /\ Ordered(g) /\ DOMAIN g = DOMAIN f \union {d} /\ \A r \in DOMAIN f : r # d => g[r] = f[r]
         /\ IsA(g, d, "dir")
    <2>1. CASE d \in DOMAIN f
      <3>1. g = f /\ DOMAIN f = DOMAIN f \union {d}
        BY <1>10, <2>1
      <3>2. IsA(f, d, "dir")
        BY <1>1, <2>1 DEF Paved, d, n
      <3> QED
        BY <3>1, <3>2
    <2>2. CASE d \notin DOMAIN f
      <3>1. g = Put(f, d, Dir)
        BY <1>10, <2>2
      <3>2. Placed(f, d, Dir)
        BY <1>4, <1>6, <1>7, <1>8, <2>2 DEF Placed
      <3>3. Ordered(g) /\ Grows(f, d, Dir, g)
        <4>1. WellMade(f)
          BY DEF Ordered
        <4> QED
          BY <3>1, <3>2, <4>1, PutOrdered, PutWithin
      <3>4. DOMAIN g = DOMAIN f \union {d} /\ g[d].kind = "dir" /\ \A r \in DOMAIN f : r # d => g[r] = f[r]
        BY <3>3 DEF Grows, Dir
      <3> QED
        BY <3>3, <3>4 DEF IsA
    <2> QED
      BY <2>1, <2>2
  <1>12. Paved(g, w)
    <2> SUFFICES ASSUME NEW k \in 0..Len(w), SubSeq(w, 1, k) \in DOMAIN g
                 PROVE  IsA(g, SubSeq(w, 1, k), "dir")
      BY DEF Paved
    <2> DEFINE s == SubSeq(w, 1, k)
    <2>1. s \in DOMAIN f => IsA(f, s, "dir")
      BY DEF Paved
    <2> HIDE DEF s
    <2>2. s \in DOMAIN g
      BY DEF s
    <2>3. IsA(g, s, "dir")
      BY <1>11, <2>1, <2>2 DEF IsA
    <2> QED
      BY <2>3 DEF s
  <1> QED
    BY <1>2, <1>3, <1>4, <1>5, <1>6, <1>7, <1>8, <1>9, <1>11, <1>12 DEF Level, c, d, m

\* symlink_safe finds nothing against a level that has been made.
LEMMA LevelSafe ==
    ASSUME FilesAssumption, NEW f, NEW w \in Seq(Plain), NEW j \in Nat, 1 <= j, j < Len(w), NEW g,
           Level(f, w, j, g)
    PROVE  SymlinkSafe(g, SubSeq(w, 1, j + 1), TRUE) = "ok"
  <1> DEFINE c == SubSeq(w, 1, j)
             d == SubSeq(w, 1, j + 1)
  <1>1. /\ c \in Seq(Plain) /\ d \in Seq(Plain) /\ c # <<>> /\ d # <<>> /\ Front(d) = c
        /\ Len(c) = j /\ Len(d) = j + 1 /\ SafeAt(c)
        /\ IsA(f, c, "dir") /\ Ordered(g) /\ Paved(g, w) /\ IsA(g, d, "dir")
        /\ DOMAIN g = DOMAIN f \union {d}
    BY DEF Level
  <1>2. \A k \in 0..j : k \in 0..Len(w) /\ SubSeq(c, 1, k) = SubSeq(w, 1, k)
    <2>1. j \in 0..Len(w) /\ Len(w) \in Nat
      BY LenProperties
    <2> QED
      BY <2>1, PlainPart
  <1> HIDE DEF c, d
  <1>3. d # Root
    BY <1>1, RootNames
  <1>4. Clear(g, d)
    <2>1. \A k \in 0..Len(c) : SubSeq(c, 1, k) \in DOMAIN g => IsA(g, SubSeq(c, 1, k), "dir")
      BY <1>1, <1>2 DEF Paved
    <2>2. ~IsA(g, d, "link")
      BY <1>1 DEF IsA
    <2> QED
      BY <1>1, <2>1, <2>2 DEF Clear, Paved
  <1>5. Front(d) \in DOMAIN g
    BY <1>1 DEF IsA
  <1>6. SymlinkSafe(g, d, TRUE) = "ok"
    BY <1>1, <1>3, <1>4, <1>5, ClearVerdict
  <1> QED
    BY <1>6 DEF d

\* Nothing is in the way of such a write: what it still needs is there, or it is making it.
Unhindered ==
    /\ Clear(fs, Path)
    /\ Path \in DOMAIN fs => fs[Path].kind = "file" /\ ~TooBig(fs[Path].text, FileCap)
    /\ req.path.abs => Way \in DOMAIN fs
    /\ pc = "parents" =>
           /\ ~req.path.abs
           /\ \E j \in 1..Len(Way) : /\ cur = SubSeq(Way, 1, j) /\ todo = Rest(Way, j)
                                     /\ cur \in DOMAIN fs
    /\ pc \in {"look", "check", "save"} => Way \in DOMAIN fs
WantedInv ==
    Wanted /\ Small(Path) =>
        /\ status \in {"none", "written", "vetoed"}
        /\ pc = "done" => status # "none"
        /\ status # "written" => Unhindered

\* The question stays the same, but that the other process may have made the file too big.
LEMMA WantedStays ==
    ASSUME before' = before, req' = req, meddled => meddled'
    PROVE  /\ Path' = Path /\ Way' = Way /\ (Wanted' => Wanted)
           /\ Small(Path)' => Small(Path)
  <1>1. Path' = Path /\ Way' = Way
    BY DEF Path, Way
  <1>2. \A n : Ordinary(n)' => Ordinary(n)
    BY DEF Ordinary
  <1>3. Wanted' => Wanted
    BY <1>1, <1>2 DEF Wanted
  <1>4. Small(Path)' => Small(Path)
    BY <1>1 DEF Small
  <1> QED
    BY <1>1, <1>3, <1>4

LEMMA WantedStarts ==
    ASSUME FilesAssumption, WritesAssumption, WriteInv, WantedInv, WriteStart
    PROVE  WantedInv'
  <1>1. /\ fs' = fs /\ before' = before /\ meddled' = meddled /\ req' = req
        /\ pc = "start" /\ Path' = Path /\ Way' = Way
    BY DEF WriteStart, tree, Path, Way
  <1>2. (Wanted' => Wanted) /\ (Small(Path)' => Small(Path))
    BY <1>1, WantedStays
  <1> SUFFICES ASSUME Wanted, Small(Path)
               PROVE  /\ status' \in {"none", "written", "vetoed"}
                      /\ pc' = "done" => status' # "none"
                      /\ Unhindered'
    BY <1>2 DEF WantedInv
  <1>3. /\ Called /\ status = "none" /\ Ordered(fs) /\ Unhindered
        /\ req.tool = "write" /\ ~TooBig(req.content, ReplaceCap)
    BY <1>1 DEF WriteInv, WantedInv, Wanted
  <1>4. /\ Clear(fs, Path) /\ (req.path.abs => Way \in DOMAIN fs)
        /\ Path \in DOMAIN fs => fs[Path].kind = "file" /\ ~TooBig(fs[Path].text, FileCap)
    BY <1>3 DEF Unhindered
  <1>5. ResolveUnder(fs, req.path, TRUE) = IF Way \in DOMAIN fs THEN "ok" ELSE "noparent"
    BY <1>3, <1>4, ClearAnswer
  <1>6. CASE Way \in DOMAIN fs
    <2>1. pc' = "look" /\ status' = status
      BY <1>3, <1>5, <1>6 DEF WriteStart
    <2> QED
      BY <1>1, <1>3, <1>4, <1>6, <2>1 DEF Unhindered
  <1>7. CASE Way \notin DOMAIN fs
    <2>1. ~req.path.abs
      BY <1>4, <1>7
    <2>2. pc' = "parents" /\ status' = status /\ cur' = Root /\ todo' = Front(req.path.names)
      BY <1>3, <1>5, <1>7, <2>1 DEF WriteStart
    <2>3. /\ Len(Way) \in Nat \ {0} /\ SubSeq(Way, 1, 1) = Root
          /\ Rest(Way, 1) = Front(req.path.names)
      BY <1>3, <2>1, WantedPath
    <2>4. Root \in DOMAIN fs
      BY <1>3 DEF Ordered, IsA
    <2>5. 1 \in 1..Len(Way) /\ cur' = SubSeq(Way, 1, 1) /\ todo' = Rest(Way, 1) /\ cur' \in DOMAIN fs
      BY <2>2, <2>3, <2>4
    <2> QED
      BY <1>1, <1>3, <1>4, <1>7, <2>1, <2>2, <2>5 DEF Unhindered
  <1> QED
    BY <1>6, <1>7

\* Steps that leave the files alone, once there is a directory to write in.
LEMMA WantedGoesOn ==
    ASSUME FilesAssumption, WritesAssumption, WriteInv, WantedInv,
           ResolveAgain \/ WriteLook \/ Check, req.tool = "write"
    PROVE  WantedInv'
  <1>1. /\ fs' = fs /\ before' = before /\ meddled' = meddled /\ req' = req
        /\ pc \in {"parents", "look", "check"} /\ Path' = Path /\ Way' = Way
    BY DEF ResolveAgain, WriteLook, Check, tree, Path, Way
  <1>2. (Wanted' => Wanted) /\ (Small(Path)' => Small(Path))
    BY <1>1, WantedStays
  <1> SUFFICES ASSUME Wanted, Small(Path)
               PROVE  /\ status' \in {"none", "written", "vetoed"}
                      /\ pc' = "done" => status' # "none"
                      /\ Unhindered'
    BY <1>2 DEF WantedInv
  <1>3. Called /\ status = "none" /\ Ordered(fs) /\ Unhindered
    BY <1>1 DEF WriteInv, WantedInv
  <1>4. /\ Clear(fs, Path) /\ (req.path.abs => Way \in DOMAIN fs)
        /\ Path \in DOMAIN fs => fs[Path].kind = "file" /\ ~TooBig(fs[Path].text, FileCap)
    BY <1>3 DEF Unhindered
  <1>5. pc = "parents" /\ todo = <<>> => Way \in DOMAIN fs
    <2> SUFFICES ASSUME pc = "parents", todo = <<>> PROVE Way \in DOMAIN fs
      OBVIOUS
    <2>1. PICK j \in 1..Len(Way) :
              cur = SubSeq(Way, 1, j) /\ todo = Rest(Way, j) /\ cur \in DOMAIN fs
      BY <1>3 DEF Unhindered
    <2>2. Way \in Seq(Plain)
      BY <1>3, WantedPath, FrontTyped DEF Way
    <2> DEFINE w == Way
    <2> HIDE DEF w
    <2>3. w \in Seq(Plain) /\ Len(w) \in Nat /\ j \in Nat /\ j <= Len(w) /\ Rest(w, j) = <<>>
      BY <2>1, <2>2, LenProperties DEF w
    <2>4. j = Len(w)
      BY <2>3, CutBehind
    <2>5. SubSeq(w, 1, Len(w)) = w
      BY <2>3, NoneAndAll
    <2> QED
      BY <2>1, <2>4, <2>5 DEF w
  <1>6. (pc # "parents" \/ ResolveAgain) => Way \in DOMAIN fs
    BY <1>1, <1>3, <1>5 DEF Unhindered, ResolveAgain
  <1>7. \/ pc' \in {"look", "check", "save"} /\ status' = status /\ Way \in DOMAIN fs
        \/ pc' = "done" /\ status' = "vetoed"
    <2>1. CASE ResolveAgain
      <3>1. ResolveUnder(fs, req.path, TRUE) = "ok"
        BY <1>3, <1>4, <1>6, <2>1, ClearAnswer
      <3> QED
        BY <1>6, <2>1, <3>1 DEF ResolveAgain
    <2>2. CASE WriteLook
      <3>1. Way \in DOMAIN fs
        BY <1>6, <2>2 DEF WriteLook
      <3>2. Target.path = Path /\ (Target.err = "ok" => Path \in DOMAIN fs)
        BY <1>3, <1>4, <3>1, ClearTarget
      <3>3. ~(Target.err = "ok" /\ (fs[Target.path].kind = "dir" \/ TooBig(fs[Target.path].text, FileCap)))
        BY <1>4, <3>2
      <3> QED
        BY <2>2, <3>1, <3>3 DEF WriteLook
    <2>3. CASE Check
      BY <1>6, <2>3 DEF Check, End
    <2> QED
      BY <2>1, <2>2, <2>3
  <1> QED
    BY <1>1, <1>3, <1>4, <1>7 DEF Unhindered

\* The way in the names of a sequence of its own, for what is proved of any way.
LEMMA WantedWay ==
    ASSUME FilesAssumption, WritesAssumption, Called, Wanted
    PROVE  Way \in Seq(Plain) /\ SafeAt(Way) /\ Len(Path) = Len(Way) + 1 /\ Len(Way) \in Nat
  <1>1. Path \in Seq(Plain) /\ Path # <<>> /\ SafeAt(Way)
    BY WantedPath
  <1> DEFINE p == Path
  <1> HIDE DEF p
  <1>2. Front(p) \in Seq(Plain) /\ Len(Front(p)) = Len(p) - 1 /\ Len(p) \in Nat \ {0}
    BY <1>1, FrontParts DEF p
  <1>3. Len(p) = Len(Front(p)) + 1 /\ Len(Front(p)) \in Nat
    BY <1>2
  <1> QED
    BY <1>1, <1>2, <1>3 DEF Way, p

\* A level is made, or was there, and symlink_safe finds nothing against it.
LEMMA LevelTaken ==
    ASSUME FilesAssumption, WritesAssumption, Called, Wanted, Ordered(fs), Unhindered, CreateLevel
    PROVE  \E j \in 1..Len(Way) :
               /\ j < Len(Way) /\ Level(fs, Way, j, fs')
               /\ pc' = pc /\ status' = status
               /\ cur' = SubSeq(Way, 1, j + 1) /\ todo' = Rest(Way, j + 1)
  <1>1. pc = "parents" /\ todo # <<>>
    BY DEF CreateLevel
  <1>2. PICK j \in 1..Len(Way) :
            cur = SubSeq(Way, 1, j) /\ todo = Rest(Way, j) /\ cur \in DOMAIN fs
    BY <1>1 DEF Unhindered
  <1> DEFINE w == Way
             d == SubSeq(w, 1, j + 1)
             g == IF d \in DOMAIN fs THEN fs ELSE Put(fs, d, Dir)
             x == Head(todo)
             up == Real(fs, cur)
             open == up.err = "ok" /\ fs[up.path].kind = "dir"
             at == Append(up.path, x)
             there == open /\ (x = ".." \/ at \in DOMAIN fs)
             made == IF there THEN fs ELSE Put(fs, at, Dir)
             verdict == SymlinkSafe(made, Append(cur, x), TRUE)
  <1>3. w \in Seq(Plain) /\ SafeAt(w) /\ Paved(fs, w) /\ Len(w) \in Nat
    BY WantedWay DEF Unhindered, Clear, Way
  <1>4. \/ ~there /\ ~(open /\ In(Root, at)) /\ End("failed")
        \/ /\ open /\ fs' = made /\ cur' = Append(cur, x) /\ todo' = Tail(todo)
           /\ IF verdict = "ok" THEN UNCHANGED <<pc, status>> ELSE Refused(verdict)
    BY DEF CreateLevel
  <1>5. /\ j \in Nat /\ 1 <= j /\ j <= Len(w) /\ cur = SubSeq(w, 1, j) /\ todo = Rest(w, j)
        /\ cur \in DOMAIN fs
    BY <1>2
  <1> HIDE DEF w, g, there, made, verdict, open, at
  <1>6. j < Len(w)
    <2>1. j # Len(w)
      BY <1>1, <1>3, <1>5, NoneAndAll
    <2> QED
      BY <1>3, <1>5, <2>1
  <1>7. x = w[j + 1] /\ Tail(todo) = Rest(w, j + 1)
    BY <1>3, <1>5, <1>6, CutBehind
  <1> HIDE DEF x, d
  <1>8. Level(fs, w, j, g)
    BY <1>3, <1>5, <1>6, LevelMade DEF g, d
  <1>9. SymlinkSafe(g, d, TRUE) = "ok"
    BY <1>3, <1>5, <1>6, <1>8, LevelSafe DEF d
  <1>10. /\ x \in Plain /\ d = Append(cur, x) /\ In(Root, d)
         /\ up.err = "ok" /\ up.path = cur /\ fs[cur].kind = "dir"
    BY <1>5, <1>7, <1>8 DEF Level, SafeAt, IsA, d
  <1>11. open /\ at = d /\ (there <=> d \in DOMAIN fs)
    BY <1>10 DEF open, at, there, Plain
  <1>12. made = g
    BY <1>11 DEF made, g
  <1>13. verdict = "ok"
    BY <1>9, <1>10, <1>12 DEF verdict
  <1>14. fs' = g /\ cur' = d /\ todo' = Tail(todo) /\ pc' = pc /\ status' = status
    BY <1>4, <1>10, <1>11, <1>12, <1>13
  <1> QED
    BY <1>6, <1>7, <1>8, <1>14 DEF w, d

LEMMA WantedLevel ==
    ASSUME FilesAssumption, WritesAssumption, WriteInv, WantedInv, CreateLevel, req.tool = "write"
    PROVE  WantedInv'
  <1>1. before' = before /\ meddled' = meddled /\ req' = req /\ pc = "parents"
    BY DEF CreateLevel
  <1>2. /\ Path' = Path /\ Way' = Way
        /\ (Wanted' => Wanted) /\ (Small(Path)' => Small(Path))
    BY <1>1, WantedStays
  <1> SUFFICES ASSUME Wanted, Small(Path)
               PROVE  /\ status' \in {"none", "written", "vetoed"}
                      /\ pc' = "done" => status' # "none"
                      /\ Unhindered'
    BY <1>2 DEF WantedInv
  <1>3. Called /\ status = "none" /\ Ordered(fs) /\ Unhindered
    BY <1>1 DEF WriteInv, WantedInv
  <1>4. PICK j \in 1..Len(Way) :
            /\ j < Len(Way) /\ Level(fs, Way, j, fs')
            /\ pc' = pc /\ status' = status
            /\ cur' = SubSeq(Way, 1, j + 1) /\ todo' = Rest(Way, j + 1)
    BY <1>3, LevelTaken
  <1>5. Len(Path) = Len(Way) + 1 /\ Len(Way) \in Nat
    BY <1>3, WantedWay
  <1> DEFINE d == SubSeq(Way, 1, j + 1)
  <1>6. /\ Len(d) = j + 1 /\ Paved(fs', Way) /\ d \in DOMAIN fs'
        /\ DOMAIN fs' = DOMAIN fs \union {d} /\ \A r \in DOMAIN fs : r # d => fs'[r] = fs[r]
    BY <1>4 DEF Level, IsA
  <1>7. Path # d
    BY <1>4, <1>5, <1>6
  <1>8. j + 1 \in 1..Len(Way)
    BY <1>4, <1>5
  <1>9. /\ req.path.abs => Way \in DOMAIN fs
        /\ ~IsA(fs, Path, "link") /\ ~req.path.abs
        /\ Path \in DOMAIN fs => fs[Path].kind = "file" /\ ~TooBig(fs[Path].text, FileCap)
    BY <1>1, <1>3 DEF Unhindered, Clear
  <1> HIDE DEF d
  <1>10. Path \in DOMAIN fs' => Path \in DOMAIN fs /\ fs'[Path] = fs[Path]
    BY <1>6, <1>7
  <1>11. Clear(fs', Path)
    BY <1>6, <1>9, <1>10 DEF Clear, Way, IsA
  <1>12. cur' = d
    BY <1>4 DEF d
  <1>13. Unhindered'
    BY <1>1, <1>2, <1>4, <1>6, <1>8, <1>9, <1>10, <1>11, <1>12 DEF Unhindered, d
  <1> QED
    BY <1>1, <1>3, <1>4, <1>13

LEMMA WantedSaves ==
    ASSUME FilesAssumption, WritesAssumption, WriteInv, WantedInv, Save, req.tool = "write"
    PROVE  WantedInv'
  <1>1. before' = before /\ meddled' = meddled /\ req' = req /\ pc = "save"
    BY DEF Save
  <1>2. (Wanted' => Wanted) /\ (Small(Path)' => Small(Path))
    BY <1>1, WantedStays
  <1> SUFFICES ASSUME Wanted, Small(Path)
               PROVE  pc' = "done" /\ status' = "written"
    BY <1>2 DEF WantedInv
  <1>3. Called /\ Ordered(fs) /\ Unhindered
    BY <1>1 DEF WriteInv, WantedInv
  <1>4. /\ Clear(fs, Path) /\ Way \in DOMAIN fs
        /\ Path \in DOMAIN fs => fs[Path].kind = "file"
    BY <1>1, <1>3 DEF Unhindered
  <1>5. Target.path = Path /\ Target.err \in {"ok", "new"}
    BY <1>3, <1>4, ClearTarget
  <1>6. ~IsA(fs, Target.path, "dir")
    BY <1>4, <1>5 DEF IsA
  <1> QED
    BY <1>5, <1>6 DEF Save, End

LEMMA WantedMeddled ==
    ASSUME FilesAssumption, WritesAssumption, WriteInv, WantedInv, Meddle, req.tool = "write"
    PROVE  WantedInv'
  <1>1. /\ before' = before /\ meddled' /\ req' = req /\ pc' = pc /\ status' = status /\ pc # "done"
        /\ cur' = cur /\ todo' = todo
        /\ fs' = Put(fs, Target.path, File(Foreign)) /\ Target.err \in {"ok", "new"}
    BY DEF Meddle, dirs
  <1>2. /\ Path' = Path /\ Way' = Way
        /\ (Wanted' => Wanted) /\ (Small(Path)' => Small(Path))
    BY <1>1, WantedStays
  <1>3. Small(Path)' => ~TooBig(Foreign, FileCap)
    BY <1>1 DEF Small
  <1> SUFFICES ASSUME Wanted, Small(Path), ~TooBig(Foreign, FileCap)
               PROVE  status' = "none" /\ pc' # "done" /\ Unhindered'
    BY <1>2, <1>3 DEF WantedInv
  <1>4. Called /\ status = "none" /\ Ordered(fs) /\ Unhindered
    BY <1>1 DEF WriteInv, WantedInv
  <1>5. Path \in Seq(Plain) /\ Path # <<>> /\ Clear(fs, Path)
    BY <1>4, WantedPath DEF Unhindered
  <1>6. Target.path = Path
    <2> DEFINE p == Path
    <2> HIDE DEF p
    <2>1. p \in Seq(Plain) /\ p # <<>> /\ Unblocked(fs, p)
      BY <1>5, ClearWays DEF p
    <2>2. WellMade(fs) /\ Closed(fs)
      BY <1>4 DEF Ordered
    <2>3. Real(fs, p).err # "missing" => Real(fs, p).path = p
      BY <2>1, <2>2, PlainReal
    <2> QED
      BY <1>1, <2>3 DEF Target, p
  <1>7. /\ DOMAIN fs' = DOMAIN fs \union {Path} /\ fs'[Path] = File(Foreign)
        /\ \A r \in DOMAIN fs : r # Path => fs'[r] = fs[r]
    BY <1>1, <1>6 DEF Put
  <1>8. Len(Path) = Len(Way) + 1 /\ Len(Way) \in Nat /\ Way \in Seq(Plain)
    BY <1>4, WantedWay
  <1>9. Paved(fs', Way)
    <2> SUFFICES ASSUME NEW k \in 0..Len(Way), SubSeq(Way, 1, k) \in DOMAIN fs'
                 PROVE  IsA(fs', SubSeq(Way, 1, k), "dir")
      BY DEF Paved
    <2> DEFINE s == SubSeq(Way, 1, k)
    <2>1. Len(s) = k
      BY <1>8, PlainPart
    <2>2. s # Path
      BY <1>8, <2>1
    <2>3. s \in DOMAIN fs => IsA(fs, s, "dir")
      BY <1>5 DEF Clear, Paved, Way
    <2>4. s \in DOMAIN fs'
      OBVIOUS
    <2> HIDE DEF s
    <2>5. IsA(fs', s, "dir")
      BY <1>7, <2>2, <2>3, <2>4 DEF IsA
    <2> QED
      BY <2>5 DEF s
  <1>10. fs'[Path].kind = "file" /\ fs'[Path].text = Foreign
    BY <1>7 DEF File
  <1>11. Clear(fs', Path)
    BY <1>9, <1>10 DEF Clear, Way, IsA
  <1>12. Unhindered'
    BY <1>1, <1>2, <1>4, <1>7, <1>10, <1>11 DEF Unhindered
  <1> QED
    BY <1>1, <1>4, <1>12

LEMMA WantedSteps ==
    ASSUME FilesAssumption, WritesAssumption, WriteInv, WantedInv, [Next]_vars
    PROVE  WantedInv'
  <1>1. before' = before /\ req' = req /\ (meddled => meddled')
    <2>1. before' = before /\ req' = req
      BY DEF Next, vars, WriteStart, CreateLevel, ResolveAgain, WriteLook, Check, Save, EditStart,
             EditRead, ViewWhole, ViewNext, Search, ExecStart, Drain, Exit, Meddle, tree
    <2>2. meddled' = meddled \/ Meddle
      BY DEF Next, vars, WriteStart, CreateLevel, ResolveAgain, WriteLook, Check, Save, EditStart,
             EditRead, ViewWhole, ViewNext, Search, ExecStart, Drain, Exit, tree
    <2>3. Meddle => meddled'
      BY DEF Meddle
    <2> QED
      BY <2>1, <2>2, <2>3
  <1>2. \/ req.tool # "write"
        \/ WriteStart \/ CreateLevel \/ ResolveAgain \/ WriteLook \/ Check \/ Save \/ Meddle
        \/ UNCHANGED vars
    BY DEF WriteInv, Next, EditStart, EditRead, ViewWhole, ViewNext, Search, ExecStart, Drain, Exit
  <1>3. /\ Path' = Path /\ Way' = Way
        /\ (Wanted' => Wanted) /\ (Small(Path)' => Small(Path))
    BY <1>1, WantedStays
  <1>4. CASE req.tool # "write"
    BY <1>3, <1>4 DEF WantedInv, Wanted
  <1>5. CASE UNCHANGED vars
    <2>1. Unhindered => Unhindered'
      BY <1>3, <1>5 DEF vars, Unhindered
    <2> QED
      BY <1>3, <1>5, <2>1 DEF vars, WantedInv
  <1> QED
    BY <1>2, <1>4, <1>5, WantedStarts, WantedLevel, WantedGoesOn, WantedSaves, WantedMeddled

\* A write that says `wrote' has left the content where its path leads, in the workspace and not
\* in .git; one that fails has changed no file; and an ordinary path is written unless the checker
\* objects: for every tree and path of WritesAssumption, every content and cap, and every instant at
\* which the other process writes the same file (write.rs, create_parent_dirs and symlink_safe).
THEOREM WriteLandsAlways == Spec => []WriteLands
  <1>1. Init => WriteInv /\ WantedInv
    <2> SUFFICES ASSUME Init PROVE WriteInv /\ WantedInv
      OBVIOUS
    <2>1. fs = before /\ pc = "start" /\ status = "none" /\ ~meddled /\ Called
      BY DEF Init, Called
    <2>2. WriteInv
      <3>1. CASE req.tool # "write"
        BY <2>1, <3>1 DEF WriteInv
      <3>2. CASE req.tool = "write"
        <4>1. Ordered(fs)
          BY <2>1, <3>2, FilesAssumption, WritesAssumption, WriteTyped
        <4>2. Spared
          BY <2>1 DEF Spared
        <4> QED
          BY <2>1, <4>1, <4>2 DEF WriteInv
      <3> QED
        BY <3>1, <3>2
    <2>3. ASSUME Wanted, Small(Path) PROVE Unhindered
      <3>1. /\ Clear(before, Path) /\ (Path \in DOMAIN before => before[Path].kind = "file")
            /\ (req.path.abs => Way \in DOMAIN before)
        BY <2>1, <2>3, FilesAssumption, WritesAssumption, WantedPath
      <3>2. Path \in DOMAIN before => ~TooBig(before[Path].text, FileCap)
        BY <2>3, <3>1 DEF Small, IsA
      <3> QED
        BY <2>1, <3>1, <3>2 DEF Unhindered
    <2> QED
      BY <2>1, <2>2, <2>3 DEF WantedInv
  <1>2. WriteInv /\ WantedInv /\ [Next]_vars => WriteInv' /\ WantedInv'
    BY FilesAssumption, WritesAssumption, WriteSteps, WantedSteps
  <1>3. WriteInv /\ WantedInv => WriteLands
    <2> SUFFICES ASSUME WriteInv, WantedInv, pc = "done", req.tool = "write" PROVE WriteLands
      BY DEF WriteLands
    <2>1. status = "written" => /\ Target.err = "ok" /\ In(Root, Target.path)
                                /\ ~HasGit(Target.path)
                                /\ fs[Target.path] = File(req.content)
      <3> SUFFICES ASSUME status = "written"
                   PROVE  /\ Target.err = "ok" /\ fs[Target.path] = File(req.content)
                          /\ SafeAt(Target.path)
        BY DEF SafeAt
      <3>1. Guarded /\ Target.err = "ok" /\ fs[Target.path] = File(req.content)
        BY DEF WriteInv
      <3>2. ~IsA(fs, Target.path, "dir")
        BY <3>1 DEF IsA, File
      <3> QED
        BY <3>1, <3>2 DEF Guarded
    <2>2. ~meddled => Untouched
      <3> SUFFICES ASSUME ~meddled, NEW p \in Files(before) \union Files(fs), ~Struck(p)
                   PROVE  Same(fs, before, p)
        BY DEF Untouched, Struck
      <3>1. p \in DOMAIN before => p \in DOMAIN fs /\ fs[p] = before[p]
        BY DEF WriteInv, Spared
      <3>2. p \in DOMAIN before
        BY DEF WriteInv, Spared, Files
      <3> QED
        BY <3>1, <3>2 DEF Same
    <2>3. Wanted /\ Small(Path) => status \in {"written", "vetoed"}
      BY DEF WantedInv
    <2>4. ~req.path.abs => Writes(req.path.names)
      <3>1. ~req.path.abs => Path = Root \o req.path.names
        BY DEF Path, Join, Workspace
      <3> QED
        BY <2>3, <3>1 DEF Writes, Wanted
    <2>5. Workspace(req.path) # req.path /\ Front(Join(Workspace(req.path))) \in DOMAIN before
          => Writes(Tail(req.path.names))
      <3>1. Workspace(req.path) # req.path => Path = Root \o Tail(req.path.names)
        BY DEF Path, Join, Workspace
      <3> QED
        BY <2>3, <3>1 DEF Writes, Wanted, Way, Path
    <2> QED
      BY <2>1, <2>2, <2>4, <2>5 DEF WriteLands
  <1> QED
    BY <1>1, <1>2, <1>3, PTL DEF Spec
-----------------------------------------------------------------------------
(* The searcher.  What it shows is a list of the first hits of a set that  *)
(* grows by the hits of one file after the other.                          *)

\* The first n of a set of hits, in order; whatever is left out comes later than each of them.
Firsts(hits, A, n) ==
    /\ hits \in Seq(A) /\ Len(hits) <= n
    /\ \A i, j \in DOMAIN hits : i < j => Earlier(hits[i], hits[j])
    /\ \A h \in A \ ToSet(hits) : Len(hits) = n /\ \A i \in DOMAIN hits : Earlier(hits[i], h)

AllEarlier(A, B) == \A h \in A, g \in B : Earlier(h, g)

\* The list is full: later hits change nothing.
LEMMA FullStays ==
    ASSUME NEW A, NEW B, NEW n, NEW hits, Firsts(hits, A, n), Len(hits) = n, AllEarlier(A, B)
    PROVE  Firsts(hits, A \union B, n)
  <1>1. hits \in Seq(A) /\ DOMAIN hits = 1..Len(hits) /\ \A i \in 1..Len(hits) : hits[i] \in A
    BY LenProperties, ElementOfSeq DEF Firsts
  <1>2. hits \in Seq(A \union B)
    BY <1>1, SeqMonotonic
  <1>3. ASSUME NEW h \in (A \union B) \ ToSet(hits), NEW i \in DOMAIN hits PROVE Earlier(hits[i], h)
    BY <1>1, <1>3 DEF Firsts, AllEarlier
  <1> QED
    BY <1>2, <1>3 DEF Firsts

\* There is room: the first of the later hits come behind.
LEMMA MoreFirsts ==
    ASSUME NEW A, NEW B, NEW n \in Nat, NEW hits, Firsts(hits, A, n), Len(hits) < n,
           AllEarlier(A, B), NEW more, Firsts(more, B, n - Len(hits))
    PROVE  Firsts(hits \o more, A \union B, n)
  <1> DEFINE m == Len(hits)
             l == Len(more)
             both == hits \o more
  <1>1. /\ m \in Nat /\ DOMAIN hits = 1..m /\ \A i \in 1..m : hits[i] \in A
        /\ l \in Nat /\ DOMAIN more = 1..l /\ \A i \in 1..l : more[i] \in B
    BY LenProperties, ElementOfSeq DEF Firsts
  <1>2. hits \in Seq(A \union B) /\ more \in Seq(A \union B)
    BY SeqMonotonic DEF Firsts
  <1>9. m # n /\ m + l <= n
    <2>1. m \in Nat /\ l \in Nat /\ m < n
      BY <1>1
    <2>2. l <= n - m
      BY DEF Firsts
    <2> HIDE DEF m, l
    <2> QED
      BY <2>1, <2>2
  <1>3. /\ both \in Seq(A \union B) /\ Len(both) = m + l
        /\ \A i \in 1..(m + l) : both[i] = IF i <= m THEN hits[i] ELSE more[i - m]
    BY <1>2, ConcatProperties
  <1>4. DOMAIN both = 1..(m + l)
    BY <1>3, LenProperties
  <1>5. ToSet(hits) = A
    <2>1. ToSet(hits) \subseteq A
      BY <1>1 DEF ToSet
    <2> QED
      BY <1>9, <2>1 DEF Firsts
  <1> HIDE DEF both
  <1>6. \A i \in 1..m : i \in 1..(m + l) /\ both[i] = hits[i]
    BY <1>1, <1>3
  <1>7. \A i \in (m + 1)..(m + l) : i - m \in 1..l /\ i \in 1..(m + l) /\ both[i] = more[i - m]
    BY <1>1, <1>3
  <1>8. \A i \in 1..l : m + i \in 1..(m + l) /\ both[m + i] = more[i]
    <2> SUFFICES ASSUME NEW i \in 1..l PROVE m + i \in 1..(m + l) /\ both[m + i] = more[i]
      OBVIOUS
    <2>1. m + i \in (m + 1)..(m + l) /\ (m + i) - m = i
      BY <1>1
    <2> QED
      BY <1>7, <2>1
  <1>10. \A i \in 1..(m + l) : i \in 1..m \/ i \in (m + 1)..(m + l)
    BY <1>1
  <1> HIDE DEF m, l
  <1>11. ASSUME NEW i \in 1..(m + l), NEW j \in 1..(m + l), i < j PROVE Earlier(both[i], both[j])
    <2>1. CASE j \in 1..m
      <3>1. i \in 1..m
        BY <1>1, <1>11, <2>1
      <3> QED
        BY <1>1, <1>6, <1>11, <2>1, <3>1 DEF Firsts
    <2>2. CASE i \in 1..m /\ j \in (m + 1)..(m + l)
      BY <1>1, <1>6, <1>7, <2>2 DEF AllEarlier
    <2>3. CASE i \in (m + 1)..(m + l) /\ j \in (m + 1)..(m + l)
      <3>1. i - m < j - m
        BY <1>1, <1>11
      <3> QED
        BY <1>1, <1>7, <2>3, <3>1 DEF Firsts
    <2> QED
      BY <1>10, <2>1, <2>2, <2>3
  <1>12. ToSet(both) = A \union ToSet(more)
    <2>1. ToSet(both) \subseteq A \union ToSet(more)
      BY <1>1, <1>4, <1>6, <1>7, <1>10 DEF ToSet
    <2>2. A \subseteq ToSet(both)
      BY <1>1, <1>4, <1>5, <1>6 DEF ToSet
    <2>3. ToSet(more) \subseteq ToSet(both)
      BY <1>1, <1>4, <1>8 DEF ToSet
    <2> QED
      BY <2>1, <2>2, <2>3
  <1>13. ASSUME NEW h \in (A \union B) \ ToSet(both)
         PROVE  Len(both) = n /\ \A i \in 1..(m + l) : Earlier(both[i], h)
    <2>1. h \in B \ ToSet(more)
      BY <1>12
    <2>2. l = n - m /\ \A i \in 1..l : Earlier(more[i], h)
      BY <1>1, <2>1 DEF Firsts, m, l
    <2>3. \A i \in 1..(m + l) : Earlier(both[i], h)
      BY <1>1, <1>6, <1>7, <1>10, <2>1, <2>2 DEF AllEarlier
    <2>4. m + l = n
      BY <1>1, <2>2
    <2> QED
      BY <1>3, <2>3, <2>4 DEF m, l
  <1> QED
    BY <1>3, <1>4, <1>9, <1>11, <1>13 DEF Firsts, m, l, both

\* A hit, and those of one file.
Hit(p, i) == [path |-> p, line |-> i]
Own(f, p, pattern) == {Hit(p, i) : i \in ToSet(Hits(f, p, pattern))}

LEMMA HitIs ==
    \A p, i : Hit(p, i).path = p /\ Hit(p, i).line = i
  BY DEF Hit

\* The lesser of two.
LEMMA LesserOf ==
    ASSUME NEW a \in Nat, NEW b \in Nat
    PROVE  /\ Min({a, b}) \in {a, b} /\ Min({a, b}) \in Nat
           /\ Min({a, b}) <= a /\ Min({a, b}) <= b
  <1>1. {a, b} \in SUBSET Nat /\ {a, b} # {}
    OBVIOUS
  <1>2. Min({a, b}) \in {a, b} /\ \A n \in {a, b} : Min({a, b}) <= n
    BY <1>1, MinMember
  <1> QED
    BY <1>2

\* The lines of a file that match, in their order.
LEMMA HitsAscend ==
    ASSUME NEW f, NEW p, NEW pattern, f[p].text \in Seq(Char)
    PROVE  LET hits == Hits(f, p, pattern)
           IN  /\ Len(hits) \in Nat /\ DOMAIN hits = 1..Len(hits)
               /\ \A k \in DOMAIN hits : hits[k] \in Nat
               /\ \A k, l \in DOMAIN hits : k < l => hits[k] < hits[l]
  <1> DEFINE lines == Lines(f[p].text)
             n == Len(lines)
             S == {i \in DOMAIN lines : Occurs(lines[i], pattern) # {}}
             id == [i \in DOMAIN lines |-> i]
  <1>1. n \in Nat /\ DOMAIN lines = 1..n
    BY LinesCounted
  <1>2. Hits(f, p, pattern) = Pick(id, S)
    BY DEF Hits
  <1>3. S \in SUBSET (1..n)
    BY <1>1
  <1>4. \A e \in 1..n : id[e] = e
    BY <1>1
  <1> HIDE DEF S, id, n
  <1>5. InPlace(id, S) /\ Cardinality(S) \in Nat
    BY <1>1, <1>3, Picked, PlaceStep
  <1>6. \A k \in 1..Cardinality(S) : Pick(id, S)[k] = Nth(S, k) /\ Nth(S, k) \in Nat
    <2> SUFFICES ASSUME NEW k \in 1..Cardinality(S)
                 PROVE  Pick(id, S)[k] = Nth(S, k) /\ Nth(S, k) \in Nat
      OBVIOUS
    <2>1. Nth(S, k) \in S /\ Pick(id, S)[k] = id[Nth(S, k)]
      BY <1>5 DEF InPlace
    <2>2. Nth(S, k) \in 1..n
      BY <1>3, <2>1
    <2> QED
      BY <1>4, <2>1, <2>2
  <1> QED
    BY <1>2, <1>5, <1>6 DEF InPlace

\* A function on the first numbers is a sequence.
LEMMA FunctionSeq ==
    ASSUME NEW S, NEW n \in Nat, NEW g \in [1..n -> S]
    PROVE  g \in Seq(S) /\ Len(g) = n
  <1>1. g \in Seq(S)
    OBVIOUS
  <1>2. DOMAIN g = 1..Len(g) /\ Len(g) \in Nat
    BY <1>1, LenProperties
  <1>3. DOMAIN g = 1..n
    OBVIOUS
  <1> QED
    BY <1>1, <1>2, <1>3

\* As many of them as there is room for are the first of the file's.
LEMMA OwnFirsts ==
    ASSUME NEW f, NEW p, NEW pattern, f[p].text \in Seq(Char), NEW n \in Nat,
           NEW hits, hits = Hits(f, p, pattern), NEW room, room = Min({n, Len(hits)})
    PROVE  /\ Firsts([i \in 1..room |-> Hit(p, hits[i])], Own(f, p, pattern), n)
           /\ room \in Nat /\ \A i \in 1..room : hits[i] \in Nat
           /\ IsFiniteSet(Own(f, p, pattern))
  <1> DEFINE m == Len(hits)
             own == Own(f, p, pattern)
             more == [i \in 1..room |-> Hit(p, hits[i])]
  <1>1. /\ m \in Nat /\ DOMAIN hits = 1..m
        /\ \A k \in 1..m : hits[k] \in Nat
        /\ \A k, l \in 1..m : k < l => hits[k] < hits[l]
    BY HitsAscend
  <1>2. own = {Hit(p, hits[k]) : k \in 1..m}
    BY <1>1 DEF Own, ToSet
  <1>3. room \in Nat /\ room <= n /\ room <= m /\ room \in {n, m}
    BY <1>1, LesserOf
  <1>4. DOMAIN more = 1..room /\ \A i \in 1..room : i \in 1..m /\ more[i] = Hit(p, hits[i])
    BY <1>1, <1>3
  <1> HIDE DEF m, own, more
  <1>5. more \in Seq(own) /\ Len(more) = room
    <2>1. \A i \in 1..room : more[i] \in own
      BY <1>2, <1>4
    <2>2. more \in [1..room -> own]
      BY <1>4, <2>1 DEF more
    <2> HIDE DEF more
    <2> QED
      BY <1>3, <2>2, FunctionSeq
  <1>6. ASSUME NEW i \in 1..room, NEW j \in 1..m, i < j
        PROVE  Earlier(more[i], Hit(p, hits[j]))
    <2>1. i \in 1..m /\ hits[i] < hits[j]
      BY <1>1, <1>4, <1>6
    <2>2. more[i].path = p /\ more[i].line = hits[i]
      <3>1. more[i] = Hit(p, hits[i])
        BY <1>4
      <3> QED
        BY <3>1, HitIs
    <2>3. Hit(p, hits[j]).path = p /\ Hit(p, hits[j]).line = hits[j]
      BY HitIs
    <2> QED
      BY <2>1, <2>2, <2>3 DEF Earlier
  <1>7. ASSUME NEW h \in own \ ToSet(more), NEW i \in 1..room
        PROVE  room = n /\ Earlier(more[i], h)
    <2>1. PICK k \in 1..m : h = Hit(p, hits[k])
      BY <1>2
    <2>2. ~(k \in 1..room)
      BY <1>4, <2>1 DEF ToSet
    <2>3. room < k
      BY <1>1, <1>3, <2>2
    <2>4. i < k
      BY <1>1, <1>3, <2>3
    <2>5. room = n
      BY <1>1, <1>3, <2>3
    <2> QED
      BY <1>6, <2>1, <2>4, <2>5
  <1>8. ASSUME NEW h \in own \ ToSet(more) PROVE room = n
    <2>1. PICK k \in 1..m : h = Hit(p, hits[k])
      BY <1>2
    <2>2. ~(k \in 1..room)
      BY <1>4, <2>1 DEF ToSet
    <2> QED
      BY <1>1, <1>3, <2>2
  <1>9. Firsts(more, own, n)
    BY <1>3, <1>4, <1>5, <1>6, <1>7, <1>8 DEF Firsts
  <1>10. IsFiniteSet(own)
    <2> DEFINE g == [k \in 1..m |-> Hit(p, hits[k])]
    <2>1. g \in Surjection(1..m, own)
      BY <1>2 DEF Surjection
    <2>2. IsFiniteSet(1..m)
      BY <1>1, FS_Interval
    <2> QED
      BY <2>1, <2>2, FS_Surjection
  <1> QED
    BY <1>1, <1>3, <1>4, <1>9, <1>10 DEF own, more

\* The files too big to read, the hits of all others, and what has been gathered of them.
Heavy(f, S) == {p \in S : TooBig(f[p].text, ReadCap)}
AllHits(f, pattern, S) == UNION {Own(f, p, pattern) : p \in S \ Heavy(f, S)}
Gathers(f, pattern, n, acc, S) ==
    /\ acc \in Found
    /\ Firsts(acc.hits, AllHits(f, pattern, S), n)
    /\ Len(acc.hits) < n => acc.skipped = Cardinality(Heavy(f, S))
PathsBefore(S, T) == \A p \in S, q \in T : Lexical(p, q)

\* The hits of more files.
Joins(f, pattern, S, T) ==
    /\ Heavy(f, S \union T) = Heavy(f, S) \union Heavy(f, T)
    /\ AllHits(f, pattern, S \union T) = AllHits(f, pattern, S) \union AllHits(f, pattern, T)
    /\ PathsBefore(S, T) => AllEarlier(AllHits(f, pattern, S), AllHits(f, pattern, T))

LEMMA HitsJoin ==
    ASSUME NEW f, NEW pattern, NEW S, NEW T
    PROVE  Joins(f, pattern, S, T)
  <1>1. Heavy(f, S \union T) = Heavy(f, S) \union Heavy(f, T)
    BY DEF Heavy
  <1>2. (S \union T) \ Heavy(f, S \union T) = (S \ Heavy(f, S)) \union (T \ Heavy(f, T))
    BY DEF Heavy
  <1>3. AllHits(f, pattern, S \union T) = AllHits(f, pattern, S) \union AllHits(f, pattern, T)
    BY <1>2 DEF AllHits
  <1>4. \A U : \A h \in AllHits(f, pattern, U) : h.path \in U
    <2> SUFFICES ASSUME NEW U, NEW h \in AllHits(f, pattern, U) PROVE h.path \in U
      OBVIOUS
    <2>1. PICK p \in U : h \in Own(f, p, pattern)
      BY DEF AllHits
    <2>2. PICK i : h = Hit(p, i)
      BY <2>1 DEF Own
    <2> QED
      BY <2>1, <2>2, HitIs
  <1>5. ASSUME PathsBefore(S, T)
        PROVE  AllEarlier(AllHits(f, pattern, S), AllHits(f, pattern, T))
    <2> SUFFICES ASSUME NEW h \in AllHits(f, pattern, S), NEW g \in AllHits(f, pattern, T)
                 PROVE  Lexical(h.path, g.path)
      BY DEF AllEarlier, Earlier
    <2> QED
      BY <1>4, <1>5 DEF PathsBefore
  <1> QED
    BY <1>1, <1>3, <1>5 DEF Joins

\* Nothing of nothing.
LEMMA NoneGathered ==
    ASSUME NEW f, NEW pattern, NEW n \in Nat
    PROVE  Gathers(f, pattern, n, [hits |-> <<>>, skipped |-> 0], {})
  <1> DEFINE none == [hits |-> <<>>, skipped |-> 0]
  <1>1. none.hits = <<>> /\ none.skipped = 0
    OBVIOUS
  <1>2. none \in Found
    BY EmptySeq DEF Found
  <1> HIDE DEF none
  <1>3. AllHits(f, pattern, {}) = {} /\ Heavy(f, {}) = {}
    BY DEF AllHits, Heavy
  <1>4. none.hits \in Seq({}) /\ Len(none.hits) = 0 /\ DOMAIN none.hits = {}
    <2>1. <<>> \in Seq({}) /\ Len(<<>>) = 0
      BY EmptySeq
    <2>2. DOMAIN <<>> = 1..0
      OBVIOUS
    <2> QED
      BY <1>1, <2>1, <2>2
  <1>5. Firsts(none.hits, {}, n)
    BY <1>4 DEF Firsts
  <1> QED
    BY <1>1, <1>2, <1>3, <1>5, FS_EmptySet DEF Gathers, none

\* There are hits enough: what comes later is left out.
LEMMA FullGathered ==
    ASSUME NEW f, NEW pattern, NEW n \in Nat, NEW acc, NEW S, Gathers(f, pattern, n, acc, S),
           ~(Len(acc.hits) < n), NEW T, PathsBefore(S, T)
    PROVE  Gathers(f, pattern, n, acc, S \union T)
  <1>1. Firsts(acc.hits, AllHits(f, pattern, S), n)
    BY DEF Gathers
  <1>2. Len(acc.hits) = n
    <2>1. Len(acc.hits) \in Nat /\ Len(acc.hits) <= n
      BY <1>1, LenProperties DEF Firsts
    <2> QED
      BY <2>1
  <1>3. Firsts(acc.hits, AllHits(f, pattern, S \union T), n)
    <2> DEFINE A == AllHits(f, pattern, S)
               B == AllHits(f, pattern, T)
               hits == acc.hits
    <2>1. Joins(f, pattern, S, T)
      BY HitsJoin
    <2>2. AllHits(f, pattern, S \union T) = A \union B /\ AllEarlier(A, B)
      BY <2>1 DEF Joins
    <2>3. Firsts(hits, A, n) /\ Len(hits) = n
      BY <1>1, <1>2
    <2> HIDE DEF A, B, hits
    <2>4. Firsts(hits, A \union B, n)
      BY <2>2, <2>3, FullStays
    <2> QED
      BY <2>2, <2>4 DEF hits
  <1> QED
    BY <1>3 DEF Gathers

\* A file searched leaves a list of hits a list of hits.
LEMMA FileFound ==
    ASSUME NEW f, NEW p \in Seq(STRING), f[p].text \in Seq(Char), NEW pattern, NEW n \in Nat,
           NEW acc \in Found, Len(acc.hits) < n
    PROVE  SearchFile(f, p, pattern, n, acc) \in Found
  <1> DEFINE hits == Hits(f, p, pattern)
             m == Len(acc.hits)
             room == Min({n - m, Len(hits)})
             more == [i \in 1..room |-> Hit(p, hits[i])]
             acc2 == SearchFile(f, p, pattern, n, acc)
  <1>1. acc.hits \in Seq([path : Seq(STRING), line : Nat])
    BY DEF Found
  <1>2. CASE TooBig(f[p].text, ReadCap)
    <2>1. acc2 = [acc EXCEPT !.skipped = @ + 1]
      BY <1>2 DEF SearchFile
    <2> QED
      BY <2>1 DEF Found
  <1>3. CASE ~TooBig(f[p].text, ReadCap)
    <2>1. acc2 = [acc EXCEPT !.hits = @ \o more]
      BY <1>3 DEF SearchFile, Hit
    <2>2. n - m \in Nat
      <3>1. m \in Nat
        BY <1>1, LenProperties
      <3> QED
        BY <3>1
    <2>3. room \in Nat /\ \A i \in 1..room : hits[i] \in Nat
      BY <2>2, OwnFirsts
    <2>4. more \in Seq([path : Seq(STRING), line : Nat])
      <3>1. \A i \in 1..room : Hit(p, hits[i]) \in [path : Seq(STRING), line : Nat]
        BY <2>3 DEF Hit
      <3>2. more \in [1..room -> [path : Seq(STRING), line : Nat]]
        BY <3>1
      <3> HIDE DEF more, room
      <3> QED
        BY <2>3, <3>2, FunctionSeq
    <2> HIDE DEF more, room
    <2>5. acc.hits \o more \in Seq([path : Seq(STRING), line : Nat])
      BY <1>1, <2>4, ConcatProperties
    <2> QED
      BY <2>1, <2>5 DEF Found
  <1> QED
    BY <1>2, <1>3

\* The hits of one more file, as many as there is room for.
LEMMA FileGathered ==
    ASSUME NEW f, NEW pattern, NEW n \in Nat, NEW acc, NEW S, IsFiniteSet(S),
           Gathers(f, pattern, n, acc, S), Len(acc.hits) < n,
           NEW p \in Seq(STRING), p \notin S, f[p].text \in Seq(Char), PathsBefore(S, {p})
    PROVE  Gathers(f, pattern, n, SearchFile(f, p, pattern, n, acc), S \union {p})
  <1> DEFINE A == AllHits(f, pattern, S)
             B == AllHits(f, pattern, {p})
             acc2 == SearchFile(f, p, pattern, n, acc)
  <1>1. /\ acc \in Found /\ Firsts(acc.hits, A, n)
        /\ acc.skipped = Cardinality(Heavy(f, S))
    BY DEF Gathers
  <1> acc2 \in Found
    BY <1>1, FileFound
  <1>2. /\ Heavy(f, S \union {p}) = Heavy(f, S) \union Heavy(f, {p})
        /\ AllHits(f, pattern, S \union {p}) = A \union B
        /\ AllEarlier(A, B)
    <2> DEFINE T == {p}
    <2> HIDE DEF T
    <2>1. Joins(f, pattern, S, T)
      BY HitsJoin
    <2> QED
      BY <2>1 DEF Joins, T
  <1>3. IsFiniteSet(Heavy(f, S)) /\ p \notin Heavy(f, S)
    BY FS_Subset DEF Heavy
  <1>4. CASE TooBig(f[p].text, ReadCap)
    <2>1. Heavy(f, {p}) = {p} /\ B = {}
      BY <1>4 DEF Heavy, AllHits
    <2>2. Cardinality(Heavy(f, S) \union {p}) = Cardinality(Heavy(f, S)) + 1
      BY <1>3, FS_AddElement
    <2>3. acc2 = [acc EXCEPT !.skipped = @ + 1]
      BY <1>4 DEF SearchFile
    <2>4. acc2.hits = acc.hits /\ acc2.skipped = acc.skipped + 1
      BY <1>1, <2>3 DEF Found
    <2> HIDE DEF acc2, A, B
    <2>5. A \union B = A
      BY <2>1
    <2> QED
      BY <1>1, <1>2, <2>1, <2>2, <2>4, <2>5 DEF Gathers, acc2
  <1>5. CASE ~TooBig(f[p].text, ReadCap)
    <2> DEFINE hits == Hits(f, p, pattern)
               m == Len(acc.hits)
               room == Min({n - m, Len(hits)})
               more == [i \in 1..room |-> Hit(p, hits[i])]
    <2>1. Heavy(f, {p}) = {} /\ B = Own(f, p, pattern)
      BY <1>5 DEF Heavy, AllHits
    <2>2. m \in Nat /\ n - m \in Nat
      <3>1. m \in Nat
        BY <1>1, LenProperties DEF Firsts
      <3> QED
        BY <3>1
    <2>3. acc2 = [acc EXCEPT !.hits = @ \o more]
      BY <1>5 DEF SearchFile, Hit
    <2>4. Firsts(more, B, n - m)
      BY <2>1, <2>2, OwnFirsts
    <2> HIDE DEF more, room
    <2>5. acc2.hits = acc.hits \o more /\ acc2.skipped = acc.skipped
      BY <1>1, <2>3 DEF Found
    <2>6. Firsts(acc.hits \o more, A \union B, n)
      BY <1>1, <1>2, <2>4, MoreFirsts
    <2> HIDE DEF acc2, A, B, m
    <2> QED
      BY <1>1, <1>2, <2>1, <2>5, <2>6 DEF Gathers, acc2
  <1> QED
    BY <1>4, <1>5

-----------------------------------------------------------------------------
(* Paths below a directory and their order, name by name.                  *)

LEMMA InIs ==
    ASSUME NEW S, NEW at \in Seq(S), NEW p \in Seq(S)
    PROVE  In(at, p) <=> Len(at) <= Len(p) /\ \A i \in 1..Len(at) : p[i] = at[i]
  <1> DEFINE n == Len(at)
  <1>1. n \in Nat /\ Len(p) \in Nat /\ SubSeq(at, 1, n) = at
    BY LenProperties, SubSeqFull
  <1>2. SUFFICES ASSUME n <= Len(p)
                 PROVE  SubSeq(p, 1, n) = at <=> \A i \in 1..n : p[i] = at[i]
    BY <1>1 DEF In, IsPrefix
  <1>3. n \in 0..Len(p)
    BY <1>1, <1>2
  <1> DEFINE s == SubSeq(p, 1, n)
  <1>4. s \in Seq(S) /\ Len(s) = n /\ \A i \in 1..n : s[i] = p[i]
    <2>1. n \in 0..Len(p)
      BY <1>3
    <2> HIDE DEF n
    <2> QED
      BY <2>1, PlainPart
  <1> HIDE DEF s
  <1>5. ASSUME \A i \in 1..n : p[i] = at[i] PROVE s = at
    <2>1. \A i \in 1..Len(s) : s[i] = at[i]
      BY <1>4, <1>5
    <2> QED
      BY <1>4, <2>1, SeqEqual
  <1> QED
    BY <1>4, <1>5 DEF s

\* A name behind the first n.
LEMMA RestHas ==
    ASSUME NEW S, NEW p \in Seq(S), NEW n \in 0..Len(p), NEW x
    PROVE  x \in ToSet(Rest(p, n)) <=> \E i \in (n + 1)..Len(p) : p[i] = x
  <1> DEFINE r == Rest(p, n)
             m == Len(p)
  <1>1. m \in Nat /\ \A i \in 1..m : p[i] \in S
    BY LenProperties, ElementOfSeq
  <1>2. r \in Seq(S) /\ Len(r) = m - n /\ \A i \in 1..(m - n) : r[i] = p[n + i]
    <2>1. n + 1 \in Int /\ m \in Int /\ \A i \in (n + 1)..m : p[i] \in S
      BY <1>1
    <2>2. /\ r \in Seq(S)
          /\ Len(r) = IF n + 1 <= m THEN m - (n + 1) + 1 ELSE 0
          /\ \A i \in 1..(m - (n + 1) + 1) : r[i] = p[(n + 1) + i - 1]
      BY <2>1, SubSeqProperties DEF Rest
    <2> HIDE DEF r, m
    <2>3. (IF n + 1 <= m THEN m - (n + 1) + 1 ELSE 0) = m - n /\ m - (n + 1) + 1 = m - n
      BY <1>1 DEF m
    <2>4. \A i \in 1..(m - n) : (n + 1) + i - 1 = n + i
      OBVIOUS
    <2> QED
      BY <2>2, <2>3, <2>4
  <1>3. DOMAIN r = 1..(m - n)
    BY <1>2, LenProperties
  <1> HIDE DEF r, m
  <1>4. \A i \in 1..(m - n) : n + i \in (n + 1)..m
    BY <1>1 DEF m
  <1>5. \A i \in (n + 1)..m : i - n \in 1..(m - n) /\ n + (i - n) = i
    BY <1>1 DEF m
  <1>6. ASSUME x \in ToSet(r) PROVE \E i \in (n + 1)..m : p[i] = x
    BY <1>2, <1>3, <1>4, <1>6 DEF ToSet
  <1>7. ASSUME NEW i \in (n + 1)..m, p[i] = x PROVE x \in ToSet(r)
    <2>1. i - n \in DOMAIN r /\ r[i - n] = p[n + (i - n)]
      BY <1>2, <1>3, <1>5
    <2>2. r[i - n] = x
      BY <1>5, <1>7, <2>1
    <2> QED
      BY <2>1, <2>2 DEF ToSet
  <1> QED
    BY <1>6, <1>7 DEF r, m

\* Paths that part at one name are in the order of that name.
LEMMA LexicalAt ==
    ASSUME NEW S, NEW p \in Seq(S), NEW q \in Seq(S), NEW k \in 1..Len(p), k <= Len(q),
           \A i \in 1..(k - 1) : p[i] = q[i], Rank(p[k]) < Rank(q[k])
    PROVE  Lexical(p, q)
  <1>1. Len(p) \in Nat /\ Len(q) \in Nat
    BY LenProperties
  <1>2. k \in 1..Min({Len(p), Len(q)})
    BY <1>1, LesserOf
  <1>3. SubSeq(p, 1, k - 1) = SubSeq(q, 1, k - 1)
    <2> DEFINE j == k - 1
               s == SubSeq(p, 1, j)
               t == SubSeq(q, 1, j)
    <2>1. j \in 0..Len(p) /\ j \in 0..Len(q)
      BY <1>1
    <2>2. \A i \in 1..j : p[i] = q[i]
      OBVIOUS
    <2> HIDE DEF j
    <2>3. s \in Seq(S) /\ Len(s) = j /\ \A i \in 1..j : s[i] = p[i]
      BY <2>1, PlainPart
    <2>4. t \in Seq(S) /\ Len(t) = j /\ \A i \in 1..j : t[i] = q[i]
      BY <2>1, PlainPart
    <2> HIDE DEF s, t
    <2>5. \A i \in 1..Len(s) : s[i] = t[i]
      BY <2>2, <2>3, <2>4
    <2>6. s = t
      BY <2>3, <2>4, <2>5, SeqEqual
    <2> QED
      BY <2>6 DEF s, t, j
  <1> QED
    BY <1>2, <1>3 DEF Lexical

\* The order of names: each has one place.
LEMMA RankIs ==
    ASSUME SearchAssumption
    PROVE  /\ NameOrder \in Seq(STRING) /\ Len(NameOrder) \in Nat
           /\ DOMAIN NameOrder = 1..Len(NameOrder)
           /\ \A i \in DOMAIN NameOrder : Rank(NameOrder[i]) = i
           /\ \A x \in ToSet(NameOrder) : Rank(x) \in DOMAIN NameOrder /\ NameOrder[Rank(x)] = x
  <1>1. /\ NameOrder \in Seq(STRING)
        /\ \A i, j \in DOMAIN NameOrder : NameOrder[i] = NameOrder[j] => i = j
    BY DEF SearchAssumption, IsInjective
  <1>2. Len(NameOrder) \in Nat /\ DOMAIN NameOrder = 1..Len(NameOrder)
    BY <1>1, LenProperties
  <1>3. \A i \in DOMAIN NameOrder : Rank(NameOrder[i]) = i
    BY <1>1 DEF Rank
  <1>4. \A x \in ToSet(NameOrder) : \E i \in DOMAIN NameOrder : NameOrder[i] = x
    BY DEF ToSet
  <1>5. \A x \in ToSet(NameOrder) : Rank(x) \in DOMAIN NameOrder /\ NameOrder[Rank(x)] = x
    BY <1>4 DEF Rank
  <1> QED
    BY <1>1, <1>2, <1>3, <1>5

\* A tree that can be searched: every name in it has a place.
Searchable(f) ==
    /\ Ordered(f) /\ DOMAIN f \subseteq Seq(STRING)
    /\ \A p \in DOMAIN f \ {<<>>} : Last(p) \in ToSet(NameOrder)

\* The files below a directory that are not in .git, and those of them behind one name.
Below(f, at) == {p \in Files(f) : In(at, p) /\ ".git" \notin ToSet(Rest(p, Len(at)))}
Branch(f, at, x) == {p \in Below(f, at) : p[Len(at) + 1] = x}

\* What the paths of a tree are.
LEMMA PathsKnown ==
    ASSUME NEW f, Searchable(f), NEW p \in DOMAIN f
    PROVE  /\ p \in Seq(Name) /\ p \in Seq(STRING) /\ Len(p) \in Nat
           /\ f[p].kind \in {"dir", "file", "link"}
           /\ f[p].kind = "file" => f[p].text \in Seq(Char)
           /\ \A k \in 0..(Len(p) - 1) : IsA(f, SubSeq(p, 1, k), "dir")
           /\ \A i \in 1..Len(p) : p[i] \in ToSet(NameOrder)
  <1>1. p \in Seq(Name) /\ p \in Seq(STRING) /\ Closed(f)
    BY DEF Searchable, Ordered
  <1>2. Len(p) \in Nat
    BY <1>1, LenProperties
  <1>3. f[p].kind \in {"dir", "file", "link"} /\ (f[p].kind = "file" => f[p].text \in Seq(Char))
    BY DEF Searchable, Ordered, WellMade
  <1>4. \A k \in 0..(Len(p) - 1) : IsA(f, SubSeq(p, 1, k), "dir")
    BY <1>1, ClosedPrefix
  <1>5. ASSUME NEW i \in 1..Len(p) PROVE p[i] \in ToSet(NameOrder)
    <2> DEFINE q == SubSeq(p, 1, i)
    <2>1. i \in 0..Len(p) /\ i \in 1..i
      BY <1>2
    <2>2. q \in Seq(Name) /\ Len(q) = i /\ q[i] = p[i]
      BY <1>1, <2>1, PlainPart
    <2>3. q \in DOMAIN f
      <3>1. CASE i = Len(p)
        <4>1. SubSeq(p, 1, Len(p)) = p
          BY <1>1, SubSeqFull
        <4> QED
          BY <3>1, <4>1
      <3>2. CASE i # Len(p)
        <4>1. i \in 0..(Len(p) - 1)
          BY <1>2, <3>2
        <4> QED
          BY <1>4, <4>1 DEF IsA
      <3> QED
        BY <3>1, <3>2
    <2>4. q # <<>>
      BY <2>1, <2>2, EmptySeq
    <2> HIDE DEF q
    <2>5. Last(q) \in ToSet(NameOrder)
      BY <2>3, <2>4 DEF Searchable
    <2> QED
      BY <2>2, <2>5 DEF Last
  <1> QED
    BY <1>1, <1>2, <1>3, <1>4, <1>5

\* An entry of a directory.
LEMMA EntryIs ==
    ASSUME NEW at \in Seq(Name), NEW x \in Name
    PROVE  LET c == Append(at, x)
           IN  /\ c \in Seq(Name) /\ Len(c) = Len(at) + 1 /\ c[Len(at) + 1] = x /\ c # <<>>
               /\ Last(c) = x /\ In(at, c)
               /\ \A p \in Seq(Name) :
                      In(c, p) <=> In(at, p) /\ Len(at) < Len(p) /\ p[Len(at) + 1] = x
  <1> DEFINE c == Append(at, x)
             n == Len(at)
  <1>1. /\ c \in Seq(Name) /\ Len(c) = n + 1 /\ c[n + 1] = x /\ c # <<>>
        /\ \A i \in 1..n : c[i] = at[i]
    BY AppendProperties
  <1>2. n \in Nat
    BY LenProperties
  <1> HIDE DEF c
  <1>3. Last(c) = x
    BY <1>1 DEF Last
  <1>4. In(at, c)
    <2>1. Len(at) <= Len(c) /\ \A i \in 1..Len(at) : c[i] = at[i]
      BY <1>1, <1>2
    <2> QED
      BY <1>1, <2>1, InIs
  <1>5. ASSUME NEW p \in Seq(Name)
        PROVE  In(c, p) <=> In(at, p) /\ n < Len(p) /\ p[n + 1] = x
    <2>1. Len(p) \in Nat
      BY LenProperties
    <2>2. In(c, p) <=> n + 1 <= Len(p) /\ \A i \in 1..(n + 1) : p[i] = c[i]
      BY <1>1, InIs
    <2>3. In(at, p) <=> n <= Len(p) /\ \A i \in 1..n : p[i] = at[i]
      BY InIs
    <2> HIDE DEF n
    <2>4. \A i \in 1..(n + 1) : i \in 1..n \/ i = n + 1
      BY <1>2
    <2>5. n + 1 \in 1..(n + 1) /\ \A i \in 1..n : i \in 1..(n + 1)
      BY <1>2
    <2>6. (\A i \in 1..(n + 1) : p[i] = c[i]) <=> (\A i \in 1..n : p[i] = at[i]) /\ p[n + 1] = x
      BY <1>1, <2>4, <2>5
    <2>7. n + 1 <= Len(p) <=> n < Len(p)
      BY <1>2, <2>1
    <2>8. n < Len(p) => n <= Len(p)
      BY <1>2, <2>1
    <2> QED
      BY <2>2, <2>3, <2>6, <2>7, <2>8
  <1> QED
    BY <1>1, <1>3, <1>4, <1>5 DEF c

\* A file below a directory is one of its entries or below one.
LEMMA BelowEntry ==
    ASSUME NEW f, Searchable(f), NEW at, IsA(f, at, "dir"), NEW p \in Below(f, at)
    PROVE  LET x == p[Len(at) + 1]
               c == Append(at, x)
           IN  /\ Len(at) < Len(p) /\ x \in Name /\ x # ".git" /\ c \in DOMAIN f /\ In(c, p)
               /\ p = c \/ (IsA(f, c, "dir") /\ p \in Below(f, c))
  <1> DEFINE n == Len(at)
             x == p[n + 1]
             c == Append(at, x)
  <1>1. p \in DOMAIN f /\ f[p].kind = "file" /\ In(at, p) /\ ".git" \notin ToSet(Rest(p, n))
    BY DEF Below, Files
  <1>2. p \in Seq(Name) /\ Len(p) \in Nat /\ at \in Seq(Name) /\ n \in Nat
    BY <1>1, PathsKnown DEF IsA
  <1>3. n <= Len(p) /\ \A i \in 1..n : p[i] = at[i]
    BY <1>1, <1>2, InIs
  <1>4. n # Len(p)
    <2> SUFFICES ASSUME n = Len(p) PROVE FALSE
      OBVIOUS
    <2>1. \A i \in 1..Len(p) : p[i] = at[i]
      BY <1>3
    <2>2. p = at
      BY <1>2, <2>1, SeqEqual
    <2> QED
      BY <1>1, <2>2 DEF IsA
  <1>5. n < Len(p) /\ n + 1 \in 1..Len(p) /\ n \in 0..Len(p)
    BY <1>2, <1>3, <1>4
  <1>6. x \in Name
    BY <1>2, <1>5, ElementOfSeq
  <1>7. \A i \in (n + 1)..Len(p) : p[i] # ".git"
    BY <1>1, <1>2, <1>5, RestHas
  <1>8. x # ".git"
    <2>1. n + 1 \in (n + 1)..Len(p)
      BY <1>2, <1>5
    <2> QED
      BY <1>7, <2>1
  <1>9. c \in Seq(Name) /\ Len(c) = n + 1 /\ In(c, p)
    <2> HIDE DEF x
    <2>1. c \in Seq(Name) /\ Len(c) = n + 1
      BY <1>2, <1>6, EntryIs
    <2>2. In(c, p) <=> In(at, p) /\ n < Len(p) /\ p[n + 1] = x
      BY <1>2, <1>6, EntryIs
    <2> QED
      BY <1>1, <1>5, <2>1, <2>2 DEF x
  <1> HIDE DEF c
  <1>10. c = SubSeq(p, 1, n + 1)
    <2>1. SubSeq(c, 1, Len(c)) = c
      BY <1>9, SubSeqFull
    <2> QED
      BY <1>9, <2>1 DEF In, IsPrefix
  <1>11. CASE n + 1 = Len(p)
    <2>1. c = p
      BY <1>2, <1>10, <1>11, SubSeqFull
    <2> QED
      BY <1>1, <1>5, <1>6, <1>8, <1>9, <2>1 DEF c
  <1>12. CASE n + 1 # Len(p)
    <2> DEFINE m == n + 1
    <2>1. m \in 0..(Len(p) - 1) /\ m \in 0..Len(p)
      BY <1>2, <1>5, <1>12
    <2>2. m \in Nat /\ Len(c) = m
      BY <1>2, <1>9
    <2>3. \A i \in (m + 1)..Len(p) : i \in m..Len(p)
      BY <2>2
    <2>4. \A i \in m..Len(p) : p[i] # ".git"
      BY <1>7
    <2> HIDE DEF m
    <2>5. IsA(f, SubSeq(p, 1, m), "dir")
      BY <1>1, <2>1, PathsKnown
    <2>6. IsA(f, c, "dir")
      BY <1>10, <2>5 DEF m
    <2>7. ".git" \notin ToSet(Rest(p, m))
      BY <1>2, <2>1, <2>3, <2>4, RestHas
    <2>8. p \in Below(f, c)
      BY <1>1, <1>9, <2>2, <2>7 DEF Below, Files
    <2> QED
      BY <1>5, <1>6, <1>8, <1>9, <2>6, <2>8 DEF c, IsA
  <1> QED
    BY <1>11, <1>12

\* What is behind an entry: nothing behind .git or a link, the file, or what is below a directory.
LEMMA BranchIs ==
    ASSUME NEW f, Searchable(f), NEW at, IsA(f, at, "dir"), NEW x \in Name,
           Append(at, x) \in DOMAIN f
    PROVE  LET c == Append(at, x)
           IN  /\ x = ".git" \/ f[c].kind = "link" => Branch(f, at, x) = {}
               /\ x # ".git" /\ f[c].kind = "file" => Branch(f, at, x) = {c}
               /\ x # ".git" /\ f[c].kind = "dir" => Branch(f, at, x) = Below(f, c)
  <1> DEFINE n == Len(at)
             c == Append(at, x)
  <1>1. at \in Seq(Name) /\ n \in Nat
    BY PathsKnown DEF IsA
  <1>2. c \in Seq(Name) /\ Len(c) = n + 1 /\ c[n + 1] = x /\ In(at, c)
    BY <1>1, EntryIs
  <1>3. \A p \in Seq(Name) : In(c, p) <=> In(at, p) /\ n < Len(p) /\ p[n + 1] = x
    BY <1>1, EntryIs
  <1> HIDE DEF c
  <1>4. ASSUME NEW p \in Branch(f, at, x)
        PROVE  /\ x # ".git" /\ f[p].kind = "file"
               /\ p = c \/ (IsA(f, c, "dir") /\ p \in Below(f, c))
    <2>1. p \in Below(f, at) /\ p[n + 1] = x
      BY DEF Branch
    <2>2. f[p].kind = "file"
      BY <2>1 DEF Below, Files
    <2> QED
      BY <2>1, <2>2, BelowEntry DEF c
  <1>5. ASSUME x # ".git", NEW p \in Below(f, c) PROVE p \in Branch(f, at, x)
    <2>1. /\ p \in DOMAIN f /\ f[p].kind = "file" /\ In(c, p)
          /\ ".git" \notin ToSet(Rest(p, n + 1))
      BY <1>2 DEF Below, Files
    <2>2. p \in Seq(Name) /\ Len(p) \in Nat
      BY <2>1, PathsKnown
    <2>3. In(at, p) /\ n < Len(p) /\ p[n + 1] = x
      BY <1>3, <2>1, <2>2
    <2> DEFINE m == n + 1
    <2>4. m \in 0..Len(p) /\ n \in 0..Len(p)
      BY <1>1, <2>2, <2>3
    <2>5. \A i \in m..Len(p) : i = m \/ i \in (m + 1)..Len(p)
      BY <1>1, <2>2
    <2>6. ".git" \notin ToSet(Rest(p, m))
      BY <2>1
    <2> HIDE DEF m
    <2>7. \A i \in (m + 1)..Len(p) : p[i] # ".git"
      BY <2>2, <2>4, <2>6, RestHas
    <2>8. \A i \in (n + 1)..Len(p) : p[i] # ".git"
      BY <1>5, <2>3, <2>5, <2>7 DEF m
    <2>9. ".git" \notin ToSet(Rest(p, n))
      BY <2>2, <2>4, <2>8, RestHas
    <2> QED
      BY <2>1, <2>3, <2>9 DEF Branch, Below, Files
  <1>6. ASSUME x # ".git", f[c].kind = "file" PROVE c \in Branch(f, at, x)
    <2> DEFINE m == n + 1
    <2>1. m \in 0..Len(c) /\ n \in 0..Len(c) /\ \A i \in m..Len(c) : i = m
      BY <1>1, <1>2
    <2>2. \A i \in (n + 1)..Len(c) : c[i] # ".git"
      BY <1>2, <1>6, <2>1
    <2>3. ".git" \notin ToSet(Rest(c, n))
      BY <1>2, <2>1, <2>2, RestHas
    <2> QED
      BY <1>2, <1>6, <2>3 DEF Branch, Below, Files, c
  <1>7. f[c].kind # "dir" => ~IsA(f, c, "dir")
    BY DEF IsA
  <1>8. x = ".git" \/ f[c].kind = "link" => Branch(f, at, x) = {}
    BY <1>4, <1>7
  <1>9. x # ".git" /\ f[c].kind = "file" => Branch(f, at, x) = {c}
    BY <1>4, <1>6, <1>7
  <1>10. x # ".git" /\ f[c].kind = "dir" => Branch(f, at, x) = Below(f, c)
    BY <1>4, <1>5
  <1> QED
    BY <1>8, <1>9, <1>10 DEF c

\* The names of a directory's entries, each once and in order.
Entries(f, at, names) ==
    /\ Len(names) \in Nat /\ DOMAIN names = 1..Len(names)
    /\ \A k \in 1..Len(names) :
           names[k] \in Name /\ Append(at, names[k]) \in DOMAIN f /\ Rank(names[k]) \in Nat
    /\ \A k, l \in 1..Len(names) : k < l => Rank(names[k]) < Rank(names[l])
    /\ \A x \in Name : Append(at, x) \in DOMAIN f => \E k \in 1..Len(names) : names[k] = x

LEMMA ChildrenAre ==
    ASSUME SearchAssumption, NEW f, Searchable(f), NEW at, IsA(f, at, "dir")
    PROVE  Entries(f, at, Children(f, at))
  <1> DEFINE Q == {q \in DOMAIN f : Len(q) = Len(at) + 1 /\ In(at, q)}
             C == {Rank(q[Len(q)]) : q \in Q}
             names == Children(f, at)
  <1>1. at \in Seq(Name) /\ Len(at) \in Nat
    BY PathsKnown DEF IsA
  <1>2. ASSUME NEW q \in Q
        PROVE  q[Len(q)] \in Name /\ q[Len(q)] \in ToSet(NameOrder) /\ q = Append(at, q[Len(q)])
    <2> DEFINE y == q[Len(q)]
    <2>1. /\ q \in DOMAIN f /\ q \in Seq(Name) /\ Len(q) = Len(at) + 1 /\ In(at, q)
          /\ \A i \in 1..Len(q) : q[i] \in ToSet(NameOrder)
      BY PathsKnown
    <2>2. Len(q) \in 1..Len(q)
      BY <1>1, <2>1
    <2>3. y \in Name /\ y \in ToSet(NameOrder)
      BY <2>1, <2>2, ElementOfSeq
    <2>4. Append(at, y) = q
      <3> DEFINE c == Append(at, y)
      <3>1. c \in Seq(Name) /\ Len(c) = Len(at) + 1
        BY <1>1, <2>3, EntryIs
      <3>2. In(c, q) <=> In(at, q) /\ Len(at) < Len(q) /\ q[Len(at) + 1] = y
        BY <1>1, <2>1, <2>3, EntryIs
      <3>3. In(c, q)
        BY <1>1, <2>1, <3>2
      <3>4. SubSeq(c, 1, Len(c)) = c /\ SubSeq(q, 1, Len(q)) = q
        BY <2>1, <3>1, SubSeqFull
      <3> HIDE DEF c
      <3> QED
        BY <2>1, <3>1, <3>3, <3>4 DEF In, IsPrefix, c
    <2> QED
      BY <2>3, <2>4
  <1>3. ASSUME NEW x \in Name, Append(at, x) \in DOMAIN f PROVE Rank(x) \in C
    <2> DEFINE c == Append(at, x)
    <2>1. Len(c) = Len(at) + 1 /\ c[Len(at) + 1] = x /\ In(at, c)
      BY <1>1, EntryIs
    <2> HIDE DEF c
    <2>2. c \in Q /\ c[Len(c)] = x
      BY <1>3, <2>1 DEF c
    <2> QED
      BY <2>2
  <1>4. names = Pick(NameOrder, C)
    BY DEF Children
  <1> DEFINE m == Len(NameOrder)
  <1>5. C \in SUBSET (1..m) /\ m \in Nat
    BY <1>2, RankIs
  <1>6. ASSUME NEW i \in C
        PROVE  /\ NameOrder[i] \in Name /\ Append(at, NameOrder[i]) \in DOMAIN f
               /\ Rank(NameOrder[i]) = i /\ i \in Nat
    <2>1. PICK q \in Q : i = Rank(q[Len(q)])
      OBVIOUS
    <2>2. q \in DOMAIN f
      OBVIOUS
    <2> HIDE DEF Q, C
    <2>3. NameOrder[i] = q[Len(q)] /\ i \in DOMAIN NameOrder
      BY <1>2, <2>1, RankIs
    <2>4. Rank(NameOrder[i]) = i
      BY <2>3, RankIs
    <2>5. i \in Nat
      BY <1>5
    <2> QED
      BY <1>2, <2>2, <2>3, <2>4, <2>5
  <1> HIDE DEF C, Q, names, m
  <1>7. InPlace(NameOrder, C) /\ Cardinality(C) \in Nat
    BY <1>5, Picked, PlaceStep
  <1>8. /\ Len(names) = Cardinality(C) /\ DOMAIN names = 1..Cardinality(C)
        /\ \A k \in 1..Cardinality(C) : Nth(C, k) \in C /\ names[k] = NameOrder[Nth(C, k)]
        /\ \A k, l \in 1..Cardinality(C) : k < l => Nth(C, k) < Nth(C, l)
        /\ \A e \in C : \E k \in 1..Cardinality(C) : Nth(C, k) = e
    BY <1>4, <1>7 DEF InPlace
  <1>9. ASSUME NEW x \in Name, Append(at, x) \in DOMAIN f
        PROVE  \E k \in 1..Len(names) : names[k] = x
    <2>1. Rank(x) \in C
      BY <1>3, <1>9
    <2>2. PICK k \in 1..Cardinality(C) : Nth(C, k) = Rank(x)
      BY <1>8, <2>1
    <2>3. NameOrder[Rank(x)] = x
      <3> DEFINE c == Append(at, x)
      <3>1. Last(c) = x /\ c # <<>>
        BY <1>1, EntryIs
      <3> HIDE DEF c
      <3>2. x \in ToSet(NameOrder)
        BY <1>9, <3>1 DEF Searchable, c
      <3> QED
        BY <3>2, RankIs
    <2> QED
      BY <1>8, <2>2, <2>3
  <1> QED
    BY <1>6, <1>7, <1>8, <1>9 DEF Entries, names

\* The directories of a tree, and a search of what is inside a directory.
Dirs(f) == {d \in DOMAIN f : f[d].kind = "dir"}
Inner(f, at, inside) ==
    \A x \in Name : Append(at, x) \in Dirs(f) => inside[Append(at, x)] \in [Found -> Found]

\* An entry visited leaves a list of hits a list of hits.
LEMMA VisitFound ==
    ASSUME NEW f, Searchable(f), NEW p \in DOMAIN f, NEW pattern, NEW n \in Nat,
           NEW acc \in Found, NEW inside, p \in Dirs(f) => inside[p] \in [Found -> Found]
    PROVE  Visit(f, p, pattern, n, acc, inside) \in Found
  <1>1. f[p].kind = "file" => p \in Seq(STRING) /\ f[p].text \in Seq(Char)
    BY PathsKnown
  <1>2. f[p].kind \in {"dir", "file", "link"}
    BY PathsKnown
  <1>3. Len(acc.hits) \in Nat
    BY LenProperties DEF Found
  <1> DEFINE v == Visit(f, p, pattern, n, acc, inside)
             halt == Len(acc.hits) >= n \/ Last(p) = ".git" \/ f[p].kind = "link"
  <1>4. v = IF halt THEN acc
            ELSE IF f[p].kind = "dir" THEN inside[p][acc] ELSE SearchFile(f, p, pattern, n, acc)
    BY DEF Visit
  <1>5. ~halt => Len(acc.hits) < n /\ f[p].kind # "link"
    BY <1>3
  <1> HIDE DEF v, halt
  <1>6. CASE halt
    BY <1>4, <1>6 DEF v
  <1>7. CASE ~halt /\ f[p].kind = "dir"
    <2>1. inside[p] \in [Found -> Found]
      BY <1>7 DEF Dirs
    <2> QED
      BY <1>4, <1>7, <2>1 DEF v
  <1>8. CASE ~halt /\ f[p].kind # "dir"
    <2>1. SearchFile(f, p, pattern, n, acc) \in Found
      BY <1>1, <1>2, <1>5, <1>8, FileFound
    <2> QED
      BY <1>4, <1>8, <2>1 DEF v
  <1> QED
    BY <1>6, <1>7, <1>8

\* A directory, one entry after the other.
Sweeps(f, at, pattern, n, acc, inside, upto) ==
    LET names == Children(f, at)
    IN  /\ Sweep(f, at, pattern, n, acc, inside) = upto[Len(names)]
        /\ upto[0] = acc
        /\ \A k \in 1..Len(names) :
               upto[k] = Visit(f, Append(at, names[k]), pattern, n, upto[k - 1], inside)
        /\ \A k \in 0..Len(names) : upto[k] \in Found

LEMMA SweepSteps ==
    ASSUME SearchAssumption, NEW f, Searchable(f), NEW at \in Dirs(f), NEW pattern, NEW n \in Nat,
           NEW acc \in Found, NEW inside, Inner(f, at, inside)
    PROVE  \E upto : Sweeps(f, at, pattern, n, acc, inside, upto)
  <1> DEFINE names == Children(f, at)
             m == Len(names)
             X == Found
             turn(k, x) == Visit(f, Append(at, names[k]), pattern, n, x, inside)
             step == [e \in (1..m) \X X |-> turn(e[1], e[2])]
             Body(g) == g = [k \in 0..m |-> IF k = 0 THEN acc ELSE turn(k, g[k - 1])]
             upto == CHOOSE g : Body(g)
  <1>1. Entries(f, at, names)
    BY ChildrenAre DEF Dirs, IsA
  <1>2. m \in Nat
    BY <1>1 DEF Entries
  <1>3. Sweep(f, at, pattern, n, acc, inside) = upto[m]
    BY DEF Sweep
  <1>4. ASSUME NEW k \in 1..m, NEW x \in X PROVE turn(k, x) \in X
    <2> DEFINE p == Append(at, names[k])
    <2>1. names[k] \in Name /\ p \in DOMAIN f
      BY <1>1 DEF Entries
    <2>2. p \in Dirs(f) => inside[p] \in [Found -> Found]
      BY <2>1 DEF Inner
    <2> HIDE DEF p, names
    <2> QED
      BY <2>1, <2>2, VisitFound DEF p
  <1> HIDE DEF turn, names, m, X
  <1>5. step \in [(1..m) \X X -> X]
    <2>1. ASSUME NEW e \in (1..m) \X X PROVE turn(e[1], e[2]) \in X
      BY <1>4
    <2> QED
      BY <2>1
  <1>6. acc \in X
    BY DEF X
  <1>7. \A k \in 1..m : \A x \in X : step[<<k, x>>] = turn(k, x)
    OBVIOUS
  <1> HIDE DEF step
  <1>8. PICK g \in [0..m -> X] : g[0] = acc /\ \A k \in 1..m : g[k] = step[<<k, g[k - 1]>>]
    <2>1. PICK g \in [0..m -> X] : Recurs(g, acc, step, m)
      BY <1>2, <1>5, <1>6, RecursionIn
    <2> QED
      BY <2>1 DEF Recurs
  <1>9. Body(g)
    <2>1. ASSUME NEW k \in 0..m PROVE g[k] = IF k = 0 THEN acc ELSE turn(k, g[k - 1])
      <3>1. k # 0 => k \in 1..m /\ k - 1 \in 0..m
        BY <1>2
      <3>2. k # 0 => g[k - 1] \in X
        BY <1>8, <3>1
      <3> QED
        BY <1>7, <1>8, <3>1, <3>2
    <2>2. g = [k \in 0..m |-> g[k]]
      BY <1>8
    <2> QED
      BY <2>1, <2>2
  <1>10. Body(upto)
    <2> HIDE DEF Body
    <2> QED
      BY <1>9
  <1> HIDE DEF upto
  <1>11. \A k \in 0..m : upto[k] = IF k = 0 THEN acc ELSE turn(k, upto[k - 1])
    BY <1>10
  <1> HIDE DEF Body
  <1>12. upto[0] = acc /\ \A k \in 1..m : upto[k] = turn(k, upto[k - 1])
    <2>1. 0 \in 0..m /\ \A k \in 1..m : k \in 0..m /\ k # 0
      BY <1>2
    <2> QED
      BY <1>11, <2>1
  <1> DEFINE Fine(k) == upto[k] \in X
             D == {k \in Nat : k <= m => Fine(k)}
  <1>13. Fine(0)
    BY <1>6, <1>12
  <1>14. ASSUME NEW k \in Nat, k + 1 <= m, Fine(k) PROVE Fine(k + 1)
    <2>1. k + 1 \in 1..m /\ (k + 1) - 1 = k
      BY <1>2, <1>14
    <2>2. upto[k + 1] = turn(k + 1, upto[k])
      BY <1>12, <2>1
    <2> QED
      BY <1>4, <1>14, <2>1, <2>2
  <1> HIDE DEF Fine
  <1>15. 0 \in D /\ \A k \in Nat : k \in D => k + 1 \in D
    BY <1>2, <1>13, <1>14
  <1>16. ASSUME NEW k \in 0..m PROVE Fine(k)
    <2> HIDE DEF D
    <2>1. k \in Nat /\ k <= m
      BY <1>2
    <2>2. k \in D
      BY <1>15, <2>1, SetInduction
    <2> QED
      BY <2>1, <2>2 DEF D
  <1>17. \A k \in 0..m : upto[k] \in Found
    BY <1>16 DEF Fine, X
  <1>18. \A k \in 1..m : upto[k] = Visit(f, Append(at, names[k]), pattern, n, upto[k - 1], inside)
    BY <1>12 DEF turn
  <1> QED
    BY <1>3, <1>12, <1>17, <1>18 DEF m, names, Sweeps

\* And so does a directory swept.
LEMMA SweepFound ==
    ASSUME SearchAssumption, NEW f, Searchable(f), NEW at \in Dirs(f), NEW pattern, NEW n \in Nat,
           NEW acc \in Found, NEW inside, Inner(f, at, inside)
    PROVE  Sweep(f, at, pattern, n, acc, inside) \in Found
  <1>1. PICK upto : Sweeps(f, at, pattern, n, acc, inside, upto)
    BY SweepSteps
  <1>2. Entries(f, at, Children(f, at))
    BY ChildrenAre DEF Dirs, IsA
  <1>3. Len(Children(f, at)) \in 0..Len(Children(f, at))
    BY <1>2 DEF Entries
  <1> QED
    BY <1>1, <1>3 DEF Sweeps

\* Nothing but what is inside the directories in it matters to a directory.
LEMMA SweepSame ==
    ASSUME SearchAssumption, NEW f, Searchable(f), NEW at \in Dirs(f), NEW pattern, NEW n \in Nat,
           NEW acc \in Found, NEW a, Inner(f, at, a), NEW b,
           \A x \in Name : Append(at, x) \in Dirs(f) => a[Append(at, x)] = b[Append(at, x)]
    PROVE  Sweep(f, at, pattern, n, acc, a) = Sweep(f, at, pattern, n, acc, b)
  <1> DEFINE names == Children(f, at)
             m == Len(names)
  <1>1. Inner(f, at, b)
    BY DEF Inner
  <1>2. PICK g : Sweeps(f, at, pattern, n, acc, a, g)
    BY SweepSteps
  <1>3. PICK h : Sweeps(f, at, pattern, n, acc, b, h)
    BY <1>1, SweepSteps
  <1>4. Entries(f, at, names)
    BY ChildrenAre DEF Dirs, IsA
  <1>5. m \in Nat
    BY <1>4 DEF Entries
  <1>6. /\ Sweep(f, at, pattern, n, acc, a) = g[m] /\ Sweep(f, at, pattern, n, acc, b) = h[m]
        /\ g[0] = acc /\ h[0] = acc
    BY <1>2, <1>3 DEF Sweeps
  <1>7. ASSUME NEW k \in 1..m, g[k - 1] = h[k - 1] PROVE g[k] = h[k]
    <2> DEFINE p == Append(at, names[k])
    <2>1. /\ g[k] = Visit(f, p, pattern, n, g[k - 1], a)
          /\ h[k] = Visit(f, p, pattern, n, h[k - 1], b)
      BY <1>2, <1>3 DEF Sweeps
    <2>2. p \in Dirs(f) => a[p] = b[p]
      BY <1>4 DEF Entries
    <2>3. f[p].kind = "dir" => p \in Dirs(f)
      BY <1>4 DEF Entries, Dirs
    <2> HIDE DEF p
    <2>4. Visit(f, p, pattern, n, h[k - 1], a) = Visit(f, p, pattern, n, h[k - 1], b)
      BY <2>2, <2>3 DEF Visit
    <2> QED
      BY <1>7, <2>1, <2>4
  <1> DEFINE D == {k \in Nat : k <= m => g[k] = h[k]}
  <1> HIDE DEF m
  <1>8. 0 \in D
    BY <1>6
  <1>9. ASSUME NEW k \in Nat, k \in D PROVE k + 1 \in D
    <2> SUFFICES ASSUME k + 1 <= m PROVE g[k + 1] = h[k + 1]
      OBVIOUS
    <2> DEFINE l == k + 1
    <2>1. l \in 1..m /\ l - 1 = k /\ k <= m
      BY <1>5
    <2>2. g[k] = h[k]
      BY <1>9, <2>1
    <2> HIDE DEF l
    <2>3. g[l] = h[l]
      BY <1>7, <2>1, <2>2
    <2> QED
      BY <2>3 DEF l
  <1>10. m \in D
    <2> HIDE DEF D
    <2> QED
      BY <1>5, <1>8, <1>9, SetInduction
  <1> QED
    BY <1>5, <1>6, <1>10

\* A tree is no deeper than a number of names.
LEMMA DepthBounded ==
    ASSUME NEW f, Searchable(f)
    PROVE  \E h \in Nat : \A p \in DOMAIN f : Len(p) <= h
  <1> DEFINE g == [p \in DOMAIN f |-> Len(p)]
  <1>1. IsFiniteSet(DOMAIN f)
    BY DEF Searchable, Ordered, WellMade
  <1>2. g \in [DOMAIN f -> Nat]
    BY PathsKnown
  <1>3. PICK h \in Nat : \A p \in DOMAIN f : g[p] <= h
    BY <1>1, <1>2, ImageBounded
  <1> QED
    BY <1>3

\* The directories with less than k levels of entries, if h names are the most there are.
Deep(f, h, k) == {at \in Dirs(f) : h < Len(at) + k}

LEMMA DeepIs ==
    ASSUME NEW f, Searchable(f), NEW h \in Nat, \A p \in DOMAIN f : Len(p) <= h
    PROVE  /\ Deep(f, h, 0) = {} /\ Deep(f, h, h + 1) = Dirs(f)
           /\ \A k \in Nat : Deep(f, h, k) \subseteq Deep(f, h, k + 1)
           /\ \A k \in Nat, x \in Name : \A at \in Deep(f, h, k + 1) :
                  Append(at, x) \in Dirs(f) => Append(at, x) \in Deep(f, h, k)
  <1>1. \A at \in Dirs(f) : at \in Seq(Name) /\ Len(at) \in Nat /\ Len(at) <= h
    BY PathsKnown DEF Dirs
  <1>2. Deep(f, h, 0) = {} /\ Deep(f, h, h + 1) = Dirs(f)
    BY <1>1 DEF Deep
  <1>3. \A k \in Nat : Deep(f, h, k) \subseteq Deep(f, h, k + 1)
    BY <1>1 DEF Deep
  <1>4. ASSUME NEW k \in Nat, NEW x \in Name, NEW at \in Deep(f, h, k + 1),
               Append(at, x) \in Dirs(f)
        PROVE  Append(at, x) \in Deep(f, h, k)
    <2>1. at \in Seq(Name) /\ Len(at) \in Nat /\ h < Len(at) + (k + 1)
      BY <1>1 DEF Deep
    <2>2. Len(Append(at, x)) = Len(at) + 1
      BY <2>1, AppendProperties
    <2>3. h < (Len(at) + 1) + k
      BY <2>1
    <2> QED
      BY <1>4, <2>2, <2>3 DEF Deep
  <1> QED
    BY <1>2, <1>3, <1>4

\* A recursion over the directories: it has a value, whatever the tree.
Walks(f, pattern, n, w) ==
    w = [at \in Dirs(f) |-> [found \in Found |-> Sweep(f, at, pattern, n, found, w)]]

LEMMA WalksThere ==
    ASSUME SearchAssumption, NEW f, Searchable(f), NEW pattern, NEW n \in Nat
    PROVE  \E w : Walks(f, pattern, n, w)
  <1>1. PICK h \in Nat : \A p \in DOMAIN f : Len(p) <= h
    BY DepthBounded
  <1> DEFINE L(k) == Deep(f, h, k)
             Round(at, w) == [found \in Found |-> Sweep(f, at, pattern, n, found, w)]
             P(k) == \E w \in [L(k) -> [Found -> Found]] : \A at \in L(k) : w[at] = Round(at, w)
             D == {k \in Nat : P(k)}
  <1>2. /\ L(0) = {} /\ L(h + 1) = Dirs(f)
        /\ \A k \in Nat : L(k) \subseteq L(k + 1) /\ L(k) \subseteq Dirs(f)
        /\ \A k \in Nat, x \in Name : \A at \in L(k + 1) :
               Append(at, x) \in Dirs(f) => Append(at, x) \in L(k)
    <2>1. \A k \in Nat : L(k) \subseteq Dirs(f)
      BY DEF Deep
    <2> QED
      BY <1>1, <2>1, DeepIs
  <1> HIDE DEF L
  <1>3. P(0)
    <2>1. [at \in {} |-> [found \in Found |-> found]] \in [L(0) -> [Found -> Found]]
      BY <1>2
    <2> QED
      BY <1>2, <2>1
  <1>4. ASSUME NEW k \in Nat, P(k) PROVE P(k + 1)
    <2> DEFINE m == k + 1
    <2>1. PICK w \in [L(k) -> [Found -> Found]] : \A at \in L(k) : w[at] = Round(at, w)
      BY <1>4
    <2>2. /\ L(k) \subseteq L(m) /\ L(m) \subseteq Dirs(f)
          /\ \A x \in Name : \A at \in L(m) : Append(at, x) \in Dirs(f) => Append(at, x) \in L(k)
      BY <1>2
    <2> HIDE DEF m
    <2>3. ASSUME NEW at \in L(m) PROVE Inner(f, at, w)
      BY <2>2 DEF Inner
    <2>4. ASSUME NEW at \in L(m), NEW found \in Found
          PROVE  Sweep(f, at, pattern, n, found, w) \in Found
      BY <2>2, <2>3, SweepFound
    <2> DEFINE v == [at \in L(m) |-> Round(at, w)]
    <2>5. v \in [L(m) -> [Found -> Found]]
      BY <2>4
    <2>6. \A at \in L(m) : v[at] = Round(at, w)
      OBVIOUS
    <2> HIDE DEF v
    <2>7. ASSUME NEW at \in L(m) PROVE v[at] = Round(at, v)
      <3>1. ASSUME NEW x \in Name, Append(at, x) \in Dirs(f)
            PROVE  w[Append(at, x)] = v[Append(at, x)]
        <4> DEFINE c == Append(at, x)
        <4>1. c \in L(k) /\ c \in L(m)
          BY <2>2, <3>1
        <4> HIDE DEF c, Round
        <4>2. w[c] = Round(c, w) /\ v[c] = Round(c, w)
          BY <2>1, <2>6, <4>1
        <4> QED
          BY <4>2 DEF c
      <3>2. at \in Dirs(f) /\ Inner(f, at, w)
        BY <2>2, <2>3
      <3>3. ASSUME NEW found \in Found
            PROVE  Sweep(f, at, pattern, n, found, w) = Sweep(f, at, pattern, n, found, v)
        BY <3>1, <3>2, SweepSame
      <3>4. Round(at, w) = Round(at, v)
        BY <3>3
      <3> HIDE DEF Round
      <3> QED
        BY <2>6, <3>4
    <2>8. P(m)
      <3> HIDE DEF Round
      <3> QED
        BY <2>5, <2>7
    <2> QED
      BY <2>8 DEF m
  <1> HIDE DEF P
  <1>5. h + 1 \in D
    <2>1. 0 \in D /\ \A k \in Nat : k \in D => k + 1 \in D
      BY <1>3, <1>4
    <2> HIDE DEF D
    <2> QED
      BY <2>1, SetInduction
  <1>6. PICK w \in [Dirs(f) -> [Found -> Found]] : \A at \in Dirs(f) : w[at] = Round(at, w)
    BY <1>2, <1>5 DEF P
  <1>7. w = [at \in Dirs(f) |-> Round(at, w)]
    <2>1. w = [at \in Dirs(f) |-> w[at]]
      BY <1>6
    <2> HIDE DEF Round
    <2> QED
      BY <1>6, <2>1
  <1> QED
    BY <1>7 DEF Walks

\* And SearchDir takes it.
LEMMA DirWalks ==
    ASSUME SearchAssumption, NEW f, Searchable(f), NEW pattern, NEW n \in Nat, NEW dir, NEW acc
    PROVE  \E w : Walks(f, pattern, n, w) /\ SearchDir(f, dir, pattern, n, acc) = w[dir][acc]
  <1> DEFINE w == CHOOSE v : Walks(f, pattern, n, v)
  <1>1. Walks(f, pattern, n, w)
    BY WalksThere
  <1>2. SearchDir(f, dir, pattern, n, acc) = w[dir][acc]
    BY DEF SearchDir, Walks, Dirs
  <1> QED
    BY <1>1, <1>2

\* What is below a directory, behind the first k of its entries.
Swept(f, at, names, k) == {p \in Below(f, at) : \E j \in 1..k : p[Len(at) + 1] = names[j]}

LEMMA SweptOn ==
    ASSUME SearchAssumption, NEW f, Searchable(f), NEW at \in Dirs(f),
           NEW names, Entries(f, at, names)
    PROVE  /\ Swept(f, at, names, 0) = {} /\ Swept(f, at, names, Len(names)) = Below(f, at)
           /\ \A k \in 1..Len(names) :
                  /\ Swept(f, at, names, k)
                     = Swept(f, at, names, k - 1) \union Branch(f, at, names[k])
                  /\ PathsBefore(Swept(f, at, names, k - 1), Branch(f, at, names[k]))
                  /\ Swept(f, at, names, k - 1) \intersect Branch(f, at, names[k]) = {}
  <1> DEFINE m == Len(names)
             a == Len(at)
             T(k) == Swept(f, at, names, k)
             B(k) == Branch(f, at, names[k])
  <1>1. /\ m \in Nat
        /\ \A k \in 1..m : Rank(names[k]) \in Nat
        /\ \A k, l \in 1..m : k < l => Rank(names[k]) < Rank(names[l])
        /\ \A x \in Name : Append(at, x) \in DOMAIN f => \E k \in 1..m : names[k] = x
    BY DEF Entries
  <1>2. at \in Seq(Name) /\ a \in Nat /\ IsA(f, at, "dir")
    BY PathsKnown DEF Dirs, IsA
  <1>3. T(0) = {}
    BY DEF Swept
  <1>4. T(m) = Below(f, at)
    <2> SUFFICES ASSUME NEW p \in Below(f, at) PROVE \E j \in 1..m : names[j] = p[a + 1]
      BY DEF Swept
    <2> DEFINE x == p[a + 1]
    <2>1. x \in Name /\ Append(at, x) \in DOMAIN f
      BY <1>2, BelowEntry
    <2> HIDE DEF x
    <2> QED
      BY <1>1, <2>1 DEF x
  <1>5. ASSUME NEW k \in 1..m PROVE T(k) = T(k - 1) \union B(k)
    <2>1. \A j : j \in 1..k <=> j \in 1..(k - 1) \/ j = k
      BY <1>1
    <2> QED
      BY <2>1 DEF Swept, Branch
  <1>6. ASSUME NEW k \in 1..m, NEW p \in T(k - 1), NEW q \in B(k)
        PROVE  Lexical(p, q) /\ p # q
    <2>1. PICK j \in 1..(k - 1) : p[a + 1] = names[j]
      BY DEF Swept
    <2>2. q[a + 1] = names[k] /\ p \in Below(f, at) /\ q \in Below(f, at)
      BY DEF Swept, Branch
    <2>3. j \in 1..m /\ j < k
      BY <1>1
    <2>4. Rank(p[a + 1]) < Rank(q[a + 1]) /\ Rank(p[a + 1]) \in Nat
      BY <1>1, <2>1, <2>2, <2>3
    <2>5. p \in Seq(Name) /\ Len(p) \in Nat /\ q \in Seq(Name) /\ Len(q) \in Nat
      BY <2>2, PathsKnown DEF Below, Files
    <2>6. a < Len(p) /\ a < Len(q)
      BY <1>2, <2>2, BelowEntry
    <2>7. In(at, p) /\ In(at, q)
      BY <2>2 DEF Below
    <2>8. \A i \in 1..a : p[i] = at[i] /\ q[i] = at[i]
      BY <1>2, <2>5, <2>7, InIs
    <2> DEFINE l == a + 1
    <2>9. l \in 1..Len(p) /\ l <= Len(q) /\ l - 1 = a
      BY <1>2, <2>5, <2>6
    <2>10. \A i \in 1..(l - 1) : p[i] = q[i]
      BY <2>8, <2>9
    <2>11. Rank(p[l]) < Rank(q[l])
      BY <2>4
    <2>12. p # q
      BY <2>4
    <2> HIDE DEF l
    <2>13. Lexical(p, q)
      BY <2>5, <2>9, <2>10, <2>11, LexicalAt
    <2> QED
      BY <2>12, <2>13
  <1> HIDE DEF T, B
  <1>7. ASSUME NEW k \in 1..m PROVE PathsBefore(T(k - 1), B(k)) /\ T(k - 1) \intersect B(k) = {}
    BY <1>6 DEF PathsBefore
  <1> QED
    BY <1>3, <1>4, <1>5, <1>7 DEF T, B, m

\* A search of a directory adds what is below it to what comes before.
Adds(f, pattern, n, found, at) ==
    \A x \in Found, S \in SUBSET DOMAIN f :
        Gathers(f, pattern, n, x, S) /\ PathsBefore(S, Below(f, at))
        /\ S \intersect Below(f, at) = {}
        => Gathers(f, pattern, n, found[x], S \union Below(f, at))

\* One entry adds what is behind it.
LEMMA VisitAdds ==
    ASSUME NEW f, Searchable(f), NEW at \in Dirs(f), NEW x \in Name, Append(at, x) \in DOMAIN f,
           NEW pattern, NEW n \in Nat, NEW acc \in Found, NEW inside,
           Append(at, x) \in Dirs(f) => Adds(f, pattern, n, inside[Append(at, x)], Append(at, x)),
           NEW S \in SUBSET DOMAIN f, Gathers(f, pattern, n, acc, S),
           PathsBefore(S, Branch(f, at, x)), S \intersect Branch(f, at, x) = {}
    PROVE  Gathers(f, pattern, n, Visit(f, Append(at, x), pattern, n, acc, inside),
                   S \union Branch(f, at, x))
  <1> DEFINE p == Append(at, x)
             B == Branch(f, at, x)
             v == Visit(f, p, pattern, n, acc, inside)
             all == Gathers(f, pattern, n, v, S \union B)
  <1>1. IsA(f, at, "dir") /\ at \in Seq(Name)
    BY PathsKnown DEF Dirs, IsA
  <1>2. Last(p) = x
    BY <1>1, EntryIs
  <1>3. /\ x = ".git" \/ f[p].kind = "link" => B = {}
        /\ x # ".git" /\ f[p].kind = "file" => B = {p}
        /\ x # ".git" /\ f[p].kind = "dir" => B = Below(f, p)
    BY <1>1, BranchIs
  <1>4. /\ f[p].kind \in {"dir", "file", "link"} /\ p \in Seq(STRING)
        /\ f[p].kind = "file" => f[p].text \in Seq(Char)
    BY PathsKnown
  <1>5. Len(acc.hits) \in Nat
    BY LenProperties DEF Found
  <1>6. IsFiniteSet(S)
    BY FS_Subset DEF Searchable, Ordered, WellMade
  <1> DEFINE halt == Len(acc.hits) >= n \/ x = ".git" \/ f[p].kind = "link"
  <1>7. v = IF halt THEN acc
            ELSE IF f[p].kind = "dir" THEN inside[p][acc] ELSE SearchFile(f, p, pattern, n, acc)
    BY <1>2 DEF Visit
  <1>8. f[p].kind = "dir" => Adds(f, pattern, n, inside[p], p)
    BY DEF Dirs
  <1> SUFFICES all
    OBVIOUS
  <1> HIDE DEF v, p, B
  <1>9. CASE ~(Len(acc.hits) < n)
    <2>1. v = acc
      BY <1>5, <1>7, <1>9
    <2>2. PathsBefore(S, B)
      BY DEF B
    <2> QED
      BY <1>9, <2>1, <2>2, FullGathered
  <1>10. CASE x = ".git" \/ f[p].kind = "link"
    <2>1. v = acc /\ S \union B = S
      BY <1>3, <1>7, <1>10
    <2> QED
      BY <2>1
  <1>11. CASE Len(acc.hits) < n /\ x # ".git" /\ f[p].kind = "file"
    <2>1. v = SearchFile(f, p, pattern, n, acc)
      BY <1>5, <1>7, <1>11
    <2>2. B = {p} /\ p \notin S /\ PathsBefore(S, {p})
      BY <1>3, <1>11 DEF B
    <2>3. Gathers(f, pattern, n, SearchFile(f, p, pattern, n, acc), S \union {p})
      BY <1>4, <1>6, <1>11, <2>2, FileGathered
    <2> QED
      BY <2>1, <2>2, <2>3
  <1>12. CASE Len(acc.hits) < n /\ x # ".git" /\ f[p].kind = "dir"
    <2>1. v = inside[p][acc]
      BY <1>5, <1>7, <1>12
    <2>2. B = Below(f, p)
      BY <1>3, <1>12
    <2>3. PathsBefore(S, B) /\ S \intersect B = {}
      BY DEF B
    <2>4. Gathers(f, pattern, n, inside[p][acc], S \union Below(f, p))
      BY <1>8, <1>12, <2>2, <2>3 DEF Adds
    <2> QED
      BY <2>1, <2>2, <2>4
  <1> QED
    BY <1>4, <1>9, <1>10, <1>11, <1>12

\* All entries of a directory add what is below it.
LEMMA SweepAdds ==
    ASSUME SearchAssumption, NEW f, Searchable(f), NEW at \in Dirs(f), NEW pattern, NEW n \in Nat,
           NEW acc \in Found, NEW inside, Inner(f, at, inside),
           \A x \in Name : Append(at, x) \in Dirs(f)
                           => Adds(f, pattern, n, inside[Append(at, x)], Append(at, x)),
           NEW S \in SUBSET DOMAIN f, Gathers(f, pattern, n, acc, S),
           PathsBefore(S, Below(f, at)), S \intersect Below(f, at) = {}
    PROVE  Gathers(f, pattern, n, Sweep(f, at, pattern, n, acc, inside), S \union Below(f, at))
  <1> DEFINE names == Children(f, at)
             m == Len(names)
             T(k) == Swept(f, at, names, k)
             B(k) == Branch(f, at, names[k])
  <1>1. PICK upto : Sweeps(f, at, pattern, n, acc, inside, upto)
    BY SweepSteps
  <1>2. Entries(f, at, names)
    BY ChildrenAre DEF Dirs, IsA
  <1>3. /\ m \in Nat
        /\ \A k \in 1..m : names[k] \in Name /\ Append(at, names[k]) \in DOMAIN f
    BY <1>2 DEF Entries
  <1>4. T(0) = {} /\ T(m) = Below(f, at)
    BY <1>2, SweptOn
  <1>5. ASSUME NEW k \in 1..m
        PROVE  /\ T(k) = T(k - 1) \union B(k)
               /\ PathsBefore(T(k - 1), B(k)) /\ T(k - 1) \intersect B(k) = {}
    BY <1>2, SweptOn
  <1>6. /\ Below(f, at) \subseteq DOMAIN f
        /\ \A k : T(k) \subseteq Below(f, at)
        /\ \A k : B(k) \subseteq Below(f, at)
    BY DEF Below, Files, Swept, Branch
  <1>7. /\ Sweep(f, at, pattern, n, acc, inside) = upto[m] /\ upto[0] = acc
        /\ \A k \in 1..m :
               upto[k] = Visit(f, Append(at, names[k]), pattern, n, upto[k - 1], inside)
        /\ \A k \in 0..m : upto[k] \in Found
    BY <1>1 DEF Sweeps
  <1> DEFINE Done(k) == Gathers(f, pattern, n, upto[k], S \union T(k))
             D == {k \in Nat : k <= m => Done(k)}
  <1> HIDE DEF names, m, T
  <1>8. ASSUME NEW k \in 1..m, Done(k - 1) PROVE Done(k)
    <2> DEFINE p == Append(at, names[k])
               U == S \union T(k - 1)
    <2>1. names[k] \in Name /\ p \in DOMAIN f /\ k - 1 \in 0..m
      BY <1>3
    <2>2. U \in SUBSET DOMAIN f
      BY <1>6
    <2>3. PathsBefore(U, B(k))
      BY <1>5, <1>6 DEF PathsBefore
    <2>4. U \intersect B(k) = {}
      BY <1>5, <1>6
    <2>5. U \union B(k) = S \union T(k)
      BY <1>5
    <2>6. p \in Dirs(f) => Adds(f, pattern, n, inside[p], p)
      BY <2>1
    <2>7. upto[k - 1] \in Found /\ Gathers(f, pattern, n, upto[k - 1], U)
      BY <1>7, <1>8, <2>1
    <2> HIDE DEF U
    <2>8. Gathers(f, pattern, n, Visit(f, p, pattern, n, upto[k - 1], inside), U \union B(k))
      BY <2>1, <2>2, <2>3, <2>4, <2>6, <2>7, VisitAdds
    <2> QED
      BY <1>7, <2>5, <2>8
  <1>9. Done(0)
    <2>1. S \union T(0) = S
      BY <1>4
    <2> QED
      BY <1>7, <2>1
  <1> HIDE DEF Done
  <1>10. ASSUME NEW k \in Nat, k \in D PROVE k + 1 \in D
    <2> SUFFICES ASSUME k + 1 <= m PROVE Done(k + 1)
      OBVIOUS
    <2> DEFINE l == k + 1
    <2>1. l \in 1..m /\ l - 1 = k /\ k <= m
      BY <1>3
    <2>2. Done(k)
      BY <1>10, <2>1
    <2> HIDE DEF l
    <2>3. Done(l)
      BY <1>8, <2>1, <2>2
    <2> QED
      BY <2>3 DEF l
  <1>11. m \in D
    <2>1. 0 \in D
      BY <1>9
    <2> HIDE DEF D
    <2> QED
      BY <1>3, <1>10, <2>1, SetInduction
  <1> QED
    BY <1>3, <1>4, <1>7, <1>11 DEF Done

\* And so does the walk, at every directory.
LEMMA WalkAdds ==
    ASSUME SearchAssumption, NEW f, Searchable(f), NEW pattern, NEW n \in Nat,
           NEW w, Walks(f, pattern, n, w), NEW dir \in Dirs(f)
    PROVE  Adds(f, pattern, n, w[dir], dir)
  <1>1. PICK h \in Nat : \A p \in DOMAIN f : Len(p) <= h
    BY DepthBounded
  <1> DEFINE L(k) == Deep(f, h, k)
             Fine(at) == w[at] \in [Found -> Found] /\ Adds(f, pattern, n, w[at], at)
             D == {k \in Nat : \A at \in L(k) : Fine(at)}
  <1>2. /\ L(0) = {} /\ L(h + 1) = Dirs(f)
        /\ \A k \in Nat : L(k) \subseteq Dirs(f)
        /\ \A k \in Nat, x \in Name : \A at \in L(k + 1) :
               Append(at, x) \in Dirs(f) => Append(at, x) \in L(k)
    <2>1. \A k \in Nat : L(k) \subseteq Dirs(f)
      BY DEF Deep
    <2> QED
      BY <1>1, <2>1, DeepIs
  <1> HIDE DEF L
  <1>3. \A at \in Dirs(f) : w[at] = [found \in Found |-> Sweep(f, at, pattern, n, found, w)]
    BY DEF Walks
  <1>4. ASSUME NEW k \in Nat, \A at \in L(k) : Fine(at), NEW at \in L(k + 1) PROVE Fine(at)
    <2>1. at \in Dirs(f)
      BY <1>2
    <2>2. \A x \in Name : Append(at, x) \in Dirs(f) => Fine(Append(at, x))
      BY <1>2, <1>4
    <2>3. Inner(f, at, w)
      BY <2>2 DEF Inner
    <2>4. ASSUME NEW found \in Found PROVE Sweep(f, at, pattern, n, found, w) \in Found
      BY <2>1, <2>3, SweepFound
    <2>5. w[at] \in [Found -> Found]
      BY <1>3, <2>1, <2>4
    <2>6. Adds(f, pattern, n, w[at], at)
      <3> SUFFICES ASSUME NEW x \in Found, NEW S \in SUBSET DOMAIN f,
                          Gathers(f, pattern, n, x, S), PathsBefore(S, Below(f, at)),
                          S \intersect Below(f, at) = {}
                   PROVE  Gathers(f, pattern, n, w[at][x], S \union Below(f, at))
        BY DEF Adds
      <3>1. \A y \in Name : Append(at, y) \in Dirs(f)
                            => Adds(f, pattern, n, w[Append(at, y)], Append(at, y))
        BY <2>2
      <3>2. Gathers(f, pattern, n, Sweep(f, at, pattern, n, x, w), S \union Below(f, at))
        BY <2>1, <2>3, <3>1, SweepAdds
      <3>3. w[at][x] = Sweep(f, at, pattern, n, x, w)
        BY <1>3, <2>1
      <3> QED
        BY <3>2, <3>3
    <2> QED
      BY <2>5, <2>6
  <1> HIDE DEF Fine
  <1>5. h + 1 \in D
    <2>1. 0 \in D /\ \A k \in Nat : k \in D => k + 1 \in D
      BY <1>2, <1>4
    <2> HIDE DEF D
    <2> QED
      BY <2>1, SetInduction
  <1> QED
    BY <1>2, <1>5 DEF Fine

\* No path comes before itself.
LEMMA NotBefore ==
    ASSUME SearchAssumption, NEW f, Searchable(f), NEW p \in DOMAIN f
    PROVE  ~Lexical(p, p)
  <1>1. Len(p) \in Nat /\ \A i \in 1..Len(p) : p[i] \in ToSet(NameOrder)
    BY PathsKnown
  <1>2. ~IsStrictPrefix(p, p)
    BY DEF IsStrictPrefix
  <1>3. Min({Len(p), Len(p)}) = Len(p)
    BY <1>1, LesserOf
  <1>4. ASSUME NEW k \in 1..Len(p) PROVE ~(Rank(p[k]) < Rank(p[k]))
    <2> DEFINE r == Rank(p[k])
    <2>1. r \in Nat
      BY <1>1, RankIs
    <2> HIDE DEF r
    <2>2. ~(r < r)
      BY <2>1
    <2> QED
      BY <2>2 DEF r
  <1> QED
    BY <1>2, <1>3, <1>4 DEF Lexical

\* The hits of a tree: as many as can be counted, and none before itself.
LEMMA HitsCounted ==
    ASSUME SearchAssumption, NEW f, Searchable(f), NEW pattern, NEW S \in SUBSET Files(f)
    PROVE  /\ IsFiniteSet(AllHits(f, pattern, S))
           /\ \A h \in AllHits(f, pattern, S) : ~Earlier(h, h)
  <1> DEFINE T == S \ Heavy(f, S)
             g == [p \in T |-> Own(f, p, pattern)]
             Sets == {Own(f, p, pattern) : p \in T}
  <1>1. S \subseteq DOMAIN f /\ \A p \in T : f[p].kind = "file"
    BY DEF Files
  <1>2. IsFiniteSet(T)
    BY <1>1, FS_Subset DEF Searchable, Ordered, WellMade
  <1>3. \A p \in T : f[p].text \in Seq(Char) /\ ~Lexical(p, p)
    BY <1>1, PathsKnown, NotBefore
  <1>4. AllHits(f, pattern, S) = UNION Sets
    BY DEF AllHits
  <1> HIDE DEF T
  <1>5. IsFiniteSet(Sets)
    <2>1. g \in Surjection(T, Sets)
      BY DEF Surjection
    <2> HIDE DEF g, Sets
    <2> QED
      BY <1>2, <2>1, FS_Surjection
  <1>6. ASSUME NEW A \in Sets PROVE IsFiniteSet(A)
    <2>1. PICK p \in T : A = Own(f, p, pattern)
      OBVIOUS
    <2>2. 0 \in Nat
      OBVIOUS
    <2> QED
      BY <1>3, <2>1, <2>2, OwnFirsts
  <1>7. ASSUME NEW h \in AllHits(f, pattern, S) PROVE ~Earlier(h, h)
    <2>1. PICK p \in T : h \in Own(f, p, pattern)
      BY <1>4
    <2>2. PICK i \in ToSet(Hits(f, p, pattern)) : h = Hit(p, i)
      BY <2>1 DEF Own
    <2>3. i \in Nat
      BY <1>3, HitsAscend DEF ToSet
    <2>4. h.path = p /\ h.line = i
      BY <2>2, HitIs
    <2>5. ~(i < i)
      BY <2>3
    <2> QED
      BY <1>3, <2>4, <2>5 DEF Earlier
  <1> HIDE DEF Sets
  <1> QED
    BY <1>4, <1>5, <1>6, <1>7, FS_UNION

\* The first n are n of them or all.
LEMMA FirstsCounted ==
    ASSUME NEW A, IsFiniteSet(A), \A h \in A : ~Earlier(h, h), NEW n \in Nat,
           NEW hits, Firsts(hits, A, n)
    PROVE  Len(hits) = Min({n, Cardinality(A)})
  <1> DEFINE m == Len(hits)
             H == ToSet(hits)
             c == Cardinality(A)
  <1>1. hits \in Seq(A) /\ m \in Nat /\ DOMAIN hits = 1..m /\ \A i \in 1..m : hits[i] \in A
    BY LenProperties, ElementOfSeq DEF Firsts
  <1>2. H \subseteq A /\ hits \in [1..m -> H]
    <2>1. H \subseteq A /\ \A i \in 1..m : hits[i] \in H
      BY <1>1 DEF ToSet
    <2>2. hits \in [1..m -> A]
      BY <1>1, LenProperties
    <2> QED
      BY <2>1, <2>2
  <1>3. hits \in Injection(1..m, H)
    <2>1. ASSUME NEW i \in 1..m, NEW j \in 1..m, i < j PROVE hits[i] # hits[j]
      BY <1>1, <2>1 DEF Firsts
    <2>2. ASSUME NEW i \in 1..m, NEW j \in 1..m, hits[i] = hits[j] PROVE i = j
      <3>1. i < j \/ j < i \/ i = j
        OBVIOUS
      <3> QED
        BY <2>1, <2>2, <3>1
    <2> QED
      BY <1>2, <2>2 DEF Injection, IsInjective
  <1>4. hits \in Surjection(1..m, H)
    BY <1>1, <1>2 DEF Surjection, ToSet
  <1>5. IsFiniteSet(1..m) /\ Cardinality(1..m) = m
    <2>1. m \in Nat
      BY <1>1
    <2> HIDE DEF m
    <2> QED
      BY <2>1, FS_Interval
  <1>6. Cardinality(H) = m /\ IsFiniteSet(H)
    <2> HIDE DEF m, H
    <2> QED
      BY <1>3, <1>4, <1>5, FS_Surjection
  <1>7. c \in Nat /\ m <= c /\ (m = c => H = A)
    <2>1. c \in Nat
      BY FS_CardinalityType
    <2>2. Cardinality(H) <= c /\ (c = Cardinality(H) => A = H)
      BY <1>2, FS_Subset
    <2> QED
      BY <1>6, <2>1, <2>2
  <1>8. m <= n
    BY DEF Firsts
  <1>9. H # A => m = n
    BY <1>2 DEF Firsts
  <1>10. H = A => m = c
    BY <1>6
  <1>11. Min({n, c}) \in {n, c} /\ Min({n, c}) <= n /\ Min({n, c}) <= c /\ Min({n, c}) \in Nat
    BY <1>7, LesserOf
  <1> DEFINE l == Min({n, c})
  <1> HIDE DEF m, c, H, l
  <1>12. l \in {n, c} /\ l <= n /\ l <= c /\ l \in Nat
    BY <1>11 DEF l
  <1>13. m = n \/ m = c
    BY <1>9, <1>10
  <1>14. m = l
    BY <1>1, <1>7, <1>8, <1>12, <1>13
  <1> QED
    BY <1>14 DEF m, l, c

\* Below a file there is the file.
LEMMA BelowFile ==
    ASSUME NEW f, Searchable(f), NEW at, IsA(f, at, "file")
    PROVE  Below(f, at) = {at}
  <1>1. at \in Seq(Name) /\ Len(at) \in Nat /\ f[at].kind = "file" /\ at \in DOMAIN f
    BY PathsKnown DEF IsA
  <1>2. ASSUME NEW p \in Below(f, at) PROVE p = at
    <2>1. p \in DOMAIN f /\ In(at, p)
      BY DEF Below, Files
    <2>2. p \in Seq(Name) /\ Len(p) \in Nat
      BY <2>1, PathsKnown
    <2>3. Len(at) <= Len(p) /\ SubSeq(p, 1, Len(at)) = at
      <3>1. SubSeq(at, 1, Len(at)) = at
        BY <1>1, SubSeqFull
      <3> QED
        BY <2>1, <3>1 DEF In, IsPrefix
    <2>4. CASE Len(at) = Len(p)
      <3>1. SubSeq(p, 1, Len(p)) = p
        BY <2>2, SubSeqFull
      <3> QED
        BY <2>3, <2>4, <3>1
    <2>5. CASE Len(at) # Len(p)
      <3> DEFINE k == Len(at)
      <3>1. k \in 0..(Len(p) - 1)
        BY <1>1, <2>2, <2>3, <2>5
      <3> HIDE DEF k
      <3>2. IsA(f, SubSeq(p, 1, k), "dir")
        BY <2>1, <3>1, PathsKnown
      <3> QED
        BY <1>1, <2>3, <3>2 DEF IsA, k
    <2> QED
      BY <2>4, <2>5
  <1>3. at \in Below(f, at)
    <2>1. In(at, at)
      BY <1>1 DEF In, IsPrefix
    <2>2. ToSet(Rest(at, Len(at))) = {}
      <3>1. Rest(at, Len(at)) = <<>>
        BY <1>1, NoneAndAll
      <3>2. ToSet(<<>>) = {}
        BY DEF ToSet
      <3> QED
        BY <3>1, <3>2
    <2> QED
      BY <1>1, <2>1, <2>2 DEF Below, Files
  <1> QED
    BY <1>2, <1>3

\* What a search is asked for, and the files it is to search.
Limit == Max({1, Min({req.limit, MaxHits})})
Scope == IF Target.err = "ok" THEN Below(fs, Target.path) ELSE {}

\* A search sees a tree nobody has changed, and what it gathers there it answers.
SearchInv ==
    /\ Called
    /\ req.tool = "search" =>
           /\ pc \in {"start", "done"}
           /\ ~meddled => fs = before
           /\ pc = "done" /\ status = "ok" /\ ~meddled
              => Gathers(fs, req.pattern, Limit, answer, Scope)

LEMMA SearchTyped ==
    ASSUME FilesAssumption, WritesAssumption, SearchAssumption, Called, req.tool = "search"
    PROVE  Searchable(before) /\ Path \in Seq(Name) /\ Limit \in Nat /\ 1 <= Limit
  <1>1. PICK scene \in Scenes : before \in scene.trees /\ req \in scene.calls
    BY DEF Called
  <1>2. Searchable(before)
    <2>1. DOMAIN before \subseteq Seq(STRING)
      BY <1>1 DEF WritesAssumption
    <2>2. \A p \in DOMAIN before \ {<<>>} : Last(p) \in ToSet(NameOrder)
      BY <1>1 DEF SearchAssumption
    <2> QED
      BY <2>1, <2>2, TreesOrdered DEF Searchable
  <1>3. req.path.names \in Seq(STRING) /\ req.limit \in Nat /\ MaxHits \in Nat
    BY <1>1 DEF SearchAssumption
  <1>4. Path \in Seq(Name)
    BY <1>3, NamesAre, PathTyped
  <1>5. Limit \in Nat /\ 1 <= Limit
    <2> DEFINE m == Min({req.limit, MaxHits})
               S == {1, m}
    <2>1. m \in Nat
      BY <1>3, LesserOf
    <2> HIDE DEF m
    <2>2. S \in SUBSET Nat /\ S # {} /\ m + 1 \in Nat /\ \A n \in S : n <= m + 1
      BY <2>1
    <2>3. 1 \in S /\ Limit = Max(S)
      BY DEF Limit, m
    <2> HIDE DEF S
    <2>4. Max(S) \in S /\ \A n \in S : n <= Max(S)
      BY <2>2, MaxMember
    <2> QED
      BY <2>2, <2>3, <2>4
  <1> QED
    BY <1>2, <1>4, <1>5

\* A search of a file, of what is below a directory, or of nothing.
LEMMA SearchGathers ==
    ASSUME SearchAssumption, FilesAssumption, Searchable(fs), Path \in Seq(Name),
           NEW n \in Nat, 1 <= n, NEW pattern, NEW none, none = [hits |-> <<>>, skipped |-> 0]
    PROVE  Gathers(fs, pattern, n,
                   IF Target.err # "ok" THEN none
                   ELSE IF fs[Target.path].kind = "file"
                   THEN SearchFile(fs, Target.path, pattern, n, none)
                   ELSE SearchDir(fs, Target.path, pattern, n, none), Scope)
  <1> DEFINE at == Target.path
  <1>1. Gathers(fs, pattern, n, none, {}) /\ none \in Found /\ Len(none.hits) < n
    <2>1. Gathers(fs, pattern, n, none, {}) /\ none.hits = <<>>
      BY NoneGathered
    <2>2. Len(<<>>) = 0
      BY EmptySeq
    <2> QED
      BY <2>1, <2>2 DEF Gathers
  <1>2. Target.err = "ok" => at \in DOMAIN fs /\ fs[at].kind # "link"
    BY RealArrived DEF Arrived, Target, Searchable, Ordered
  <1>3. \A T : PathsBefore({}, T) /\ {} \intersect T = {} /\ {} \union T = T
    BY DEF PathsBefore
  <1>4. CASE Target.err # "ok"
    BY <1>1, <1>4 DEF Scope
  <1>5. CASE Target.err = "ok" /\ fs[at].kind = "file"
    <2>1. at \in Seq(STRING) /\ fs[at].text \in Seq(Char) /\ IsFiniteSet({}) /\ at \notin {}
      BY <1>2, <1>5, PathsKnown, FS_EmptySet
    <2>2. Scope = {at}
      BY <1>2, <1>5, BelowFile DEF Scope, IsA
    <2> HIDE DEF at
    <2>3. Gathers(fs, pattern, n, SearchFile(fs, at, pattern, n, none), {} \union {at})
      BY <1>1, <1>3, <2>1, FileGathered
    <2>4. Gathers(fs, pattern, n, SearchFile(fs, at, pattern, n, none), Scope)
      BY <1>3, <2>2, <2>3
    <2> QED
      BY <1>5, <2>4 DEF at
  <1>6. CASE Target.err = "ok" /\ fs[at].kind # "file"
    <2>1. at \in Dirs(fs)
      BY <1>2, <1>6, PathsKnown DEF Dirs
    <2> HIDE DEF at
    <2>2. PICK w : Walks(fs, pattern, n, w) /\ SearchDir(fs, at, pattern, n, none) = w[at][none]
      BY DirWalks
    <2>3. Adds(fs, pattern, n, w[at], at)
      BY <2>1, <2>2, WalkAdds
    <2>4. Gathers(fs, pattern, n, w[at][none], {} \union Below(fs, at))
      BY <1>1, <1>3, <2>3 DEF Adds
    <2>5. Scope = Below(fs, at)
      BY <1>6 DEF Scope, at
    <2>6. Gathers(fs, pattern, n, SearchDir(fs, at, pattern, n, none), Scope)
      BY <1>3, <2>2, <2>4, <2>5
    <2> QED
      BY <1>6, <2>6 DEF at
  <1> HIDE DEF at
  <1> QED
    BY <1>4, <1>5, <1>6

\* Only a search answers, and the other process is all that changes the tree under it.
LEMMA SearchSteps ==
    ASSUME FilesAssumption, WritesAssumption, SearchAssumption, SearchInv, [Next]_vars
    PROVE  SearchInv'
  <1>1. before' = before /\ req' = req
    BY DEF Next, vars, WriteStart, CreateLevel, ResolveAgain, WriteLook, Check, Save, EditStart,
           EditRead, ViewWhole, ViewNext, Search, ExecStart, Drain, Exit, Meddle, tree
  <1>2. req.tool # "search" \/ Search \/ Meddle \/ UNCHANGED vars
    BY DEF SearchInv, Next, WriteStart, CreateLevel, ResolveAgain, WriteLook, Check, Save,
           EditStart, EditRead, ViewWhole, ViewNext, ExecStart, Drain, Exit
  <1>3. CASE req.tool # "search"
    BY <1>1, <1>3 DEF SearchInv, Called
  <1>4. CASE Search
    <2>1. fs' = fs /\ meddled' = meddled /\ pc' = "done" /\ req.tool = "search"
      BY <1>4 DEF Search, tree, End, Refused
    <2>2. Scope' = Scope /\ Limit' = Limit
      BY <1>1, <2>1 DEF Scope, Limit, Target, Path
    <2>3. ASSUME status' = "ok", ~meddled PROVE Gathers(fs, req.pattern, Limit, answer', Scope)
      <3> DEFINE none == [hits |-> <<>>, skipped |-> 0]
      <3>1. Searchable(fs) /\ Path \in Seq(Name) /\ Limit \in Nat /\ 1 <= Limit
        BY <2>1, <2>3, SearchTyped DEF SearchInv
      <3>2. answer' = IF Target.err # "ok" THEN none
                      ELSE IF fs[Target.path].kind = "file"
                      THEN SearchFile(fs, Target.path, req.pattern, Limit, none)
                      ELSE SearchDir(fs, Target.path, req.pattern, Limit, none)
        BY <1>4, <2>3 DEF Search, Refused, End, Limit
      <3>3. none = [hits |-> <<>>, skipped |-> 0]
        OBVIOUS
      <3> HIDE DEF none
      <3> QED
        BY <3>1, <3>2, <3>3, SearchGathers
    <2>4. status' = "ok" /\ ~meddled' => Gathers(fs', req'.pattern, Limit', answer', Scope')
      BY <1>1, <2>1, <2>2, <2>3
    <2> QED
      BY <1>1, <2>1, <2>4 DEF SearchInv, Called, Gathers, Firsts, AllHits, Own, Hit, Heavy, Hits
  <1>5. CASE Meddle
    BY <1>1, <1>5 DEF SearchInv, Called, Meddle
  <1>6. CASE UNCHANGED vars
    <2>1. Scope' = Scope /\ Limit' = Limit
      BY <1>6 DEF Scope, Limit, Target, Path, vars
    <2> QED
      BY <1>1, <1>6, <2>1 DEF SearchInv, Called, vars
  <1> QED
    BY <1>2, <1>3, <1>4, <1>5, <1>6

\* The answer of a search is the first hits, in order, of all lines of the regular files below its
\* base that are not in .git and not too big to read, and if there are fewer than asked for, every
\* file left out for its size is counted: for every tree of the assumptions, every pattern, limit
\* and cap (search.rs).
THEOREM SearchExactAlways == Spec => []SearchExact
  <1>1. Init => SearchInv
    BY DEF Init, SearchInv, Called
  <1>2. SearchInv /\ [Next]_vars => SearchInv'
    BY FilesAssumption, WritesAssumption, SearchAssumption, SearchSteps
  <1>3. SearchInv => SearchExact
    <2> SUFFICES ASSUME SearchInv, pc = "done", req.tool = "search", status = "ok", ~meddled
                 PROVE  SearchExact
      BY DEF SearchExact
    <2> DEFINE below == {p \in Files(fs) :
                           /\ Target.err = "ok" /\ In(Target.path, p)
                           /\ ".git" \notin ToSet(SubSeq(p, Len(Target.path) + 1, Len(p)))}
               big == {p \in below : TooBig(fs[p].text, ReadCap)}
               all == UNION {{[path |-> p, line |-> i] : i \in ToSet(Hits(fs, p, req.pattern))} :
                             p \in below \ big}
               hits == answer.hits
    <2>1. Searchable(fs) /\ Limit \in Nat /\ Gathers(fs, req.pattern, Limit, answer, Scope)
      BY FilesAssumption, WritesAssumption, SearchAssumption, SearchTyped DEF SearchInv
    <2>2. below = Scope
      BY DEF Scope, Below, Rest
    <2> HIDE DEF below
    <2>3. big = Heavy(fs, Scope)
      BY <2>2 DEF Heavy
    <2> HIDE DEF big
    <2>4. all = AllHits(fs, req.pattern, Scope)
      BY <2>2, <2>3 DEF AllHits, Own, Hit
    <2> HIDE DEF all
    <2>5. Firsts(hits, all, Limit) /\ (Len(hits) < Limit => answer.skipped = Cardinality(big))
      BY <2>1, <2>3, <2>4 DEF Gathers
    <2>6. IsFiniteSet(all) /\ \A h \in all : ~Earlier(h, h)
      <3>1. Scope \in SUBSET Files(fs)
        BY DEF Scope, Below
      <3> QED
        BY <2>1, <2>4, <3>1, SearchAssumption, HitsCounted
    <2> HIDE DEF hits
    <2>7. Len(hits) = Min({Limit, Cardinality(all)})
      BY <2>1, <2>5, <2>6, FirstsCounted
    <2>8. ToSet(hits) \subseteq all
      <3>1. hits \in Seq(all) /\ DOMAIN hits = 1..Len(hits) /\ \A i \in 1..Len(hits) : hits[i] \in all
        BY <2>5, LenProperties, ElementOfSeq DEF Firsts
      <3> QED
        BY <3>1 DEF ToSet
    <2>9. /\ \A i, j \in DOMAIN hits : i < j => Earlier(hits[i], hits[j])
          /\ \A h \in all \ ToSet(hits) : \A i \in DOMAIN hits : Earlier(hits[i], h)
      BY <2>5 DEF Firsts
    <2> QED
      BY <2>5, <2>7, <2>8, <2>9 DEF SearchExact, Limit, hits, all, big, below
  <1> QED
    BY <1>1, <1>2, <1>3, PTL DEF Spec

=============================================================================
