------------------------------ MODULE ToolText ------------------------------
(***************************************************************************)
(* What the standard tools do with text: find and replace a hunk, cut a    *)
(* file into pages, keep the two ends of a flood of output and condense    *)
(* what is left.  A text is a sequence of characters; for the output of a  *)
(* command the unit is a line, of which only its class is known: the cuts  *)
(* of a flood fall between lines.                                          *)
(***************************************************************************)
EXTENDS Integers, Sequences, SequencesExt, FiniteSetsExt

CONSTANTS
    ViewCap, OutCap,       \* the read cap of a page in bytes, its cap in characters
    HeadCap, TailCap,      \* what a pipe keeps of each end
    KeptCap, TailLines     \* the signal lines of an answer, and the tail if there are none

ASSUME TextAssumption ==
    /\ {ViewCap, OutCap, TailLines} \subseteq Nat
    /\ HeadCap \in Nat /\ TailCap \in Nat /\ KeptCap \in Nat \ {0}
    /\ TailLines <= TailCap         \* TAIL_BYTES <= PIPE_TAIL_CAP

NL == "\n"
White(c) == c \in {" ", NL}
Bytes(c) == IF c = "w" THEN 2 ELSE 1    \* w stands for the wide characters

-----------------------------------------------------------------------------
(* edit: apply_hunk *)

Char == STRING \ {"none"}
NoText == <<"none">>

Occurs(t, s) == {i \in 1..(Len(t) - Len(s) + 1) : SubSeq(t, i, i + Len(s) - 1) = s}

\* str::match_indices: from the left, without overlaps.
Matches(t, s) ==
    LET upto[i \in 0..(Len(t) + 1)] ==
            IF i = 0 THEN {}
            ELSE upto[i - 1] \union
                 {m \in {i} \intersect Occurs(t, s) : \A j \in upto[i - 1] : j + Len(s) <= m}
    IN  upto[Len(t) + 1]

\* The k-th of a set of positions, and what of a sequence stands at them.
Place(S, e) == Cardinality({d \in S : d <= e})
Nth(S, k) == CHOOSE e \in S : Place(S, e) = k
Pick(s, S) == [k \in 1..Cardinality(S) |-> s[Nth(S, k)]]

\* collapse_ws: where the characters of the collapsed text come from, and that text.
Origins(t) == {i \in DOMAIN t : ~(White(t[i]) /\ i > 1 /\ White(t[i - 1]))}
Blank(c) == IF White(c) THEN " " ELSE c
Collapse(t) == [k \in 1..Cardinality(Origins(t)) |-> Blank(t[Nth(Origins(t), k)])]

\* A collapsed match ends behind its last character, the k-th, and the whitespace that fell away
\* there.
SpanEnd(t, k) ==
    LET from == Origins(t)
        stop == IF k < Cardinality(from) THEN Nth(from, k + 1) ELSE Len(t) + 1
    IN  Min({e \in (Nth(from, k) + 1)..stop : e = stop \/ ~White(t[e])})

Splice(t, start, end, r) == SubSeq(t, 1, start - 1) \o r \o SubSeq(t, end, Len(t))

\* A bug: the first of several matches will do.
ApplyFirst(t, s, r) ==
    LET exact == Matches(t, s)
    IN  IF exact = {} THEN NoText ELSE Splice(t, Min(exact), Min(exact) + Len(s), r)

ApplyHunk(t, s, r) ==
    LET exact == Matches(t, s)
        n == Collapse(s)
        hits == Matches(Collapse(t), n)
    IN  CASE Cardinality(exact) = 1 -> Splice(t, Min(exact), Min(exact) + Len(s), r)
          [] exact = {} /\ Cardinality(hits) = 1 ->
                 Splice(t, Nth(Origins(t), Min(hits)), SpanEnd(t, Min(hits) + Len(n) - 1), r)
          [] OTHER -> NoText

-----------------------------------------------------------------------------
(* view: pages of whole lines *)

\* str::lines: a final newline opens no line.
Lines(t) ==
    LET ends == {i \in 1..(Len(t) + 1) : IF i <= Len(t) THEN t[i] = NL
                                         ELSE t # <<>> /\ Last(t) # NL}
        start(e) == Max({0} \union {d \in ends : d < e}) + 1
    IN  [k \in 1..Cardinality(ends) |-> SubSeq(t, start(Nth(ends, k)), Nth(ends, k) - 1)]

Weight(t) == FoldLeft(LAMBDA sum, c : sum + Bytes(c), 0, t)

\* The first k of the lines, joined, within both caps.
Fits(lines, k, cap) ==
    LET body == FlattenSeq(SubSeq(lines, 1, k))
        seps == IF k = 0 THEN 0 ELSE k - 1
    IN  Weight(body) + seps <= cap /\ Len(body) + seps <= OutCap

\* A bug: the notice of a cut line names the line itself.
PageAgain(lines, offset, cap) ==
    LET rest == SubSeq(lines, offset, Len(lines))
        k == Max({n \in 0..Len(rest) : Fits(rest, n, cap)})
    IN  [lines |-> [i \in 1..Max({k, 1}) |-> offset + i - 1],
         next |-> IF offset + k <= Len(lines) THEN offset + k ELSE 0]

\* view_page from line offset (which exists): the numbers of the lines it shows, and the offset
\* its notice names.  A first line that does not fit is shown cut.
ViewPage(lines, offset, cap) ==
    LET rest == SubSeq(lines, offset, Len(lines))
        k == Max({n \in 0..Len(rest) : Fits(rest, n, cap)})
        shown == IF k = 0 THEN 1 ELSE k
    IN  [lines |-> [i \in 1..shown |-> offset + i - 1],
         next |-> IF k = 0 \/ offset + k <= Len(lines) THEN offset + shown ELSE 0]

-----------------------------------------------------------------------------
(* exec and test: the words of a command *)

\* split_cmd, a character at a time: a quote runs to its like, a backslash takes the next
\* character as it is wherever it stands, and what falls empty is no word.
Outside == [words |-> <<>>, cur |-> <<>>, quote |-> "none", escaped |-> FALSE, pushed |-> FALSE]
CutWord(s) ==
    IF s.cur # <<>> \/ s.pushed
    THEN [s EXCEPT !.words = Append(@, s.cur), !.cur = <<>>, !.pushed = FALSE] ELSE s
ReadChar(s, c) ==
    IF s.escaped THEN [s EXCEPT !.cur = Append(@, c), !.escaped = FALSE]
    ELSE IF s.quote = c THEN [s EXCEPT !.quote = "none"]
    ELSE IF c = "\\" THEN [s EXCEPT !.escaped = TRUE]
    ELSE IF s.quote = "none" /\ c \in {"'", "\""} THEN [s EXCEPT !.quote = c]
    ELSE IF s.quote = "none" /\ White(c) THEN CutWord(s)
    ELSE [s EXCEPT !.cur = Append(@, c), !.pushed = TRUE]
SplitCmd(cmd) ==
    LET upto[i \in 0..Len(cmd)] == IF i = 0 THEN Outside ELSE ReadChar(upto[i - 1], cmd[i])
    IN  CutWord(upto[Len(cmd)]).words

\* is_shell_op, by the operators < > and |.
ShellOp(word) == word = <<"|">> \/ word[1] \in {"<", ">"}

\* The canonical join, and an allowlist entry it is or goes on from: prefix_allowed.
Joined(words) == Tail(FlattenSeq([i \in DOMAIN words |-> <<" ">> \o words[i]]))
Covers(entry, words) == Joined(words) = entry \/ IsPrefix(entry \o <<" ">>, Joined(words))

-----------------------------------------------------------------------------
(* exec and test: what is kept of the output *)

EmptyPipe == [head |-> <<>>, tail |-> <<>>, total |-> 0]

Ending(s, n) == IF Len(s) <= n THEN s ELSE SubSeq(s, Len(s) - n + 1, Len(s))

\* A bug: the tail is the last chunk.
PushChunk(pipe, chunk) ==
    LET room == Min({HeadCap - Len(pipe.head), Len(chunk)})
    IN  [head |-> pipe.head \o SubSeq(chunk, 1, room),
         tail |-> Ending(SubSeq(chunk, room + 1, Len(chunk)), TailCap),
         total |-> pipe.total + Len(chunk)]

\* BoundedOut::push, once per read.
Push(pipe, chunk) ==
    LET room == Min({HeadCap - Len(pipe.head), Len(chunk)})
    IN  [head |-> pipe.head \o SubSeq(chunk, 1, room),
         tail |-> Ending(pipe.tail \o SubSeq(chunk, room + 1, Len(chunk)), TailCap),
         total |-> pipe.total + Len(chunk)]

Dropped(pipe) == pipe.total - Len(pipe.head) - Len(pipe.tail)

Signal(line) == line.class \in {"generic", "specific"}

\* head_tail: of some positions the first and the last, n in all.
HeadTail(S, n) ==
    {e \in S : \/ Cardinality(S) <= n
               \/ Place(S, e) <= (n + 1) \div 2
               \/ Place(S, e) > Cardinality(S) - n \div 2}

\* pick_kept, when there are more than KeptCap signal lines: the last one, then the specific
\* ones before the generic ones.
PickKept(lines, signals) ==
    LET last == Max(signals)
        before(class) == {i \in signals \ {last} : lines[i].class = class}
        specific == HeadTail(before("specific"), KeptCap - 1)
        generic == HeadTail(before("generic"), KeptCap - 1 - Cardinality(specific))
    IN  {last} \union specific \union generic

\* condense_output: the signal lines, or the tail if there is none; a tail of noise says nothing.
\* The byte budget of the tail is left out: a line has no length here.
Kept(lines) ==
    LET signals == {i \in DOMAIN lines : Signal(lines[i])}
        tail == {i \in DOMAIN lines : i > Len(lines) - TailLines}
    IN  CASE Cardinality(signals) > KeptCap -> PickKept(lines, signals)
          [] signals # {} /\ Cardinality(signals) <= KeptCap -> signals
          [] signals = {} /\ (\E i \in tail : lines[i].class # "noise") -> tail
          [] OTHER -> {}
Condense(lines) == Pick(lines, Kept(lines))

=============================================================================
