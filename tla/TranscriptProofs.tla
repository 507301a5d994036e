--------------------------- MODULE TranscriptProofs ---------------------------
(***************************************************************************)
(* Proofs about Transcript, for any set of call ids, any caps and any      *)
(* number of batches, inputs and checkpoints.                              *)
(*                                                                         *)
(* A row keeps its role, calls and answer for good (RowsKept), and all of  *)
(* it unless directives land on it.  While no answer used an id twice,     *)
(* they land on a row that the same step appends: the ids still open are   *)
(* those of the calls to come (OpenCalls), so every call gets its row.     *)
(***************************************************************************)
EXTENDS Transcript, SequenceTheorems, FiniteSetTheorems, TLAPS

\* The log has as many rows as the transcript, and the same ones.
Mirrored ==
    /\ Len(synced) = Len(items)
    /\ ~dup => synced = items

OpenCalls ==
    pc = "batch" /\ ~dup =>
        /\ batch.at <= Len(batch.calls) + 1
        /\ \A k, l \in DOMAIN batch.calls : k # l => batch.calls[k] # batch.calls[l]
        /\ \A k \in DOMAIN batch.calls : k >= batch.at => batch.calls[k] \in batch.open

\* The kept tail starts at a row that is no tool result.
CutClean == window.keep > 0 => window.keep < Len(items) /\ items[window.keep + 1].role # "tool"

Answer(j, k) == /\ items[j + k].role = "tool"
                /\ items[j + k].answers = items[j].calls[k]

\* The running batch is that of the last assistant row.
Current ==
    pc = "batch" /\ ~dup =>
        /\ batch.at <= Len(items)
        /\ items[Len(items) - batch.at + 1].calls = batch.calls

\* Calls are answered in their order by the rows that follow, but for those of the running batch.
CallsAnswered ==
    pc # "stopped" /\ ~dup =>
        \A j \in DOMAIN items : \A k \in DOMAIN items[j].calls :
            IF j + k \in DOMAIN items THEN Answer(j, k)
            ELSE pc = "batch" /\ j = Len(items) - batch.at + 1

\* Every tool result has its call.
ResultsCalled ==
    pc # "stopped" /\ ~dup =>
        \A i \in DOMAIN items : items[i].role = "tool" =>
            \E j \in 1..i - 1 : i - j \in DOMAIN items[j].calls /\ Answer(j, i - j)

-----------------------------------------------------------------------------
(* Sequences of rows.                                                      *)

\* A sync copies what is new and nothing else.
LEMMA SyncCopies ==
    ASSUME NEW s \in Seq(Rows), NEW rows \in Seq(Rows), Len(s) <= Len(rows)
    PROVE  /\ Copied(s, rows) \in Seq(Rows)
           /\ Len(Copied(s, rows)) = Len(rows)
           /\ (\A i \in 1..Len(s) : rows[i] = s[i]) => Copied(s, rows) = rows
<1> DEFINE new == SubSeq(rows, Len(s) + 1, Len(rows))
           t == s \o new
<1> USE DEF Copied
<1>1. /\ new \in Seq(Rows)
      /\ Len(new) = Len(rows) - Len(s)
      /\ \A i \in 1..Len(rows) - Len(s) : new[i] = rows[Len(s) + i]
  <2>1. \A i \in Len(s) + 1..Len(rows) : rows[i] \in Rows
    BY ElementOfSeq
  <2>2. Len(s) \in Nat /\ Len(rows) \in Nat
    BY LenProperties
  <2> QED
    BY <2>1, <2>2, SubSeqProperties
<1>2. /\ t \in Seq(Rows)
      /\ Len(t) = Len(s) + Len(new)
      /\ \A i \in 1..Len(s) + Len(new) : t[i] = IF i <= Len(s) THEN s[i] ELSE new[i - Len(s)]
  BY <1>1, ConcatProperties
<1>3. Len(s) \in Nat /\ Len(rows) \in Nat
  BY LenProperties
<1>4. Len(t) = Len(rows)
  BY <1>1, <1>2, <1>3
<1>5. ASSUME \A i \in 1..Len(s) : rows[i] = s[i]
      PROVE  t = rows
  <2>1. \A i \in 1..Len(rows) : t[i] = rows[i]
    <3> TAKE i \in 1..Len(rows)
    <3>1. CASE i <= Len(s)
      <4>1. i \in 1..Len(s) /\ i \in 1..Len(s) + Len(new)
        BY <3>1, <1>1, <1>3
      <4> QED BY <4>1, <3>1, <1>2, <1>5
    <3>2. CASE i > Len(s)
      <4>1. i - Len(s) \in 1..Len(rows) - Len(s) /\ i \in 1..Len(s) + Len(new)
        BY <3>2, <1>1, <1>3
      <4>2. t[i] = new[i - Len(s)]
        BY <4>1, <3>2, <1>2, <1>3
      <4>3. Len(s) + (i - Len(s)) = i
        BY <1>3
      <4> QED BY <4>1, <4>2, <4>3, <1>1
    <3> QED BY <3>1, <3>2, <1>3
  <2> QED BY <1>2, <1>4, <2>1, SeqEqual
<1> QED
  BY <1>2, <1>4, <1>5

\* What append_to_tail leaves alone.
LEMMA OnTailKeeps ==
    ASSUME NEW rows \in Seq(Rows), NEW notes \in SUBSET Notes
    PROVE  /\ OnTail(rows, notes) \in Seq(Rows)
           /\ Len(OnTail(rows, notes)) = Len(rows)
           /\ \A i \in DOMAIN rows :
                  /\ OnTail(rows, notes)[i].role = rows[i].role
                  /\ OnTail(rows, notes)[i].calls = rows[i].calls
                  /\ OnTail(rows, notes)[i].answers = rows[i].answers
                  /\ ~IsTail(rows, i) => OnTail(rows, notes)[i] = rows[i]
<1> DEFINE on == OnTail(rows, notes)
<1>1. Len(rows) \in Nat /\ DOMAIN rows = 1..Len(rows)
  BY LenProperties
<1>2. \A i \in DOMAIN rows :
          on[i] = IF IsTail(rows, i) THEN [rows[i] EXCEPT !.notes = @ \cup notes] ELSE rows[i]
  BY DEF OnTail
<1>3. \A i \in DOMAIN rows : rows[i] \in Rows
  BY ElementOfSeq
<1>4. \A i \in DOMAIN rows : on[i] \in Rows
  <2> TAKE i \in DOMAIN rows
  <2>1. CASE IsTail(rows, i)
    <3>1. on[i] = [rows[i] EXCEPT !.notes = @ \cup notes]
      BY <1>2, <2>1
    <3>2. rows[i].notes \cup notes \in SUBSET Notes
      BY <1>3 DEF Rows
    <3>3. rows[i] = [role |-> rows[i].role, calls |-> rows[i].calls,
                     answers |-> rows[i].answers, notes |-> rows[i].notes]
      BY <1>3 DEF Rows
    <3>4. on[i] = [role |-> rows[i].role, calls |-> rows[i].calls,
                   answers |-> rows[i].answers, notes |-> rows[i].notes \cup notes]
      BY <3>1, <3>3
    <3> HIDE DEF on
    <3> QED BY <3>2, <3>4, <1>3 DEF Rows
  <2>2. CASE ~IsTail(rows, i)
    BY <1>2, <1>3, <2>2
  <2> QED BY <2>1, <2>2
<1>5. on = [i \in 1..Len(rows) |-> on[i]]
  BY <1>1 DEF OnTail
<1>6. on \in Seq(Rows)
  BY <1>1, <1>4, <1>5, IsASeq
<1>7. Len(on) = Len(rows)
  BY <1>1, <1>5, <1>6, LenProperties DEF OnTail
<1>8. \A i \in DOMAIN rows : /\ on[i].role = rows[i].role
                             /\ on[i].calls = rows[i].calls
                             /\ on[i].answers = rows[i].answers
                             /\ ~IsTail(rows, i) => on[i] = rows[i]
  BY <1>2, <1>3 DEF Rows
<1> QED
  BY <1>6, <1>7, <1>8

-----------------------------------------------------------------------------
(* The view and its cuts.                                                  *)

WindowFits == window.keep <= Len(items)

\* The view is the rows that were kept, behind the summary row if there is one.
LEMMA ViewRows ==
    ASSUME NEW rows \in Seq(Rows), NEW keep \in Nat, keep <= Len(rows)
    PROVE  /\ ViewOf(rows, keep) \in Seq(Rows)
           /\ Len(ViewOf(rows, keep)) = IF keep = 0 THEN Len(rows) ELSE Len(rows) - keep + 1
           /\ keep = 0 => ViewOf(rows, keep) = rows
           /\ keep > 0 =>
                /\ ViewOf(rows, keep)[1] = UserRow
                /\ \A v \in 2..Len(ViewOf(rows, keep)) :
                       ViewOf(rows, keep)[v] = rows[keep + v - 1]
<1> DEFINE tail == SubSeq(rows, keep + 1, Len(rows))
<1>1. Len(rows) \in Nat /\ \A i \in keep + 1..Len(rows) : rows[i] \in Rows
  BY LenProperties, ElementOfSeq
<1>2. /\ tail \in Seq(Rows)
      /\ Len(tail) = Len(rows) - keep
      /\ \A i \in 1..Len(rows) - keep : tail[i] = rows[keep + i]
  <2>1. /\ tail \in Seq(Rows)
        /\ Len(tail) = IF keep + 1 <= Len(rows) THEN Len(rows) - (keep + 1) + 1
                       ELSE 0
        /\ \A i \in 1..Len(rows) - (keep + 1) + 1 : tail[i] = rows[keep + 1 + i - 1]
    BY <1>1, SubSeqProperties
  <2> QED BY <2>1, <1>1
<1>3. UserRow \in Rows /\ <<UserRow>> \in Seq(Rows) /\ Len(<<UserRow>>) = 1
  BY DEF UserRow, Row, Rows
<1>4. CASE keep = 0
  BY <1>4 DEF ViewOf
<1>5. CASE keep > 0
  <2>1. ViewOf(rows, keep) = <<UserRow>> \o tail
    BY <1>5 DEF ViewOf
  <2>2. /\ ViewOf(rows, keep) \in Seq(Rows)
        /\ Len(ViewOf(rows, keep)) = 1 + Len(tail)
        /\ \A i \in 1..1 + Len(tail) :
               ViewOf(rows, keep)[i] = IF i <= 1 THEN <<UserRow>>[i] ELSE tail[i - 1]
    BY SMTT(30), <2>1, <1>2, <1>3, ConcatProperties
  <2>3. ViewOf(rows, keep)[1] = UserRow
    <3>1. 1 \in 1..1 + Len(tail)
      BY <1>1, <1>2
    <3> QED BY <2>2, <3>1
  <2>4. ASSUME NEW v \in 2..Len(ViewOf(rows, keep))
        PROVE  ViewOf(rows, keep)[v] = rows[keep + v - 1]
    <3>1. v \in 1..1 + Len(tail) /\ ~(v <= 1) /\ v - 1 \in 1..Len(rows) - keep
      BY <2>2, <1>1, <1>2
    <3>2. ViewOf(rows, keep)[v] = tail[v - 1]
      BY <2>2, <3>1
    <3>3. tail[v - 1] = rows[keep + (v - 1)]
      BY <1>2, <3>1
    <3>4. keep + (v - 1) = keep + v - 1
      BY <3>1
    <3> QED BY <3>2, <3>3, <3>4
  <2>5. Len(ViewOf(rows, keep)) = Len(rows) - keep + 1
    BY <2>2, <1>1, <1>2
  <2> HIDE DEF tail
  <2> QED BY <1>5, <2>2, <2>3, <2>4, <2>5
<1> QED
  BY <1>4, <1>5

\* A cut leaves something to summarize and something to keep, from a row that is no tool result.
LEMMA CutsValid ==
    ASSUME items \in Seq(Rows), window.keep \in Nat, WindowFits, NEW cut \in CutPoints(View)
    PROVE  /\ cut \in 1..Len(View) - 1
           /\ KeepFrom(cut) \in Nat \ {0}
           /\ KeepFrom(cut) >= window.keep
           /\ KeepFrom(cut) < Len(items)
           /\ items[KeepFrom(cut) + 1].role # "tool"
<1> USE DEF View, WindowFits
<1>1. cut \in 1..Len(View) - 1 /\ View[cut + 1].role # "tool"
  BY DEF CutPoints
<1>2. Len(items) \in Nat
  BY LenProperties
<1>3. CASE window.keep = 0
  BY <1>1, <1>2, <1>3, ViewRows DEF KeepFrom
<1>4. CASE window.keep > 0
  <2>1. Len(View) = Len(items) - window.keep + 1
    BY <1>4, ViewRows
  <2>2. cut + 1 \in 2..Len(View)
    BY <1>1, <1>2, <2>1
  <2>3. View[cut + 1] = items[window.keep + (cut + 1) - 1]
    BY <1>4, <2>2, ViewRows
  <2>4. KeepFrom(cut) = window.keep + cut - 1 /\ KeepFrom(cut) + 1 = window.keep + (cut + 1) - 1
    BY <1>1, <1>4 DEF KeepFrom
  <2>5. items[KeepFrom(cut) + 1].role # "tool"
    BY <1>1, <2>3, <2>4
  <2>6. /\ KeepFrom(cut) \in Nat \ {0}
        /\ KeepFrom(cut) >= window.keep
        /\ KeepFrom(cut) < Len(items)
    BY <1>1, <1>2, <1>4, <2>1, <2>4
  <2> QED BY <1>1, <2>5, <2>6
<1> QED
  BY <1>3, <1>4

-----------------------------------------------------------------------------
(* Types.                                                                  *)

\* A queue of directives stays one.
LEMMA PushTyped ==
    ASSUME NEW queue \in Seq(Notes), NEW text \in Notes, NEW due \in BOOLEAN
    PROVE  PushIf(due, queue, text) \in Seq(Notes)
<1>1. CASE Len(queue) >= DirectiveCap
  <2>1. queue # <<>>
    BY <1>1, TranscriptAssumption
  <2>2. Tail(queue) \in Seq(Notes)
    BY <2>1, HeadTailProperties
  <2> QED BY <1>1, <2>2, AppendProperties DEF PushIf, Push
<1>2. CASE ~(Len(queue) >= DirectiveCap)
  BY <1>2, AppendProperties DEF PushIf, Push
<1> QED
  BY <1>1, <1>2

\* What settle_tool_tail does to the rows is OnTail.
LEMMA SettleTyped ==
    ASSUME TypeOK, NEW rows \in Seq(Rows), NEW actions, NEW edits, NEW wrapDue \in BOOLEAN,
           Settle(rows, actions, edits, wrapDue)
    PROVE  /\ \E notes \in SUBSET Notes : items' = OnTail(rows, notes)
           /\ notice' \in [queue : Seq(Notes), sent : SUBSET OneShots]
<1> DEFINE half == Due("half", actions, edits)
           late == Due("late", actions, edits)
           wrap == HasTail(rows) /\ NudgeDue(wrapDue)
           queue == PushIf(late, PushIf(half, notice.queue, "half"), "late")
           texts == {queue[k] : k \in DOMAIN queue} \cup (IF wrap THEN {"wrap"} ELSE {})
           sent == {text \in OneShots : \/ text = "half" /\ half
                                        \/ text = "late" /\ late
                                        \/ text = "wrap" /\ wrap}
<1>1. notice.queue \in Seq(Notes) /\ notice.sent \in SUBSET OneShots
  BY DEF TypeOK
<1>2. half \in BOOLEAN /\ late \in BOOLEAN
  BY DEF Due
<1>3. "half" \in Notes /\ "late" \in Notes /\ "wrap" \in Notes
  BY DEF Notes, OneShots
<1>4. items' = OnTail(rows, texts)
      /\ notice' = [queue |-> IF HasTail(rows) THEN <<>> ELSE queue, sent |-> notice.sent \cup sent]
  BY DEF Settle
<1>5. sent \in SUBSET OneShots
  OBVIOUS
<1>6. queue \in Seq(Notes)
  <2> HIDE DEF half, late
  <2>1. PushIf(half, notice.queue, "half") \in Seq(Notes)
    BY <1>1, <1>2, <1>3, PushTyped
  <2> QED BY <2>1, <1>2, <1>3, PushTyped
<1> HIDE DEF half, late, wrap, queue, sent
<1>7. texts \in SUBSET Notes
  <2>1. \A k \in DOMAIN queue : queue[k] \in Notes
    BY <1>6, ElementOfSeq, LenProperties
  <2> QED BY <2>1, <1>3
<1>8. notice' \in [queue : Seq(Notes), sent : SUBSET OneShots]
  <2>1. (IF HasTail(rows) THEN <<>> ELSE queue) \in Seq(Notes)
    BY <1>6
  <2> QED BY <1>1, <1>4, <1>5, <2>1
<1> QED
  BY <1>4, <1>7, <1>8

\* A recorded result is a row.
LEMMA RecordedTyped ==
    ASSUME TypeOK, NEW id \in CallIds
    PROVE  Recorded(id) \in Seq(Rows) /\ Len(Recorded(id)) \in {Len(items), Len(items) + 1}
<1>1. ToolRow(id) \in Rows /\ items \in Seq(Rows)
  BY DEF ToolRow, Row, Rows, TypeOK
<1> QED
  BY <1>1, AppendProperties DEF Recorded

\* A request is the view, and a user row if a nudge is held.
LEMMA RequestRows ==
    ASSUME TypeOK, WindowFits
    PROVE  /\ View \in Seq(Rows) /\ Request \in Seq(Rows) /\ Len(View) \in Nat
           /\ Len(Request) = Len(View) + (IF hold.armed THEN 1 ELSE 0)
           /\ \A i \in 1..Len(View) : Request[i] = View[i]
           /\ hold.armed => Request[Len(View) + 1] = UserRow
<1>1. items \in Seq(Rows) /\ window.keep \in Nat /\ window.keep <= Len(items)
  BY DEF TypeOK, WindowFits
<1>2. View \in Seq(Rows) /\ Len(View) \in Nat
  BY <1>1, ViewRows, LenProperties DEF View
<1>3. UserRow \in Rows /\ <<UserRow>> \in Seq(Rows) /\ Len(<<UserRow>>) = 1
  BY DEF UserRow, Row, Rows
<1>4. CASE hold.armed
  <2>1. Request = View \o <<UserRow>>
    BY <1>4 DEF Request
  <2>2. /\ Request \in Seq(Rows)
        /\ Len(Request) = Len(View) + 1
        /\ \A i \in 1..Len(View) + 1 :
               Request[i] = IF i <= Len(View) THEN View[i] ELSE <<UserRow>>[i - Len(View)]
    BY <1>2, <1>3, <2>1, ConcatProperties
  <2>3. Request[Len(View) + 1] = UserRow
    BY <1>2, <2>2
  <2> QED BY <1>2, <1>4, <2>2, <2>3
<1>5. CASE ~hold.armed
  <2>1. Request = View \o <<>>
    BY <1>5 DEF Request
  <2>2. Request = View
    BY <1>2, <2>1, ConcatEmptySeq
  <2> QED BY <1>2, <1>5, <2>2
<1> QED BY <1>4, <1>5

\* What an answer appends, and what it anchors.
LEMMA AnsweredRows ==
    ASSUME TypeOK, WindowFits, Mirrored, NEW rows \in Seq(Rows), Answered(rows)
    PROVE  /\ items' \in Seq(Rows) /\ synced' \in Seq(Rows)
           /\ Len(items') = Len(items) + Len(rows)
           /\ \A i \in 1..Len(items') :
                  items'[i] = IF i <= Len(items) THEN items[i] ELSE rows[i - Len(items)]
           /\ Len(synced') = Len(items')
           /\ ~dup => synced' = items'
           /\ anchor' = [messages |-> Len(View) + (IF hold.armed THEN 1 ELSE 0),
                         rows |-> Len(items), held |-> hold.armed]
           /\ anchor' \in [messages : Nat, rows : Nat, held : BOOLEAN]
<1>1. /\ items \in Seq(Rows) /\ synced \in Seq(Rows) /\ window.keep \in Nat
      /\ hold.armed \in BOOLEAN /\ Len(items) \in Nat
  BY LenProperties DEF TypeOK
<1>2. /\ items' = items \o rows
      /\ synced' = Copied(synced, items')
      /\ anchor' = [messages |-> Len(View) + (IF hold.armed THEN 1 ELSE 0),
                    rows |-> Len(items), held |-> hold.armed]
  BY RequestRows DEF Answered, Sync
<1>3. /\ items' \in Seq(Rows)
      /\ Len(items') = Len(items) + Len(rows)
      /\ \A i \in 1..Len(items') :
             items'[i] = IF i <= Len(items) THEN items[i] ELSE rows[i - Len(items)]
  BY <1>1, <1>2, ConcatProperties
<1>4. Len(synced) <= Len(items') /\ Len(synced) = Len(items)
  BY <1>1, <1>3, LenProperties DEF Mirrored
<1>5. synced' \in Seq(Rows) /\ Len(synced') = Len(items')
  BY <1>1, <1>2, <1>3, <1>4, SyncCopies
<1>6. ASSUME ~dup PROVE synced' = items'
  <2>1. \A i \in 1..Len(synced) : items'[i] = synced[i]
    BY <1>1, <1>3, <1>4, <1>6, LenProperties DEF Mirrored
  <2> QED BY <1>1, <1>2, <1>3, <1>4, <2>1, SyncCopies
<1>7. Len(View) \in Nat
  BY <1>1, ViewRows, LenProperties DEF View, WindowFits
<1>8. anchor' \in [messages : Nat, rows : Nat, held : BOOLEAN]
  <2>1. Len(View) + (IF hold.armed THEN 1 ELSE 0) \in Nat
    BY <1>7
  <2> QED BY <1>1, <1>2, <2>1
<1> QED
  BY <1>2, <1>3, <1>5, <1>6, <1>8

\* The rows a step head appends.
LEMMA AdmittedRows ==
    ASSUME TypeOK, Mirrored, AdmitSteering
    PROVE  /\ items' \in Seq(Rows) /\ synced' \in Seq(Rows)
           /\ Len(items') = Len(items) + steering
           /\ \A i \in 1..Len(items') : items'[i] = IF i <= Len(items) THEN items[i] ELSE UserRow
           /\ Len(synced') = Len(items')
           /\ ~dup => synced' = items'
<1> DEFINE rows == [i \in 1..steering |-> UserRow]
<1>1. /\ items \in Seq(Rows) /\ synced \in Seq(Rows) /\ steering \in Nat /\ Len(items) \in Nat
  BY LenProperties DEF TypeOK
<1>2. /\ items' = items \o rows
      /\ synced' = Copied(synced, items')
  BY DEF AdmitSteering, Sync
<1>3. UserRow \in Rows
  BY DEF UserRow, Row, Rows
<1>4. rows \in Seq(Rows) /\ Len(rows) = steering
  <2>1. rows \in Seq(Rows)
    BY <1>1, <1>3, IsASeq
  <2> QED BY <1>1, <2>1, LenProperties
<1>5. /\ items' \in Seq(Rows)
      /\ Len(items') = Len(items) + steering
      /\ \A i \in 1..Len(items') :
             items'[i] = IF i <= Len(items) THEN items[i] ELSE rows[i - Len(items)]
  <2> HIDE DEF rows
  <2> QED BY ZenonT(30), <1>1, <1>2, <1>4, ConcatProperties
<1>6. \A i \in 1..Len(items') : items'[i] = IF i <= Len(items) THEN items[i] ELSE UserRow
  <2> TAKE i \in 1..Len(items')
  <2>1. CASE i <= Len(items)
    BY <1>5, <2>1
  <2>2. CASE ~(i <= Len(items))
    <3>1. i - Len(items) \in 1..steering
      BY <1>1, <1>5, <2>2
    <3> QED BY <1>5, <2>2, <3>1
  <2> QED BY <2>1, <2>2
<1>7. Len(synced) <= Len(items') /\ Len(synced) = Len(items)
  BY <1>1, <1>5, LenProperties DEF Mirrored
<1>8. synced' \in Seq(Rows) /\ Len(synced') = Len(items')
  BY <1>1, <1>2, <1>5, <1>7, SyncCopies
<1>9. ASSUME ~dup PROVE synced' = items'
  <2>1. \A i \in 1..Len(synced) : items'[i] = synced[i]
    BY <1>1, <1>5, <1>7, <1>9, LenProperties DEF Mirrored
  <2> QED BY <1>1, <1>2, <1>5, <1>7, <2>1, SyncCopies
<1> QED
  BY <1>5, <1>6, <1>8, <1>9

\* A call appends at most the row of its result, and directives change no row before it unless
\* there is none.
LEMMA CalledRows ==
    ASSUME TypeOK, Mirrored, OpenCalls, BatchCall
    PROVE  /\ items' \in Seq(Rows) /\ synced' \in Seq(Rows)
           /\ Len(items') \in {Len(items), Len(items) + 1}
           /\ Len(synced') = Len(items')
           /\ \A i \in DOMAIN items : /\ items'[i].role = items[i].role
                                      /\ items'[i].calls = items[i].calls
                                      /\ items'[i].answers = items[i].answers
           /\ ~dup => /\ Len(items') = Len(items) + 1
                      /\ synced' = items'
                      /\ batch.at \in DOMAIN batch.calls
                      /\ items'[Len(items) + 1].role = "tool"
                      /\ items'[Len(items) + 1].calls = <<>>
                      /\ items'[Len(items) + 1].answers = batch.calls[batch.at]
<1> DEFINE id == batch.calls[batch.at]
           rows == Recorded(id)
<1>1. PICK executed, ok, edited, wrapDue \in BOOLEAN :
          /\ Called(executed, ok, edited)
          /\ Settle(rows, count'.actions, count'.edits, wrapDue)
          /\ Sync(items')
  BY DEF BatchCall
<1>2. /\ items \in Seq(Rows) /\ synced \in Seq(Rows) /\ Len(items) \in Nat
      /\ DOMAIN items = 1..Len(items) /\ batch.calls \in Seq(CallIds)
  BY LenProperties DEF TypeOK
<1>3. batch.at \in DOMAIN batch.calls /\ id \in CallIds
  <2>1. batch.at \in DOMAIN batch.calls
    BY <1>1 DEF Called
  <2> QED BY <1>2, <2>1, ElementOfSeq, LenProperties
<1>4. rows \in Seq(Rows) /\ Len(rows) \in {Len(items), Len(items) + 1}
  BY <1>3, RecordedTyped
<1>5. PICK notes \in SUBSET Notes : items' = OnTail(rows, notes)
  BY <1>1, <1>4, SettleTyped
<1>6. rows = IF id \in batch.open THEN Append(items, ToolRow(id)) ELSE items
  BY DEF Recorded
<1> HIDE DEF rows
<1>7. /\ items' \in Seq(Rows)
      /\ Len(items') = Len(rows)
      /\ \A i \in DOMAIN rows : /\ items'[i].role = rows[i].role
                                /\ items'[i].calls = rows[i].calls
                                /\ items'[i].answers = rows[i].answers
                                /\ ~IsTail(rows, i) => items'[i] = rows[i]
  BY <1>4, <1>5, OnTailKeeps
<1>8. DOMAIN rows = 1..Len(rows)
  BY <1>4, LenProperties
<1>9. ToolRow(id) \in Rows
  BY <1>3 DEF ToolRow, Row, Rows
<1>10. \A i \in DOMAIN items : i \in DOMAIN rows /\ rows[i] = items[i]
  <2>1. CASE id \in batch.open
    BY <2>1, <1>2, <1>6, <1>8, <1>9, AppendProperties
  <2>2. CASE id \notin batch.open
    BY <2>2, <1>6
  <2> QED BY <2>1, <2>2
<1>11. synced' = Copied(synced, items') /\ Len(synced) = Len(items)
  BY <1>1 DEF Sync, Mirrored
<1>12. Len(synced) <= Len(items')
  BY <1>2, <1>4, <1>7, <1>11
<1>13. synced' \in Seq(Rows) /\ Len(synced') = Len(items')
  BY <1>2, <1>7, <1>11, <1>12, SyncCopies
<1>14. ASSUME ~dup
       PROVE  /\ Len(items') = Len(items) + 1
              /\ synced' = items'
              /\ items'[Len(items) + 1].role = "tool"
              /\ items'[Len(items) + 1].calls = <<>>
              /\ items'[Len(items) + 1].answers = id
  <2>1. id \in batch.open
    <3>1. pc = "batch" /\ batch.at \in Nat
      BY DEF BatchCall, TypeOK
    <3>2. batch.at >= batch.at
      BY <3>1
    <3> QED BY <1>3, <1>14, <3>1, <3>2 DEF OpenCalls
  <2>2. /\ Len(rows) = Len(items) + 1
        /\ rows[Len(items) + 1] = ToolRow(id)
    BY <2>1, <1>2, <1>6, <1>9, AppendProperties
  <2>3. Len(items) + 1 \in DOMAIN rows
    BY <2>2, <1>2, <1>8
  <2>4. /\ items'[Len(items) + 1].role = "tool"
        /\ items'[Len(items) + 1].calls = <<>>
        /\ items'[Len(items) + 1].answers = id
    BY <2>2, <2>3, <1>7 DEF ToolRow, Row
  <2>5. \A i \in 1..Len(items) : ~IsTail(rows, i)
    <3>1. rows[Len(items) + 1].role = "tool"
      BY <2>2 DEF ToolRow, Row
    <3> QED BY <2>3, <3>1, <1>2 DEF IsTail
  <2>6. \A i \in 1..Len(synced) : items'[i] = synced[i]
    BY <2>5, <1>2, <1>7, <1>10, <1>11, <1>14 DEF Mirrored
  <2>7. synced' = items'
    BY <2>6, <1>2, <1>7, <1>11, <1>12, SyncCopies
  <2> QED BY <2>2, <2>4, <2>7, <1>7
<1>15. \A i \in DOMAIN items : /\ items'[i].role = items[i].role
                               /\ items'[i].calls = items[i].calls
                               /\ items'[i].answers = items[i].answers
  BY <1>7, <1>10
<1> QED
  BY <1>3, <1>4, <1>7, <1>13, <1>14, <1>15

-----------------------------------------------------------------------------
(* The invariant.                                                          *)

RowsInv ==
    /\ TypeOK /\ Mirrored /\ NothingForgotten /\ CutClean /\ AnchorExact
    /\ OpenCalls /\ Current /\ CallsAnswered /\ ResultsCalled

\* The handlers that leave the rows and the batch alone.
Quiet == Checkpoint \/ CheckpointRefused \/ NoCheckpoint \/ RequestFails

\* The rows each answer brings.
LEMMA AnswerKinds ==
    ASSUME RowsInv
    PROVE  /\ DeclareHeld => Answered(<<AssistantRow(<<>>)>>)
           /\ Declare => Answered(<<AssistantRow(<<>>)>>)
           /\ Dispatch => /\ Answered(<<AssistantRow(batch'.calls)>>)
                          /\ batch'.calls \in Seq(CallIds)
           /\ AnswerEnds => \E rows \in Seq(Rows) : Answered(rows)
           /\ \A calls \in Seq(CallIds) : AssistantRow(calls) \in Rows
           /\ AssistantRow(<<>>) \in Rows
<1>1. \A calls \in Seq(CallIds) : AssistantRow(calls) \in Rows
  BY DEF AssistantRow, Row, Rows
<1>2. \A calls \in Calls : calls \in Seq(CallIds)
  BY IsASeq DEF Calls
<1>3. Dispatch => /\ Answered(<<AssistantRow(batch'.calls)>>)
                  /\ batch'.calls \in Seq(CallIds)
  BY <1>2 DEF Dispatch
<1>4. ASSUME AnswerEnds
      PROVE  \E rows \in Seq(Rows) : Answered(rows)
  <2>1. PICK calls \in Calls \cup {<<>>} :
            \/ Answered([k \in DOMAIN calls |-> ToolRow(calls[k])] \o <<AssistantRow(calls)>>)
            \/ Answered(<<AssistantRow(calls)>>)
            \/ Answered(<<>>)
    BY <1>4 DEF AnswerEnds
  <2>2. calls \in Seq(CallIds)
    BY <1>2, EmptySeq
  <2>3. <<AssistantRow(calls)>> \in Seq(Rows)
    BY <1>1, <2>2
  <2> DEFINE failed == [k \in DOMAIN calls |-> ToolRow(calls[k])]
  <2>4. failed \in Seq(Rows)
    <3>1. \A k \in DOMAIN calls : ToolRow(calls[k]) \in Rows
      <4>1. \A k \in DOMAIN calls : calls[k] \in CallIds
        BY <2>2, ElementOfSeq, LenProperties
      <4> QED BY <4>1 DEF ToolRow, Row, Rows
    <3>2. Len(calls) \in Nat /\ DOMAIN calls = 1..Len(calls)
      BY <2>2, LenProperties
    <3> QED BY <3>1, <3>2, IsASeq
  <2>5. failed \o <<AssistantRow(calls)>> \in Seq(Rows)
    <3> HIDE DEF failed
    <3> QED BY <2>3, <2>4, ConcatProperties
  <2>6. <<>> \in Seq(Rows)
    BY EmptySeq
  <2> HIDE DEF failed
  <2> QED BY <2>1, <2>3, <2>5, <2>6 DEF failed
<1>5. AssistantRow(<<>>) \in Rows
  BY <1>1, EmptySeq
<1> QED
  BY <1>1, <1>3, <1>4, <1>5 DEF DeclareHeld, Declare

\* The checkpoint keeps what it summarizes and what it sends apart.
LEMMA CheckpointStep ==
    ASSUME RowsInv, Checkpoint
    PROVE  /\ window' \in [keep : Nat, covered : SUBSET Nat]
           /\ window'.covered = 1..window'.keep
           /\ window'.keep > 0 /\ window'.keep < Len(items)
           /\ items[window'.keep + 1].role # "tool"
<1>1. PICK cut \in CutPoints(View) :
          window' = [keep |-> KeepFrom(cut),
                     covered |-> window.covered \cup
                         (IF window.keep = 0 THEN 1..cut
                          ELSE window.keep + 1..window.keep + cut - 1)]
  BY DEF Checkpoint
<1>2. /\ items \in Seq(Rows) /\ window.keep \in Nat /\ WindowFits
      /\ window.covered = 1..window.keep
  BY DEF RowsInv, TypeOK, NothingForgotten, WindowFits
<1>3. /\ cut \in 1..Len(View) - 1 /\ KeepFrom(cut) \in Nat \ {0} /\ KeepFrom(cut) < Len(items)
      /\ items[KeepFrom(cut) + 1].role # "tool"
  BY <1>2, CutsValid
<1>4. cut \in Nat /\ cut >= 1
  <2>1. Len(View) \in Nat
    BY <1>2, ViewRows, LenProperties DEF View, WindowFits
  <2> QED BY <1>3, <2>1
<1>5. window'.covered = 1..KeepFrom(cut)
  <2>1. CASE window.keep = 0
    BY <1>1, <1>2, <1>4, <2>1 DEF KeepFrom
  <2>2. CASE window.keep # 0
    BY <1>1, <1>2, <1>4, <2>2 DEF KeepFrom
  <2> QED BY <2>1, <2>2
<1> QED
  <2>1. window'.keep = KeepFrom(cut) /\ window'.covered \in SUBSET Nat
    BY <1>1, <1>3, <1>5
  <2>2. window' \in [keep : Nat, covered : SUBSET Nat]
    BY <1>1, <2>1, <1>3
  <2> QED BY <1>3, <1>5, <2>1, <2>2

\* Types are kept.
LEMMA TypedStep ==
    ASSUME RowsInv, [Next]_vars
    PROVE  TypeOK'
<1> USE DEF RowsInv
<1>0. WindowFits
  BY DEF NothingForgotten, WindowFits
<1>1. CASE AdmitSteering
  <2>1. items' \in Seq(Rows) /\ synced' \in Seq(Rows)
    BY <1>1, AdmittedRows
  <2> QED BY <1>1, <2>1 DEF AdmitSteering, TypeOK, PCs
<1>2. CASE Checkpoint
  <2>1. window' \in [keep : Nat, covered : SUBSET Nat]
    BY <1>2, CheckpointStep
  <2> QED BY <1>2, <2>1 DEF Checkpoint, TypeOK, PCs, NoAnchor
<1>3. CASE CheckpointRefused \/ NoCheckpoint \/ RequestFails
  BY ZenonT(30), <1>3 DEF CheckpointRefused, NoCheckpoint, RequestFails, TypeOK, PCs
<1>4. CASE DeclareHeld
  <2>1. Answered(<<AssistantRow(<<>>)>>) /\ <<AssistantRow(<<>>)>> \in Seq(Rows)
    BY <1>4, AnswerKinds
  <2>2. /\ items' \in Seq(Rows) /\ synced' \in Seq(Rows)
        /\ anchor' \in [messages : Nat, rows : Nat, held : BOOLEAN]
    BY <1>0, <2>1, AnsweredRows
  <2>3. hold' = [armed |-> TRUE, nudges |-> hold.nudges + 1, base |-> count.edits]
    BY <1>4 DEF DeclareHeld
  <2>4. hold' \in [armed : BOOLEAN, nudges : Nat, base : Nat]
    BY SMTT(30), <2>3 DEF TypeOK
  <2> QED BY <1>4, <2>2, <2>4 DEF DeclareHeld, TypeOK, PCs
<1>5. CASE Declare
  <2>1. Answered(<<AssistantRow(<<>>)>>) /\ <<AssistantRow(<<>>)>> \in Seq(Rows)
    BY <1>5, AnswerKinds
  <2>2. /\ items' \in Seq(Rows) /\ synced' \in Seq(Rows)
        /\ anchor' \in [messages : Nat, rows : Nat, held : BOOLEAN]
    BY <1>0, <2>1, AnsweredRows
  <2>3. hold' \in [armed : BOOLEAN, nudges : Nat, base : Nat]
    BY <1>5 DEF Declare, TypeOK
  <2>4. turn' \in [n : Nat, tried : Nat, followups : Nat] /\ steering' \in Nat
    <3>1. CASE turn.followups > 0
      <4>1. turn' = [turn EXCEPT !.n = @ + 1, !.followups = @ - 1] /\ steering' = steering + 1
        BY <1>5, <3>1 DEF Declare
      <4>2. turn' = [n |-> turn.n + 1, tried |-> turn.tried, followups |-> turn.followups - 1]
        BY <4>1 DEF TypeOK
      <4>3. turn.n \in Nat /\ turn.tried \in Nat /\ turn.followups \in Nat /\ steering \in Nat
        BY DEF TypeOK
      <4> QED BY <3>1, <4>1, <4>2, <4>3
    <3>2. CASE ~(turn.followups > 0)
      BY <1>5, <3>2 DEF Declare, TypeOK
    <3> QED BY <3>1, <3>2
  <2>5. pc' \in PCs
    BY <1>5 DEF Declare, PCs
  <2> QED BY <1>5, <2>2, <2>3, <2>4, <2>5 DEF Declare, TypeOK
<1>6. CASE Dispatch
  <2>1. /\ Answered(<<AssistantRow(batch'.calls)>>) /\ batch'.calls \in Seq(CallIds)
        /\ <<AssistantRow(batch'.calls)>> \in Seq(Rows)
    BY <1>6, AnswerKinds
  <2>2. /\ items' \in Seq(Rows) /\ synced' \in Seq(Rows)
        /\ anchor' \in [messages : Nat, rows : Nat, held : BOOLEAN]
    BY <1>0, <2>1, AnsweredRows
  <2>3. PICK calls \in Calls :
            /\ batch' = [calls |-> calls, at |-> 1, open |-> {calls[k] : k \in DOMAIN calls},
                         failed |-> FALSE, actions |-> count.actions, edits |-> count.edits]
            /\ dup' = (dup \/ \E k, l \in DOMAIN calls : k # l /\ calls[k] = calls[l])
    BY <1>6 DEF Dispatch
  <2>4. calls \in Seq(CallIds) /\ \A k \in DOMAIN calls : calls[k] \in CallIds
    BY <2>1, <2>3, ElementOfSeq, LenProperties
  <2>5. /\ batch' \in [calls : Seq(CallIds), at : Nat \ {0}, open : SUBSET CallIds,
                       failed : BOOLEAN, actions : Nat, edits : Nat]
    BY <2>3, <2>4 DEF TypeOK
  <2>6. dup' \in BOOLEAN
    BY <2>3 DEF TypeOK
  <2>7. count' = [count EXCEPT !.batches = @ + 1] /\ hold' = [hold EXCEPT !.armed = FALSE]
    BY <1>6 DEF Dispatch
  <2>8. count' \in [actions : Nat, edits : Nat, batches : Nat, failed : Nat]
    <3>1. count' = [actions |-> count.actions, edits |-> count.edits,
                    batches |-> count.batches + 1, failed |-> count.failed]
      BY <2>7 DEF TypeOK
    <3>2. /\ count.actions \in Nat /\ count.edits \in Nat /\ count.batches \in Nat
          /\ count.failed \in Nat
      BY DEF TypeOK
    <3> QED BY <3>1, <3>2
  <2>9. hold' \in [armed : BOOLEAN, nudges : Nat, base : Nat]
    <3>1. hold' = [armed |-> FALSE, nudges |-> hold.nudges, base |-> hold.base]
      BY <2>7 DEF TypeOK
    <3>2. hold.nudges \in Nat /\ hold.base \in Nat
      BY DEF TypeOK
    <3> QED BY <3>1, <3>2
  <2> QED BY <1>6, <2>2, <2>5, <2>6, <2>8, <2>9 DEF Dispatch, TypeOK, PCs
<1>7. CASE AnswerEnds
  <2>1. PICK rows \in Seq(Rows) : Answered(rows)
    BY <1>7, AnswerKinds
  <2>2. /\ items' \in Seq(Rows) /\ synced' \in Seq(Rows)
        /\ anchor' \in [messages : Nat, rows : Nat, held : BOOLEAN]
    BY <1>0, <2>1, AnsweredRows
  <2> QED BY <1>7, <2>2 DEF AnswerEnds, TypeOK, PCs
<1>8. CASE BatchCall
  <2>1. items' \in Seq(Rows) /\ synced' \in Seq(Rows)
    BY <1>8, CalledRows
  <2>2. PICK executed, ok, edited, wrapDue \in BOOLEAN :
            /\ Called(executed, ok, edited)
            /\ Settle(Recorded(batch.calls[batch.at]), count'.actions, count'.edits, wrapDue)
    BY <1>8 DEF BatchCall
  <2>3. Recorded(batch.calls[batch.at]) \in Seq(Rows)
    <3>1. batch.calls[batch.at] \in CallIds
      BY SMTT(30), <2>2, ElementOfSeq, LenProperties DEF Called, TypeOK
    <3> QED BY <3>1, RecordedTyped
  <2>4. notice' \in [queue : Seq(Notes), sent : SUBSET OneShots]
    BY <2>2, <2>3, SettleTyped
  <2>5. /\ batch' \in [calls : Seq(CallIds), at : Nat \ {0}, open : SUBSET CallIds,
                       failed : BOOLEAN, actions : Nat, edits : Nat]
    <3>1. batch' = [batch EXCEPT !.at = @ + 1, !.open = @ \ {batch.calls[batch.at]},
                                 !.failed = @ \/ ~ok]
      BY <2>2 DEF Called
    <3>2. (batch.failed \/ ~ok) \in BOOLEAN
      OBVIOUS
    <3> DEFINE failed == batch.failed \/ ~ok
    <3>3. batch' = [calls |-> batch.calls, at |-> batch.at + 1,
                    open |-> batch.open \ {batch.calls[batch.at]}, failed |-> failed,
                    actions |-> batch.actions, edits |-> batch.edits]
      BY <3>1 DEF TypeOK
    <3> HIDE DEF failed
    <3>4. failed \in BOOLEAN
      BY <3>2 DEF failed
    <3> QED BY SMTT(30), <3>3, <3>4 DEF TypeOK
  <2>6. count' \in [actions : Nat, edits : Nat, batches : Nat, failed : Nat]
    <3>1. count' = [count EXCEPT !.actions = IF executed THEN @ + 1 ELSE @,
                                 !.edits = IF edited THEN @ + 1 ELSE @]
      BY <2>2 DEF Called
    <3> DEFINE actions == IF executed THEN count.actions + 1 ELSE count.actions
               edits == IF edited THEN count.edits + 1 ELSE count.edits
    <3>2. count' = [actions |-> actions, edits |-> edits, batches |-> count.batches,
                    failed |-> count.failed]
      BY <3>1 DEF TypeOK
    <3>3. actions \in Nat /\ edits \in Nat
      <4>1. count.actions \in Nat /\ count.edits \in Nat
        BY DEF TypeOK
      <4> QED BY <4>1
    <3> HIDE DEF actions, edits
    <3> QED BY <3>2, <3>3 DEF TypeOK
  <2> QED BY <1>8, <2>1, <2>4, <2>5, <2>6 DEF BatchCall, TypeOK, PCs
<1>9. CASE EndBatch
  <2>1. PushIf(batch.failed, notice.queue, "rollback") \in Seq(Notes)
    BY PushTyped DEF TypeOK, Notes
  <2>2. notice' \in [queue : Seq(Notes), sent : SUBSET OneShots]
    BY <1>9, <2>1 DEF EndBatch, TypeOK
  <2>3. batch' \in [calls : Seq(CallIds), at : Nat \ {0}, open : SUBSET CallIds,
                    failed : BOOLEAN, actions : Nat, edits : Nat]
    BY <1>9 DEF EndBatch, NoBatch
  <2>4. PICK aborted \in BOOLEAN :
            LET undone == batch.failed \/ aborted
                actions == IF undone THEN batch.actions ELSE count.actions
            IN  /\ count' = [count EXCEPT !.actions = actions,
                                          !.edits = IF undone THEN batch.edits ELSE @,
                                          !.failed = IF batch.failed THEN @ + 1 ELSE @]
                /\ pc' = IF TrialCap > 0 /\ actions >= TrialCap THEN "stopped" ELSE "head"
    BY <1>9 DEF EndBatch
  <2> DEFINE undone == batch.failed \/ aborted
             actions == IF undone THEN batch.actions ELSE count.actions
             edits == IF undone THEN batch.edits ELSE count.edits
             failed == IF batch.failed THEN count.failed + 1 ELSE count.failed
  <2>5. count' = [actions |-> actions, edits |-> edits, batches |-> count.batches,
                  failed |-> failed]
    BY <2>4 DEF TypeOK
  <2>6. actions \in Nat /\ edits \in Nat /\ failed \in Nat /\ count.batches \in Nat
    BY SMTT(30) DEF TypeOK
  <2>7. count' \in [actions : Nat, edits : Nat, batches : Nat, failed : Nat]
    <3> HIDE DEF actions, edits, failed
    <3> QED BY <2>5, <2>6
  <2>8. pc' \in PCs
    BY <2>4 DEF PCs
  <2> HIDE DEF undone, actions, edits, failed
  <2> QED BY <1>9, <2>2, <2>3, <2>7, <2>8 DEF EndBatch, TypeOK
<1>10. CASE UNCHANGED vars
  BY <1>10 DEF vars, TypeOK
<1> QED
  BY <1>1, <1>2, <1>3, <1>4, <1>5, <1>6, <1>7, <1>8, <1>9, <1>10 DEF Next

-----------------------------------------------------------------------------
(* Rows, log and window.                                                   *)

\* Every row keeps its role, its calls and what it answers.
RowsKept ==
    /\ Len(items) <= Len(items')
    /\ \A i \in DOMAIN items : /\ items'[i].role = items[i].role
                               /\ items'[i].calls = items[i].calls
                               /\ items'[i].answers = items[i].answers

\* An answer, whatever rows it brings.
LEMMA AnswerStep ==
    ASSUME RowsInv, DeclareHeld \/ Declare \/ Dispatch \/ AnswerEnds
    PROVE  \E rows \in Seq(Rows) : Answered(rows)
<1>1. \A row \in Rows : <<row>> \in Seq(Rows)
  OBVIOUS
<1>2. <<AssistantRow(<<>>)>> \in Seq(Rows)
  BY <1>1, AnswerKinds
<1>3. Dispatch => <<AssistantRow(batch'.calls)>> \in Seq(Rows)
  BY <1>1, AnswerKinds
<1> QED
  BY <1>2, <1>3, AnswerKinds

\* The log mirrors the transcript, and no row is taken back.
LEMMA MirroredStep ==
    ASSUME RowsInv, [Next]_vars
    PROVE  Mirrored' /\ RowsKept
<1> USE DEF RowsInv
<1>0. /\ WindowFits /\ items \in Seq(Rows) /\ Len(items) \in Nat /\ DOMAIN items = 1..Len(items)
      /\ steering \in Nat
  BY LenProperties DEF NothingForgotten, WindowFits, TypeOK
<1>1. CASE AdmitSteering
  <2>1. /\ Len(items') = Len(items) + steering
        /\ \A i \in 1..Len(items') : items'[i] = IF i <= Len(items) THEN items[i] ELSE UserRow
        /\ Len(synced') = Len(items')
        /\ ~dup => synced' = items'
    BY <1>1, AdmittedRows
  <2>2. dup' = dup
    BY <1>1 DEF AdmitSteering
  <2>3. \A i \in DOMAIN items : items'[i] = items[i]
    BY <1>0, <2>1
  <2> QED BY <1>0, <2>1, <2>2, <2>3 DEF Mirrored, RowsKept
<1>2. CASE DeclareHeld \/ Declare \/ Dispatch \/ AnswerEnds
  <2>1. PICK rows \in Seq(Rows) : Answered(rows)
    BY <1>2, AnswerStep
  <2>2. /\ Len(items') = Len(items) + Len(rows)
        /\ \A i \in 1..Len(items') :
               items'[i] = IF i <= Len(items) THEN items[i] ELSE rows[i - Len(items)]
        /\ Len(synced') = Len(items')
        /\ ~dup => synced' = items'
    BY <1>0, <2>1, AnsweredRows
  <2>3. dup => dup'
    BY <1>2 DEF DeclareHeld, Declare, Dispatch, AnswerEnds
  <2>4. Len(rows) \in Nat
    BY LenProperties
  <2>5. \A i \in DOMAIN items : items'[i] = items[i]
    BY <1>0, <2>2, <2>4
  <2> QED BY <1>0, <2>2, <2>3, <2>4, <2>5 DEF Mirrored, RowsKept
<1>3. CASE BatchCall
  <2>1. /\ Len(items') \in {Len(items), Len(items) + 1}
        /\ Len(synced') = Len(items')
        /\ \A i \in DOMAIN items : /\ items'[i].role = items[i].role
                                   /\ items'[i].calls = items[i].calls
                                   /\ items'[i].answers = items[i].answers
        /\ ~dup => synced' = items'
    BY <1>3, CalledRows
  <2>2. dup' = dup
    BY <1>3 DEF BatchCall
  <2> QED BY <1>0, <2>1, <2>2 DEF Mirrored, RowsKept
<1>4. CASE Quiet \/ EndBatch \/ UNCHANGED vars
  <2>1. items' = items /\ synced' = synced /\ dup' = dup
    BY <1>4 DEF Quiet, Checkpoint, CheckpointRefused, NoCheckpoint, RequestFails, EndBatch, vars
  <2> QED BY <1>0, <2>1 DEF Mirrored, RowsKept
<1> QED
  BY <1>1, <1>2, <1>3, <1>4 DEF Next, Quiet

\* Cuts keep to the rows, and summaries to what was cut.
LEMMA WindowStep ==
    ASSUME RowsInv, [Next]_vars, RowsKept, TypeOK'
    PROVE  NothingForgotten' /\ CutClean'
<1> USE DEF RowsInv
<1>1. /\ items \in Seq(Rows) /\ Len(items) \in Nat /\ DOMAIN items = 1..Len(items)
      /\ Len(items') \in Nat /\ window.keep \in Nat
  BY LenProperties DEF TypeOK
<1>2. CASE Checkpoint
  <2>1. /\ window'.covered = 1..window'.keep
        /\ window'.keep > 0 /\ window'.keep < Len(items)
        /\ items[window'.keep + 1].role # "tool"
    BY <1>2, CheckpointStep
  <2>2. items' = items
    BY <1>2 DEF Checkpoint
  <2>3. window'.keep \in Nat
    BY DEF TypeOK
  <2>4. window'.keep <= Len(items')
    BY <2>1, <2>2, <2>3, <1>1
  <2> QED BY <2>1, <2>2, <2>4 DEF NothingForgotten, CutClean
<1>3. CASE ~Checkpoint
  <2>1. window' = window
    BY <1>3 DEF Next, AdmitSteering, CheckpointRefused, NoCheckpoint, RequestFails, DeclareHeld,
                Declare, Dispatch, AnswerEnds, BatchCall, EndBatch, vars
  <2>2. NothingForgotten'
    BY <2>1, <1>1 DEF NothingForgotten, RowsKept
  <2>3. ASSUME window.keep > 0
        PROVE  window.keep < Len(items') /\ items'[window.keep + 1].role # "tool"
    <3>1. window.keep < Len(items) /\ items[window.keep + 1].role # "tool"
      BY <2>3 DEF CutClean
    <3>2. window.keep + 1 \in DOMAIN items
      BY <3>1, <1>1
    <3> QED BY <3>1, <3>2, <1>1 DEF RowsKept
  <2> QED BY <2>1, <2>2, <2>3 DEF CutClean
<1> QED
  BY <1>2, <1>3

\* The anchor counts what its request carried.
LEMMA AnchorStep ==
    ASSUME RowsInv, [Next]_vars, RowsKept, TypeOK', NothingForgotten'
    PROVE  AnchorExact'
<1> USE DEF RowsInv
<1> DEFINE seen(rows, keep) == IF keep = 0 THEN Len(rows) ELSE Len(rows) - keep + 1
<1>1. /\ items \in Seq(Rows) /\ Len(items) \in Nat /\ Len(items') \in Nat /\ window.keep \in Nat
      /\ anchor.messages \in Nat /\ anchor.rows \in Nat /\ hold.armed \in BOOLEAN
  BY LenProperties DEF TypeOK
<1>2. Len(View) = seen(items, window.keep)
  BY <1>1, ViewRows DEF View, NothingForgotten
<1>3. Len(View') = seen(items', window'.keep)
  <2>1. items' \in Seq(Rows) /\ window'.keep \in Nat
    BY DEF TypeOK
  <2>2. window'.keep <= Len(items')
    BY DEF NothingForgotten
  <2>3. View' = ViewOf(items', window'.keep)
    BY DEF View
  <2> QED BY <2>1, <2>2, <2>3, ViewRows
<1>4. CASE Checkpoint
  BY <1>4 DEF Checkpoint, AnchorExact
<1>5. CASE DeclareHeld \/ Declare \/ Dispatch \/ AnswerEnds
  <2>1. PICK rows \in Seq(Rows) : Answered(rows)
    BY <1>5, AnswerStep
  <2>2. anchor' = [messages |-> Len(View) + (IF hold.armed THEN 1 ELSE 0),
                   rows |-> Len(items), held |-> hold.armed]
    BY <2>1, RequestRows DEF Answered, NothingForgotten, WindowFits
  <2>3. window' = window
    BY <1>5 DEF DeclareHeld, Declare, Dispatch, AnswerEnds
  <2>4. anchor'.messages = Len(View) + (IF hold.armed THEN 1 ELSE 0)
        /\ anchor'.rows = Len(items) /\ anchor'.held = hold.armed
    BY <2>2
  <2>5. Len(View') - Len(View) = Len(items') - Len(items) /\ Len(View) \in Nat
    BY <1>1, <1>2, <1>3, <2>3 DEF NothingForgotten
  <2> HIDE DEF seen
  <2>6. Len(View') \in Int
    BY <1>1, <1>2, <1>3, <2>3 DEF seen
  <2> QED BY <1>1, <2>4, <2>5, <2>6 DEF AnchorExact
<1>6. CASE AdmitSteering \/ CheckpointRefused \/ NoCheckpoint \/ RequestFails \/ BatchCall
           \/ EndBatch \/ UNCHANGED vars
  <2>1. anchor' = anchor /\ window' = window
    BY <1>6 DEF AdmitSteering, CheckpointRefused, NoCheckpoint, RequestFails, BatchCall, EndBatch,
                vars
  <2>2. Len(View') - Len(View) = Len(items') - Len(items)
    BY <1>1, <1>2, <1>3, <2>1
  <2>3. Len(View) \in Int /\ Len(View') \in Int
    BY <1>1, <1>2, <1>3, <2>1
  <2> DEFINE extra == IF anchor.held THEN 1 ELSE 0
  <2>4. extra \in Int
    OBVIOUS
  <2>5. anchor # NoAnchor =>
            Len(View) + extra - anchor.messages = Len(items) - anchor.rows
    BY DEF AnchorExact
  <2> HIDE DEF extra
  <2>6. anchor # NoAnchor =>
            Len(View') + extra - anchor.messages = Len(items') - anchor.rows
    <3> DEFINE a == Len(View)
               b == Len(View')
               m == anchor.messages
               r == anchor.rows
               n == Len(items)
               k == Len(items')
    <3>1. /\ a \in Int /\ b \in Int /\ m \in Int /\ r \in Int /\ n \in Int /\ k \in Int
          /\ b - a = k - n
      BY <1>1, <2>2, <2>3
    <3>2. anchor # NoAnchor => a + extra - m = n - r
      BY <2>5
    <3> HIDE DEF a, b, m, r, n, k
    <3>3. anchor # NoAnchor => b + extra - m = k - r
      BY <2>4, <3>1, <3>2
    <3> QED BY <3>3 DEF a, b, m, r, n, k
  <2> QED BY <2>1, <2>6 DEF AnchorExact, extra
<1> QED
  BY <1>4, <1>5, <1>6 DEF Next

-----------------------------------------------------------------------------
(* Calls and their results.                                                *)

\* The ids still open are those of the calls to come, and the last assistant row made them.
LEMMA BatchStep ==
    ASSUME RowsInv, [Next]_vars, RowsKept
    PROVE  OpenCalls' /\ Current'
<1> USE DEF RowsInv
<1>1. /\ items \in Seq(Rows) /\ Len(items) \in Nat /\ DOMAIN items = 1..Len(items)
      /\ batch.at \in Nat \ {0} /\ Len(batch.calls) \in Nat
      /\ DOMAIN batch.calls = 1..Len(batch.calls)
  BY LenProperties DEF TypeOK
<1>2. CASE Dispatch
  <2>1. PICK calls \in Calls :
            /\ batch' = [calls |-> calls, at |-> 1, open |-> {calls[k] : k \in DOMAIN calls},
                         failed |-> FALSE, actions |-> count.actions, edits |-> count.edits]
            /\ dup' = (dup \/ \E k, l \in DOMAIN calls : k # l /\ calls[k] = calls[l])
            /\ Answered(<<AssistantRow(calls)>>)
    BY <1>2 DEF Dispatch
  <2>2. calls \in Seq(CallIds) /\ Len(calls) \in Nat
    BY IsASeq, LenProperties DEF Calls
  <2>3. OpenCalls'
    <3>1. batch'.calls = calls /\ batch'.at = 1 /\ batch'.open = {calls[k] : k \in DOMAIN calls}
      BY <2>1
    <3>2. batch'.at <= Len(batch'.calls) + 1
      BY <2>2, <3>1
    <3>3. ~dup' => \A k, l \in DOMAIN calls : k # l => calls[k] # calls[l]
      BY <2>1
    <3>4. \A k \in DOMAIN calls : calls[k] \in batch'.open
      BY <3>1
    <3> QED BY <3>1, <3>2, <3>3, <3>4 DEF OpenCalls
  <2>4. <<AssistantRow(calls)>> \in Seq(Rows) /\ WindowFits
    BY <2>2, AnswerKinds DEF NothingForgotten, WindowFits
  <2>5. /\ Len(items') = Len(items) + 1
        /\ items'[Len(items) + 1] = AssistantRow(calls)
    <3>1. /\ Len(items') = Len(items) + Len(<<AssistantRow(calls)>>)
          /\ \A i \in 1..Len(items') : items'[i] = IF i <= Len(items) THEN items[i]
                                       ELSE <<AssistantRow(calls)>>[i - Len(items)]
      BY <2>1, <2>4, AnsweredRows
    <3>2. Len(items) + 1 \in 1..Len(items') /\ Len(items) + 1 - Len(items) = 1
      BY <3>1, <1>1
    <3> QED BY <3>1, <3>2, <1>1
  <2>6. Current'
    <3>1. Len(items') - batch'.at + 1 = Len(items) + 1 /\ batch'.at <= Len(items')
      BY <2>1, <2>5, <1>1
    <3>2. AssistantRow(calls).calls = calls /\ batch'.calls = calls
      BY <2>1 DEF AssistantRow, Row
    <3> QED BY <3>1, <3>2, <2>5 DEF Current
  <2> QED BY <2>3, <2>6
<1>3. CASE BatchCall
  <2>1. /\ batch'.at = batch.at + 1 /\ batch'.calls = batch.calls
        /\ batch'.open = batch.open \ {batch.calls[batch.at]}
        /\ pc = "batch" /\ dup' = dup /\ batch.at \in DOMAIN batch.calls
    BY <1>3 DEF BatchCall, Called, TypeOK
  <2>2. OpenCalls'
    BY <2>1, <1>1 DEF OpenCalls
  <2>3. ~dup => Len(items') = Len(items) + 1
    BY <1>3, CalledRows
  <2>4. ASSUME ~dup
        PROVE  /\ batch'.at <= Len(items')
               /\ items'[Len(items') - batch'.at + 1].calls = batch'.calls
    <3>1. batch.at <= Len(items) /\ items[Len(items) - batch.at + 1].calls = batch.calls
      BY <2>1, <2>4 DEF Current
    <3>2. /\ Len(items') - batch'.at + 1 = Len(items) - batch.at + 1
          /\ Len(items) - batch.at + 1 \in DOMAIN items
          /\ batch'.at <= Len(items')
      BY <2>1, <2>3, <2>4, <3>1, <1>1
    <3> QED BY <2>1, <3>1, <3>2 DEF RowsKept
  <2> QED BY <2>1, <2>2, <2>4 DEF Current
<1>4. CASE Quiet \/ AdmitSteering \/ DeclareHeld \/ Declare \/ AnswerEnds \/ EndBatch
  <2>1. pc' # "batch"
    BY <1>4 DEF Quiet, Checkpoint, CheckpointRefused, NoCheckpoint, RequestFails, AdmitSteering,
                DeclareHeld, Declare, AnswerEnds, EndBatch
  <2> QED BY <2>1 DEF OpenCalls, Current
<1>5. CASE UNCHANGED vars
  BY <1>5 DEF vars, OpenCalls, Current
<1> QED
  BY <1>2, <1>3, <1>4, <1>5 DEF Next, Quiet

\* Outside a batch every call has its answer; at the end of one, too.
LEMMA AllAnswered ==
    ASSUME RowsInv, pc # "stopped", ~dup, pc # "batch" \/ batch.at > Len(batch.calls)
    PROVE  \A j \in DOMAIN items : \A k \in DOMAIN items[j].calls :
               j + k \in DOMAIN items /\ Answer(j, k)
<1> USE DEF RowsInv
<1> SUFFICES ASSUME NEW j \in DOMAIN items, NEW k \in DOMAIN items[j].calls,
                    j + k \notin DOMAIN items
             PROVE  FALSE
  BY DEF CallsAnswered
<1>1. /\ Len(items) \in Nat /\ DOMAIN items = 1..Len(items)
      /\ batch.at \in Nat \ {0} /\ Len(batch.calls) \in Nat
      /\ DOMAIN batch.calls = 1..Len(batch.calls)
  BY LenProperties DEF TypeOK
<1>2. pc = "batch" /\ j = Len(items) - batch.at + 1
  BY DEF CallsAnswered
<1>3. items[j].calls = batch.calls /\ batch.at <= Len(items)
  BY <1>2 DEF Current
<1>4. k \in 1..Len(batch.calls) /\ batch.at > Len(batch.calls)
  BY <1>1, <1>2, <1>3
<1> QED
  BY <1>1, <1>2, <1>3, <1>4

\* New rows that are no tool results and make no calls, or the calls that are now dispatched.
LEMMA AppendedStep ==
    ASSUME RowsInv, RowsKept, pc \notin {"stopped", "batch"}, dup => dup',
           items' \in Seq(Rows),
           \A i \in DOMAIN items' : i > Len(items) =>
               /\ items'[i].role # "tool"
               /\ \/ items'[i].calls = <<>>
                  \/ pc' = "batch" /\ i = Len(items') /\ batch'.at = 1
    PROVE  CallsAnswered' /\ ResultsCalled'
<1> USE DEF RowsInv
<1>1. /\ Len(items) \in Nat /\ DOMAIN items = 1..Len(items)
      /\ Len(items') \in Nat /\ DOMAIN items' = 1..Len(items')
      /\ \A i \in DOMAIN items : i \in DOMAIN items'
  <2>1. Len(items) \in Nat /\ DOMAIN items = 1..Len(items)
    BY LenProperties DEF TypeOK
  <2>2. Len(items') \in Nat /\ DOMAIN items' = 1..Len(items')
    BY LenProperties
  <2> QED BY <2>1, <2>2 DEF RowsKept
<1>2. ASSUME ~dup', NEW j \in DOMAIN items', NEW k \in DOMAIN items'[j].calls
      PROVE  IF j + k \in DOMAIN items' THEN Answer(j, k)'
             ELSE pc' = "batch" /\ j = Len(items') - batch'.at + 1
  <2>1. CASE j \in DOMAIN items
    <3>1. items'[j].calls = items[j].calls
      BY <2>1 DEF RowsKept
    <3>2. j + k \in DOMAIN items /\ Answer(j, k)
      BY <1>2, <2>1, <3>1, AllAnswered
    <3> QED BY <1>1, <2>1, <3>1, <3>2 DEF RowsKept, Answer
  <2>2. CASE j \notin DOMAIN items
    <3>1. j > Len(items) /\ items'[j].calls # <<>>
      BY <1>1, <1>2, <2>2
    <3>2. pc' = "batch" /\ j = Len(items') /\ batch'.at = 1
      BY <1>2, <3>1
    <3>3. k \in Nat \ {0}
      <4>1. items'[j] \in Rows
        BY <1>2, ElementOfSeq, <1>1
      <4>2. items'[j].calls \in Seq(CallIds)
        BY <4>1 DEF Rows
      <4>3. DOMAIN items'[j].calls = 1..Len(items'[j].calls) /\ Len(items'[j].calls) \in Nat
        BY <4>2, LenProperties
      <4> QED BY <1>2, <4>3
    <3> QED BY <1>1, <3>2, <3>3
  <2> QED BY <2>1, <2>2
<1>3. ASSUME ~dup', NEW i \in DOMAIN items', items'[i].role = "tool"
      PROVE  \E j \in 1..i - 1 : i - j \in DOMAIN items'[j].calls /\ Answer(j, i - j)'
  <2>1. i \in DOMAIN items
    BY <1>1, <1>3
  <2>2. items[i].role = "tool"
    BY <1>3, <2>1 DEF RowsKept
  <2>3. PICK j \in 1..i - 1 : i - j \in DOMAIN items[j].calls /\ Answer(j, i - j)
    BY <1>3, <2>1, <2>2 DEF ResultsCalled
  <2>4. j \in DOMAIN items /\ j + (i - j) = i
    BY <1>1, <2>1, <2>3
  <2>5. items'[j].calls = items[j].calls /\ items'[i].answers = items[i].answers
    BY <2>1, <2>4 DEF RowsKept
  <2> QED BY <1>3, <2>3, <2>4, <2>5 DEF Answer
<1> QED
  BY <1>2, <1>3 DEF CallsAnswered, ResultsCalled

\* Requests stay well formed through every handler.
LEMMA WireStep ==
    ASSUME RowsInv, [Next]_vars, RowsKept, TypeOK'
    PROVE  CallsAnswered' /\ ResultsCalled'
<1> USE DEF RowsInv
<1>1. /\ items \in Seq(Rows) /\ Len(items) \in Nat /\ DOMAIN items = 1..Len(items)
      /\ batch.at \in Nat \ {0} /\ Len(batch.calls) \in Nat
      /\ DOMAIN batch.calls = 1..Len(batch.calls) /\ items' \in Seq(Rows)
      /\ Len(items') \in Nat /\ DOMAIN items' = 1..Len(items')
  BY LenProperties DEF TypeOK
<1>2. WindowFits
  BY DEF NothingForgotten, WindowFits
<1>3. CASE AdmitSteering
  <2>1. \A i \in 1..Len(items') : items'[i] = IF i <= Len(items) THEN items[i] ELSE UserRow
    BY <1>3, AdmittedRows
  <2>2. \A i \in DOMAIN items' : i > Len(items) => items'[i] = UserRow
    BY <2>1, <1>1
  <2>3. pc \notin {"stopped", "batch"} /\ (dup => dup')
    BY <1>3 DEF AdmitSteering
  <2> QED BY <1>1, <2>2, <2>3, AppendedStep DEF UserRow, Row
<1>4. CASE DeclareHeld \/ Declare
  <2>1. Answered(<<AssistantRow(<<>>)>>) /\ <<AssistantRow(<<>>)>> \in Seq(Rows)
    BY <1>4, AnswerKinds
  <2>2. /\ Len(items') = Len(items) + 1
        /\ \A i \in 1..Len(items') : items'[i] = IF i <= Len(items) THEN items[i]
                                     ELSE <<AssistantRow(<<>>)>>[i - Len(items)]
    BY <1>2, <2>1, AnsweredRows
  <2>3. \A i \in DOMAIN items' : i > Len(items) => items'[i] = AssistantRow(<<>>)
    BY <2>2, <1>1
  <2>4. pc \notin {"stopped", "batch"} /\ (dup => dup')
    BY <1>4 DEF DeclareHeld, Declare
  <2> QED BY <1>1, <2>3, <2>4, AppendedStep DEF AssistantRow, Row
<1>5. CASE Dispatch
  <2>1. /\ Answered(<<AssistantRow(batch'.calls)>>)
        /\ <<AssistantRow(batch'.calls)>> \in Seq(Rows)
    BY <1>5, AnswerKinds
  <2>2. /\ Len(items') = Len(items) + 1
        /\ \A i \in 1..Len(items') : items'[i] = IF i <= Len(items) THEN items[i]
                                     ELSE <<AssistantRow(batch'.calls)>>[i - Len(items)]
    BY <1>2, <2>1, AnsweredRows
  <2>3. \A i \in DOMAIN items' : i > Len(items) => i = Len(items')
                                                   /\ items'[i] = AssistantRow(batch'.calls)
    BY <2>2, <1>1
  <2>4. pc \notin {"stopped", "batch"} /\ pc' = "batch" /\ batch'.at = 1 /\ (dup => dup')
    <3>1. pc = "request" /\ pc' = "batch"
      BY <1>5 DEF Dispatch
    <3>2. PICK calls \in Calls :
              /\ batch' = [calls |-> calls, at |-> 1, open |-> {calls[k] : k \in DOMAIN calls},
                           failed |-> FALSE, actions |-> count.actions, edits |-> count.edits]
              /\ dup' = (dup \/ \E k, l \in DOMAIN calls : k # l /\ calls[k] = calls[l])
      BY <1>5 DEF Dispatch
    <3>3. batch'.at = 1
      BY <3>2
    <3>4. dup => dup'
      BY <3>2, Zenon
    <3> QED BY <3>1, <3>3, <3>4
  <2>5. AssistantRow(batch'.calls).role # "tool"
    BY DEF AssistantRow, Row
  <2> QED BY <1>1, <2>3, <2>4, <2>5, AppendedStep
<1>6. CASE BatchCall
  <2> SUFFICES ASSUME ~dup'
               PROVE  CallsAnswered' /\ ResultsCalled'
    BY DEF CallsAnswered, ResultsCalled
  <2>1. /\ batch'.at = batch.at + 1 /\ batch'.calls = batch.calls
        /\ pc = "batch" /\ pc' = "batch" /\ dup' = dup
    BY <1>6 DEF BatchCall, Called, TypeOK
  <2>2. /\ Len(items') = Len(items) + 1
        /\ batch.at \in DOMAIN batch.calls
        /\ items'[Len(items) + 1].role = "tool"
        /\ items'[Len(items) + 1].calls = <<>>
        /\ items'[Len(items) + 1].answers = batch.calls[batch.at]
    BY <1>6, <2>1, CalledRows
  <2> DEFINE caller == Len(items) - batch.at + 1
  <2>3. /\ caller \in DOMAIN items /\ items[caller].calls = batch.calls
        /\ caller = Len(items') - batch'.at + 1
    BY SMTT(30), <1>1, <2>1, <2>2 DEF Current
  <2>4. ASSUME NEW j \in DOMAIN items', NEW k \in DOMAIN items'[j].calls
        PROVE  IF j + k \in DOMAIN items' THEN Answer(j, k)'
               ELSE pc' = "batch" /\ j = Len(items') - batch'.at + 1
    <3>1. j \in DOMAIN items /\ items'[j].calls = items[j].calls
      BY <1>1, <2>2, <2>4 DEF RowsKept
    <3>2. IF j + k \in DOMAIN items THEN Answer(j, k) ELSE j = caller
      BY <2>1, <2>4, <3>1 DEF CallsAnswered
    <3>3. CASE j + k \in DOMAIN items
      BY <1>1, <2>2, <3>1, <3>2, <3>3 DEF Answer, RowsKept
    <3>4. CASE j + k \notin DOMAIN items
      <4>1. j = caller /\ k \in DOMAIN batch.calls
        BY <2>3, <2>4, <3>1, <3>2, <3>4
      <4>2. CASE j + k = Len(items) + 1
        <5>1. k = batch.at
          BY <1>1, <4>1, <4>2
        <5> QED BY <1>1, <2>2, <2>3, <3>1, <4>1, <4>2, <5>1 DEF Answer
      <4>3. CASE j + k # Len(items) + 1
        <5>1. j + k \notin DOMAIN items'
          BY <1>1, <2>2, <3>4, <4>1, <4>3
        <5> QED BY <2>1, <2>3, <4>1, <5>1
      <4> QED BY <4>2, <4>3
    <3> QED BY <3>3, <3>4
  <2>5. ASSUME NEW i \in DOMAIN items', items'[i].role = "tool"
        PROVE  \E j \in 1..i - 1 : i - j \in DOMAIN items'[j].calls /\ Answer(j, i - j)'
    <3>1. CASE i \in DOMAIN items
      <4>1. items[i].role = "tool"
        BY <2>5, <3>1 DEF RowsKept
      <4>2. PICK j \in 1..i - 1 : i - j \in DOMAIN items[j].calls /\ Answer(j, i - j)
        BY <2>1, <3>1, <4>1 DEF ResultsCalled
      <4>3. j \in DOMAIN items /\ j + (i - j) = i
        BY <1>1, <3>1, <4>2
      <4>4. items'[j].calls = items[j].calls /\ items'[i].answers = items[i].answers
        BY <3>1, <4>3 DEF RowsKept
      <4> QED BY <2>5, <4>2, <4>3, <4>4 DEF Answer
    <3>2. CASE i \notin DOMAIN items
      <4>1. i = Len(items) + 1
        BY <1>1, <2>2, <3>2
      <4>2. caller \in 1..i - 1 /\ i - caller = batch.at /\ caller + (i - caller) = i
        BY <1>1, <2>3, <4>1
      <4>3. items'[caller].calls = batch.calls
        BY <2>3 DEF RowsKept
      <4> HIDE DEF caller
      <4> QED BY <2>2, <4>1, <4>2, <4>3 DEF Answer
    <3> QED BY <3>1, <3>2
  <2> HIDE DEF caller
  <2> QED BY <2>4, <2>5 DEF CallsAnswered, ResultsCalled
<1>7. CASE EndBatch \/ Quiet
  <2>1. items' = items /\ dup' = dup /\ pc # "stopped"
        /\ (pc = "batch" => batch.at > Len(batch.calls))
    BY <1>7 DEF EndBatch, Quiet, Checkpoint, CheckpointRefused, NoCheckpoint, RequestFails
  <2>2. CallsAnswered'
    BY <2>1, AllAnswered DEF CallsAnswered, Answer
  <2>3. ResultsCalled'
    BY <2>1 DEF ResultsCalled, Answer
  <2> QED BY <2>2, <2>3
<1>8. CASE AnswerEnds
  BY <1>8 DEF AnswerEnds, CallsAnswered, ResultsCalled
<1>9. CASE UNCHANGED vars
  BY <1>9 DEF vars, CallsAnswered, ResultsCalled, Answer
<1> QED
  BY <1>3, <1>4, <1>5, <1>6, <1>7, <1>8, <1>9 DEF Next, Quiet

-----------------------------------------------------------------------------
(* Theorems.                                                               *)

\* The invariant holds in every state of every run.
THEOREM RowsInvariant == Spec => []RowsInv
<1>1. Init => RowsInv
  <2> SUFFICES ASSUME Init PROVE RowsInv
    OBVIOUS
  <2>1. TypeOK
    <3>1. <<>> \in Seq(Rows) /\ <<>> \in Seq(CallIds) /\ <<>> \in Seq(Notes)
      BY EmptySeq
    <3>2. pc \in PCs /\ dup \in BOOLEAN /\ steering \in Nat
      <4>1. pc = "head" /\ dup = FALSE /\ steering \in 1..MaxInputs
        BY DEF Init
      <4>2. steering \in Nat
        BY <4>1, TranscriptAssumption
      <4> QED BY <4>1, <4>2 DEF PCs
    <3>2a. items \in Seq(Rows) /\ synced \in Seq(Rows)
      BY <3>1 DEF Init
    <3>3. /\ turn \in [n : Nat, tried : Nat, followups : Nat]
          /\ window \in [keep : Nat, covered : SUBSET Nat]
          /\ hold \in [armed : BOOLEAN, nudges : Nat, base : Nat]
      BY TranscriptAssumption DEF Init
    <3>4. anchor \in [messages : Nat, rows : Nat, held : BOOLEAN]
      BY DEF Init, NoAnchor
    <3>5. batch \in [calls : Seq(CallIds), at : Nat \ {0}, open : SUBSET CallIds, failed : BOOLEAN,
                     actions : Nat, edits : Nat]
      BY <3>1 DEF Init, NoBatch
    <3>6. /\ count \in [actions : Nat, edits : Nat, batches : Nat, failed : Nat]
          /\ notice \in [queue : Seq(Notes), sent : SUBSET OneShots]
      BY <3>1 DEF Init
    <3> QED BY <3>2, <3>3, <3>4, <3>5, <3>6, <3>2a DEF TypeOK
  <2>2. window.keep = 0 /\ window.covered = {} /\ items = <<>> /\ pc = "head"
    BY DEF Init
  <2>3. NothingForgotten
    BY <2>2 DEF NothingForgotten
  <2> QED BY <2>1, <2>2, <2>3 DEF Init, RowsInv, Mirrored, CutClean, AnchorExact, OpenCalls, Current,
                                  CallsAnswered, ResultsCalled
<1>2. RowsInv /\ [Next]_vars => RowsInv'
  <2> SUFFICES ASSUME RowsInv, [Next]_vars PROVE RowsInv'
    OBVIOUS
  <2>1. TypeOK'
    BY TypedStep
  <2>2. Mirrored' /\ RowsKept
    BY MirroredStep
  <2>3. NothingForgotten' /\ CutClean'
    BY <2>1, <2>2, WindowStep
  <2>4. AnchorExact'
    BY <2>1, <2>2, <2>3, AnchorStep
  <2>5. OpenCalls' /\ Current'
    BY <2>2, BatchStep
  <2>6. CallsAnswered' /\ ResultsCalled'
    BY <2>1, <2>2, WireStep
  <2> QED BY <2>1, <2>2, <2>3, <2>4, <2>5, <2>6 DEF RowsInv
<1> QED
  BY <1>1, <1>2, PTL DEF Spec

\* NothingForgotten, for any number of composed checkpoints.
THEOREM NothingForgottenAlways == Spec => []NothingForgotten
<1>1. RowsInv => NothingForgotten
  BY DEF RowsInv
<1> QED
  BY <1>1, RowsInvariant, PTL

\* AnchorExact, for any sequence of requests and checkpoints.
THEOREM AnchorExactAlways == Spec => []AnchorExact
<1>1. RowsInv => AnchorExact
  BY DEF RowsInv
<1> QED
  BY <1>1, RowsInvariant, PTL

\* DurableText, for any answers and directives.
THEOREM DurableTextAlways == Spec => []DurableText
<1>1. RowsInv => DurableText
  <2> SUFFICES ASSUME RowsInv, ~dup
               PROVE  /\ Len(synced) <= Len(items)
                      /\ \A i \in DOMAIN synced : synced[i] = items[i]
                      /\ pc \in {"checkpoint", "request"} => Len(synced) = Len(items)
    BY DEF DurableText
  <2>1. synced = items /\ Len(items) \in Nat
    BY LenProperties DEF RowsInv, Mirrored, TypeOK
  <2> QED BY <2>1
<1> QED
  BY <1>1, RowsInvariant, PTL

\* The view is well formed, whatever was cut.
LEMMA ViewWellFormed ==
    ASSUME RowsInv, pc = "request", ~dup
    PROVE  /\ \A j \in DOMAIN View : \A k \in DOMAIN View[j].calls :
                  j + k \in DOMAIN View /\ View[j + k].answers = View[j].calls[k]
           /\ \A i \in DOMAIN View : View[i].role = "tool" =>
                  \E j \in 1..i - 1 : /\ i - j \in DOMAIN View[j].calls
                                      /\ View[j].calls[i - j] = View[i].answers
<1> USE DEF RowsInv
<1>1. /\ items \in Seq(Rows) /\ window.keep \in Nat /\ window.keep <= Len(items)
      /\ Len(items) \in Nat /\ DOMAIN items = 1..Len(items)
  BY LenProperties DEF TypeOK, NothingForgotten
<1>2. \A j \in DOMAIN items : \A k \in DOMAIN items[j].calls :
          j + k \in DOMAIN items /\ Answer(j, k)
  BY AllAnswered
<1>3. \A i \in DOMAIN items : items[i].role = "tool" =>
          \E j \in 1..i - 1 : i - j \in DOMAIN items[j].calls /\ Answer(j, i - j)
  BY DEF ResultsCalled
<1>4. \A i \in DOMAIN items : items[i].calls \in Seq(CallIds)
  <2>1. \A i \in DOMAIN items : items[i] \in Rows
    BY <1>1, ElementOfSeq
  <2> QED BY <2>1 DEF Rows
<1>5. CASE window.keep = 0
  <2>1. View = items
    BY <1>5 DEF View, ViewOf
  <2>2. ASSUME NEW i \in DOMAIN items, items[i].role = "tool"
        PROVE  \E j \in 1..i - 1 : /\ i - j \in DOMAIN items[j].calls
                                   /\ items[j].calls[i - j] = items[i].answers
    <3>1. PICK j \in 1..i - 1 : i - j \in DOMAIN items[j].calls /\ Answer(j, i - j)
      BY <1>3, <2>2
    <3>2. j + (i - j) = i
      BY <1>1, <2>2
    <3> QED BY <3>1, <3>2 DEF Answer
  <2> QED BY <1>2, <2>1, <2>2 DEF Answer
<1>6. CASE window.keep > 0
  <2> DEFINE at(v) == window.keep + v - 1
  <2>1. /\ Len(View) = Len(items) - window.keep + 1
        /\ View[1] = UserRow
        /\ \A v \in 2..Len(View) : View[v] = items[at(v)]
        /\ DOMAIN View = 1..Len(View)
    BY SMTT(30), <1>1, <1>6, ViewRows, LenProperties DEF View
  <2>2. window.keep < Len(items) /\ items[window.keep + 1].role # "tool"
    BY <1>6 DEF CutClean
  <2>3. ASSUME NEW j \in DOMAIN View, NEW k \in DOMAIN View[j].calls
        PROVE  j + k \in DOMAIN View /\ View[j + k].answers = View[j].calls[k]
    <3>1. j # 1
      BY <2>1, <2>3 DEF UserRow, Row
    <3>2. j \in 2..Len(View) /\ at(j) \in DOMAIN items /\ View[j] = items[at(j)]
      BY <1>1, <2>1, <2>3, <3>1
    <3>3. at(j) + k \in DOMAIN items /\ Answer(at(j), k) /\ k \in Nat \ {0}
      BY <1>2, <1>4, <2>3, <3>2, LenProperties
    <3>4. j + k \in 2..Len(View) /\ at(j + k) = at(j) + k
      <4>1. at(j) + k <= Len(items) /\ j \in Nat /\ j >= 2 /\ at(j) = window.keep + j - 1
        BY <1>1, <2>1, <3>2, <3>3
      <4> DEFINE rows == Len(items)
      <4> DEFINE shown == Len(View)
      <4>2. rows \in Nat /\ shown = rows - window.keep + 1 /\ window.keep <= rows
        BY <1>1, <2>1
      <4>3. window.keep + j - 1 + k <= rows
        BY <4>1
      <4> HIDE DEF rows, shown
      <4>4. j + k >= 2 /\ j + k <= shown /\ j + k \in Nat /\ shown \in Int
        BY SMTT(30), <1>1, <3>3, <4>1, <4>2, <4>3
      <4>5. j + k \in 2..shown
        BY <4>4
      <4>6. at(j + k) = window.keep + (j + k) - 1
        OBVIOUS
      <4>7. at(j + k) = at(j) + k
        BY SMTT(30), <1>1, <3>3, <4>1, <4>6
      <4> QED BY <4>5, <4>7 DEF shown
    <3> HIDE DEF at
    <3> QED BY <2>1, <3>2, <3>3, <3>4 DEF Answer
  <2>4. ASSUME NEW i \in DOMAIN View, View[i].role = "tool"
        PROVE  \E j \in 1..i - 1 : /\ i - j \in DOMAIN View[j].calls
                                   /\ View[j].calls[i - j] = View[i].answers
    <3>1. i # 1
      BY <2>1, <2>4 DEF UserRow, Row
    <3>2. i \in 2..Len(View) /\ at(i) \in DOMAIN items /\ View[i] = items[at(i)]
      BY <1>1, <2>1, <2>4, <3>1
    <3>3. PICK j \in 1..at(i) - 1 :
              at(i) - j \in DOMAIN items[j].calls /\ Answer(j, at(i) - j)
      BY <1>3, <2>4, <3>2
    <3>4. j \in DOMAIN items
      BY <1>1, <3>2, <3>3
    <3>5. j > window.keep
      <4> SUFFICES ASSUME j <= window.keep PROVE FALSE
        BY <1>1, <3>3, <3>4
      <4>1. Len(items[j].calls) \in Nat /\ DOMAIN items[j].calls = 1..Len(items[j].calls)
        BY <1>4, <3>4, LenProperties
      <4>2. window.keep + 1 - j \in DOMAIN items[j].calls
        BY SMTT(30), <1>1, <3>2, <3>3, <3>4, <4>1
      <4>3. Answer(j, window.keep + 1 - j) /\ j + (window.keep + 1 - j) = window.keep + 1
        BY <1>1, <1>2, <3>4, <4>2
      <4> QED BY <2>2, <4>3 DEF Answer
    <3>6. PICK v \in 2..i - 1 : at(v) = j
      <4>1. j - window.keep + 1 \in 2..i - 1 /\ at(j - window.keep + 1) = j
        BY SMTT(30), <1>1, <3>2, <3>3, <3>4, <3>5
      <4> QED BY <4>1
    <3>7. /\ v \in 1..i - 1 /\ View[v] = items[j] /\ i - v = at(i) - j
          /\ j + (at(i) - j) = at(i)
      <4>1. at(v) = window.keep + v - 1 /\ at(i) = window.keep + i - 1 /\ v \in Nat /\ i \in Nat
        BY <1>1, <2>1, <3>2, <3>6
      <4>2. v \in 2..Len(View)
        BY <1>1, <2>1, <3>2, <3>6
      <4>3. View[v] = items[j]
        BY <2>1, <3>6, <4>2
      <4>4. v \in 1..i - 1 /\ i - v = at(i) - j /\ j + (at(i) - j) = at(i)
        BY <1>1, <3>6, <4>1
      <4> QED BY <4>3, <4>4
    <3> HIDE DEF at
    <3> QED BY <3>2, <3>3, <3>7 DEF Answer
  <2> QED BY <2>3, <2>4
<1> QED BY <1>1, <1>5, <1>6

\* WireWellFormed, for any answers and any cuts, with and without a held nudge.
THEOREM WireWellFormedAlways == Spec => []WireWellFormed
<1>1. RowsInv => WireWellFormed
  <2> SUFFICES ASSUME RowsInv, pc = "request", ~dup
               PROVE  /\ \A j \in DOMAIN Request : \A k \in DOMAIN Request[j].calls :
                             j + k \in DOMAIN Request /\ Request[j + k].answers = Request[j].calls[k]
                      /\ \A i \in DOMAIN Request : Request[i].role = "tool" =>
                             \E j \in 1..i - 1 : /\ i - j \in DOMAIN Request[j].calls
                                                 /\ Request[j].calls[i - j] = Request[i].answers
    BY DEF WireWellFormed
  <2>1. /\ Len(View) \in Nat
        /\ Len(Request) = Len(View) + (IF hold.armed THEN 1 ELSE 0)
        /\ \A i \in 1..Len(View) : Request[i] = View[i]
        /\ hold.armed => Request[Len(View) + 1] = UserRow
    BY RequestRows DEF RowsInv, NothingForgotten, WindowFits
  <2>2. DOMAIN View = 1..Len(View) /\ DOMAIN Request = 1..Len(Request)
    <3>1. View \in Seq(Rows) /\ Request \in Seq(Rows)
      BY RequestRows DEF RowsInv, NothingForgotten, WindowFits
    <3> QED BY <3>1, LenProperties
  <2>3. UserRow.calls = <<>> /\ UserRow.role # "tool"
    BY DEF UserRow, Row
  <2>4. \A i \in DOMAIN Request : i \in DOMAIN View \/ Request[i] = UserRow
    BY <2>1, <2>2
  <2>5. DOMAIN View \subseteq DOMAIN Request /\ \A i \in DOMAIN View : Request[i] = View[i]
    BY <2>1, <2>2
  <2>6. ASSUME NEW j \in DOMAIN Request, NEW k \in DOMAIN Request[j].calls
        PROVE  j + k \in DOMAIN Request /\ Request[j + k].answers = Request[j].calls[k]
    <3>1. j \in DOMAIN View
      BY <2>3, <2>4, <2>6
    <3>2. j + k \in DOMAIN View /\ View[j + k].answers = View[j].calls[k]
      BY <2>5, <2>6, <3>1, ViewWellFormed
    <3> QED BY <2>5, <3>1, <3>2
  <2>7. ASSUME NEW i \in DOMAIN Request, Request[i].role = "tool"
        PROVE  \E j \in 1..i - 1 : /\ i - j \in DOMAIN Request[j].calls
                                   /\ Request[j].calls[i - j] = Request[i].answers
    <3>1. i \in DOMAIN View
      BY <2>3, <2>4, <2>7
    <3>2. PICK j \in 1..i - 1 : /\ i - j \in DOMAIN View[j].calls
                                /\ View[j].calls[i - j] = View[i].answers
      BY <2>5, <2>7, <3>1, ViewWellFormed
    <3>3. j \in DOMAIN View
      BY <2>1, <2>2, <3>1, <3>2
    <3> QED BY <2>5, <3>1, <3>2, <3>3
  <2> QED BY <2>6, <2>7
<1> QED
  BY <1>1, RowsInvariant, PTL

-----------------------------------------------------------------------------
(* Directives.                                                             *)

Carriers(rows, text) == {i \in DOMAIN rows : text \in rows[i].notes}

\* What the queue may hold between two steps: a rolled back batch leaves one notice.
Waiting == {<<>>, <<"rollback">>}

\* A latched directive is on one row and the others on none; rollback notices are on rows of
\* their own, or the last one waits for a tail.  It waits only until the first call of a batch,
\* which brings its row: from then on there is a tail, and nothing waits.
NoticeInv ==
    /\ \A text \in OneShots :
           IF text \in notice.sent THEN \E i \in DOMAIN items : Carriers(items, text) = {i}
           ELSE Carriers(items, text) = {}
    /\ Cardinality(Carriers(items, "rollback")) + Len(notice.queue) = count.failed
    /\ notice.queue \in Waiting
    /\ batch.failed => notice.queue = <<>>
    /\ pc = "batch" =>
           \/ \A k \in DOMAIN batch.calls : batch.calls[k] \in batch.open
           \/ notice.queue = <<>> /\ \E t \in DOMAIN items : IsTail(items, t)

\* Rows without directives change no text's carriers.
LEMMA BlankRows ==
    ASSUME NEW rows \in Seq(Rows), NEW more \in Seq(Rows),
           Len(rows) <= Len(more),
           \A i \in DOMAIN rows : more[i].notes = rows[i].notes,
           \A i \in DOMAIN more : i > Len(rows) => more[i].notes = {},
           NEW text
    PROVE  Carriers(more, text) = Carriers(rows, text)
<1>1. /\ DOMAIN rows = 1..Len(rows) /\ DOMAIN more = 1..Len(more)
      /\ Len(rows) \in Nat /\ Len(more) \in Nat
  BY LenProperties
<1>2. DOMAIN rows \subseteq DOMAIN more
  BY <1>1
<1>3. \A i \in DOMAIN more : i \in DOMAIN rows \/ i > Len(rows)
  BY <1>1
<1> QED
  BY <1>2, <1>3 DEF Carriers

Elements(queue) == {queue[k] : k \in DOMAIN queue}

\* push_directive below the cap drops nothing.
LEMMA PushKeeps ==
    ASSUME NEW queue \in Seq(Notes), NEW text \in Notes, NEW due \in BOOLEAN,
           Len(queue) < DirectiveCap
    PROVE  /\ PushIf(due, queue, text) \in Seq(Notes)
           /\ Len(PushIf(due, queue, text)) = Len(queue) + (IF due THEN 1 ELSE 0)
           /\ Elements(PushIf(due, queue, text)) = Elements(queue) \cup (IF due THEN {text} ELSE {})
<1>1. Len(queue) \in Nat /\ DOMAIN queue = 1..Len(queue) /\ ~(Len(queue) >= DirectiveCap)
  BY LenProperties, TranscriptAssumption
<1>2. CASE ~due
  BY <1>1, <1>2 DEF PushIf
<1>3. CASE due
  <2> DEFINE pushed == Append(queue, text)
  <2>1. PushIf(due, queue, text) = pushed
    BY <1>1, <1>3 DEF PushIf, Push
  <2>2. /\ pushed \in Seq(Notes) /\ Len(pushed) = Len(queue) + 1
        /\ \A k \in 1..Len(queue) : pushed[k] = queue[k]
        /\ pushed[Len(queue) + 1] = text
    BY AppendProperties
  <2>3. DOMAIN pushed = 1..Len(queue) + 1
    BY <2>2, LenProperties
  <2> HIDE DEF pushed
  <2>4. Elements(pushed) = Elements(queue) \cup {text}
    <3>1. \A k \in DOMAIN pushed : k \in DOMAIN queue \/ k = Len(queue) + 1
      BY <1>1, <2>3
    <3>2. DOMAIN queue \subseteq DOMAIN pushed /\ Len(queue) + 1 \in DOMAIN pushed
      BY <1>1, <2>3
    <3> QED BY <1>1, <2>2, <3>1, <3>2 DEF Elements
  <2> QED BY <1>3, <2>1, <2>2, <2>4
<1> QED
  BY <1>2, <1>3

\* The two latches of the budget fit behind the rollback notice, which is all that may wait.
LEMMA PushTwice ==
    ASSUME NEW waiting \in Seq(Notes), Len(waiting) <= 1, DirectiveCap >= 3,
           NEW half \in BOOLEAN, NEW late \in BOOLEAN, "half" \in Notes, "late" \in Notes
    PROVE  Elements(PushIf(late, PushIf(half, waiting, "half"), "late"))
               = Elements(waiting) \cup (IF half THEN {"half"} ELSE {})
                                   \cup (IF late THEN {"late"} ELSE {})
<1>1. Len(waiting) \in Nat /\ DirectiveCap \in Int /\ Len(waiting) < DirectiveCap
  BY LenProperties, TranscriptAssumption
<1> DEFINE first == PushIf(half, waiting, "half")
<1>2. /\ first \in Seq(Notes)
      /\ Len(first) = Len(waiting) + (IF half THEN 1 ELSE 0)
      /\ Elements(first) = Elements(waiting) \cup (IF half THEN {"half"} ELSE {})
  BY <1>1, PushKeeps
<1> HIDE DEF first
<1>3. Len(first) < DirectiveCap
  BY <1>1, <1>2
<1>4. Elements(PushIf(late, first, "late")) = Elements(first) \cup (IF late THEN {"late"} ELSE {})
  BY <1>2, <1>3, PushKeeps
<1> QED
  BY <1>2, <1>4 DEF first

\* What settle_tool_tail delivers once there is a tail: all that waits, and the directives it
\* latches, each for the first time.
LEMMA SettleDelivers ==
    ASSUME TypeOK, DirectiveCap >= 3, notice.queue \in Waiting,
           NEW rows \in Seq(Rows), HasTail(rows),
           NEW actions, NEW edits, NEW wrapDue \in BOOLEAN,
           Settle(rows, actions, edits, wrapDue)
    PROVE  \E texts \in SUBSET Notes :
               /\ items' = OnTail(rows, texts)
               /\ "rollback" \in texts <=> notice.queue # <<>>
               /\ texts \cap notice.sent = {}
               /\ notice'.sent = notice.sent \cup (texts \cap OneShots)
               /\ notice'.queue = <<>>
<1> DEFINE half == Due("half", actions, edits)
           late == Due("late", actions, edits)
           wrap == HasTail(rows) /\ NudgeDue(wrapDue)
           first == PushIf(half, notice.queue, "half")
           queue == PushIf(late, first, "late")
           texts == Elements(queue) \cup (IF wrap THEN {"wrap"} ELSE {})
           sent == {text \in OneShots : \/ text = "half" /\ half
                                        \/ text = "late" /\ late
                                        \/ text = "wrap" /\ wrap}
<1>1. items' = OnTail(rows, texts) /\ notice'.sent = notice.sent \cup sent /\ notice'.queue = <<>>
  <2>1. /\ items' = OnTail(rows, texts)
        /\ notice' = [queue |-> <<>>, sent |-> notice.sent \cup sent]
    BY DEF Settle, Elements
  <2> HIDE DEF texts, sent
  <2> QED BY <2>1
<1>2. /\ half \in BOOLEAN /\ late \in BOOLEAN /\ wrap \in BOOLEAN
      /\ half => "half" \notin notice.sent
      /\ late => "late" \notin notice.sent
      /\ wrap => "wrap" \notin notice.sent
  BY DEF Due, NudgeDue, HasTail
<1>3. /\ "half" \in Notes /\ "late" \in Notes /\ "wrap" \in Notes /\ "rollback" \in Notes
      /\ notice.sent \in SUBSET OneShots /\ OneShots = {"half", "late", "wrap"}
      /\ "rollback" \notin OneShots
  BY DEF Notes, OneShots, TypeOK
<1>4. /\ notice.queue \in Seq(Notes) /\ Len(notice.queue) <= 1
      /\ Elements(notice.queue) = IF notice.queue = <<>> THEN {} ELSE {"rollback"}
  <2>1. CASE notice.queue = <<>>
    BY <2>1, EmptySeq DEF Elements
  <2>2. CASE notice.queue = <<"rollback">>
    <3>1. DOMAIN <<"rollback">> = {1} /\ <<"rollback">>[1] = "rollback"
      OBVIOUS
    <3> QED BY <2>2, <3>1, <1>3 DEF Elements
  <2> QED BY <2>1, <2>2 DEF Waiting
<1> HIDE DEF half, late, wrap
<1>5. Elements(queue) = Elements(notice.queue)
                \cup (IF half THEN {"half"} ELSE {}) \cup (IF late THEN {"late"} ELSE {})
  BY <1>2, <1>3, <1>4, PushTwice
<1> HIDE DEF queue
<1> DEFINE waiting == IF notice.queue = <<>> THEN {} ELSE {"rollback"}
<1>6. texts = waiting \cup sent
  <2>1. sent = (IF half THEN {"half"} ELSE {}) \cup (IF late THEN {"late"} ELSE {})
               \cup (IF wrap THEN {"wrap"} ELSE {})
    BY <1>3
  <2>2. Elements(notice.queue) = waiting
    BY <1>4
  <2>3. texts = (waiting \cup (IF half THEN {"half"} ELSE {}) \cup (IF late THEN {"late"} ELSE {}))
                \cup (IF wrap THEN {"wrap"} ELSE {})
    BY <1>5, <2>2
  <2> HIDE DEF texts, waiting, sent
  <2> QED BY <2>1, <2>3
<1>7. sent \subseteq OneShots /\ sent \cap notice.sent = {}
  BY <1>2
<1>8. waiting \subseteq {"rollback"} /\ ("rollback" \in waiting <=> notice.queue # <<>>)
  OBVIOUS
<1> HIDE DEF texts, waiting, sent
<1>9. /\ texts \in SUBSET Notes /\ texts \cap OneShots = sent
      /\ "rollback" \in texts <=> notice.queue # <<>>
      /\ texts \cap notice.sent = {}
  BY <1>3, <1>6, <1>7, <1>8 DEF Notes
<1> QED
  BY <1>1, <1>9

\* append_to_tail adds texts to the carriers of one row, the newest tool result.
LEMMA TailCarries ==
    ASSUME NEW rows \in Seq(Rows), NEW texts \in SUBSET Notes,
           NEW t \in DOMAIN rows, IsTail(rows, t), NEW text
    PROVE  /\ Carriers(OnTail(rows, texts), text)
                  = Carriers(rows, text) \cup (IF text \in texts THEN {t} ELSE {})
           /\ t \in DOMAIN OnTail(rows, texts)
           /\ IsTail(OnTail(rows, texts), t)
<1> DEFINE on == OnTail(rows, texts)
<1>1. DOMAIN rows = 1..Len(rows) /\ Len(rows) \in Nat
  BY LenProperties
<1>2. /\ DOMAIN on = DOMAIN rows
      /\ \A i \in DOMAIN rows :
             on[i] = IF IsTail(rows, i) THEN [rows[i] EXCEPT !.notes = @ \cup texts] ELSE rows[i]
  BY DEF OnTail
<1>3. \A i \in DOMAIN rows : IsTail(rows, i) <=> i = t
  <2> TAKE i \in DOMAIN rows
  <2>1. IsTail(rows, i) => i <= t /\ t <= i
    BY DEF IsTail
  <2>2. i \in Nat /\ t \in Nat
    BY <1>1
  <2> QED BY <2>1, <2>2
<1>4. \A i \in DOMAIN rows : rows[i] \in Rows
  BY ElementOfSeq
<1>5. \A i \in DOMAIN rows : on[i].role = rows[i].role
  BY <1>2, <1>4 DEF Rows
<1>6. \A i \in DOMAIN rows :
          on[i].notes = rows[i].notes \cup (IF i = t THEN texts ELSE {})
  <2> TAKE i \in DOMAIN rows
  <2>1. CASE i = t
    BY <2>1, <1>2, <1>3, <1>4 DEF Rows
  <2>2. CASE i # t
    BY <2>2, <1>2, <1>3
  <2> QED BY <2>1, <2>2
<1> HIDE DEF on
<1>7. Carriers(on, text) = Carriers(rows, text) \cup (IF text \in texts THEN {t} ELSE {})
  BY <1>2, <1>6 DEF Carriers
<1>8. IsTail(on, t)
  BY <1>2, <1>5 DEF IsTail
<1> QED
  BY <1>2, <1>7, <1>8 DEF on

\* The carriers of a text are finitely many.
LEMMA CarriersFinite ==
    ASSUME NEW rows \in Seq(Rows), NEW text
    PROVE  /\ IsFiniteSet(Carriers(rows, text))
           /\ Cardinality(Carriers(rows, text)) \in Nat
           /\ \A i : i \notin Carriers(rows, text) =>
                  Cardinality(Carriers(rows, text) \cup {i}) = Cardinality(Carriers(rows, text)) + 1
<1>1. DOMAIN rows = 1..Len(rows) /\ Len(rows) \in Nat
  BY LenProperties
<1>2. IsFiniteSet(1..Len(rows))
  BY <1>1, FS_Interval
<1>3. Carriers(rows, text) \subseteq 1..Len(rows)
  BY <1>1 DEF Carriers
<1>4. IsFiniteSet(Carriers(rows, text))
  BY <1>2, <1>3, FS_Subset
<1> QED
  BY <1>4, FS_CardinalityType, FS_AddElement

\* The row that record_tool_result leaves as the tail of a running batch: the call's own, or, for
\* an id answered before, an older one, and then nothing waits.
LEMMA RecordedTail ==
    ASSUME RowsInv, NoticeInv, pc = "batch", batch.at \in DOMAIN batch.calls
    PROVE  LET rows == Recorded(batch.calls[batch.at])
           IN  /\ rows \in Seq(Rows)
               /\ \A text : Carriers(rows, text) = Carriers(items, text)
               /\ \E t \in DOMAIN rows :
                      /\ IsTail(rows, t)
                      /\ rows[t].notes = {} \/ notice.queue = <<>>
<1> DEFINE id == batch.calls[batch.at]
           rows == Recorded(id)
<1>1. items \in Seq(Rows) /\ Len(items) \in Nat /\ DOMAIN items = 1..Len(items)
  BY LenProperties DEF RowsInv, TypeOK
<1>2. id \in CallIds /\ TypeOK
  <2>1. TypeOK /\ batch.calls \in Seq(CallIds)
    BY DEF RowsInv, TypeOK
  <2>2. DOMAIN batch.calls = 1..Len(batch.calls)
    BY <2>1, LenProperties
  <2> QED BY <2>1, <2>2, ElementOfSeq
<1>3. rows \in Seq(Rows)
  BY <1>2, RecordedTyped
<1>4. CASE id \in batch.open
  <2>1. rows = Append(items, ToolRow(id)) /\ ToolRow(id) \in Rows
    BY <1>2, <1>4 DEF Recorded, ToolRow, Row, Rows
  <2>2. /\ Len(rows) = Len(items) + 1
        /\ \A i \in 1..Len(items) : rows[i] = items[i]
        /\ rows[Len(items) + 1] = ToolRow(id)
    BY <1>1, <2>1, AppendProperties
  <2>3. DOMAIN rows = 1..Len(items) + 1
    BY <1>3, <2>2, LenProperties
  <2> HIDE DEF rows
  <2>4. IsTail(rows, Len(items) + 1) /\ rows[Len(items) + 1].notes = {}
    BY <1>1, <2>2, <2>3 DEF IsTail, ToolRow, Row
  <2>5. \A text : Carriers(rows, text) = Carriers(items, text)
    <3>1. /\ Len(items) <= Len(rows)
          /\ \A i \in DOMAIN items : rows[i].notes = items[i].notes
          /\ \A i \in DOMAIN rows : i > Len(items) => rows[i].notes = {}
      BY <1>1, <2>2, <2>3 DEF ToolRow, Row
    <3> QED BY <1>1, <1>3, <3>1, BlankRows
  <2>6. Len(items) + 1 \in DOMAIN rows
    BY <1>1, <2>3
  <2> QED BY <1>3, <2>4, <2>5, <2>6 DEF rows
<1>5. CASE id \notin batch.open
  <2>1. rows = items
    BY <1>5 DEF Recorded
  <2>2. notice.queue = <<>> /\ \E t \in DOMAIN items : IsTail(items, t)
    BY <1>5 DEF NoticeInv
  <2> QED BY <1>1, <2>1, <2>2
<1> QED
  BY <1>4, <1>5

\* A call delivers what it latches and what waited.
LEMMA NoticeCall ==
    ASSUME RowsInv, NoticeInv, DirectiveCap >= 3, BatchCall
    PROVE  NoticeInv'
<1> DEFINE id == batch.calls[batch.at]
           rows == Recorded(id)
<1>1. PICK executed, ok, edited, wrapDue \in BOOLEAN :
          /\ Called(executed, ok, edited)
          /\ Settle(rows, count'.actions, count'.edits, wrapDue)
  BY DEF BatchCall
<1>2. /\ batch.at \in DOMAIN batch.calls /\ pc = "batch" /\ count'.failed = count.failed
      /\ TypeOK /\ items \in Seq(Rows)
  BY <1>1 DEF BatchCall, Called, RowsInv, TypeOK
<1>3. /\ rows \in Seq(Rows)
      /\ \A text : Carriers(rows, text) = Carriers(items, text)
  BY <1>2, RecordedTail
<1>4. PICK t \in DOMAIN rows : IsTail(rows, t) /\ (rows[t].notes = {} \/ notice.queue = <<>>)
  BY <1>2, RecordedTail
<1> HIDE DEF rows
<1>5. HasTail(rows) /\ notice.queue \in Waiting
  BY <1>4 DEF HasTail, IsTail, NoticeInv
<1>6. PICK texts \in SUBSET Notes :
               /\ items' = OnTail(rows, texts)
               /\ "rollback" \in texts <=> notice.queue # <<>>
               /\ texts \cap notice.sent = {}
               /\ notice'.sent = notice.sent \cup (texts \cap OneShots)
               /\ notice'.queue = <<>>
  BY <1>1, <1>2, <1>3, <1>5, SettleDelivers
<1>7. /\ \A text : Carriers(items', text)
                       = Carriers(items, text) \cup (IF text \in texts THEN {t} ELSE {})
      /\ t \in DOMAIN items' /\ IsTail(items', t)
  BY <1>3, <1>4, <1>6, TailCarries
<1>8. ASSUME NEW text \in OneShots
      PROVE  IF text \in notice'.sent THEN \E i \in DOMAIN items' : Carriers(items', text) = {i}
             ELSE Carriers(items', text) = {}
  <2>1. CASE text \in notice.sent
    <3>1. Carriers(items', text) = Carriers(items, text) /\ text \in notice'.sent
      BY <1>6, <1>7, <2>1
    <3>2. PICK i \in DOMAIN items : Carriers(items, text) = {i}
      BY <2>1 DEF NoticeInv
    <3>3. i \in DOMAIN items'
      BY <3>1, <3>2 DEF Carriers
    <3> QED BY <3>1, <3>2, <3>3
  <2>2. CASE text \notin notice.sent
    <3>1. Carriers(items, text) = {}
      BY <2>2 DEF NoticeInv
    <3> QED BY <1>6, <1>7, <2>2, <3>1
  <2> QED BY <2>1, <2>2
<1>9. Cardinality(Carriers(items', "rollback")) + Len(notice'.queue) = count'.failed
  <2>1. Len(notice'.queue) = 0
    BY <1>6, EmptySeq
  <2>2. CASE notice.queue = <<>>
    <3>1. Carriers(items', "rollback") = Carriers(items, "rollback") /\ Len(notice.queue) = 0
      BY <1>6, <1>7, <2>2, EmptySeq
    <3> QED BY <1>2, <2>1, <3>1 DEF NoticeInv
  <2>3. CASE notice.queue # <<>>
    <3>1. Len(notice.queue) = 1
      BY <1>5, <2>3 DEF Waiting
    <3>2. t \notin Carriers(items, "rollback")
      BY <1>3, <1>4, <2>3 DEF Carriers
    <3>3. Carriers(items', "rollback") = Carriers(items, "rollback") \cup {t}
      BY <1>6, <1>7, <2>3
    <3>4. /\ Cardinality(Carriers(items', "rollback")) = Cardinality(Carriers(items, "rollback")) + 1
          /\ Cardinality(Carriers(items, "rollback")) \in Nat
      BY <1>2, <3>2, <3>3, CarriersFinite
    <3>5. Cardinality(Carriers(items, "rollback")) + Len(notice.queue) = count.failed
      BY DEF NoticeInv
    <3> QED BY <1>2, <2>1, <3>1, <3>4, <3>5
  <2> QED BY <2>2, <2>3
<1> QED
  BY <1>6, <1>7, <1>8, <1>9 DEF NoticeInv, Waiting

\* Rows without directives, while nothing is delivered or queued.
LEMMA NoticeQuiet ==
    ASSUME RowsInv, NoticeInv, UNCHANGED notice, count'.failed = count.failed,
           items' \in Seq(Rows), Len(items) <= Len(items'),
           \A i \in DOMAIN items : items'[i].notes = items[i].notes,
           \A i \in DOMAIN items' : i > Len(items) => items'[i].notes = {},
           batch' = batch \/ ~batch'.failed,
           pc' # "batch" \/ \A k \in DOMAIN batch'.calls : batch'.calls[k] \in batch'.open
    PROVE  NoticeInv'
<1>1. items \in Seq(Rows)
  BY DEF RowsInv, TypeOK
<1>2. \A text : Carriers(items', text) = Carriers(items, text)
  BY <1>1, BlankRows
<1>3. DOMAIN items \subseteq DOMAIN items'
  BY <1>1, LenProperties
<1> QED
  BY <1>2, <1>3 DEF NoticeInv

\* The notice of a failed batch is queued alone.
LEMMA NoticeEnd ==
    ASSUME RowsInv, NoticeInv, EndBatch
    PROVE  NoticeInv'
<1>1. PICK aborted \in BOOLEAN :
          LET undone == batch.failed \/ aborted
              actions == IF undone THEN batch.actions ELSE count.actions
          IN  /\ count' = [count EXCEPT !.actions = actions,
                                        !.edits = IF undone THEN batch.edits ELSE @,
                                        !.failed = IF batch.failed THEN @ + 1 ELSE @]
              /\ pc' = IF TrialCap > 0 /\ actions >= TrialCap THEN "stopped" ELSE "head"
  BY DEF EndBatch
<1>2. /\ items' = items /\ ~batch'.failed /\ pc' # "batch"
      /\ notice'.sent = notice.sent
      /\ notice'.queue = PushIf(batch.failed, notice.queue, "rollback")
  BY <1>1 DEF EndBatch, NoBatch, RowsInv, TypeOK
<1>3. count'.failed = IF batch.failed THEN count.failed + 1 ELSE count.failed
  BY <1>1 DEF RowsInv, TypeOK
<1>4. batch.failed \in BOOLEAN /\ count.failed \in Nat
  BY DEF RowsInv, TypeOK
<1>5. CASE batch.failed
  <2>1. notice.queue = <<>>
    BY <1>5 DEF NoticeInv
  <2>2. notice'.queue = <<"rollback">>
    <3>1. Len(<<>>) = 0 /\ ~(0 >= DirectiveCap) /\ Append(<<>>, "rollback") = <<"rollback">>
      BY TranscriptAssumption
    <3> QED BY <1>2, <1>5, <2>1, <3>1 DEF PushIf, Push
  <2>3. Len(notice.queue) = 0 /\ Len(notice'.queue) = 1
    BY <2>1, <2>2
  <2>4. Cardinality(Carriers(items, "rollback")) \in Nat
    BY CarriersFinite DEF RowsInv, TypeOK
  <2>5. Cardinality(Carriers(items, "rollback")) + Len(notice.queue) = count.failed
    BY DEF NoticeInv
  <2>6. Cardinality(Carriers(items', "rollback")) + Len(notice'.queue) = count'.failed
    <3>1. Carriers(items', "rollback") = Carriers(items, "rollback")
      BY <1>2
    <3>2. count'.failed = count.failed + 1
      BY <1>3, <1>5
    <3> QED BY <2>3, <2>4, <2>5, <3>1, <3>2
  <2> QED BY <1>2, <2>2, <2>6 DEF NoticeInv, Waiting
<1>6. CASE ~batch.failed
  <2>1. notice'.queue = notice.queue /\ count'.failed = count.failed
    BY <1>2, <1>3, <1>6 DEF PushIf
  <2> QED BY <1>2, <2>1 DEF NoticeInv
<1> QED
  BY <1>4, <1>5, <1>6

\* Directives come and go as they should through every handler.
LEMMA NoticeStep ==
    ASSUME RowsInv, NoticeInv, DirectiveCap >= 3, [Next]_vars, TypeOK'
    PROVE  NoticeInv'
<1>1. /\ items \in Seq(Rows) /\ items' \in Seq(Rows)
      /\ Len(items) \in Nat /\ DOMAIN items = 1..Len(items)
      /\ Len(items') \in Nat /\ DOMAIN items' = 1..Len(items')
      /\ count \in [actions : Nat, edits : Nat, batches : Nat, failed : Nat]
  BY LenProperties DEF RowsInv, TypeOK
<1>2. WindowFits /\ TypeOK /\ Mirrored
  BY DEF RowsInv, NothingForgotten, WindowFits
<1>3. CASE AdmitSteering
  <2>1. /\ Len(items') = Len(items) + steering
        /\ \A i \in 1..Len(items') : items'[i] = IF i <= Len(items) THEN items[i] ELSE UserRow
    BY <1>2, <1>3, AdmittedRows
  <2>2. UNCHANGED <<notice, count, batch>> /\ pc' # "batch" /\ steering \in Nat
    BY <1>2, <1>3 DEF AdmitSteering, TypeOK
  <2>3. \A i \in DOMAIN items : items'[i].notes = items[i].notes
    BY <1>1, <2>1, <2>2
  <2>4. \A i \in DOMAIN items' : i > Len(items) => items'[i].notes = {}
    BY <1>1, <2>1 DEF UserRow, Row
  <2>5. Len(items) <= Len(items')
    BY <1>1, <2>1, <2>2
  <2> QED BY <1>1, <2>2, <2>3, <2>4, <2>5, NoticeQuiet
<1>4. ASSUME UNCHANGED notice, count'.failed = count.failed,
             batch' = batch \/ ~batch'.failed,
             pc' # "batch" \/ \A k \in DOMAIN batch'.calls : batch'.calls[k] \in batch'.open,
             NEW rows \in Seq(Rows), Answered(rows), \A i \in DOMAIN rows : rows[i].notes = {}
      PROVE  NoticeInv'
  <2>1. /\ Len(items') = Len(items) + Len(rows)
        /\ \A i \in 1..Len(items') :
               items'[i] = IF i <= Len(items) THEN items[i] ELSE rows[i - Len(items)]
    BY <1>2, <1>4, AnsweredRows
  <2>2. Len(rows) \in Nat /\ DOMAIN rows = 1..Len(rows)
    BY LenProperties
  <2>3. \A i \in DOMAIN items : items'[i].notes = items[i].notes
    BY <1>1, <2>1, <2>2
  <2>4. ASSUME NEW i \in DOMAIN items', i > Len(items)
        PROVE  items'[i].notes = {}
    <3>1. i - Len(items) \in DOMAIN rows /\ items'[i] = rows[i - Len(items)]
      BY <1>1, <2>1, <2>2, <2>4
    <3> QED BY <1>4, <3>1
  <2>5. Len(items) <= Len(items')
    BY <1>1, <2>1, <2>2
  <2> QED BY <1>1, <1>4, <2>3, <2>4, <2>5, NoticeQuiet
<1>5. /\ \A calls \in Seq(CallIds) : /\ <<AssistantRow(calls)>> \in Seq(Rows)
                                     /\ <<AssistantRow(calls)>>[1].notes = {}
                                     /\ DOMAIN <<AssistantRow(calls)>> = {1}
      /\ \A calls \in Calls \cup {<<>>} : calls \in Seq(CallIds)
      /\ <<>> \in Seq(CallIds)
  <2>1. \A calls \in Calls \cup {<<>>} : calls \in Seq(CallIds)
    <3>1. \A calls \in Calls : calls \in Seq(CallIds)
      BY IsASeq DEF Calls
    <3> QED BY <3>1, EmptySeq
  <2>2. \A calls \in Seq(CallIds) : /\ AssistantRow(calls) \in Rows
                                    /\ AssistantRow(calls).notes = {}
    BY DEF AssistantRow, Row, Rows
  <2> QED BY <2>1, <2>2, EmptySeq
<1>6. CASE DeclareHeld \/ Declare
  <2>1. Answered(<<AssistantRow(<<>>)>>) /\ UNCHANGED <<notice, count, batch>> /\ pc' # "batch"
    BY <1>6 DEF DeclareHeld, Declare
  <2>2. \A i \in DOMAIN <<AssistantRow(<<>>)>> : <<AssistantRow(<<>>)>>[i].notes = {}
    BY <1>5
  <2>3. <<AssistantRow(<<>>)>> \in Seq(Rows)
    BY <1>5
  <2> QED BY <1>4, <2>1, <2>2, <2>3
<1>7. CASE Dispatch
  <2>1. PICK calls \in Calls :
            /\ Answered(<<AssistantRow(calls)>>)
            /\ batch' = [calls |-> calls, at |-> 1, open |-> {calls[k] : k \in DOMAIN calls},
                         failed |-> FALSE, actions |-> count.actions, edits |-> count.edits]
    BY <1>7 DEF Dispatch
  <2>2. UNCHANGED notice /\ count'.failed = count.failed
    BY <1>1, <1>7 DEF Dispatch
  <2>3. ~batch'.failed /\ \A k \in DOMAIN batch'.calls : batch'.calls[k] \in batch'.open
    BY <2>1
  <2>4. calls \in Seq(CallIds)
    BY <1>5
  <2>5. \A i \in DOMAIN <<AssistantRow(calls)>> : <<AssistantRow(calls)>>[i].notes = {}
    BY <1>5, <2>4
  <2>6. <<AssistantRow(calls)>> \in Seq(Rows)
    BY <1>5, <2>4
  <2> QED BY <1>4, <2>1, <2>2, <2>3, <2>5, <2>6
<1>8. CASE AnswerEnds
  <2>1. PICK calls \in Calls \cup {<<>>} :
            \/ Answered([k \in DOMAIN calls |-> ToolRow(calls[k])] \o <<AssistantRow(calls)>>)
            \/ Answered(<<AssistantRow(calls)>>)
            \/ Answered(<<>>)
    BY <1>8 DEF AnswerEnds
  <2>2. UNCHANGED <<notice, count, batch>> /\ pc' # "batch"
    BY <1>8 DEF AnswerEnds
  <2>3. calls \in Seq(CallIds) /\ Len(calls) \in Nat /\ DOMAIN calls = 1..Len(calls)
    BY <1>5, LenProperties
  <2> DEFINE failed == [k \in DOMAIN calls |-> ToolRow(calls[k])]
             own == <<AssistantRow(calls)>>
  <2>4. own \in Seq(Rows) /\ \A i \in DOMAIN own : own[i].notes = {}
    BY <1>5, <2>3
  <2>5. <<>> \in Seq(Rows) /\ \A i \in DOMAIN <<>> : <<>>[i].notes = {}
    BY EmptySeq
  <2>6. \A k \in DOMAIN calls : failed[k] \in Rows /\ failed[k].notes = {}
    <3>1. \A k \in DOMAIN calls : calls[k] \in CallIds
      BY <2>3, ElementOfSeq
    <3> QED BY <3>1 DEF ToolRow, Row, Rows
  <2>7. failed \in Seq(Rows) /\ Len(failed) = Len(calls)
    <3>1. failed \in Seq(Rows)
      BY <2>3, <2>6, IsASeq
    <3> QED BY <2>3, <3>1, LenProperties
  <2>8. Len(own) = 1
    OBVIOUS
  <2> HIDE DEF failed, own
  <2>9. /\ failed \o own \in Seq(Rows)
        /\ Len(failed \o own) = Len(calls) + 1
        /\ \A i \in 1..Len(calls) + 1 :
               (failed \o own)[i] = IF i <= Len(calls) THEN failed[i] ELSE own[i - Len(calls)]
    BY <2>4, <2>7, <2>8, ConcatProperties
  <2>10. \A i \in DOMAIN (failed \o own) : (failed \o own)[i].notes = {}
    <3>1. DOMAIN (failed \o own) = 1..Len(calls) + 1
      BY <2>9, LenProperties
    <3>2. DOMAIN own = 1..1
      BY <2>4, <2>8, LenProperties
    <3> TAKE i \in DOMAIN (failed \o own)
    <3>3. CASE i <= Len(calls)
      BY <2>3, <2>6, <2>9, <3>1, <3>3
    <3>4. CASE ~(i <= Len(calls))
      <4>1. i - Len(calls) \in DOMAIN own
        BY <2>3, <3>1, <3>2, <3>4
      <4> QED BY <2>4, <2>9, <3>1, <3>4, <4>1
    <3> QED BY <3>3, <3>4
  <2>11. Answered(failed \o own) \/ Answered(own) \/ Answered(<<>>)
    BY <2>1 DEF failed, own
  <2> QED BY <1>4, <2>2, <2>4, <2>5, <2>9, <2>10, <2>11
<1>9. CASE Quiet \/ UNCHANGED vars
  BY <1>9 DEF Quiet, Checkpoint, CheckpointRefused, NoCheckpoint, RequestFails, vars, NoticeInv, IsTail
<1> QED
  BY <1>3, <1>6, <1>7, <1>8, <1>9, NoticeCall, NoticeEnd DEF Next, Quiet

\* DirectivesOnce, for any number of failed batches, with ids used twice or not, as long as the
\* queue can hold what one settling may meet: the waiting notice and the two counter directives.
THEOREM DirectivesOnceAlways ==
    ASSUME DirectiveCap >= 3
    PROVE  Spec => []DirectivesOnce
<1>1. Init => NoticeInv
  <2> SUFFICES ASSUME Init PROVE NoticeInv
    OBVIOUS
  <2>1. /\ items = <<>> /\ notice = [queue |-> <<>>, sent |-> {}] /\ ~batch.failed
        /\ count.failed = 0 /\ pc = "head"
    BY DEF Init, NoBatch
  <2>2. \A text : Carriers(items, text) = {}
    BY <2>1 DEF Carriers
  <2>3. Cardinality(Carriers(items, "rollback")) = 0 /\ Len(notice.queue) = 0
    BY <2>1, <2>2, FS_EmptySet
  <2> QED BY <2>1, <2>2, <2>3 DEF NoticeInv, Waiting
<1>2. RowsInv /\ RowsInv' /\ NoticeInv /\ [Next]_vars => NoticeInv'
  BY NoticeStep DEF RowsInv
<1>3. RowsInv /\ NoticeInv => DirectivesOnce
  <2> SUFFICES ASSUME RowsInv, NoticeInv PROVE DirectivesOnce
    OBVIOUS
  <2>1. ASSUME NEW text \in OneShots
        PROVE  Cardinality(Carriers(items, text)) = IF text \in notice.sent THEN 1 ELSE 0
    <3>1. CASE text \in notice.sent
      <4>1. PICK i \in DOMAIN items : Carriers(items, text) = {i}
        BY <3>1 DEF NoticeInv
      <4> QED BY <3>1, <4>1, FS_Singleton
    <3>2. CASE text \notin notice.sent
      <4>1. Carriers(items, text) = {}
        BY <3>2 DEF NoticeInv
      <4> QED BY <3>2, <4>1, FS_EmptySet
    <3> QED BY <3>1, <3>2
  <2>2. Cardinality(Carriers(items, "rollback")) + Len(notice.queue) = count.failed
    BY DEF NoticeInv
  <2> QED BY <2>1, <2>2 DEF DirectivesOnce, Carriers
<1> QED
  BY <1>1, <1>2, <1>3, RowsInvariant, PTL DEF Spec

=============================================================================
