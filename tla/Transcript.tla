------------------------------ MODULE Transcript ------------------------------
(***************************************************************************)
(* The rows of one run that the model reads: what a request is made of,    *)
(* what each of its parts may change, and the copy the durable log holds.  *)
(*                                                                         *)
(* RunLoop counts rows; here they are opened up: the calls of an assistant *)
(* row by id, the result rows that answer them, the directives that ride   *)
(* on result rows, the checkpoint that replaces a prefix by a summary, and *)
(* the anchor of the token estimate.  Rows the model never sees (Header,   *)
(* TurnStart, ToolCall, Attempt, ...) are left out; what a sync may lose   *)
(* is DurableLog's.  Texts are their kind, and sizes are nondeterministic. *)
(***************************************************************************)
EXTENDS Naturals, Sequences, FiniteSets

CONSTANTS
    CallIds,        \* the call ids a provider may use
    TrialCap,       \* actions_per_trial, 0 = off
    DirectiveCap,   \* DIRECTIVE_CAP
    NudgeCap,       \* VERIFY_NUDGE_CAP
    MaxCalls,       \* bounds the calls of an answer,
    MaxBatches,     \* the batches of a run,
    MaxInputs,      \* its first inputs
    MaxFollowups    \* and its follow-up inputs

ASSUME TranscriptAssumption ==
    /\ TrialCap \in Nat /\ DirectiveCap \in Nat \ {0} /\ NudgeCap \in Nat
    /\ MaxCalls \in Nat \ {0} /\ MaxBatches \in Nat
    /\ MaxInputs \in Nat \ {0} /\ MaxFollowups \in Nat

VARIABLES
    pc,         \* where the driver is
    steering,   \* inputs not yet admitted
    items,      \* LoopState::items, the rows the model reads
    synced,     \* their copies in the run log
    turn,       \* its number, and the turn a checkpoint was last tried in
    window,     \* LoopState::checkpoint: rows it replaces, rows its summary stands for (history)
    anchor,     \* LoopState::anchor, with what its request carried (history)
    batch,      \* the dispatched calls, the counters before them; open: ids without a result
    count,      \* actions of the trial, edits, batches so far, failed ones (history)
    notice,     \* pending_directives and the one-shot latches
    hold,       \* VerifyState
    dup         \* history: an answer used one id for two calls

vars == <<pc, steering, items, synced, turn, window, anchor, batch, count, notice, hold, dup>>

PCs == {"head", "checkpoint", "request", "batch", "stopped"}
OneShots == {"half", "late", "wrap"}
Notes == OneShots \cup {"rollback"}
NoId == "none"

Row(role, calls, answers) == [role |-> role, calls |-> calls, answers |-> answers, notes |-> {}]
UserRow == Row("user", <<>>, NoId)
AssistantRow(calls) == Row("assistant", calls, NoId)
ToolRow(id) == Row("tool", <<>>, id)

\* An answer's calls.  The provider's ids are taken as they are; a call without one is call-i.
Calls == UNION {[1..n -> CallIds] : n \in 1..MaxCalls}
NoBatch == [calls |-> <<>>, at |-> 1, open |-> {}, failed |-> FALSE, actions |-> 0, edits |-> 0]
NoAnchor == [messages |-> 0, rows |-> 0, held |-> FALSE]

\* RunCtx::sync: rows beyond the synced ones are appended as they are now, never written again.
Copied(log, rows) == log \o SubSeq(rows, Len(log) + 1, Len(rows))
Sync(rows) == synced' = Copied(synced, rows)

Init ==
    /\ pc = "head" /\ steering \in 1..MaxInputs
    /\ items = <<>> /\ synced = <<>>
    /\ turn = [n |-> 1, tried |-> 0, followups |-> MaxFollowups]
    /\ window = [keep |-> 0, covered |-> {}]
    /\ anchor = NoAnchor
    /\ batch = NoBatch
    /\ count = [actions |-> 0, edits |-> 0, batches |-> 0, failed |-> 0]
    /\ notice = [queue |-> <<>>, sent |-> {}]
    /\ hold = [armed |-> FALSE, nudges |-> 0, base |-> 0]
    /\ dup = FALSE

-----------------------------------------------------------------------------
(* The step head                                                           *)

\* admit_steering: the only place inputs enter the transcript.
AdmitSteering ==
    /\ pc = "head"
    /\ items' = items \o [i \in 1..steering |-> UserRow]
    /\ Sync(items')
    /\ steering' = 0
    /\ pc' = "checkpoint"
    /\ UNCHANGED <<turn, window, anchor, batch, count, notice, hold, dup>>

\* derived_messages: a checkpoint's summary is one user row for the rows it replaces.
ViewOf(rows, keep) ==
    IF keep = 0 THEN rows ELSE <<UserRow>> \o SubSeq(rows, keep + 1, Len(rows))
View == ViewOf(items, window.keep)

\* build_request, but for its system head: the held nudge is a row of its own, the budget line
\* part of the last row's text.
Request == View \o (IF hold.armed THEN <<UserRow>> ELSE <<>>)

\* A bug: the kept tail starts where the budget crosses, tool result or not.
CutsAnywhere(view) == 1..Len(view) - 1

\* cut_point, over every place where the kept tail may reach keep_tokens: the nearest row at or
\* after it that is no tool result, or else the last such row before it.  As in the code a cut
\* is the number of rows before it.
CutPoints(view) ==
    LET valid == {i \in 1..Len(view) - 1 : view[i + 1].role # "tool"}
    IN  {c \in valid :
            \/ \E crossing \in 1..c : \A i \in valid : i >= crossing => i >= c
            \/ \E crossing \in c + 1..Len(view) - 1 : \A i \in valid : i < crossing /\ i <= c}

\* A bug: the summary row is not subtracted when a cut composes with an earlier one.
KeepUncomposed(cut) == window.keep + cut

\* The cut maps back to raw history: the view's first row is the earlier summary.
KeepFrom(cut) == IF window.keep = 0 THEN cut ELSE window.keep + cut - 1

\* A bug: the anchor of the uncompacted request stays.
CheckpointKeepsAnchor ==
    /\ pc = "checkpoint" /\ turn.tried # turn.n
    /\ \E cut \in CutPoints(View) :
           window' = [keep |-> KeepFrom(cut), covered |-> 1..KeepFrom(cut)]
    /\ turn' = [turn EXCEPT !.tried = turn.n]
    /\ pc' = "request"
    /\ UNCHANGED <<steering, items, synced, anchor, batch, count, notice, hold, dup>>

\* A checkpoint is due, its summary is accepted; it stands for what its payload showed: the rows
\* of the view before the cut, the earlier summary among them.
Checkpoint ==
    /\ pc = "checkpoint"
    /\ turn.tried # turn.n
    /\ \E cut \in CutPoints(View) :
           window' = [keep |-> KeepFrom(cut),
                      covered |-> window.covered \cup
                          (IF window.keep = 0 THEN 1..cut
                           ELSE window.keep + 1..window.keep + cut - 1)]
    /\ anchor' = NoAnchor
    /\ turn' = [turn EXCEPT !.tried = turn.n]
    /\ pc' = "request"
    /\ UNCHANGED <<steering, items, synced, batch, count, notice, hold, dup>>

\* The summary call failed, was cut off, empty or abandoned: latched all the same.
CheckpointRefused ==
    /\ pc = "checkpoint"
    /\ turn.tried # turn.n
    /\ CutPoints(View) # {}
    /\ turn' = [turn EXCEPT !.tried = turn.n]
    /\ pc' = "request"
    /\ UNCHANGED <<steering, items, synced, window, anchor, batch, count, notice, hold, dup>>

NoCheckpoint ==
    /\ pc = "checkpoint"
    /\ pc' = "request"
    /\ UNCHANGED <<steering, items, synced, turn, window, anchor, batch, count, notice, hold, dup>>

-----------------------------------------------------------------------------
(* The request and its answer.                                             *)

\* An in-step retry sends the same request again; the hold stays armed.
RequestFails ==
    /\ pc = "request"
    /\ pc' = "head"
    /\ UNCHANGED <<steering, items, synced, turn, window, anchor, batch, count, notice, hold, dup>>

\* settle_success: all messages but the system head anchor the next estimate, and the hold is
\* consumed.  The answer's rows are appended and synced.
Answered(rows) ==
    /\ anchor' = [messages |-> Len(Request), rows |-> Len(items), held |-> hold.armed]
    /\ items' = items \o rows
    /\ Sync(items')

\* An unverified declare: verify_nudge_due, apart from the caps and from whether a passing test
\* covered the edits (RunLoop).
DeclareHeld ==
    /\ pc = "request"
    /\ hold.nudges < NudgeCap /\ count.edits > hold.base
    /\ Answered(<<AssistantRow(<<>>)>>)
    /\ hold' = [armed |-> TRUE, nudges |-> hold.nudges + 1, base |-> count.edits]
    /\ pc' = "head"
    /\ UNCHANGED <<steering, turn, window, batch, count, notice, dup>>

\* A declare that stands closes the turn; a follow-up opens the next one.
Declare ==
    /\ pc = "request"
    /\ Answered(<<AssistantRow(<<>>)>>)
    /\ hold' = [hold EXCEPT !.armed = FALSE]
    /\ IF turn.followups > 0
       THEN /\ turn' = [turn EXCEPT !.n = @ + 1, !.followups = @ - 1]
            /\ steering' = steering + 1
            /\ pc' = "head"
       ELSE pc' = "stopped" /\ UNCHANGED <<turn, steering>>
    /\ UNCHANGED <<window, batch, count, notice, dup>>

\* The ids of calls become a map: two calls with one id are one entry.
Dispatch ==
    /\ pc = "request"
    /\ count.batches < MaxBatches
    /\ \E calls \in Calls :
           LET ids == {calls[k] : k \in DOMAIN calls}
           IN  /\ Answered(<<AssistantRow(calls)>>)
               /\ batch' = [calls |-> calls, at |-> 1, open |-> ids, failed |-> FALSE,
                            actions |-> count.actions, edits |-> count.edits]
               /\ dup' = (dup \/ \E k, l \in DOMAIN calls : k # l /\ calls[k] = calls[l])
    /\ count' = [count EXCEPT !.batches = @ + 1]
    /\ hold' = [hold EXCEPT !.armed = FALSE]
    /\ pc' = "batch"
    /\ UNCHANGED <<steering, turn, window, notice>>

\* A truncated answer: its calls fail unexecuted, their rows before its own, and the run halts.
\* A refusal or a hard exit ends it too.
AnswerEnds ==
    /\ pc = "request"
    /\ \E calls \in Calls \cup {<<>>} :
           \/ Answered([k \in DOMAIN calls |-> ToolRow(calls[k])] \o <<AssistantRow(calls)>>)
           \/ Answered(<<AssistantRow(calls)>>)
           \/ Answered(<<>>)
    /\ hold' = [hold EXCEPT !.armed = FALSE]
    /\ pc' = "stopped"
    /\ UNCHANGED <<steering, turn, window, batch, count, notice, dup>>

-----------------------------------------------------------------------------
(* The batch                                                               *)

\* push_directive: drop-oldest at the cap.
Push(queue, text) ==
    Append(IF Len(queue) >= DirectiveCap THEN Tail(queue) ELSE queue, text)

PushIf(due, queue, text) == IF due THEN Push(queue, text) ELSE queue

\* queue_directives, after actions and edits were counted.
Due(text, actions, edits) ==
    /\ TrialCap > 0 /\ text \notin notice.sent
    /\ \/ text = "half" /\ actions >= TrialCap \div 2 /\ edits = 0
       \/ text = "late" /\ actions >= (TrialCap * 4) \div 5

\* has_tool_tail and append_to_tail: the newest tool result carries the texts.
IsTail(rows, i) ==
    rows[i].role = "tool" /\ \A j \in DOMAIN rows : rows[j].role = "tool" => j <= i

HasTail(rows) == \E i \in DOMAIN rows : rows[i].role = "tool"

OnTail(rows, notes) ==
    [i \in DOMAIN rows |-> IF IsTail(rows, i) THEN [rows[i] EXCEPT !.notes = @ \cup notes]
                           ELSE rows[i]]

\* record_tool_result: a row only if the id is known and still open.
Recorded(id) == IF id \in batch.open THEN Append(items, ToolRow(id)) ELSE items

\* nudge_due: once, at a step or a time that is left open.
NudgeDue(due) == due /\ "wrap" \notin notice.sent

\* settle_tool_tail: counter directives, the wrap-up nudge once it is due, delivery.
Settle(rows, actions, edits, wrapDue) ==
    LET half == Due("half", actions, edits)
        late == Due("late", actions, edits)
        wrap == HasTail(rows) /\ NudgeDue(wrapDue)
        queue == PushIf(late, PushIf(half, notice.queue, "half"), "late")
        texts == {queue[k] : k \in DOMAIN queue} \cup (IF wrap THEN {"wrap"} ELSE {})
        sent == {text \in OneShots : \/ text = "half" /\ half
                                     \/ text = "late" /\ late
                                     \/ text = "wrap" /\ wrap}
    IN  /\ items' = OnTail(rows, texts)
        /\ notice' = [queue |-> IF HasTail(rows) THEN <<>> ELSE queue,
                      sent |-> notice.sent \cup sent]

\* One call: not executed (refused, or aborted before dispatch), or executed with a result that
\* may be an error and may have edited.
Called(executed, ok, edited) ==
    /\ edited => ok
    /\ ok => executed
    /\ batch.at \in DOMAIN batch.calls
    /\ batch' = [batch EXCEPT !.at = @ + 1, !.open = @ \ {batch.calls[batch.at]},
                              !.failed = @ \/ ~ok]
    /\ count' = [count EXCEPT !.actions = IF executed THEN @ + 1 ELSE @,
                              !.edits = IF edited THEN @ + 1 ELSE @]

\* A bug: the result is synced before the directives land on it.
SyncThenSettle ==
    /\ pc = "batch"
    /\ \E executed, ok, edited, wrapDue \in BOOLEAN :
           /\ Called(executed, ok, edited)
           /\ Sync(Recorded(batch.calls[batch.at]))
           /\ Settle(Recorded(batch.calls[batch.at]), count'.actions, count'.edits, wrapDue)
    /\ UNCHANGED <<pc, steering, turn, window, anchor, hold, dup>>

BatchCall ==
    /\ pc = "batch"
    /\ \E executed, ok, edited, wrapDue \in BOOLEAN :
           /\ Called(executed, ok, edited)
           /\ Settle(Recorded(batch.calls[batch.at]), count'.actions, count'.edits, wrapDue)
           /\ Sync(items')
    /\ UNCHANGED <<pc, steering, turn, window, anchor, hold, dup>>

\* A bug: a refund forgets what was sent.
RefundLatches ==
    /\ pc = "batch" /\ batch.at > Len(batch.calls)
    /\ \E aborted \in BOOLEAN :
           LET undone == batch.failed \/ aborted
           IN  /\ count' = IF undone THEN [count EXCEPT !.actions = batch.actions,
                                              !.edits = batch.edits,
                                              !.failed = IF batch.failed THEN @ + 1 ELSE @]
                           ELSE count
               /\ notice' = [queue |-> PushIf(batch.failed, notice.queue, "rollback"),
                             sent |-> IF undone THEN {} ELSE notice.sent]
    /\ batch' = NoBatch
    /\ pc' = "head"
    /\ UNCHANGED <<steering, items, synced, turn, window, anchor, hold, dup>>

\* A failed batch is rolled back with a notice for the next tail; one that the gate aborts, without.
\* Both refund the counters, not the latches.  terminate halts at the action cap.
EndBatch ==
    /\ pc = "batch"
    /\ batch.at > Len(batch.calls)
    /\ \E aborted \in BOOLEAN :
           LET undone == batch.failed \/ aborted
               actions == IF undone THEN batch.actions ELSE count.actions
           IN  /\ count' = [count EXCEPT !.actions = actions,
                                         !.edits = IF undone THEN batch.edits ELSE @,
                                         !.failed = IF batch.failed THEN @ + 1 ELSE @]
               /\ pc' = IF TrialCap > 0 /\ actions >= TrialCap THEN "stopped" ELSE "head"
    /\ notice' = [notice EXCEPT !.queue = PushIf(batch.failed, @, "rollback")]
    /\ batch' = NoBatch
    /\ UNCHANGED <<steering, items, synced, turn, window, anchor, hold, dup>>

-----------------------------------------------------------------------------
Next ==
    \/ AdmitSteering \/ Checkpoint \/ CheckpointRefused \/ NoCheckpoint
    \/ RequestFails \/ DeclareHeld \/ Declare \/ Dispatch \/ AnswerEnds
    \/ BatchCall \/ EndBatch

\* A run may also end at any point (cancelled, out of budget, a failed log or tree: RunLoop says
\* when); nothing here depends on its going on.
Spec == Init /\ [][Next]_vars

-----------------------------------------------------------------------------
(* Properties *)

Rows == [role : {"user", "assistant", "tool"}, calls : Seq(CallIds), answers : CallIds \cup {NoId},
         notes : SUBSET Notes]

\* What a run's rows, window, batch and counters are made of.
TypeOK ==
    /\ pc \in PCs /\ steering \in Nat
    /\ items \in Seq(Rows) /\ synced \in Seq(Rows)
    /\ turn \in [n : Nat, tried : Nat, followups : Nat]
    /\ window \in [keep : Nat, covered : SUBSET Nat]
    /\ anchor \in [messages : Nat, rows : Nat, held : BOOLEAN]
    /\ batch \in [calls : Seq(CallIds), at : Nat \ {0}, open : SUBSET CallIds, failed : BOOLEAN,
                  actions : Nat, edits : Nat]
    /\ count \in [actions : Nat, edits : Nat, batches : Nat, failed : Nat]
    /\ notice \in [queue : Seq(Notes), sent : SUBSET OneShots]
    /\ hold \in [armed : BOOLEAN, nudges : Nat, base : Nat]
    /\ dup \in BOOLEAN

\* Strict providers refuse anything else: in a request every call is answered, in order, right
\* after the row that made it, and every tool result answers such a call, wherever checkpoints
\* cut.  An answer that uses an id twice breaks this for good: it gets one result.
WireWellFormed ==
    pc = "request" /\ ~dup =>
        /\ \A j \in DOMAIN Request : \A k \in DOMAIN Request[j].calls :
               j + k \in DOMAIN Request /\ Request[j + k].answers = Request[j].calls[k]
        /\ \A i \in DOMAIN Request : Request[i].role = "tool" =>
               \E j \in 1..i - 1 : /\ i - j \in DOMAIN Request[j].calls
                                   /\ Request[j].calls[i - j] = Request[i].answers

\* No row is forgotten, or told twice: what the requests no longer carry is exactly what the
\* summaries stand for, however many checkpoints were composed.
NothingForgotten ==
    window.covered = 1..window.keep /\ window.keep <= Len(items)

\* The log carries exactly the text the model saw: a synced row is never changed, and a request
\* is made of synced rows.  An id used twice breaks this too: the second result adds no row, and
\* directives then land on the first one, which is on disk.
DurableText ==
    ~dup =>
        /\ Len(synced) <= Len(items)
        /\ \A i \in DOMAIN synced : synced[i] = items[i]
        /\ pc \in {"checkpoint", "request"} => Len(synced) = Len(items)

\* Directives are neither lost nor repeated, although failed batches refund the counters they
\* fire on: a latched one is on exactly one row, and so is every rollback notice, or it waits
\* for the next batch.
DirectivesOnce ==
    /\ \A text \in OneShots :
           Cardinality({i \in DOMAIN items : text \in items[i].notes})
               = IF text \in notice.sent THEN 1 ELSE 0
    /\ Cardinality({i \in DOMAIN items : "rollback" \in items[i].notes}) + Len(notice.queue)
           = count.failed

\* The next estimate walks exactly the messages appended after the anchor's request, whatever
\* was compacted in between; the row of a held nudge, which is not history, is counted as one.
AnchorExact ==
    anchor # NoAnchor =>
        Len(View) + (IF anchor.held THEN 1 ELSE 0) - anchor.messages = Len(items) - anchor.rows

=============================================================================
