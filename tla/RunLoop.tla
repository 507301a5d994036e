------------------------------ MODULE RunLoop ------------------------------
(***************************************************************************)
(* One headless run of crates/agent-loop: `run' opens the log and the      *)
(* snapshot tree, seeds the inputs and then alternates step heads and      *)
(* provider rounds until a phase is terminal, when `finish' closes the     *)
(* log and the live event stream.                                          *)
(*                                                                         *)
(* The loop is one task, so its handlers are sequential; what interleaves  *)
(* with them is the cancel token (another worker's Ctrl-C), the wall clock *)
(* and the answers of provider, tools, proof command, git and log file.    *)
(* `pc' therefore cuts a handler exactly where the code awaits or reads    *)
(* the token again.                                                        *)
(***************************************************************************)
EXTENDS BudgetGuard, Sequences, FiniteSets

CONSTANTS
    InputLists,    \* the input sequences `run' may be given
    Followups,     \* state.followups queued before the run
    MaxCalls,      \* tool calls one answer may carry (bound)
    Bills,         \* what a provider call may charge: [tokens, cents] records
    GateMode,      \* "off" (NoBets), "uniform" (--bets), "incremental" (+ --proof-cmd)
    Full,          \* IncentivesLevel::Full: the verify nudge is on
    Compaction,    \* cfg.compaction.enabled
    WallCap,       \* max_wallclock is nonzero: it may pass
    LogMayFail,    \* opening or appending to the log file may fail
    TreeMayFail    \* a git call of the snapshot tree may fail

Kinds == {"edit", "test", "view", "denied"}
NoBill == [tokens |-> 0, cents |-> 0]

ASSUME RunAssumption ==
    /\ Followups \in Nat
    /\ MaxCalls \in Nat \ {0}
    /\ Bills \subseteq [tokens: Nat, cents: Nat]
    /\ GateMode \in {"off", "uniform", "incremental"}
    /\ {Full, Compaction, WallCap, LogMayFail, TreeMayFail} \subseteq BOOLEAN
    /\ InputLists \subseteq Seq({"text", "stopHard", "stopWhenIdle"})

VARIABLES
    pc,       \* where the task is: an await point or a read of the cancel token
    cancel,   \* the cancel token
    inputs,   \* inputs not yet applied
    loop,     \* the control part of LoopState
    budget,   \* LoopState.budget (BudgetGuard)
    verify,   \* LoopState.verify and LoopState.edits
    open,     \* tool_calls without a result: positions in the batch
    batch,    \* the dispatched batch: calls, next, failed, snapshot, proven hunks
    disk,     \* the work tree
    base,     \* the tree of the last baseline commit
    log,      \* the log file: turns without a TurnEnd row, and rows not yet synced
    live,     \* the event stream: Start frames without their End
    outcome,  \* what `run' returns
    seen      \* history: failures in a row, pending retry, settled as cancelled

vars == <<pc, cancel, inputs, loop, budget, verify, open, batch, disk, base,
          log, live, outcome, seen>>

StepRetryBudget == 2
VerifyNudgeCap == 2
Outcomes == {"done", "halted", "cancelled", "provider", "log", "snapshot", "input"}

ZeroSnap == [edits |-> 0, actions |-> 0, streak |-> 0, verified |-> FALSE]

InitLoop ==
    [phase |-> "idle", turn |-> 0, steering |-> 0, followups |-> Followups,
     callModel |-> FALSE, inFlight |-> FALSE, gate |-> "open", stopHard |-> FALSE,
     stopWhenIdle |-> FALSE, reason |-> "none", fatal |-> FALSE,
     retries |-> StepRetryBudget, step |-> 0, compacted |-> 0]

\* A tree is the edits it holds, whether that content passed a test, and whether a
\* failed call left something behind.
InitTree == [edits |-> 0, green |-> FALSE, scraps |-> FALSE]

Init ==
    /\ pc = "start"
    /\ cancel = FALSE
    /\ inputs \in InputLists
    /\ loop = InitLoop
    /\ budget = ZeroBudget
    /\ verify = [edits |-> 0, nudges |-> 0, atNudge |-> 0, verified |-> FALSE, hold |-> FALSE]
    /\ open = {}
    /\ batch = [calls |-> <<>>, next |-> 1, failed |-> FALSE, snap |-> ZeroSnap,
                hunks |-> 0, proven |-> 0]
    /\ disk = InitTree
    /\ base = InitTree
    /\ log = [turns |-> {}, dirty |-> FALSE]
    /\ live = [run |-> FALSE, turns |-> {}, tools |-> {}]
    /\ outcome = "none"
    /\ seen = [fails |-> 0, retrying |-> FALSE, cancelled |-> FALSE]

-----------------------------------------------------------------------------
(* Helpers the handlers share. *)

\* A bug in which a failed append is ignored, as the best-effort sync of `finish' does.
SyncIgnored(rows, next, frames) ==
    /\ \E dirty \in BOOLEAN : log' = [rows EXCEPT !.dirty = dirty]
    /\ pc' = next
    /\ live' = frames
    /\ UNCHANGED outcome

\* sync: append and fsync the pending rows, then emit the frames that follow them.
\* A failure leaves a row pending and ends the run; no frame of the handler goes out.
SyncTo(rows, next, frames) ==
    \/ /\ log' = [rows EXCEPT !.dirty = FALSE]
       /\ pc' = next
       /\ live' = frames
       /\ UNCHANGED outcome
    \/ /\ LogMayFail
       /\ rows.dirty
       /\ log' = rows
       /\ pc' = "finish"
       /\ outcome' = "log"
       /\ UNCHANGED live

Rows == [log EXCEPT !.dirty = TRUE]

Finish(o) == pc' = "finish" /\ outcome' = o

\* stop_hard and begin_abort, as every branch that meets the token sets them.
StopNow(l) == [l EXCEPT !.stopHard = TRUE, !.gate = IF @ = "open" THEN "aborting" ELSE @]

\* fatal_error and gate.close: a closed gate stays closed.
Fatal(l) == [l EXCEPT !.fatal = TRUE, !.gate = "closed"]

OpenTurn(l) == [l EXCEPT !.turn = @ + 1, !.phase = "running"]

\* stick_turn_reason: the first terminal reason wins.
StickReason(l, why) == [l EXCEPT !.reason = IF @ = "none" THEN why ELSE @]

\* Bugs of the refund: none at all, one that forgets the verification, one to the run's start.
RefundNothing(v) == v
RefundEditsOnly(v) == [v EXCEPT !.edits = batch.snap.edits]
RefundToZero(v) == [v EXCEPT !.edits = 0, !.verified = FALSE]

\* refund_batch: back to the counters captured before the batch.
RefundVerify(v) == [v EXCEPT !.edits = batch.snap.edits, !.verified = batch.snap.verified]
RefundBudget(b) == [b EXCEPT !.actions = batch.snap.actions, !.streak = batch.snap.streak]

\* Bugs of the order: a tripped cap hides the stop, or only admission asks the caps.
VerdictBudgetFirst ==
    IF Exceeded(budget) THEN "halted"
    ELSE IF loop.stopHard THEN "cancelled"
    ELSE IF loop.fatal THEN "provider"
    ELSE IF loop.reason = "error" THEN "provider"
    ELSE IF loop.reason = "maxTokens" THEN "halted"
    ELSE IF loop.callModel \/ loop.steering > 0 THEN "continue"
    ELSE IF loop.followups > 0 THEN "hop"
    ELSE "park"

VerdictIgnoresBudget ==
    IF loop.stopHard
        THEN IF loop.inFlight \/ open # {} THEN "break" ELSE "cancelled"
    ELSE IF loop.fatal \/ loop.reason # "none" THEN "provider"
    ELSE IF loop.callModel \/ loop.steering > 0 THEN "continue"
    ELSE IF loop.followups > 0 THEN "hop"
    ELSE "park"

\* terminate: the first match wins.  The drain deadline is left out: in `run' nothing is
\* in flight and no call is open when it is asked, so "break" is never its answer.
Verdict ==
    IF loop.stopHard
        THEN IF loop.inFlight \/ open # {} THEN "break" ELSE "cancelled"
    ELSE IF loop.fatal THEN "provider"
    ELSE IF Exceeded(budget) THEN "halted"
    ELSE IF loop.reason = "error" THEN "provider"
    ELSE IF loop.reason = "maxTokens" /\ ~loop.inFlight /\ open = {} THEN "halted"
    ELSE IF loop.callModel \/ loop.inFlight \/ open # {} \/ loop.steering > 0 THEN "continue"
    ELSE IF loop.followups > 0 THEN "hop"
    ELSE IF loop.stopWhenIdle THEN "done"
    ELSE "park"

-----------------------------------------------------------------------------
(* open_run: the log, the Header row, the snapshot tree, the inputs. *)

OpenLog ==
    /\ pc = "start"
    /\ \/ /\ pc' = "header"
          /\ live' = [live EXCEPT !.run = TRUE]
          /\ UNCHANGED outcome
       \/ /\ LogMayFail
          /\ pc' = "done"
          /\ outcome' = "log"
          /\ UNCHANGED live   \* RunStart and RunEnd, no turn
    /\ UNCHANGED <<cancel, inputs, loop, budget, verify, open, batch, disk, base, log, seen>>

WriteHeader ==
    /\ pc = "header"
    /\ SyncTo(Rows, "ensure", live)
    /\ UNCHANGED <<cancel, inputs, loop, budget, verify, open, batch, disk, base, seen>>

Ensure ==
    /\ pc = "ensure"
    /\ \/ pc' = "seed" /\ UNCHANGED outcome
       \/ TreeMayFail /\ Finish("snapshot")
    /\ UNCHANGED <<cancel, inputs, loop, budget, verify, open, batch, disk, base, log, live, seen>>

\* apply_input of a User or Crash text: Idle opens a turn, Running steers.
SeedText ==
    /\ pc = "seed" /\ inputs # <<>> /\ Head(inputs) = "text"
    /\ inputs' = Tail(inputs)
    /\ LET opens  == loop.phase = "idle"
           l      == IF opens THEN OpenTurn(loop) ELSE loop
           opened == IF opens THEN {l.turn} ELSE {}
       IN  /\ loop' = [l EXCEPT !.steering = @ + 1]
           /\ SyncTo([log EXCEPT !.turns = @ \union opened, !.dirty = @ \/ opens], "seed",
                     [live EXCEPT !.turns = @ \union opened])
    /\ UNCHANGED <<cancel, budget, verify, open, batch, disk, base, seen>>

SeedStop ==
    /\ pc = "seed" /\ inputs # <<>> /\ Head(inputs) # "text"
    /\ inputs' = Tail(inputs)
    /\ loop' = IF Head(inputs) = "stopHard" THEN StopNow(loop)
               ELSE [loop EXCEPT !.stopWhenIdle = TRUE]
    /\ UNCHANGED <<pc, cancel, budget, verify, open, batch, disk, base, log, live, outcome, seen>>

Opened ==
    /\ pc = "seed" /\ inputs = <<>>
    /\ IF loop.turn = 0
       THEN pc' = "done" /\ outcome' = "input" /\ live' = [live EXCEPT !.run = FALSE]
       ELSE pc' = "head" /\ UNCHANGED <<outcome, live>>
    /\ UNCHANGED <<cancel, inputs, loop, budget, verify, open, batch, disk, base, log, seen>>

-----------------------------------------------------------------------------
(* step_head and start_provider_call. *)

StepHead ==
    /\ pc = "head"
    /\ loop' = [(IF cancel THEN StopNow(loop) ELSE loop) EXCEPT !.steering = 0]
    /\ SyncTo([log EXCEPT !.dirty = @ \/ loop.steering > 0], "admit", live)
    /\ UNCHANGED <<cancel, inputs, budget, verify, open, batch, disk, base, seen>>

MayStart == ~loop.inFlight /\ loop.gate = "open" /\ MayStep(budget)

\* A bug in which every step head refills the retries, an in-step retry's too.
RetriesAlwaysReset == StepRetryBudget

\* A latched callModel keeps the remaining retries; only an unlatched head resets them.
RetriesAtStart == IF loop.callModel THEN loop.retries ELSE StepRetryBudget

StartProviderCall ==
    /\ pc = "admit" /\ MayStart
    /\ loop' = [loop EXCEPT !.inFlight = TRUE, !.step = @ + 1, !.callModel = FALSE,
                            !.retries = RetriesAtStart]
    /\ budget' = RecordStep(AfterMayStep(budget))
    /\ pc' = "round"
    /\ UNCHANGED <<cancel, inputs, verify, open, batch, disk, base, log, live, outcome, seen>>

RefuseProviderCall ==
    /\ pc = "admit" /\ ~MayStart
    /\ pc' = "judge"
    /\ UNCHANGED <<cancel, inputs, loop, budget, verify, open, batch, disk, base, log,
                   live, outcome, seen>>

-----------------------------------------------------------------------------
(* Where `terminate' is asked: "settle" is settle_terminal, which emits the frames of a *)
(* followup hop; "judge" is the step head's and the failed call's, which do not.         *)

JudgeReturn ==
    /\ pc \in {"judge", "settle"}
    /\ Verdict \in Outcomes
    /\ Finish(Verdict)
    /\ UNCHANGED <<cancel, inputs, loop, budget, verify, open, batch, disk, base, log, live, seen>>

\* A drained turn with empty queues parks, and a parked headless run is Done.
JudgePark ==
    /\ pc \in {"judge", "settle"}
    /\ Verdict = "park"
    /\ loop' = [loop EXCEPT !.phase = "idle"]
    /\ Finish("done")
    /\ UNCHANGED <<cancel, inputs, budget, verify, open, batch, disk, base, log, live, seen>>

JudgeContinue ==
    /\ pc \in {"judge", "settle"}
    /\ Verdict \in {"continue", "break"}
    /\ pc' = "head"
    /\ UNCHANGED <<cancel, inputs, loop, budget, verify, open, batch, disk, base, log,
                   live, outcome, seen>>

\* A bug in which the hop opens the followup's turn without closing the old one.
HopLeavesOpen(turns) == turns \union {loop.turn + 1}

\* The old turn's TurnEnd row, then the new turn's TurnStart row.
Hopped(turns) == (turns \ {loop.turn}) \union {loop.turn + 1}

HopTurn ==
    loop' = [OpenTurn(loop) EXCEPT !.followups = @ - 1, !.steering = @ + 1, !.reason = "none"]

JudgeHop ==
    /\ Verdict = "hop"
    /\ HopTurn
    /\ LET rows == [log EXCEPT !.turns = Hopped(@), !.dirty = TRUE]
       IN  \/ /\ pc = "settle"
              /\ SyncTo(rows, "head", [live EXCEPT !.turns = Hopped(@)])
           \/ /\ pc = "judge"
              /\ log' = rows
              /\ pc' = "head"
              /\ UNCHANGED <<live, outcome>>
    /\ UNCHANGED <<cancel, inputs, budget, verify, open, batch, disk, base, seen>>

-----------------------------------------------------------------------------
(* provider_round: the compaction checkpoint, then the call, each raced against cancel. *)

\* The checkpoint is off, not due, already tried this turn, or the token was first.
SkipSummary ==
    /\ pc = "round"
    /\ pc' = "request"
    /\ UNCHANGED <<cancel, inputs, loop, budget, verify, open, batch, disk, base, log,
                   live, outcome, seen>>

BeginSummary ==
    /\ pc = "round" /\ ~cancel
    /\ Compaction /\ loop.compacted # loop.turn
    /\ loop' = [loop EXCEPT !.compacted = loop.turn]
    /\ pc' = "summary"
    /\ UNCHANGED <<cancel, inputs, budget, verify, open, batch, disk, base, log, live,
                   outcome, seen>>

\* Applied or refused, the summary is metered; it does not read the caps again.
EndSummary(bill) ==
    /\ pc = "summary" /\ ~cancel
    /\ budget' = Charge(budget, bill)
    /\ pc' = "request"
    /\ UNCHANGED <<cancel, inputs, loop, verify, open, batch, disk, base, log, live,
                   outcome, seen>>

DropSummary ==
    /\ pc = "summary" /\ cancel
    /\ pc' = "request"
    /\ UNCHANGED <<cancel, inputs, loop, budget, verify, open, batch, disk, base, log,
                   live, outcome, seen>>

\* The token before or during `complete': the future is dropped, the call is Cancelled.
CancelCall ==
    /\ pc \in {"request", "calling"} /\ cancel
    /\ loop' = StopNow(loop)
    /\ pc' = "aborted"
    /\ UNCHANGED <<cancel, inputs, budget, verify, open, batch, disk, base, log, live,
                   outcome, seen>>

SendRequest ==
    /\ pc = "request" /\ ~cancel
    /\ pc' = "calling"
    /\ UNCHANGED <<cancel, inputs, loop, budget, verify, open, batch, disk, base, log,
                   live, outcome, seen>>

FailCall ==
    /\ pc = "calling" /\ ~cancel
    /\ pc' = "failed"
    /\ UNCHANGED <<cancel, inputs, loop, budget, verify, open, batch, disk, base, log,
                   live, outcome, seen>>

\* settle_provider_error with the token set: metered, refunded, and no Attempt row.
\* After a FailCall the token may have been cancelled since; stop_hard is then still unset.
SettleCancelled(exhausted, bill) ==
    /\ \/ pc = "aborted" /\ bill = NoBill /\ ~exhausted
       \/ pc = "failed" /\ cancel
    /\ loop' = [loop EXCEPT !.inFlight = FALSE, !.retries = IF exhausted THEN 0 ELSE @]
    /\ budget' = RefundStep(Charge(budget, bill))
    /\ seen' = [seen EXCEPT !.cancelled = TRUE, !.retrying = FALSE]
    /\ pc' = "judge"
    /\ UNCHANGED <<cancel, inputs, verify, open, batch, disk, base, log, live, outcome>>

MayRetry(retries) == retries > 0

\* settle_provider_error of a real failure: an Attempt row, then an in-step retry or fatal.
\* An exhausted adapter ladder spends the whole retry budget.
SettleFailed(exhausted, bill) ==
    /\ pc = "failed" /\ ~cancel
    /\ LET retries == IF exhausted THEN 0 ELSE loop.retries
           retry   == MayRetry(retries)
           l       == [loop EXCEPT !.inFlight = FALSE]
       IN  /\ loop' = IF retry
                      THEN [l EXCEPT !.retries = retries - 1, !.callModel = TRUE]
                      ELSE [Fatal(l) EXCEPT !.retries = 0]
           /\ seen' = [seen EXCEPT !.fails = @ + 1, !.retrying = retry]
           /\ SyncTo(Rows, IF retry THEN "head" ELSE "judge", live)
    /\ budget' = Charge(budget, bill)
    /\ UNCHANGED <<cancel, inputs, verify, open, batch, disk, base>>

-----------------------------------------------------------------------------
(* settle_success and step_claim: the claim a settled answer makes. *)

\* Every settled answer: the bill is metered, the call ends, the held directive is consumed.
Settled(bill) ==
    /\ pc = "calling" /\ ~cancel
    /\ budget' = Charge(budget, bill)
    /\ seen' = [seen EXCEPT !.fails = 0, !.retrying = FALSE]
    /\ UNCHANGED <<cancel, inputs, disk, base>>

Answered == [loop EXCEPT !.inFlight = FALSE]
Unheld == [verify EXCEPT !.hold = FALSE]

\* MaxTokens fails the whole batch unexecuted (its calls are answered as they are logged);
\* Refused is an error.  Both wait for `terminate'.
ClaimStopped(bill, why) ==
    /\ Settled(bill)
    /\ loop' = StickReason(Answered, why)
    /\ verify' = Unheld
    /\ SyncTo(Rows, "settle", live)
    /\ UNCHANGED <<open, batch>>

\* StopReason::Error or Aborted: no row, fatal, gate closed.
ClaimHardExit(bill) ==
    /\ Settled(bill)
    /\ loop' = Fatal(Answered)
    /\ verify' = Unheld
    /\ pc' = "judge"
    /\ UNCHANGED <<open, batch, log, live, outcome>>

\* verify_nudge_due, read after the bill is metered.
NudgeDue(b) ==
    /\ Full
    /\ verify.nudges < VerifyNudgeCap
    /\ verify.edits > verify.atNudge
    /\ ~verify.verified
    /\ ~(ActionsPerTrial > 0 /\ b.actions * 10 >= ActionsPerTrial * 9)
    /\ ~Exceeded(b)
    /\ MaxSteps - b.steps >= 2

\* A bug: the directive is armed, but the turn is settled as an ordinary declare.
ClaimHeldParks(bill) ==
    /\ Settled(bill)
    /\ NudgeDue(Charge(budget, bill))
    /\ loop' = Answered
    /\ verify' = [verify EXCEPT !.hold = TRUE, !.nudges = @ + 1, !.atNudge = verify.edits]
    /\ SyncTo(Rows, "settle", live)
    /\ UNCHANGED <<open, batch>>

\* A declare with unverified writes is held: an Attempt row, and the turn stays alive.
ClaimHeld(bill) ==
    /\ Settled(bill)
    /\ NudgeDue(Charge(budget, bill))
    /\ loop' = [Answered EXCEPT !.callModel = TRUE]
    /\ verify' = [verify EXCEPT !.hold = TRUE, !.nudges = @ + 1, !.atNudge = verify.edits]
    /\ SyncTo(Rows, "head", live)
    /\ UNCHANGED <<open, batch>>

\* The declare of a drained run on its last step stands, although the step cap is reached.
LastStepDone(b) ==
    open = {} /\ ~loop.callModel /\ loop.steering = 0 /\ loop.followups = 0 /\ Peek(b) = "steps"

ClaimDone(bill) ==
    /\ Settled(bill)
    /\ ~NudgeDue(Charge(budget, bill))
    /\ loop' = Answered
    /\ verify' = Unheld
    /\ IF LastStepDone(Charge(budget, bill))
       THEN /\ UNCHANGED live
            /\ \/ log' = [log EXCEPT !.dirty = FALSE] /\ Finish("done")
               \/ LogMayFail /\ log' = Rows /\ Finish("log")
       ELSE SyncTo(Rows, "settle", live)
    /\ UNCHANGED <<open, batch>>

\* Tool calls: every call is logged and gets its ToolStart frame before the first one runs.
ClaimDispatch(bill, calls) ==
    /\ Settled(bill)
    /\ loop' = Answered
    /\ verify' = Unheld
    /\ open' = 1..Len(calls)
    /\ batch' = [calls |-> calls, next |-> 1, failed |-> FALSE, snap |-> ZeroSnap,
                 hunks |-> 0, proven |-> 0]
    /\ SyncTo(Rows, "baseline", [live EXCEPT !.tools = @ \union open'])

-----------------------------------------------------------------------------
(* tool_batch. *)

Baseline ==
    /\ pc = "baseline"
    /\ \/ /\ pc' = "tools"
          /\ base' = disk
          /\ batch' = [batch EXCEPT !.snap =
                          [edits |-> verify.edits, verified |-> verify.verified,
                           actions |-> budget.actions, streak |-> budget.streak]]
          /\ UNCHANGED outcome
       \/ /\ TreeMayFail
          /\ Finish("snapshot")
          /\ UNCHANGED <<base, batch>>
    /\ UNCHANGED <<cancel, inputs, loop, budget, verify, open, disk, log, live, seen>>

Kind == batch.calls[batch.next]
MoreCalls == batch.next <= Len(batch.calls)

\* record_tool_result: the ToolResult row; a passing edit invalidates an earlier
\* verification and a passing test renews it.
VerifiedAfter(ok) ==
    CASE ok /\ Kind = "edit" -> FALSE
      [] ok /\ Kind = "test" -> TRUE
      [] OTHER               -> verify.verified

\* A bug: a call the token ended gets its row but no ToolEnd frame.
EndUnlessCancelled(tools) == IF cancel THEN tools ELSE tools \ {batch.next}

\* The ToolEnd frame of the call just recorded.
EndFrame(tools) == tools \ {batch.next}

\* One recorded result: the row, its sync, its ToolEnd frame; the last one latches callModel.
RecordResult(l, ok) ==
    /\ open' = open \ {batch.next}
    /\ loop' = [l EXCEPT !.callModel = @ \/ open' = {}]
    /\ batch' = [batch EXCEPT !.next = @ + 1, !.failed = @ \/ ~ok]
    /\ SyncTo(Rows, "tools", [live EXCEPT !.tools = EndFrame(@)])
    /\ UNCHANGED <<cancel, inputs, base, seen>>

\* "aborted before dispatch": the token was cancelled before this call.
AbortCall ==
    /\ pc = "tools" /\ MoreCalls /\ cancel
    /\ RecordResult(loop, FALSE)
    /\ UNCHANGED <<budget, verify, disk>>

\* A bug: the denied call is skipped without a result.
DenySilently ==
    /\ pc = "tools" /\ MoreCalls /\ ~cancel /\ Kind = "denied"
    /\ batch' = [batch EXCEPT !.next = @ + 1]
    /\ UNCHANGED <<pc, cancel, inputs, loop, budget, verify, open, disk, base, log, live,
                   outcome, seen>>

\* registry.prepare answered with an error: nothing ran, nothing is observed.
DenyCall ==
    /\ pc = "tools" /\ MoreCalls /\ ~cancel /\ Kind = "denied"
    /\ RecordResult(loop, FALSE)
    /\ UNCHANGED <<budget, verify, disk>>

\* A bug: the batch goes on without looking at the token.
StartToolBlindly ==
    /\ pc = "tools" /\ MoreCalls /\ Kind # "denied"
    /\ pc' = "exec"
    /\ UNCHANGED <<cancel, inputs, loop, budget, verify, open, batch, disk, base, log,
                   live, outcome, seen>>

\* The token was clear: the call runs.
StartTool ==
    /\ pc = "tools" /\ MoreCalls /\ ~cancel /\ Kind # "denied"
    /\ pc' = "exec"
    /\ UNCHANGED <<cancel, inputs, loop, budget, verify, open, batch, disk, base, log,
                   live, outcome, seen>>

\* A signature can only repeat an earlier one (note_tool_execution, observe_action).
CanRepeat(same) == same => budget.actions > 0

PassTool(same) ==
    /\ pc = "exec" /\ ~cancel /\ CanRepeat(same)
    /\ disk' = CASE Kind = "edit" -> [disk EXCEPT !.edits = @ + 1, !.green = FALSE]
                 [] Kind = "test" -> [disk EXCEPT !.green = TRUE]
                 [] OTHER         -> disk
    /\ budget' = ObserveAction(budget, same)
    /\ verify' = [verify EXCEPT !.edits = IF Kind = "edit" THEN @ + 1 ELSE @,
                                !.verified = VerifiedAfter(TRUE)]
    /\ RecordResult(loop, TRUE)

\* A failed tool may leave part of its work behind.
FailTool(same, leaves) ==
    /\ pc = "exec" /\ ~cancel /\ CanRepeat(same)
    /\ disk' = IF leaves THEN [disk EXCEPT !.scraps = TRUE, !.green = FALSE] ELSE disk
    /\ budget' = ObserveAction(budget, same)
    /\ UNCHANGED verify
    /\ RecordResult(loop, FALSE)

\* The token during `execute': the future is dropped, the result is "cancelled".
CancelTool(same, leaves) ==
    /\ pc = "exec" /\ cancel /\ CanRepeat(same)
    /\ disk' = IF leaves THEN [disk EXCEPT !.scraps = TRUE, !.green = FALSE] ELSE disk
    /\ budget' = ObserveAction(budget, same)
    /\ UNCHANGED verify
    /\ RecordResult(StopNow(loop), FALSE)

\* The batch's hunks, read before any rollback: one per edit it made, and last what failed
\* calls left behind.
Hunks == disk.edits - base.edits + IF disk.scraps # base.scraps THEN 1 ELSE 0

\* The flags are the batch's own result, or with a proof command the prefix that passed.
ProvenPrefixes(n) ==
    IF GateMode = "incremental" THEN 0..n ELSE {IF batch.failed THEN 0 ELSE n}

Probe ==
    /\ pc = "tools" /\ ~MoreCalls
    /\ \/ /\ \E k \in ProvenPrefixes(Hunks) :
                batch' = [batch EXCEPT !.hunks = Hunks, !.proven = k]
          /\ pc' = IF batch.failed THEN "notice" ELSE "gate"
          /\ UNCHANGED outcome
       \/ /\ TreeMayFail
          /\ Finish("snapshot")
          /\ UNCHANGED batch
    /\ UNCHANGED <<cancel, inputs, loop, budget, verify, open, disk, base, log, live, seen>>

\* A bug: the notice is appended and the tree moves before it is on disk.
NoticeNotSynced ==
    /\ pc = "notice"
    /\ log' = Rows
    /\ pc' = "undo"
    /\ UNCHANGED <<cancel, inputs, loop, budget, verify, open, batch, disk, base, live,
                   outcome, seen>>

\* The rollback notice is durable before the tree moves.
RecordNotice ==
    /\ pc = "notice"
    /\ SyncTo(Rows, "undo", live)
    /\ UNCHANGED <<cancel, inputs, loop, budget, verify, open, batch, disk, base, seen>>

\* A bug in which the failed batch is refunded but its files stay.
RollbackForgotten == disk

RolledBack == base

\* The failed batch goes back to its baseline, and its counters with it.
Undo ==
    /\ pc = "undo"
    /\ \/ /\ disk' = RolledBack
          /\ verify' = RefundVerify(verify)
          /\ budget' = RefundBudget(budget)
          /\ pc' = "gate"
          /\ UNCHANGED outcome
       \/ /\ TreeMayFail
          /\ Finish("snapshot")
          /\ UNCHANGED <<disk, verify, budget>>
    /\ UNCHANGED <<cancel, inputs, loop, open, batch, base, log, live, seen>>

-----------------------------------------------------------------------------
(* proof_gate: on_post_batch over the batch's hunks, then settle_terminal. *)

GateVerdict ==
    IF GateMode = "off" \/ batch.proven = batch.hunks THEN "committed"
    ELSE IF batch.proven = 0 THEN "aborted"
    ELSE "partial"

CommitBatch ==
    /\ pc = "gate" /\ GateVerdict = "committed"
    /\ pc' = "settle"
    /\ UNCHANGED <<cancel, inputs, loop, budget, verify, open, batch, disk, base, log,
                   live, outcome, seen>>

AbortBatch ==
    /\ pc = "gate" /\ GateVerdict = "aborted"
    /\ \/ /\ disk' = RolledBack
          /\ verify' = RefundVerify(verify)
          /\ budget' = RefundBudget(budget)
          /\ pc' = "settle"
          /\ UNCHANGED outcome
       \/ /\ TreeMayFail
          /\ Finish("snapshot")
          /\ UNCHANGED <<disk, verify, budget>>
    /\ UNCHANGED <<cancel, inputs, loop, open, batch, base, log, live, seen>>

\* restore_hunks: baseline plus the kept prefix; a fragment that does not apply leaves
\* the baseline and fails the run.  The counters stand.
KeepPrefix ==
    /\ pc = "gate" /\ GateVerdict = "partial"
    /\ \/ /\ disk' = [base EXCEPT !.edits = @ + batch.proven, !.green = FALSE]
          /\ pc' = "settle"
          /\ UNCHANGED outcome
       \/ /\ TreeMayFail
          /\ disk' = base
          /\ Finish("snapshot")
    /\ UNCHANGED <<cancel, inputs, loop, budget, verify, open, batch, base, log, live, seen>>

-----------------------------------------------------------------------------
(* finish, the environment, and the specification. *)

\* The TurnEnd row and a best-effort sync, then TurnEnd and RunEnd frames in any case.
FinishRun ==
    /\ pc = "finish"
    /\ pc' = "done"
    /\ loop' = StickReason(loop, "ended")
    /\ \E dirty \in IF LogMayFail THEN BOOLEAN ELSE {FALSE} :
          log' = [turns |-> log.turns \ {loop.turn}, dirty |-> dirty]
    /\ live' = [live EXCEPT !.run = FALSE, !.turns = @ \ {loop.turn}]
    /\ UNCHANGED <<cancel, inputs, budget, verify, open, batch, disk, base, outcome, seen>>

Ended == pc = "done" /\ UNCHANGED vars

\* Ctrl-C, on another worker.
Cancel ==
    /\ pc # "done" /\ ~cancel
    /\ cancel' = TRUE
    /\ UNCHANGED <<pc, inputs, loop, budget, verify, open, batch, disk, base, log, live,
                   outcome, seen>>

WallClock ==
    /\ pc # "done" /\ WallCap /\ ~budget.late
    /\ budget' = [budget EXCEPT !.late = TRUE]
    /\ UNCHANGED <<pc, cancel, inputs, loop, verify, open, batch, disk, base, log, live,
                   outcome, seen>>

Batches == UNION {[1..n -> Kinds] : n \in 1..MaxCalls}

Claim(bill) ==
    \/ \E why \in {"maxTokens", "error"} : ClaimStopped(bill, why)
    \/ ClaimHardExit(bill)
    \/ ClaimHeld(bill)
    \/ ClaimDone(bill)
    \/ \E calls \in Batches : ClaimDispatch(bill, calls)

Tool ==
    \/ AbortCall \/ DenyCall \/ StartTool
    \/ \E same \in BOOLEAN : PassTool(same)
    \/ \E same, leaves \in BOOLEAN : FailTool(same, leaves) \/ CancelTool(same, leaves)

\* What the task itself does next; the environment is Cancel and WallClock.
Step ==
    \/ OpenLog \/ WriteHeader \/ Ensure \/ SeedText \/ SeedStop \/ Opened
    \/ StepHead \/ StartProviderCall \/ RefuseProviderCall
    \/ JudgeReturn \/ JudgePark \/ JudgeContinue \/ JudgeHop
    \/ SkipSummary \/ BeginSummary \/ DropSummary
    \/ CancelCall \/ SendRequest \/ FailCall
    \/ \E bill \in Bills \union {NoBill} :
          \/ EndSummary(bill)
          \/ \E exhausted \in BOOLEAN :
                SettleCancelled(exhausted, bill) \/ SettleFailed(exhausted, bill)
          \/ Claim(bill)
    \/ Baseline \/ Tool \/ Probe \/ RecordNotice \/ Undo
    \/ CommitBatch \/ AbortBatch \/ KeepPrefix
    \/ FinishRun

Next == Step \/ Cancel \/ WallClock \/ Ended

Spec == Init /\ [][Next]_vars

\* Every await ends: the adapter's ladder, the tools and git calls are bounded.
FairSpec == Spec /\ WF_vars(Step)

-----------------------------------------------------------------------------
(* What makes the loop correct. *)

PCs == {"start", "header", "ensure", "seed", "head", "admit", "judge", "settle", "round",
        "summary", "request", "calling", "aborted", "failed", "baseline", "tools", "exec",
        "notice", "undo", "gate", "finish", "done"}

LoopRecord ==
    [phase: {"idle", "running"}, turn: Nat, steering: Nat, followups: Nat,
     callModel: BOOLEAN, inFlight: BOOLEAN, gate: {"open", "aborting", "closed"},
     stopHard: BOOLEAN, stopWhenIdle: BOOLEAN,
     reason: {"none", "maxTokens", "error", "ended"}, fatal: BOOLEAN,
     retries: 0..StepRetryBudget, step: Nat, compacted: Nat]

VerifyRecord ==
    [edits: Nat, nudges: 0..VerifyNudgeCap, atNudge: Nat, verified: BOOLEAN, hold: BOOLEAN]

BatchRecord ==
    [calls: Seq(Kinds), next: Nat, failed: BOOLEAN, hunks: Nat, proven: Nat,
     snap: [edits: Nat, actions: Nat, streak: Nat, verified: BOOLEAN]]

Trees == [edits: Nat, green: BOOLEAN, scraps: BOOLEAN]
LogRecord == [turns: SUBSET Nat, dirty: BOOLEAN]
LiveRecord == [run: BOOLEAN, turns: SUBSET Nat, tools: SUBSET Nat]
SeenRecord == [fails: Nat, retrying: BOOLEAN, cancelled: BOOLEAN]

\* The types of the variables, one conjunct each.
TypeOK ==
    /\ pc \in PCs
    /\ cancel \in BOOLEAN
    /\ inputs \in Seq({"text", "stopHard", "stopWhenIdle"})
    /\ loop \in LoopRecord
    /\ budget \in BudgetRecord
    /\ verify \in VerifyRecord
    /\ open \subseteq Nat
    /\ batch \in BatchRecord
    /\ disk \in Trees
    /\ base \in Trees
    /\ log \in LogRecord
    /\ live \in LiveRecord
    /\ outcome \in Outcomes \union {"none"}
    /\ seen \in SeenRecord

\* A run starts at most one provider round past its step cap: the halt lands after one
\* grace step, whatever mix of retries, holds, hops and batches led there (run.rs step_head,
\* guard.rs may_step).
CallsBounded == loop.step <= MaxSteps + 1

\* No more than StepRetryBudget + 1 provider rounds fail in a row, although the budget is
\* refilled at some step heads and kept at others (state.rs start_provider_call).
FailuresBounded == seen.fails <= StepRetryBudget + 1

\* Nothing outside the process happens on rows only the process knows: no provider or
\* summary request, tool execution or rollback starts with a row unsynced (run.rs sync:
\* "a failed pre-effect append is a hard failure").
WriteAhead ==
    pc \in {"round", "summary", "request", "calling", "exec", "undo"} => ~log.dirty

\* A request never goes out while a logged tool call has no result row, also when the batch
\* was aborted half way.
NoDanglingCalls == loop.inFlight => open = {}

\* The log never holds two open turns, and a finished run leaves none open (state.rs
\* terminate: "so the log never holds two open turns").
OneOpenTurn ==
    /\ Cardinality(log.turns) <= 1
    /\ pc = "done" => log.turns = {}

\* Every Start frame is paired when the run ends by itself (agent-event pairing.rs).  A run
\* that a log or git failure ends may leave ToolStart frames open; a followup hop taken by a
\* call that was settled as cancelled leaves its TurnStart open.
FramesPaired ==
    pc = "done" /\ outcome \notin {"log", "snapshot"} =>
        /\ ~live.run
        /\ live.tools = {}
        /\ live.turns = {} \/ seen.cancelled

\* Between batches the edit counter that gates the directives and the nudge counts exactly
\* the edits the work tree still holds ("rolled-back edits must not linger").
CountersMatchTree ==
    pc \in {"head", "admit", "round", "request", "calling", "settle"} =>
        verify.edits = disk.edits

\* A run that counts its writes as verified has a tree whose content passed a test, through
\* rollbacks and refunds too (verify.rs record_tool_result, proof.rs refund_batch).
VerifiedMeansTested ==
    pc \in {"head", "admit", "round", "request", "calling", "settle"} =>
        (verify.verified => disk.green)

\* The notice the model gets is true: once a failed batch is settled the tree is its
\* baseline (proof.rs ROLLBACK_NOTICE: the whole batch was reverted).
FailedBatchReverted == pc = "settle" /\ batch.failed => disk = base

\* The edits at the last nudge never exceed the edits, so a refund cannot mute later nudges
\* (verify.rs verify_nudge_due compares the two).
NudgeBaselineSound == verify.atNudge <= verify.edits

\* A run never reports Done over a directive it armed and did not send, unless the call that
\* would have sent it was settled as cancelled.
HeldDirectiveSent ==
    pc = "done" /\ outcome = "done" /\ verify.hold => seen.cancelled

\* Once a branch met the token the run reports Cancelled (or the log or git failure that
\* preceded the report): neither a budget halt nor a late claim wins.
HardStopReported ==
    pc = "done" /\ loop.stopHard => outcome \in {"cancelled", "log", "snapshot", "input"}

\* After the token is cancelled no provider call, summary or tool is started any more.
NoEffectAfterCancel ==
    [][cancel => ~(pc' # pc /\ pc' \in {"calling", "summary", "exec"})]_vars

\* However the run goes on after its token cap is reached, it overshoots by at most three
\* bills: the summary and the call of the admitted step, and the grace step's call
\* (guard.rs may_step, request.rs checkpoint, run.rs provider_round).
SpendBounded ==
    MaxTokens > 0 =>
        \/ budget.tokens < MaxTokens
        \/ \E bill \in Bills : budget.tokens < MaxTokens + 3 * bill.tokens

\* What RunContract speaks of: a batch has a baseline from its first call to its verdict, and
\* without one there is nothing to undo.
InBatch == {"tools", "exec", "notice", "undo", "gate"}

Stage ==
    CASE pc \in {"start", "header", "ensure", "seed"} -> "opening"
      [] pc = "finish" -> "closing"
      [] pc = "done" -> "closed"
      [] OTHER -> "running"

Contract ==
    INSTANCE RunContract
    WITH Steps <- MaxSteps, CallCounts <- 1..MaxCalls, ProofCommand <- (GateMode = "incremental"),
         stage <- Stage, turns <- log.turns, last <- loop.turn, rounds <- loop.step,
         asking <- loop.inFlight, waiting <- open,
         working <- (pc \in InBatch \union {"baseline"}), failed <- batch.failed,
         tree <- disk, saved <- (IF pc \in InBatch THEN base ELSE disk),
         stopped <- loop.stopHard, result <- outcome

\* Seen from outside, every step of the loop is one of the contract or none: turns one at a time,
\* requests only behind settled batches, answers in order, batches kept or undone as a whole, one
\* result, and Cancelled exactly when a stop was read (run.rs, state.rs, proof.rs).
ImplementsContract == Contract!RunSafety

\* Every run ends: no mix of retries, holds, hops, refunds and cancellation spins.
Termination == <>(pc = "done")

\* What the comment on LoopState.step_retries says: a step after a success never inherits
\* the previous step's consumed retries.
FreshStepHasFullRetries ==
    pc = "round" /\ ~seen.retrying => loop.retries = StepRetryBudget

\* What rof says of Ctrl-C: a run whose call was settled as cancelled reports Cancelled.
CancelReported ==
    pc = "done" /\ seen.cancelled /\ outcome \notin {"log", "snapshot"} => outcome = "cancelled"

=============================================================================
