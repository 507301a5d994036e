--------------------------- MODULE RunLoopProofs ---------------------------
(***************************************************************************)
(* The headless run, for every budget, input list, follow-up count, gate   *)
(* mode and fault setting: its types, its safety and its outcome.  The     *)
(* safety is one inductive invariant, `Safe', a conjunction of named       *)
(* parts; each part has a lemma that a step keeps it, with a case per      *)
(* action or group of actions that disturbs the same fields.  What a run   *)
(* reports and uses up is `Settling', inductive under `Safe'.  Last, each  *)
(* step of the run is a step or a stutter of its contract, RunContract.    *)
(***************************************************************************)
EXTENDS RunLoop, FiniteSetTheorems, TLAPS

-----------------------------------------------------------------------------
(* Types.  TypeOK is inductive but for one subtraction: the probe counts   *)
(* the batch's hunks as disk.edits - base.edits, so the invariant is       *)
(* TypeOK with BatchGrows.  The record updates of the handlers are typed   *)
(* once, as lemmas about the operators the handlers share, and each        *)
(* handler's step cites them.                                              *)

\* From the baseline to the probe a batch only adds edits to the tree it started from.
BatchGrows == pc \in {"tools", "exec"} => base.edits <= disk.edits

\* The updates the handlers share keep LoopState's type: stop, fatal error, a new turn, a
\* sticky reason.
LEMMA LoopTyped ==
    ASSUME NEW l \in LoopRecord
    PROVE  /\ StopNow(l) \in LoopRecord
           /\ Fatal(l) \in LoopRecord
           /\ OpenTurn(l) \in LoopRecord
           /\ \A why \in {"maxTokens", "error", "ended"} : StickReason(l, why) \in LoopRecord
           /\ [l EXCEPT !.inFlight = FALSE] \in LoopRecord
           /\ [l EXCEPT !.steering = 0] \in LoopRecord
           /\ [l EXCEPT !.steering = @ + 1] \in LoopRecord
           /\ [l EXCEPT !.callModel = TRUE] \in LoopRecord
           /\ [l EXCEPT !.stopWhenIdle = TRUE] \in LoopRecord
<1>1. l.turn + 1 \in Nat /\ l.steering + 1 \in Nat
  BY DEF LoopRecord
<1>2. StopNow(l) \in LoopRecord /\ Fatal(l) \in LoopRecord
  BY Zenon DEF LoopRecord, StopNow, Fatal
<1>3. OpenTurn(l) \in LoopRecord /\ [l EXCEPT !.steering = @ + 1] \in LoopRecord
  BY <1>1, Zenon DEF LoopRecord, OpenTurn
<1>4. \A why \in {"maxTokens", "error", "ended"} : StickReason(l, why) \in LoopRecord
  BY Zenon DEF LoopRecord, StickReason
<1>5. [l EXCEPT !.inFlight = FALSE] \in LoopRecord /\ [l EXCEPT !.steering = 0] \in LoopRecord
  BY DEF LoopRecord
<1>6. /\ [l EXCEPT !.callModel = TRUE] \in LoopRecord
      /\ [l EXCEPT !.stopWhenIdle = TRUE] \in LoopRecord
  BY DEF LoopRecord
<1> QED
  BY <1>2, <1>3, <1>4, <1>5, <1>6

\* Every operation of the guard keeps its counters natural, the refund of a step too.
LEMMA BudgetTyped ==
    ASSUME NEW b \in BudgetRecord
    PROVE  /\ AfterMayStep(b) \in BudgetRecord
           /\ RecordStep(b) \in BudgetRecord
           /\ RefundStep(b) \in BudgetRecord
           /\ \A same \in BOOLEAN : ObserveAction(b, same) \in BudgetRecord
           /\ \A bill \in [tokens: Nat, cents: Nat] : Charge(b, bill) \in BudgetRecord
<1>1. AfterMayStep(b) \in BudgetRecord
  BY DEF BudgetRecord, AfterMayStep
<1>2. RecordStep(b) \in BudgetRecord
  BY DEF BudgetRecord, RecordStep
<1>3. RefundStep(b) \in BudgetRecord
  <2>1. (b.steps > 0 => b.steps - 1 \in Nat) /\ b.refunds + 1 \in Nat
    BY DEF BudgetRecord
  <2> QED
    BY <2>1, Zenon DEF BudgetRecord, RefundStep
<1>4. ASSUME NEW same \in BOOLEAN PROVE ObserveAction(b, same) \in BudgetRecord
  <2>1. b.streak + 1 \in Nat /\ 0 \in Nat /\ b.actions + 1 \in Nat
    BY DEF BudgetRecord
  <2> QED
    BY <2>1, Zenon DEF BudgetRecord, ObserveAction
<1>5. ASSUME NEW bill \in [tokens: Nat, cents: Nat] PROVE Charge(b, bill) \in BudgetRecord
  <2>1. b.tokens + bill.tokens \in Nat /\ b.cents + bill.cents \in Nat
    BY DEF BudgetRecord
  <2> QED
    BY <2>1, Zenon DEF BudgetRecord, Charge
<1> QED
  BY <1>1, <1>2, <1>3, <1>4, <1>5

\* The counters a batch captured are counters.
LEMMA RefundTyped ==
    ASSUME TypeOK
    PROVE  /\ RefundVerify(verify) \in VerifyRecord
           /\ RefundBudget(budget) \in BudgetRecord
BY Zenon DEF TypeOK, VerifyRecord, BatchRecord, BudgetRecord, RefundVerify, RefundBudget

\* A sync, done or failed, keeps the types of what it changes.
LEMMA SyncTyped ==
    ASSUME TypeOK, NEW rows \in LogRecord, NEW next \in PCs, NEW frames \in LiveRecord,
           SyncTo(rows, next, frames)
    PROVE  /\ pc' \in PCs
           /\ log' \in LogRecord
           /\ live' \in LiveRecord
           /\ outcome' \in Outcomes \union {"none"}
<1>1. "finish" \in PCs /\ "log" \in Outcomes
  BY DEF PCs, Outcomes
<1> QED
  BY <1>1, Zenon DEF SyncTo, TypeOK, LogRecord

\* Appending a row keeps the log's type.
LEMMA RowsTyped == TypeOK => Rows \in LogRecord
BY Zenon DEF TypeOK, Rows, LogRecord

\* Every bill has two natural amounts.
LEMMA BillTyped == \A bill \in Bills \union {NoBill} : bill \in [tokens: Nat, cents: Nat]
BY RunAssumption DEF RunAssumption, NoBill


\* open_run keeps the types.
LEMMA OpeningTyped ==
    ASSUME TypeOK,
           OpenLog \/ WriteHeader \/ Ensure \/ SeedText \/ SeedStop \/ Opened
    PROVE  TypeOK'
<1>1. CASE OpenLog
  <2>1. live' \in LiveRecord
    BY <1>1, Zenon DEF OpenLog, TypeOK, LiveRecord
  <2> QED
    BY <1>1, <2>1, Zenon DEF OpenLog, TypeOK, PCs, Outcomes
<1>2. CASE WriteHeader
  <2>1. "ensure" \in PCs
    BY DEF PCs
  <2> QED
    BY <1>2, <2>1, SyncTyped, RowsTyped, Zenon DEF WriteHeader, TypeOK
<1>3. CASE Ensure
  BY <1>3, Zenon DEF Ensure, Finish, TypeOK, PCs, Outcomes
<1>4. CASE SeedText
  <2> DEFINE opens == loop.phase = "idle"
             l == IF opens THEN OpenTurn(loop) ELSE loop
             opened == IF opens THEN {l.turn} ELSE {}
             rows == [log EXCEPT !.turns = @ \union opened, !.dirty = @ \/ opens]
             frames == [live EXCEPT !.turns = @ \union opened]
  <2>1. l \in LoopRecord
    BY LoopTyped, Zenon DEF TypeOK
  <2>2. loop' \in LoopRecord
    BY <1>4, <2>1, LoopTyped, Zenon DEF SeedText
  <2>3. opened \subseteq Nat
    <3> HIDE DEF l
    <3> QED
      BY <2>1 DEF LoopRecord
  <2>4. rows \in LogRecord /\ frames \in LiveRecord
    <3> HIDE DEF opened, opens
    <3>1. (log.dirty \/ opens) \in BOOLEAN
      OBVIOUS
    <3>2. log.turns \union opened \subseteq Nat /\ live.turns \union opened \subseteq Nat
      BY <2>3 DEF TypeOK, LogRecord, LiveRecord
    <3> QED
      BY <3>1, <3>2, Zenon DEF TypeOK, LogRecord, LiveRecord
  <2>5. inputs' \in Seq({"text", "stopHard", "stopWhenIdle"})
    BY <1>4 DEF SeedText, TypeOK
  <2>6. "seed" \in PCs
    BY DEF PCs
  <2>7. SyncTo(rows, "seed", frames)
    BY <1>4 DEF SeedText
  <2>8. /\ pc' \in PCs /\ log' \in LogRecord /\ live' \in LiveRecord
        /\ outcome' \in Outcomes \union {"none"}
    <3> HIDE DEF rows, frames
    <3> QED
      BY <2>4, <2>6, <2>7, SyncTyped
  <2> QED
    BY <1>4, <2>2, <2>5, <2>8, Zenon DEF SeedText, TypeOK
<1>5. CASE SeedStop
  <2>1. loop' \in LoopRecord
    <3>1. loop \in LoopRecord
      BY DEF TypeOK
    <3>2. loop' = StopNow(loop) \/ loop' = [loop EXCEPT !.stopWhenIdle = TRUE]
      BY <1>5 DEF SeedStop
    <3> QED
      BY <3>1, <3>2, LoopTyped
  <2>2. inputs' \in Seq({"text", "stopHard", "stopWhenIdle"})
    BY <1>5 DEF SeedStop, TypeOK
  <2> QED
    BY <1>5, <2>1, <2>2, Zenon DEF SeedStop, TypeOK
<1>6. CASE Opened
  <2>1. live' \in LiveRecord
    BY <1>6, Zenon DEF Opened, TypeOK, LiveRecord
  <2> QED
    BY <1>6, <2>1, Zenon DEF Opened, TypeOK, PCs, Outcomes
<1> QED
  BY <1>1, <1>2, <1>3, <1>4, <1>5, <1>6

\* step_head, start_provider_call and terminate keep the types.
LEMMA HeadTyped ==
    ASSUME TypeOK,
           \/ StepHead \/ StartProviderCall \/ RefuseProviderCall
           \/ JudgeReturn \/ JudgePark \/ JudgeContinue \/ JudgeHop
    PROVE  TypeOK'
<1>1. CASE StepHead
  <2> DEFINE rows == [log EXCEPT !.dirty = @ \/ loop.steering > 0]
  <2>1. loop' \in LoopRecord
    BY <1>1, LoopTyped, Zenon DEF StepHead, TypeOK
  <2>2. rows \in LogRecord
    BY DEF TypeOK, LogRecord
  <2>3. "admit" \in PCs
    BY DEF PCs
  <2>4. SyncTo(rows, "admit", live)
    BY <1>1 DEF StepHead
  <2> HIDE DEF rows
  <2> QED
    BY <1>1, <2>1, <2>2, <2>3, <2>4, SyncTyped, Zenon DEF StepHead, TypeOK
<1>2. CASE StartProviderCall
  <2>1. loop' \in LoopRecord
    <3>1. loop.step + 1 \in Nat
      BY DEF TypeOK, LoopRecord
    <3>2. RetriesAtStart \in 0..StepRetryBudget
      BY DEF TypeOK, LoopRecord, RetriesAtStart, StepRetryBudget
    <3> QED
      BY <1>2, <3>1, <3>2, Zenon DEF StartProviderCall, TypeOK, LoopRecord
  <2>2. budget' \in BudgetRecord
    BY <1>2, BudgetTyped, Zenon DEF StartProviderCall, TypeOK
  <2> QED
    BY <1>2, <2>1, <2>2, Zenon DEF StartProviderCall, TypeOK, PCs
<1>3. CASE RefuseProviderCall
  BY <1>3, Zenon DEF RefuseProviderCall, TypeOK, PCs
<1>4. CASE JudgeReturn
  BY <1>4, Zenon DEF JudgeReturn, Finish, TypeOK, PCs
<1>5. CASE JudgePark
  <2>1. loop' \in LoopRecord
    BY <1>5, Zenon DEF JudgePark, TypeOK, LoopRecord
  <2> QED
    BY <1>5, <2>1, Zenon DEF JudgePark, Finish, TypeOK, PCs, Outcomes
<1>6. CASE JudgeContinue
  BY <1>6, Zenon DEF JudgeContinue, TypeOK, PCs
<1>7. CASE JudgeHop
  <2> DEFINE rows == [log EXCEPT !.turns = Hopped(@), !.dirty = TRUE]
             frames == [live EXCEPT !.turns = Hopped(@)]
  <2>1. loop' \in LoopRecord
    <3>1. OpenTurn(loop) \in LoopRecord
      BY LoopTyped DEF TypeOK
    <3>2. OpenTurn(loop).followups = loop.followups
      BY DEF OpenTurn, TypeOK, LoopRecord
    <3>3. loop.followups - 1 \in Nat /\ OpenTurn(loop).steering + 1 \in Nat
      BY <1>7, <3>1 DEF JudgeHop, Verdict, TypeOK, LoopRecord
    <3> QED
      BY <1>7, <3>1, <3>2, <3>3, Zenon DEF JudgeHop, HopTurn, LoopRecord
  <2>2. Hopped(log.turns) \subseteq Nat /\ Hopped(live.turns) \subseteq Nat
    BY DEF Hopped, TypeOK, LoopRecord, LogRecord, LiveRecord
  <2>3. rows \in LogRecord /\ frames \in LiveRecord
    BY <2>2, Zenon DEF TypeOK, LogRecord, LiveRecord
  <2>4. "head" \in PCs
    BY DEF PCs
  <2>5. \/ SyncTo(rows, "head", frames)
        \/ log' = rows /\ pc' = "head" /\ UNCHANGED <<live, outcome>>
    BY <1>7 DEF JudgeHop
  <2> HIDE DEF rows, frames
  <2> QED
    BY <1>7, <2>1, <2>3, <2>4, <2>5, SyncTyped, Zenon DEF JudgeHop, TypeOK
<1> QED
  BY <1>1, <1>2, <1>3, <1>4, <1>5, <1>6, <1>7

\* provider_round and settle_provider_error keep the types.
LEMMA RoundTyped ==
    ASSUME TypeOK, NEW bill \in Bills \union {NoBill}, NEW exhausted \in BOOLEAN,
           \/ SkipSummary \/ BeginSummary \/ EndSummary(bill) \/ DropSummary
           \/ CancelCall \/ SendRequest \/ FailCall
           \/ SettleCancelled(exhausted, bill) \/ SettleFailed(exhausted, bill)
    PROVE  TypeOK'
<1>1. CASE SkipSummary
  BY <1>1, Zenon DEF SkipSummary, TypeOK, PCs
<1>2. CASE BeginSummary
  <2>1. loop' \in LoopRecord
    BY <1>2, Zenon DEF BeginSummary, TypeOK, LoopRecord
  <2> QED
    BY <1>2, <2>1, Zenon DEF BeginSummary, TypeOK, PCs
<1>3. CASE EndSummary(bill)
  <2>1. budget' \in BudgetRecord
    BY <1>3, BudgetTyped, BillTyped, Zenon DEF EndSummary, TypeOK
  <2> QED
    BY <1>3, <2>1, Zenon DEF EndSummary, TypeOK, PCs
<1>4. CASE DropSummary
  BY <1>4, Zenon DEF DropSummary, TypeOK, PCs
<1>5. CASE CancelCall
  <2>1. loop' \in LoopRecord
    BY <1>5, LoopTyped, Zenon DEF CancelCall, TypeOK
  <2> QED
    BY <1>5, <2>1, Zenon DEF CancelCall, TypeOK, PCs
<1>6. CASE SendRequest
  BY <1>6, Zenon DEF SendRequest, TypeOK, PCs
<1>7. CASE FailCall
  BY <1>7, Zenon DEF FailCall, TypeOK, PCs
<1>8. CASE SettleCancelled(exhausted, bill)
  <2>1. loop' \in LoopRecord
    <3>1. (IF exhausted THEN 0 ELSE loop.retries) \in 0..StepRetryBudget
      BY DEF TypeOK, LoopRecord, StepRetryBudget
    <3> QED
      BY <1>8, <3>1, Zenon DEF SettleCancelled, TypeOK, LoopRecord
  <2>2. budget' \in BudgetRecord
    BY <1>8, BudgetTyped, BillTyped, Zenon DEF SettleCancelled, TypeOK
  <2>3. seen' \in SeenRecord
    BY <1>8, Zenon DEF SettleCancelled, TypeOK, SeenRecord
  <2> QED
    BY <1>8, <2>1, <2>2, <2>3, Zenon DEF SettleCancelled, TypeOK, PCs
<1>9. CASE SettleFailed(exhausted, bill)
  <2> DEFINE retries == IF exhausted THEN 0 ELSE loop.retries
             retry == MayRetry(retries)
             l == [loop EXCEPT !.inFlight = FALSE]
  <2>1. l \in LoopRecord /\ Fatal(l) \in LoopRecord
    BY LoopTyped DEF TypeOK
  <2>2. retries \in 0..StepRetryBudget
    BY DEF TypeOK, LoopRecord, StepRetryBudget
  <2>3. retry => retries - 1 \in 0..StepRetryBudget
    BY <2>2 DEF MayRetry, StepRetryBudget
  <2>4. 0 \in 0..StepRetryBudget
    BY DEF StepRetryBudget
  <2>5. loop' \in LoopRecord
    <3>1. loop' = IF retry THEN [l EXCEPT !.retries = retries - 1, !.callModel = TRUE]
                  ELSE [Fatal(l) EXCEPT !.retries = 0]
      BY <1>9 DEF SettleFailed
    <3> HIDE DEF retries, retry, l
    <3> QED
      BY <2>1, <2>3, <2>4, <3>1, Zenon DEF LoopRecord
  <2>6. seen' \in SeenRecord
    <3>1. seen.fails + 1 \in Nat /\ retry \in BOOLEAN
      BY DEF TypeOK, SeenRecord, MayRetry
    <3>2. seen' = [seen EXCEPT !.fails = @ + 1, !.retrying = retry]
      BY <1>9 DEF SettleFailed
    <3> HIDE DEF retry
    <3> QED
      BY <3>1, <3>2, Zenon DEF TypeOK, SeenRecord
  <2>7. budget' \in BudgetRecord
    BY <1>9, BudgetTyped, BillTyped, Zenon DEF SettleFailed, TypeOK
  <2>8. SyncTo(Rows, IF retry THEN "head" ELSE "judge", live)
    BY <1>9 DEF SettleFailed
  <2>9. (IF retry THEN "head" ELSE "judge") \in PCs
    BY DEF PCs
  <2> HIDE DEF retries, retry, l
  <2> QED
    BY <1>9, <2>5, <2>6, <2>7, <2>8, <2>9, SyncTyped, RowsTyped, Zenon
    DEF SettleFailed, TypeOK
<1> QED
  BY <1>1, <1>2, <1>3, <1>4, <1>5, <1>6, <1>7, <1>8, <1>9

\* What every settled answer leaves behind.
LEMMA SettledTyped ==
    ASSUME TypeOK, NEW bill \in Bills \union {NoBill}, Settled(bill)
    PROVE  /\ budget' \in BudgetRecord
           /\ seen' \in SeenRecord
           /\ Answered \in LoopRecord
           /\ Unheld \in VerifyRecord
<1>1. budget' \in BudgetRecord
  BY BudgetTyped, BillTyped, Zenon DEF Settled, TypeOK
<1>2. seen' \in SeenRecord
  BY Zenon DEF Settled, TypeOK, SeenRecord
<1>3. Answered \in LoopRecord
  BY LoopTyped DEF Answered, TypeOK
<1>4. Unheld \in VerifyRecord
  BY Zenon DEF Unheld, TypeOK, VerifyRecord
<1> QED
  BY <1>1, <1>2, <1>3, <1>4

\* settle_success and step_claim keep the types.
LEMMA ClaimTyped ==
    ASSUME TypeOK, NEW bill \in Bills \union {NoBill}, Claim(bill)
    PROVE  TypeOK'
<1>0. "settle" \in PCs /\ "head" \in PCs /\ "baseline" \in PCs
  BY DEF PCs
<1>1. ASSUME NEW why \in {"maxTokens", "error"}, ClaimStopped(bill, why)
      PROVE  TypeOK'
  <2>1. Settled(bill)
    BY <1>1 DEF ClaimStopped
  <2>2. loop' \in LoopRecord
    BY <1>1, <2>1, SettledTyped, LoopTyped, Zenon DEF ClaimStopped
  <2> QED
    BY <1>0, <1>1, <2>1, <2>2, SettledTyped, SyncTyped, RowsTyped, Zenon
    DEF ClaimStopped, Settled, TypeOK
<1>2. CASE ClaimHardExit(bill)
  <2>1. Settled(bill)
    BY <1>2 DEF ClaimHardExit
  <2>2. loop' \in LoopRecord
    BY <1>2, <2>1, SettledTyped, LoopTyped DEF ClaimHardExit
  <2> QED
    BY <1>2, <2>1, <2>2, SettledTyped, Zenon DEF ClaimHardExit, Settled, TypeOK, PCs
<1>3. CASE ClaimHeld(bill)
  <2>1. Settled(bill)
    BY <1>3 DEF ClaimHeld
  <2>2. loop' \in LoopRecord
    BY <1>3, <2>1, SettledTyped, LoopTyped DEF ClaimHeld
  <2>3. verify' \in VerifyRecord
    <3>1. verify.nudges + 1 \in 0..VerifyNudgeCap
      BY <1>3 DEF ClaimHeld, NudgeDue, TypeOK, VerifyRecord, VerifyNudgeCap
    <3> QED
      BY <1>3, <3>1, Zenon DEF ClaimHeld, TypeOK, VerifyRecord
  <2> QED
    BY <1>0, <1>3, <2>1, <2>2, <2>3, SettledTyped, SyncTyped, RowsTyped, Zenon
    DEF ClaimHeld, Settled, TypeOK
<1>4. CASE ClaimDone(bill)
  <2>1. Settled(bill)
    BY <1>4 DEF ClaimDone
  <2>2. loop' \in LoopRecord /\ verify' \in VerifyRecord
    BY <1>4, <2>1, SettledTyped DEF ClaimDone
  <2>3. /\ pc' \in PCs
        /\ log' \in LogRecord
        /\ live' \in LiveRecord
        /\ outcome' \in Outcomes \union {"none"}
    <3>1. CASE LastStepDone(Charge(budget, bill))
      <4>1. [log EXCEPT !.dirty = FALSE] \in LogRecord
        BY DEF TypeOK, LogRecord
      <4> QED
        BY <1>4, <3>1, <4>1, RowsTyped, Zenon DEF ClaimDone, Finish, TypeOK, PCs, Outcomes
    <3>2. CASE ~LastStepDone(Charge(budget, bill))
      <4>1. SyncTo(Rows, "settle", live)
        BY <1>4, <3>2 DEF ClaimDone
      <4> QED
        BY <1>0, <4>1, SyncTyped, RowsTyped DEF TypeOK
    <3> QED
      BY <3>1, <3>2
  <2> QED
    BY <1>4, <2>1, <2>2, <2>3, SettledTyped, Zenon DEF ClaimDone, Settled, TypeOK
<1>5. ASSUME NEW calls \in Batches, ClaimDispatch(bill, calls)
      PROVE  TypeOK'
  <2>1. Settled(bill)
    BY <1>5 DEF ClaimDispatch
  <2>2. calls \in Seq(Kinds) /\ open' \subseteq Nat
    BY <1>5, RunAssumption DEF Batches, ClaimDispatch, RunAssumption
  <2>3. loop' \in LoopRecord /\ verify' \in VerifyRecord
    BY <1>5, <2>1, SettledTyped DEF ClaimDispatch
  <2>4. batch' \in BatchRecord
    BY <1>5, <2>2 DEF ClaimDispatch, ZeroSnap, BatchRecord
  <2>5. [live EXCEPT !.tools = @ \union open'] \in LiveRecord
    BY <2>2 DEF TypeOK, LiveRecord
  <2> QED
    BY <1>0, <1>5, <2>1, <2>2, <2>3, <2>4, <2>5, SettledTyped, SyncTyped, RowsTyped, Zenon
    DEF ClaimDispatch, Settled, TypeOK
<1> QED
  BY <1>1, <1>2, <1>3, <1>4, <1>5 DEF Claim

\* record_tool_result and its sync keep the types.
LEMMA RecordTyped ==
    ASSUME TypeOK, NEW l \in LoopRecord, NEW ok \in BOOLEAN, RecordResult(l, ok)
    PROVE  /\ pc' \in PCs
           /\ loop' \in LoopRecord
           /\ open' \subseteq Nat
           /\ batch' \in BatchRecord
           /\ log' \in LogRecord
           /\ live' \in LiveRecord
           /\ outcome' \in Outcomes \union {"none"}
           /\ UNCHANGED <<cancel, inputs, base, seen>>
<1>1. open' \subseteq Nat
  BY DEF RecordResult, TypeOK
<1>2. loop' \in LoopRecord
  BY Zenon DEF RecordResult, LoopRecord
<1>3. batch' \in BatchRecord
  <2>1. batch.next + 1 \in Nat /\ (batch.failed \/ ~ok) \in BOOLEAN
    BY DEF TypeOK, BatchRecord
  <2> QED
    BY <2>1, Zenon DEF RecordResult, TypeOK, BatchRecord
<1>4. [live EXCEPT !.tools = EndFrame(@)] \in LiveRecord
  BY DEF EndFrame, TypeOK, LiveRecord
<1>5. "tools" \in PCs
  BY DEF PCs
<1> QED
  BY <1>1, <1>2, <1>3, <1>4, <1>5, SyncTyped, RowsTyped, Zenon DEF RecordResult

\* Every way one tool call can end keeps the types.
LEMMA ToolTyped ==
    ASSUME TypeOK, Tool
    PROVE  TypeOK'
<1>0. TRUE \in BOOLEAN /\ FALSE \in BOOLEAN /\ loop \in LoopRecord /\ StopNow(loop) \in LoopRecord
  BY LoopTyped DEF TypeOK
<1>1. CASE AbortCall
  <2>1. RecordResult(loop, FALSE)
    BY <1>1 DEF AbortCall
  <2> QED
    BY <1>0, <1>1, <2>1, RecordTyped, Zenon DEF AbortCall, TypeOK
<1>2. CASE DenyCall
  <2>1. RecordResult(loop, FALSE)
    BY <1>2 DEF DenyCall
  <2> QED
    BY <1>0, <1>2, <2>1, RecordTyped, Zenon DEF DenyCall, TypeOK
<1>3. CASE StartTool
  BY <1>3, Zenon DEF StartTool, TypeOK, PCs
<1>4. ASSUME NEW same \in BOOLEAN, PassTool(same)
      PROVE  TypeOK'
  <2>1. RecordResult(loop, TRUE)
    BY <1>4 DEF PassTool
  <2>2. budget' \in BudgetRecord
    BY <1>4, BudgetTyped DEF PassTool, TypeOK
  <2>3. disk' \in Trees
    <3>1. disk.edits + 1 \in Nat
      BY DEF TypeOK, Trees
    <3> QED
      BY <1>4, <3>1, Zenon DEF PassTool, TypeOK, Trees
  <2>4. verify' \in VerifyRecord
    <3>1. (IF Kind = "edit" THEN verify.edits + 1 ELSE verify.edits) \in Nat
      BY DEF TypeOK, VerifyRecord
    <3>2. VerifiedAfter(TRUE) \in BOOLEAN
      BY DEF VerifiedAfter, TypeOK, VerifyRecord
    <3> QED
      BY <1>4, <3>1, <3>2, Zenon DEF PassTool, TypeOK, VerifyRecord
  <2> QED
    BY <1>0, <2>1, <2>2, <2>3, <2>4, RecordTyped, Zenon DEF TypeOK
<1>5. ASSUME NEW same \in BOOLEAN, NEW leaves \in BOOLEAN,
             FailTool(same, leaves) \/ CancelTool(same, leaves)
      PROVE  TypeOK'
  <2>1. RecordResult(loop, FALSE) \/ RecordResult(StopNow(loop), FALSE)
    BY <1>5 DEF FailTool, CancelTool
  <2>2. budget' \in BudgetRecord
    BY <1>5, BudgetTyped DEF FailTool, CancelTool, TypeOK
  <2>3. disk' \in Trees
    BY <1>5, Zenon DEF FailTool, CancelTool, TypeOK, Trees
  <2>4. verify' \in VerifyRecord
    BY <1>5 DEF FailTool, CancelTool, TypeOK
  <2> QED
    BY <1>0, <2>1, <2>2, <2>3, <2>4, RecordTyped, Zenon DEF TypeOK
<1> QED
  BY <1>1, <1>2, <1>3, <1>4, <1>5 DEF Tool

\* The batch's baseline, probe, rollback and gate, and finish, keep the types.
LEMMA BatchTyped ==
    ASSUME TypeOK, BatchGrows,
           \/ Baseline \/ Probe \/ RecordNotice \/ Undo
           \/ CommitBatch \/ AbortBatch \/ KeepPrefix \/ FinishRun
    PROVE  TypeOK'
<1>1. CASE Baseline
  <2> DEFINE snap == [edits |-> verify.edits, verified |-> verify.verified,
                      actions |-> budget.actions, streak |-> budget.streak]
  <2>1. snap \in [edits: Nat, actions: Nat, streak: Nat, verified: BOOLEAN]
    BY DEF TypeOK, VerifyRecord, BudgetRecord
  <2>2. batch' = [batch EXCEPT !.snap = snap] \/ batch' = batch
    BY <1>1 DEF Baseline
  <2>3. batch' \in BatchRecord
    <3> HIDE DEF snap
    <3> QED
      BY <2>1, <2>2, Zenon DEF TypeOK, BatchRecord
  <2> QED
    BY <1>1, <2>3, Zenon DEF Baseline, Finish, TypeOK, PCs, Outcomes
<1>2. CASE Probe
  <2>1. Hunks \in Nat
    <3>1. pc = "tools"
      BY <1>2 DEF Probe
    <3> QED
      BY <3>1 DEF Hunks, BatchGrows, TypeOK, Trees
  <2>2. ProvenPrefixes(Hunks) \subseteq Nat
    BY <2>1 DEF ProvenPrefixes
  <2>3. \/ \E k \in ProvenPrefixes(Hunks) : batch' = [batch EXCEPT !.hunks = Hunks, !.proven = k]
        \/ batch' = batch
    BY <1>2 DEF Probe
  <2>4. batch' \in BatchRecord
    BY <2>1, <2>2, <2>3, Zenon DEF TypeOK, BatchRecord
  <2> QED
    BY <1>2, <2>4, Zenon DEF Probe, Finish, TypeOK, PCs, Outcomes
<1>3. CASE RecordNotice
  <2>1. "undo" \in PCs
    BY DEF PCs
  <2> QED
    BY <1>3, <2>1, SyncTyped, RowsTyped, Zenon DEF RecordNotice, TypeOK
<1>4. CASE Undo
  BY <1>4, RefundTyped, Zenon DEF Undo, Finish, RolledBack, TypeOK, PCs, Outcomes
<1>5. CASE CommitBatch
  BY <1>5, Zenon DEF CommitBatch, TypeOK, PCs
<1>6. CASE AbortBatch
  BY <1>6, RefundTyped, Zenon DEF AbortBatch, Finish, RolledBack, TypeOK, PCs, Outcomes
<1>7. CASE KeepPrefix
  <2>1. disk' \in Trees
    <3>1. base.edits + batch.proven \in Nat
      BY DEF TypeOK, Trees, BatchRecord
    <3> QED
      BY <1>7, <3>1, Zenon DEF KeepPrefix, TypeOK, Trees
  <2> QED
    BY <1>7, <2>1, Zenon DEF KeepPrefix, Finish, TypeOK, PCs, Outcomes
<1>8. CASE FinishRun
  <2>1. loop' \in LoopRecord
    BY <1>8, LoopTyped, Zenon DEF FinishRun, TypeOK
  <2>2. log' \in LogRecord
    <3>1. log.turns \ {loop.turn} \subseteq Nat
      BY DEF TypeOK, LogRecord
    <3>2. \E dirty \in BOOLEAN : log' = [turns |-> log.turns \ {loop.turn}, dirty |-> dirty]
      BY <1>8 DEF FinishRun
    <3> QED
      BY <3>1, <3>2 DEF LogRecord
  <2>3. live' \in LiveRecord
    <3>1. live.turns \ {loop.turn} \subseteq Nat
      BY DEF TypeOK, LiveRecord
    <3> QED
      BY <1>8, <3>1, Zenon DEF FinishRun, TypeOK, LiveRecord
  <2> QED
    BY <1>8, <2>1, <2>2, <2>3, Zenon DEF FinishRun, TypeOK, PCs
<1> QED
  BY <1>1, <1>2, <1>3, <1>4, <1>5, <1>6, <1>7, <1>8

\* The cancel token and the wall clock keep the types.
LEMMA EnvironmentTyped ==
    ASSUME TypeOK, Cancel \/ WallClock \/ UNCHANGED vars
    PROVE  TypeOK'
<1>1. CASE Cancel
  BY <1>1, Zenon DEF Cancel, TypeOK
<1>2. CASE WallClock
  <2>1. budget' \in BudgetRecord
    BY <1>2, Zenon DEF WallClock, TypeOK, BudgetRecord
  <2> QED
    BY <1>2, <2>1, Zenon DEF WallClock, TypeOK
<1>3. CASE UNCHANGED vars
  BY <1>3, Zenon DEF vars, TypeOK
<1> QED
  BY <1>1, <1>2, <1>3

\* Every step keeps the types; the probe's hunk count needs BatchGrows.
LEMMA NextTyped ==
    ASSUME TypeOK, BatchGrows, [Next]_vars
    PROVE  TypeOK'
BY OpeningTyped, HeadTyped, RoundTyped, ClaimTyped, ToolTyped, BatchTyped, EnvironmentTyped, Zenon
DEF Next, Step, Ended

\* Between a batch's baseline and its probe the work tree only gains edits.
LEMMA NextGrows ==
    ASSUME TypeOK, BatchGrows, [Next]_vars
    PROVE  BatchGrows'
<1>1. CASE Baseline
  BY <1>1 DEF Baseline, BatchGrows, TypeOK, Trees, Finish
<1>2. ASSUME NEW same \in BOOLEAN, NEW leaves \in BOOLEAN,
             \/ AbortCall \/ DenyCall \/ PassTool(same)
             \/ FailTool(same, leaves) \/ CancelTool(same, leaves)
      PROVE  BatchGrows'
  <2>1. pc \in {"tools", "exec"} /\ base' = base
    BY <1>2 DEF AbortCall, DenyCall, PassTool, FailTool, CancelTool, RecordResult
  <2>2. \/ disk' = disk
        \/ disk' = [disk EXCEPT !.edits = @ + 1, !.green = FALSE]
        \/ disk' = [disk EXCEPT !.green = TRUE]
        \/ disk' = [disk EXCEPT !.scraps = TRUE, !.green = FALSE]
    BY <1>2, Zenon DEF AbortCall, DenyCall, PassTool, FailTool, CancelTool
  <2>3. disk'.edits \in {disk.edits, disk.edits + 1}
    BY <2>2 DEF TypeOK, Trees
  <2>4. disk.edits \in Nat /\ base.edits \in Nat
    BY DEF TypeOK, Trees
  <2> QED
    BY <2>1, <2>3, <2>4 DEF BatchGrows
<1>3. CASE StartTool
  BY <1>3 DEF StartTool, BatchGrows
<1>4. CASE \/ SeedStop \/ Cancel \/ WallClock \/ UNCHANGED vars
  BY <1>4 DEF SeedStop, Cancel, WallClock, vars, BatchGrows
<1>5. CASE \/ OpenLog \/ WriteHeader \/ Ensure \/ SeedText \/ Opened
           \/ StepHead \/ StartProviderCall \/ RefuseProviderCall
           \/ JudgeReturn \/ JudgePark \/ JudgeContinue \/ JudgeHop
           \/ SkipSummary \/ BeginSummary \/ DropSummary \/ CancelCall \/ SendRequest \/ FailCall
           \/ Probe \/ RecordNotice \/ Undo \/ CommitBatch \/ AbortBatch \/ KeepPrefix \/ FinishRun
  <2>1. ~(pc' \in {"tools", "exec"})
    BY <1>5
    DEF OpenLog, WriteHeader, Ensure, SeedText, Opened, StepHead, StartProviderCall,
        RefuseProviderCall, JudgeReturn, JudgePark, JudgeContinue, JudgeHop, SkipSummary,
        BeginSummary, DropSummary, CancelCall, SendRequest, FailCall, Probe, RecordNotice, Undo,
        CommitBatch, AbortBatch, KeepPrefix, FinishRun, Finish, SyncTo
  <2> QED
    BY <2>1 DEF BatchGrows
<1>6. ASSUME NEW bill \in Bills \union {NoBill}, NEW exhausted \in BOOLEAN,
             \/ EndSummary(bill) \/ SettleCancelled(exhausted, bill) \/ SettleFailed(exhausted, bill)
             \/ Claim(bill)
      PROVE  BatchGrows'
  <2>1. ~(pc' \in {"tools", "exec"})
    BY <1>6
    DEF EndSummary, SettleCancelled, SettleFailed, Claim, ClaimStopped, ClaimHardExit,
        ClaimHeld, ClaimDone, ClaimDispatch, Finish, SyncTo
  <2> QED
    BY <2>1 DEF BatchGrows
<1> QED
  BY <1>1, <1>2, <1>3, <1>4, <1>5, <1>6 DEF Next, Step, Tool, Ended

\* A run starts in the types.
LEMMA InitTyped == Init => TypeOK /\ BatchGrows
<1> SUFFICES ASSUME Init PROVE TypeOK /\ BatchGrows
  OBVIOUS
<1>1. inputs \in Seq({"text", "stopHard", "stopWhenIdle"})
  BY RunAssumption DEF Init, RunAssumption
<1>2. loop \in LoopRecord
  BY RunAssumption DEF Init, InitLoop, LoopRecord, StepRetryBudget, RunAssumption
<1>3. budget \in BudgetRecord
  BY DEF Init, ZeroBudget, BudgetRecord
<1>4. verify \in VerifyRecord
  BY DEF Init, VerifyRecord, VerifyNudgeCap
<1>5. batch \in BatchRecord
  BY DEF Init, ZeroSnap, BatchRecord
<1>6. disk \in Trees /\ base \in Trees
  BY DEF Init, InitTree, Trees
<1>7. log \in LogRecord /\ live \in LiveRecord /\ seen \in SeenRecord
  BY DEF Init, LogRecord, LiveRecord, SeenRecord
<1>8. pc \in PCs /\ cancel \in BOOLEAN /\ open \subseteq Nat /\ outcome \in Outcomes \union {"none"}
  BY DEF Init, PCs
<1>9. BatchGrows
  BY DEF Init, BatchGrows
<1> QED
  BY <1>1, <1>2, <1>3, <1>4, <1>5, <1>6, <1>7, <1>8, <1>9 DEF TypeOK

\* Every variable has its type in every reachable state, for every cap, input list, gate and
\* fault setting: in particular the retry budget never goes below zero, a refund never takes
\* a step that was not counted, and the batch never holds a negative number of hunks.
THEOREM TypeCorrect == Spec => []TypeOK
<1>1. Spec => [](TypeOK /\ BatchGrows)
  BY InitTyped, NextTyped, NextGrows, PTL DEF Spec
<1> QED
  BY <1>1, PTL

-----------------------------------------------------------------------------
(* Safety.  The properties of RunLoop that are theorems here follow from   *)
(* `Safe' by unfolding.                                                    *)

\* What a settled or failed call may have charged.
Bill == Bills \union {NoBill}

\* Rows the file does not hold exist only where the next thing the task does is to write them.
RowsSettled == log.dirty => pc \in {"head", "finish", "done"}

\* A sync leaves no pending row, or ends the run (run.rs sync).
LEMMA SyncCleans ==
    ASSUME NEW rows \in LogRecord, NEW next, NEW frames, SyncTo(rows, next, frames)
    PROVE  ~log'.dirty \/ pc' = "finish"
BY DEF SyncTo, LogRecord

\* Every step of the loop leaves its rows on disk before it goes on to anything but another
\* write: the head's own rows and those of a call settled as cancelled wait for the head.
LEMMA NextSettles ==
    ASSUME TypeOK, TypeOK', RowsSettled, [Next]_vars
    PROVE  RowsSettled'
<1>1. CASE \/ OpenLog \/ Ensure \/ SeedStop \/ Opened
           \/ StartProviderCall \/ RefuseProviderCall \/ JudgeReturn \/ JudgePark \/ JudgeContinue
           \/ SkipSummary \/ BeginSummary \/ DropSummary \/ CancelCall \/ SendRequest \/ FailCall
           \/ Baseline \/ StartTool \/ Probe \/ Undo \/ CommitBatch \/ AbortBatch \/ KeepPrefix
           \/ FinishRun \/ Cancel \/ WallClock \/ UNCHANGED vars
  BY <1>1
  DEF RowsSettled, OpenLog, Ensure, SeedStop, Opened, StartProviderCall, RefuseProviderCall,
      JudgeReturn, JudgePark, JudgeContinue, SkipSummary, BeginSummary, DropSummary, CancelCall,
      SendRequest, FailCall, Baseline, StartTool, Probe, Undo, CommitBatch, AbortBatch, KeepPrefix,
      FinishRun, Cancel, WallClock, vars, Finish
<1>2. ASSUME NEW bill \in Bill, NEW exhausted \in BOOLEAN,
             EndSummary(bill) \/ SettleCancelled(exhausted, bill) \/ ClaimHardExit(bill)
      PROVE  RowsSettled'
  BY <1>2 DEF RowsSettled, EndSummary, SettleCancelled, ClaimHardExit, Settled
<1>3. CASE JudgeHop
  BY <1>3 DEF RowsSettled, JudgeHop, SyncTo
<1>4. CASE WriteHeader \/ RecordNotice
  BY <1>4, SyncCleans, RowsTyped DEF RowsSettled, WriteHeader, RecordNotice
<1>5. CASE SeedText
  BY <1>5 DEF RowsSettled, SeedText, SyncTo, TypeOK, LogRecord
<1>6. CASE StepHead
  BY <1>6 DEF RowsSettled, StepHead, SyncTo, TypeOK, LogRecord
<1>7. ASSUME NEW bill \in Bill,
             \/ \E exhausted \in BOOLEAN : SettleFailed(exhausted, bill)
             \/ \E why \in {"maxTokens", "error"} : ClaimStopped(bill, why)
             \/ ClaimHeld(bill)
             \/ \E calls \in Batches : ClaimDispatch(bill, calls)
      PROVE  RowsSettled'
  <2>1. \E next, frames : SyncTo(Rows, next, frames)
    BY <1>7, Zenon DEF SettleFailed, ClaimStopped, ClaimHeld, ClaimDispatch
  <2> QED
    BY <2>1, SyncCleans, RowsTyped DEF RowsSettled
<1>8. ASSUME NEW bill \in Bill, ClaimDone(bill)
      PROVE  RowsSettled'
  <2>1. CASE LastStepDone(Charge(budget, bill))
    BY <1>8, <2>1 DEF RowsSettled, ClaimDone, Finish, TypeOK, LogRecord
  <2>2. CASE ~LastStepDone(Charge(budget, bill))
    <3>1. SyncTo(Rows, "settle", live)
      BY <1>8, <2>2 DEF ClaimDone
    <3> QED
      BY <3>1, SyncCleans, RowsTyped DEF RowsSettled
  <2> QED
    BY <2>1, <2>2
<1>9. ASSUME NEW same \in BOOLEAN, NEW leaves \in BOOLEAN,
             \/ AbortCall \/ DenyCall \/ PassTool(same)
             \/ FailTool(same, leaves) \/ CancelTool(same, leaves)
      PROVE  RowsSettled'
  <2>1. \E l, ok : RecordResult(l, ok)
    BY <1>9, Zenon DEF AbortCall, DenyCall, PassTool, FailTool, CancelTool
  <2> QED
    BY <2>1, SyncCleans, RowsTyped DEF RowsSettled, RecordResult
<1> QED
  BY <1>1, <1>2, <1>3, <1>4, <1>5, <1>6, <1>7, <1>8, <1>9 DEF Next, Step, Claim, Tool, Ended, Bill

\* The shared updates of LoopState leave the call, the steps and the turn alone.
LEMMA StopKeeps ==
    ASSUME NEW l \in LoopRecord
    PROVE  /\ StopNow(l).inFlight = l.inFlight
           /\ StopNow(l).step = l.step
           /\ StopNow(l).turn = l.turn
           /\ StopNow(l).phase = l.phase
           /\ StopNow(l).gate # "open"
BY DEF StopNow, LoopRecord

\* What every reachable round, call and tool has in common.
CallsAnswered ==
    /\ loop.inFlight => pc \in {"round", "summary", "request", "calling", "aborted", "failed"}
    /\ pc \notin {"baseline", "tools", "exec", "finish", "done"} => open = {}
    /\ pc = "baseline" => batch.next = 1
    /\ pc = "exec" => batch.next <= Len(batch.calls)
    /\ pc \in {"baseline", "tools", "exec"} => open = batch.next..Len(batch.calls)

\* A step keeps the bookkeeping of the calls: the open ones are the rest of the batch, and a
\* request is in flight only inside its own round (state.rs open_tools, run.rs tool_batch).
LEMMA NextAnswers ==
    ASSUME TypeOK, TypeOK', CallsAnswered, [Next]_vars
    PROVE  CallsAnswered'
<1>1. CASE \/ OpenLog \/ WriteHeader \/ Ensure \/ RefuseProviderCall \/ JudgeReturn \/ JudgeContinue
           \/ SkipSummary \/ DropSummary \/ SendRequest \/ FailCall
           \/ RecordNotice \/ Undo \/ CommitBatch \/ AbortBatch \/ KeepPrefix
           \/ Cancel \/ WallClock \/ UNCHANGED vars
  BY <1>1
  DEF CallsAnswered, OpenLog, WriteHeader, Ensure, RefuseProviderCall, JudgeReturn, JudgeContinue,
      SkipSummary, DropSummary, SendRequest, FailCall, RecordNotice, Undo, CommitBatch, AbortBatch,
      KeepPrefix, Cancel, WallClock, vars, Finish, SyncTo
<1>2. CASE \/ SeedText \/ SeedStop \/ Opened \/ StepHead \/ StartProviderCall \/ JudgePark
           \/ JudgeHop \/ BeginSummary \/ CancelCall \/ FinishRun
  <2>1. /\ UNCHANGED <<open, batch>>
        /\ pc' \notin {"baseline", "tools", "exec"}
        /\ pc' \notin {"finish", "done"} => pc \notin {"baseline", "tools", "exec", "finish", "done"}
    BY <1>2
    DEF SeedText, SeedStop, Opened, StepHead, StartProviderCall, JudgePark, JudgeHop, BeginSummary,
        CancelCall, FinishRun, Finish, SyncTo
  <2>2. loop'.inFlight => \/ pc' = "round"
                          \/ /\ loop.inFlight
                             /\ \/ pc \in {"head", "seed", "judge", "settle", "finish"}
                                \/ pc' \in {"summary", "aborted"}
    <3>1. CASE SeedText
      BY <1>2, <3>1 DEF SeedText, OpenTurn, SyncTo, TypeOK, LoopRecord
    <3>2. CASE SeedStop
      BY <1>2, <3>2 DEF SeedStop, StopNow, TypeOK, LoopRecord
    <3>3. CASE Opened \/ JudgePark \/ BeginSummary
      BY <1>2, <3>3 DEF Opened, JudgePark, BeginSummary, Finish, TypeOK, LoopRecord
    <3>4. CASE StepHead
      <4>1. StopNow(loop) \in LoopRecord /\ StopNow(loop).inFlight = loop.inFlight
        BY LoopTyped, StopKeeps DEF TypeOK
      <4>2. pc = "head" /\ \E l \in {loop, StopNow(loop)} : loop' = [l EXCEPT !.steering = 0]
        BY <3>4 DEF StepHead
      <4>3. loop'.inFlight = loop.inFlight
        <5>1. PICK l \in {loop, StopNow(loop)} : loop' = [l EXCEPT !.steering = 0]
          BY <4>2
        <5>2. l \in LoopRecord /\ l.inFlight = loop.inFlight
          BY <4>1 DEF TypeOK
        <5> QED
          BY <5>1, <5>2 DEF LoopRecord
      <4> QED
        BY <4>2, <4>3
    <3>5. CASE StartProviderCall
      <4>1. pc' = "round"
        BY <3>5 DEF StartProviderCall
      <4> QED
        BY <4>1
    <3>6. CASE JudgeHop
      BY <1>2, <3>6 DEF JudgeHop, HopTurn, OpenTurn, SyncTo, TypeOK, LoopRecord
    <3>7. CASE CancelCall
      BY <1>2, <3>7 DEF CancelCall, StopNow, TypeOK, LoopRecord
    <3>8. CASE FinishRun
      BY <1>2, <3>8 DEF FinishRun, StickReason, TypeOK, LoopRecord
    <3> QED
      BY <1>2, <3>1, <3>2, <3>3, <3>4, <3>5, <3>6, <3>7, <3>8
  <2> QED
    BY <2>1, <2>2 DEF CallsAnswered
<1>3. ASSUME NEW bill \in Bill, NEW exhausted \in BOOLEAN, NEW why \in {"maxTokens", "error"},
             \/ EndSummary(bill) \/ SettleCancelled(exhausted, bill) \/ SettleFailed(exhausted, bill)
             \/ ClaimStopped(bill, why) \/ ClaimHardExit(bill) \/ ClaimHeld(bill) \/ ClaimDone(bill)
      PROVE  CallsAnswered'
  <2>1. /\ UNCHANGED <<open, batch>>
        /\ pc' \in {"request", "head", "judge", "settle", "finish"}
        /\ pc \in {"summary", "aborted", "failed", "calling"}
        /\ pc' = "request" => loop' = loop /\ pc = "summary"
    BY <1>3
    DEF EndSummary, SettleCancelled, SettleFailed, ClaimStopped, ClaimHardExit, ClaimHeld, ClaimDone,
        Settled, Finish, SyncTo
  <2>2. pc' # "request" => ~loop'.inFlight
    <3>1. CASE EndSummary(bill)
      BY <3>1 DEF EndSummary
    <3>2. CASE SettleCancelled(exhausted, bill)
      BY <3>2 DEF SettleCancelled, StickReason, Fatal, TypeOK, LoopRecord
    <3>5. CASE SettleFailed(exhausted, bill)
      BY <3>5 DEF SettleFailed, StickReason, Fatal, TypeOK, LoopRecord
    <3>3. CASE ClaimStopped(bill, why) \/ ClaimHardExit(bill)
      <4>1. /\ StickReason(Answered, why).inFlight = FALSE
            /\ Fatal(Answered).inFlight = FALSE
        BY DEF Answered, StickReason, Fatal, TypeOK, LoopRecord
      <4> QED
        BY <3>3, <4>1 DEF ClaimStopped, ClaimHardExit
    <3>4. CASE ClaimHeld(bill) \/ ClaimDone(bill)
      <4>1. /\ Answered.inFlight = FALSE
            /\ [Answered EXCEPT !.callModel = TRUE].inFlight = FALSE
        BY DEF Answered, TypeOK, LoopRecord
      <4> QED
        BY <3>4, <4>1 DEF ClaimHeld, ClaimDone
    <3> QED
      BY <1>3, <3>1, <3>2, <3>3, <3>4, <3>5
  <2> QED
    BY <2>1, <2>2 DEF CallsAnswered
<1>4. ASSUME NEW bill \in Bill, NEW calls \in Batches, ClaimDispatch(bill, calls)
      PROVE  CallsAnswered'
  <2>1. /\ batch'.next = 1 /\ batch'.calls = calls /\ open' = 1..Len(calls)
        /\ pc' \in {"baseline", "finish"}
    BY <1>4 DEF ClaimDispatch, SyncTo
  <2>2. ~loop'.inFlight
    BY <1>4 DEF ClaimDispatch, Answered, TypeOK, LoopRecord
  <2> QED
    BY <2>1, <2>2 DEF CallsAnswered
<1>5. CASE Baseline
  <2>1. /\ UNCHANGED <<loop, open>>
        /\ batch'.next = batch.next /\ batch'.calls = batch.calls
        /\ pc = "baseline" /\ pc' \in {"tools", "finish"}
    BY <1>5 DEF Baseline, Finish, TypeOK, BatchRecord
  <2> QED
    BY <2>1 DEF CallsAnswered
<1>6. CASE Probe
  <2>1. /\ UNCHANGED <<loop, open>>
        /\ pc = "tools" /\ pc' \in {"notice", "gate", "finish"}
        /\ ~MoreCalls
    BY <1>6, Zenon DEF Probe, Finish
  <2>2. batch.next..Len(batch.calls) = {}
    BY <2>1 DEF MoreCalls, TypeOK, BatchRecord
  <2> QED
    BY <2>1, <2>2 DEF CallsAnswered
<1>7. CASE StartTool
  BY <1>7 DEF StartTool, MoreCalls, CallsAnswered
<1>8. ASSUME NEW same \in BOOLEAN, NEW leaves \in BOOLEAN,
             \/ AbortCall \/ DenyCall \/ PassTool(same)
             \/ FailTool(same, leaves) \/ CancelTool(same, leaves)
      PROVE  CallsAnswered'
  <2>1. RecordResult(loop, TRUE) \/ RecordResult(loop, FALSE) \/ RecordResult(StopNow(loop), FALSE)
    BY <1>8, Zenon DEF AbortCall, DenyCall, PassTool, FailTool, CancelTool
  <2>2. pc \in {"tools", "exec"} /\ pc' \in {"tools", "finish"}
    BY <1>8 DEF AbortCall, DenyCall, PassTool, FailTool, CancelTool, RecordResult, SyncTo
  <2>3. open = batch.next..Len(batch.calls) /\ ~loop.inFlight
    BY <2>2 DEF CallsAnswered
  <2>4. batch'.next = batch.next + 1 /\ batch'.calls = batch.calls
    BY <2>1 DEF RecordResult, TypeOK, BatchRecord
  <2>5. ~loop'.inFlight
    <3>1. StopNow(loop).inFlight = loop.inFlight
      BY StopKeeps DEF TypeOK
    <3>2. PICK l \in {loop, StopNow(loop)} : RecordResult(l, TRUE) \/ RecordResult(l, FALSE)
      BY <2>1
    <3>3. l \in LoopRecord /\ ~l.inFlight
      BY <2>3, <3>1, LoopTyped DEF TypeOK
    <3> QED
      BY <3>2, <3>3 DEF RecordResult, LoopRecord
  <2>6. open' = batch'.next..Len(batch'.calls)
    <3>1. batch.next \in Nat /\ Len(batch.calls) \in Nat
      BY DEF TypeOK, BatchRecord
    <3>2. open' = open \ {batch.next}
      BY <2>1 DEF RecordResult
    <3> QED
      BY <2>3, <2>4, <3>1, <3>2
  <2> QED
    BY <2>2, <2>5, <2>6 DEF CallsAnswered
<1> QED
  BY <1>1, <1>2, <1>3, <1>4, <1>5, <1>6, <1>7, <1>8 DEF Next, Step, Claim, Tool, Ended, Bill

\* The guard's step counter is the number of rounds started, until a round is refunded; that
\* happens only to a call settled as cancelled, after which no round starts.  The last round
\* past the cap has burnt the grace latch.
StepsCounted ==
    /\ loop.step <= MaxSteps + 1
    /\ ~seen.cancelled => /\ budget.steps = loop.step
                          /\ loop.step > MaxSteps => budget.grace
    /\ seen.cancelled => cancel /\ pc \in {"judge", "head", "admit", "finish", "done"}
    /\ seen.cancelled /\ pc = "admit" => loop.gate # "open"
    /\ pc = "aborted" => cancel

\* Only record_step and refund_step move the step counter, and only may_step the grace latch.
LEMMA MeterKeeps ==
    ASSUME NEW b \in BudgetRecord
    PROVE  /\ \A bill : Charge(b, bill).steps = b.steps /\ Charge(b, bill).grace = b.grace
           /\ \A same :
                ObserveAction(b, same).steps = b.steps /\ ObserveAction(b, same).grace = b.grace
           /\ RefundBudget(b).steps = b.steps /\ RefundBudget(b).grace = b.grace
BY DEF Charge, ObserveAction, RefundBudget, BudgetRecord

\* A round that start_provider_call admits is within the cap or is the one grace step.
LEMMA StartCounts ==
    ASSUME TypeOK, StepsCounted, StartProviderCall
    PROVE  StepsCounted'
<1>1. /\ pc = "admit" /\ loop.gate = "open" /\ MayStep(budget)
      /\ pc' = "round" /\ UNCHANGED <<seen, cancel>>
  BY DEF StartProviderCall, MayStart
<1>2. ~seen.cancelled /\ budget.steps = loop.step
  BY <1>1 DEF StepsCounted
<1>3. loop.step \in Nat /\ MaxSteps \in Nat /\ budget \in BudgetRecord
  BY BudgetAssumption DEF TypeOK, LoopRecord, BudgetAssumption
<1>4. loop.step >= MaxSteps => Exceeded(budget)
  BY <1>2, <1>3 DEF Exceeded, Peek
<1>5. loop.step <= MaxSteps
  BY <1>1, <1>2, <1>3, <1>4 DEF MayStep, StepsCounted
<1>6. loop'.step = loop.step + 1
  BY DEF StartProviderCall, TypeOK, LoopRecord
<1>7. budget'.steps = budget.steps + 1 /\ (Exceeded(budget) => budget'.grace)
  BY <1>3 DEF StartProviderCall, RecordStep, AfterMayStep, BudgetRecord
<1> QED
  BY <1>1, <1>2, <1>3, <1>4, <1>5, <1>6, <1>7 DEF StepsCounted

\* A step keeps the count of the rounds, one case per way a handler meters.
LEMMA NextCounts ==
    ASSUME TypeOK, StepsCounted, [Next]_vars
    PROVE  StepsCounted'
<1>1. CASE StartProviderCall
  BY <1>1, StartCounts
<1>2. CASE \/ OpenLog \/ WriteHeader \/ Ensure \/ Opened \/ RefuseProviderCall
           \/ JudgeReturn \/ JudgeContinue \/ SkipSummary \/ DropSummary \/ SendRequest \/ FailCall
           \/ Baseline \/ StartTool \/ Probe \/ RecordNotice \/ CommitBatch \/ KeepPrefix
           \/ Cancel \/ UNCHANGED vars
  BY <1>2
  DEF StepsCounted, OpenLog, WriteHeader, Ensure, Opened, RefuseProviderCall, JudgeReturn,
      JudgeContinue, SkipSummary, DropSummary, SendRequest, FailCall, Baseline, StartTool, Probe,
      RecordNotice, CommitBatch, KeepPrefix, Cancel, vars, Finish, SyncTo
<1>3. CASE SeedText \/ SeedStop \/ JudgePark \/ BeginSummary \/ CancelCall \/ FinishRun \/ JudgeHop
  <2>1. /\ UNCHANGED <<budget, seen, cancel>>
        /\ pc' # "admit"
        /\ pc \in {"judge", "head", "admit", "finish", "done"} =>
              pc' \in {"judge", "head", "admit", "finish", "done"}
        /\ pc' = "aborted" => cancel
    BY <1>3
    DEF SeedText, SeedStop, JudgePark, BeginSummary, CancelCall, FinishRun, JudgeHop, Finish, SyncTo
  <2>2. loop'.step = loop.step
    <3>1. CASE SeedText
      BY <3>1 DEF SeedText, OpenTurn, TypeOK, LoopRecord
    <3>2. CASE SeedStop
      BY <3>2, StopKeeps DEF SeedStop, TypeOK, LoopRecord
    <3>3. CASE JudgePark \/ BeginSummary
      BY <3>3 DEF JudgePark, BeginSummary, TypeOK, LoopRecord
    <3>4. CASE CancelCall
      BY <3>4, StopKeeps DEF CancelCall, TypeOK
    <3>5. CASE FinishRun
      BY <3>5 DEF FinishRun, StickReason, TypeOK, LoopRecord
    <3>6. CASE JudgeHop
      BY <3>6 DEF JudgeHop, HopTurn, OpenTurn, TypeOK, LoopRecord
    <3> QED
      BY <1>3, <3>1, <3>2, <3>3, <3>4, <3>5, <3>6
  <2> QED
    BY <2>1, <2>2 DEF StepsCounted
<1>4. CASE StepHead
  <2>1. /\ UNCHANGED <<budget, seen, cancel>>
        /\ pc' \in {"admit", "finish"}
        /\ loop' = [(IF cancel THEN StopNow(loop) ELSE loop) EXCEPT !.steering = 0]
    BY <1>4 DEF StepHead, SyncTo
  <2>2. loop'.step = loop.step /\ (cancel => loop'.gate # "open")
    <3>1. StopNow(loop) \in LoopRecord
      BY LoopTyped DEF TypeOK
    <3> QED
      BY <2>1, <3>1, StopKeeps DEF TypeOK, LoopRecord
  <2> QED
    BY <2>1, <2>2 DEF StepsCounted
<1>5. ASSUME NEW bill \in Bill, NEW exhausted \in BOOLEAN, SettleCancelled(exhausted, bill)
      PROVE  StepsCounted'
  <2>1. cancel /\ UNCHANGED cancel /\ pc' = "judge"
    BY <1>5 DEF SettleCancelled, StepsCounted
  <2>2. seen'.cancelled
    BY <1>5 DEF SettleCancelled, TypeOK, SeenRecord
  <2>3. loop'.step = loop.step
    BY <1>5 DEF SettleCancelled, TypeOK, LoopRecord
  <2> QED
    BY <2>1, <2>2, <2>3 DEF StepsCounted
<1>6. ASSUME NEW bill \in Bill, NEW exhausted \in BOOLEAN, NEW why \in {"maxTokens", "error"},
             \/ EndSummary(bill) \/ SettleFailed(exhausted, bill) \/ ClaimStopped(bill, why)
             \/ ClaimHardExit(bill) \/ ClaimHeld(bill) \/ ClaimDone(bill)
             \/ \E calls \in Batches : ClaimDispatch(bill, calls)
      PROVE  StepsCounted'
  <2>1. /\ pc \in {"summary", "failed", "calling"}
        /\ pc' # "aborted"
        /\ budget' = Charge(budget, bill)
        /\ UNCHANGED cancel
    BY <1>6
    DEF EndSummary, SettleFailed, ClaimStopped, ClaimHardExit, ClaimHeld, ClaimDone, ClaimDispatch,
        Settled, Finish, SyncTo
  <2>2. seen'.cancelled = seen.cancelled
    BY <1>6
    DEF EndSummary, SettleFailed, ClaimStopped, ClaimHardExit, ClaimHeld, ClaimDone, ClaimDispatch,
        Settled, TypeOK, SeenRecord
  <2>3. loop'.step = loop.step
    <3>1. CASE EndSummary(bill)
      BY <3>1 DEF EndSummary
    <3>2. CASE SettleFailed(exhausted, bill)
      BY <3>2 DEF SettleFailed, Fatal, TypeOK, LoopRecord
    <3>3. CASE \/ ClaimStopped(bill, why) \/ ClaimHardExit(bill) \/ ClaimHeld(bill) \/ ClaimDone(bill)
               \/ \E calls \in Batches : ClaimDispatch(bill, calls)
      BY <3>3
      DEF ClaimStopped, ClaimHardExit, ClaimHeld, ClaimDone, ClaimDispatch, Answered, StickReason,
          Fatal, TypeOK, LoopRecord
    <3> QED
      BY <1>6, <3>1, <3>2, <3>3
  <2>4. budget'.steps = budget.steps /\ budget'.grace = budget.grace
    BY <2>1, MeterKeeps DEF TypeOK
  <2> QED
    BY <2>1, <2>2, <2>3, <2>4 DEF StepsCounted
<1>7. CASE Tool \/ Undo \/ AbortBatch \/ WallClock
  <2>1. CASE StartTool
    BY <2>1 DEF StartTool, StepsCounted
  <2>2. CASE WallClock
    <3>1. budget'.steps = budget.steps /\ budget'.grace = budget.grace
      BY <2>2 DEF WallClock, TypeOK, BudgetRecord
    <3> QED
      BY <2>2, <3>1 DEF WallClock, StepsCounted
  <2>3. CASE Undo \/ AbortBatch
    <3>1. /\ pc' # "aborted" /\ pc \notin {"judge", "head", "admit", "finish", "done"}
          /\ UNCHANGED <<cancel, loop, seen>>
          /\ budget' = budget \/ budget' = RefundBudget(budget)
      BY <2>3 DEF Undo, AbortBatch, Finish
    <3>2. budget'.steps = budget.steps /\ budget'.grace = budget.grace
      BY <3>1, MeterKeeps DEF TypeOK
    <3> QED
      BY <3>1, <3>2 DEF StepsCounted
  <2>4. ASSUME NEW same \in BOOLEAN, NEW leaves \in BOOLEAN,
               \/ AbortCall \/ DenyCall \/ PassTool(same)
               \/ FailTool(same, leaves) \/ CancelTool(same, leaves)
        PROVE  StepsCounted'
    <3>1. /\ pc \in {"tools", "exec"}
          /\ budget' = budget \/ budget' = ObserveAction(budget, same)
          /\ \E ok \in BOOLEAN : RecordResult(loop, ok) \/ RecordResult(StopNow(loop), ok)
      BY <2>4, Zenon DEF AbortCall, DenyCall, PassTool, FailTool, CancelTool
    <3>2. pc' # "aborted" /\ UNCHANGED <<cancel, seen>>
      BY <3>1 DEF RecordResult, SyncTo
    <3>3. loop'.step = loop.step
      <4>1. PICK l \in {loop, StopNow(loop)}, ok \in BOOLEAN : RecordResult(l, ok)
        BY <3>1
      <4>2. l \in LoopRecord /\ l.step = loop.step
        BY <4>1, LoopTyped, StopKeeps DEF TypeOK
      <4> QED
        BY <4>1, <4>2 DEF RecordResult, LoopRecord
    <3>4. budget'.steps = budget.steps /\ budget'.grace = budget.grace
      BY <3>1, MeterKeeps DEF TypeOK
    <3> QED
      BY <3>1, <3>2, <3>3, <3>4 DEF StepsCounted
  <2> QED
    BY <1>7, <2>1, <2>2, <2>3, <2>4 DEF Tool
<1> QED
  BY <1>1, <1>2, <1>3, <1>4, <1>5, <1>6, <1>7 DEF Next, Step, Claim, Ended, Bill

\* The log's open turn is the loop's current turn, from the first input to the closing row.
TurnsTracked ==
    /\ pc # "done" => log.turns = IF loop.turn = 0 THEN {} ELSE {loop.turn}
    /\ pc = "done" => log.turns = {}
    /\ pc \in {"start", "header", "ensure"} => loop.turn = 0
    /\ loop.phase = "idle" /\ pc \notin {"finish", "done"} => loop.turn = 0

\* A step that neither opens nor closes a turn, in the log or in the loop.
TurnKept ==
    /\ log'.turns = log.turns
    /\ loop'.turn = loop.turn
    /\ loop'.phase = loop.phase \/ pc' = "finish"
    /\ pc # "done" /\ pc' # "done"
    /\ pc' \in {"start", "header", "ensure"} => pc \in {"start", "header", "ensure"}
    /\ pc = "finish" => pc' = "finish"

\* How the shared updates of LoopState move its turn and phase.
LEMMA TurnFields ==
    ASSUME NEW l \in LoopRecord
    PROVE  /\ Fatal(l).turn = l.turn /\ Fatal(l).phase = l.phase
           /\ \A why : StickReason(l, why).turn = l.turn /\ StickReason(l, why).phase = l.phase
           /\ OpenTurn(l).turn = l.turn + 1 /\ OpenTurn(l).phase = "running"
BY DEF Fatal, StickReason, OpenTurn, LoopRecord

\* A sync of pending rows that open no turn leaves the open turns of the log alone.
LEMMA SyncKeeps ==
    ASSUME TypeOK, NEW next, NEW frames,
           SyncTo(Rows, next, frames) \/ SyncTo(log, next, frames)
    PROVE  log'.turns = log.turns /\ pc' \in {next, "finish"}
BY DEF SyncTo, Rows, TypeOK, LogRecord

\* The handlers without a turn row keep the turn: heads, rounds, batches and their gate.
LEMMA QuietKeeps ==
    ASSUME TypeOK,
           \/ WriteHeader \/ Ensure \/ SeedStop \/ StartProviderCall \/ RefuseProviderCall
           \/ JudgeReturn \/ JudgePark \/ JudgeContinue
           \/ SkipSummary \/ BeginSummary \/ DropSummary \/ CancelCall \/ SendRequest \/ FailCall
           \/ Baseline \/ StartTool \/ Probe \/ RecordNotice \/ Undo \/ CommitBatch \/ AbortBatch
           \/ KeepPrefix
    PROVE  TurnKept
<1>1. CASE \/ Ensure \/ RefuseProviderCall \/ JudgeReturn \/ JudgeContinue
           \/ SkipSummary \/ DropSummary \/ SendRequest \/ FailCall
           \/ Baseline \/ StartTool \/ Probe \/ Undo \/ CommitBatch \/ AbortBatch \/ KeepPrefix
  BY <1>1
  DEF TurnKept, Ensure, RefuseProviderCall, JudgeReturn, JudgeContinue, SkipSummary, DropSummary,
      SendRequest, FailCall, Baseline, StartTool, Probe, Undo, CommitBatch, AbortBatch, KeepPrefix,
      Finish
<1>2. CASE WriteHeader \/ RecordNotice
  <2>1. loop' = loop /\ pc \in {"header", "notice"}
        /\ \/ pc = "header" /\ SyncTo(Rows, "ensure", live)
           \/ pc = "notice" /\ SyncTo(Rows, "undo", live)
    BY <1>2 DEF WriteHeader, RecordNotice
  <2> QED
    BY <2>1, SyncKeeps DEF TurnKept
<1>3. CASE SeedStop \/ CancelCall
  <2>1. /\ UNCHANGED log
        /\ pc \notin {"finish", "done"} /\ pc' \notin {"done", "start", "header", "ensure"}
        /\ loop' = StopNow(loop) \/ loop' = [loop EXCEPT !.stopWhenIdle = TRUE]
    BY <1>3 DEF SeedStop, CancelCall
  <2> QED
    BY <2>1, StopKeeps DEF TurnKept, TypeOK, LoopRecord
<1>4. CASE StartProviderCall
  BY <1>4 DEF StartProviderCall, TurnKept, TypeOK, LoopRecord
<1>5. CASE JudgePark
  BY <1>5 DEF JudgePark, Finish, TurnKept, TypeOK, LoopRecord
<1>6. CASE BeginSummary
  BY <1>6 DEF BeginSummary, TurnKept, TypeOK, LoopRecord
<1> QED
  BY <1>1, <1>2, <1>3, <1>4, <1>5, <1>6

\* Settling an answer or a failure keeps the turn: it is `terminate' that closes or hops it.
LEMMA SettleKeeps ==
    ASSUME TypeOK, NEW bill \in Bill,
           \/ EndSummary(bill)
           \/ \E exhausted \in BOOLEAN :
                 SettleCancelled(exhausted, bill) \/ SettleFailed(exhausted, bill)
           \/ Claim(bill)
    PROVE  TurnKept
<1>1. CASE EndSummary(bill)
  BY <1>1 DEF EndSummary, TurnKept
<1>2. ASSUME NEW exhausted \in BOOLEAN, SettleCancelled(exhausted, bill)
      PROVE  TurnKept
  BY <1>2 DEF SettleCancelled, TurnKept, TypeOK, LoopRecord
<1>3. ASSUME NEW exhausted \in BOOLEAN, SettleFailed(exhausted, bill)
      PROVE  TurnKept
  <2>1. pc = "failed" /\ \E next \in {"head", "judge"} : SyncTo(Rows, next, live)
    BY <1>3 DEF SettleFailed
  <2>2. loop'.turn = loop.turn /\ loop'.phase = loop.phase
    BY <1>3 DEF SettleFailed, Fatal, TypeOK, LoopRecord
  <2> QED
    BY <2>1, <2>2, SyncKeeps DEF TurnKept
<1>4. CASE Claim(bill)
  <2>1. pc = "calling"
    BY <1>4 DEF Claim, ClaimStopped, ClaimHardExit, ClaimHeld, ClaimDone, ClaimDispatch, Settled
  <2>2. loop'.turn = loop.turn /\ loop'.phase = loop.phase
    BY <1>4
    DEF Claim, ClaimStopped, ClaimHardExit, ClaimHeld, ClaimDone, ClaimDispatch, Answered,
        StickReason, Fatal, TypeOK, LoopRecord
  <2>3. log'.turns = log.turns /\ pc' \in {"head", "judge", "settle", "baseline", "finish"}
    <3>1. CASE ClaimHardExit(bill)
      BY <3>1 DEF ClaimHardExit
    <3>2. CASE ClaimDone(bill) /\ LastStepDone(Charge(budget, bill))
      BY <3>2 DEF ClaimDone, Finish, Rows, TypeOK, LogRecord
    <3>3. CASE \E next \in {"head", "settle", "baseline"} : \E frames : SyncTo(Rows, next, frames)
      BY <3>3, SyncKeeps
    <3> QED
      BY <1>4, <3>1, <3>2, <3>3, Zenon
      DEF Claim, ClaimStopped, ClaimHeld, ClaimDone, ClaimDispatch
  <2> QED
    BY <2>1, <2>2, <2>3 DEF TurnKept
<1> QED
  BY <1>1, <1>2, <1>3, <1>4

\* A tool result keeps the turn, also when the token ended the call.
LEMMA ToolKeeps ==
    ASSUME TypeOK, NEW same \in BOOLEAN, NEW leaves \in BOOLEAN,
           \/ AbortCall \/ DenyCall \/ PassTool(same)
           \/ FailTool(same, leaves) \/ CancelTool(same, leaves)
    PROVE  TurnKept
<1>1. pc \in {"tools", "exec"}
  BY DEF AbortCall, DenyCall, PassTool, FailTool, CancelTool
<1>2. \E l \in {loop, StopNow(loop)}, ok \in BOOLEAN : RecordResult(l, ok)
  BY Zenon DEF AbortCall, DenyCall, PassTool, FailTool, CancelTool
<1>3. PICK l \in {loop, StopNow(loop)}, ok \in BOOLEAN : RecordResult(l, ok)
  BY <1>2
<1>4. l \in LoopRecord /\ l.turn = loop.turn /\ l.phase = loop.phase
  BY <1>3, LoopTyped, StopKeeps DEF TypeOK
<1>5. loop'.turn = loop.turn /\ loop'.phase = loop.phase
  BY <1>3, <1>4 DEF RecordResult, LoopRecord
<1>6. log'.turns = log.turns /\ pc' \in {"tools", "finish"}
  BY <1>3, SyncKeeps DEF RecordResult
<1> QED
  BY <1>1, <1>5, <1>6 DEF TurnKept

\* A step keeps the log's open turn in line with the loop's: the first text opens turn 1, a
\* hop closes one and opens the next in the same handler, finish closes the last.
LEMMA NextTracks ==
    ASSUME TypeOK, TurnsTracked, [Next]_vars
    PROVE  TurnsTracked'
<1>1. CASE TurnKept
  BY <1>1 DEF TurnKept, TurnsTracked
<1>2. CASE OpenLog \/ Opened \/ Cancel \/ WallClock \/ UNCHANGED vars
  BY <1>2 DEF OpenLog, Opened, Cancel, WallClock, vars, TurnsTracked
<1>3. CASE SeedText
  <2> DEFINE opens == loop.phase = "idle"
             l == IF opens THEN OpenTurn(loop) ELSE loop
             opened == IF opens THEN {l.turn} ELSE {}
  <2>1. pc = "seed" /\ pc' \in {"seed", "finish"}
    BY <1>3 DEF SeedText, SyncTo
  <2>2. l \in LoopRecord
    BY LoopTyped DEF TypeOK
  <2>3. loop'.turn = l.turn /\ loop'.phase = l.phase
    <3>1. loop' = [l EXCEPT !.steering = @ + 1]
      BY <1>3 DEF SeedText
    <3> HIDE DEF l
    <3> QED
      BY <2>2, <3>1 DEF LoopRecord
  <2>4. log'.turns = log.turns \union opened
    <3>1. log' = [log EXCEPT !.turns = @ \union opened, !.dirty = @ \/ opens]
          \/ log' = [[log EXCEPT !.turns = @ \union opened, !.dirty = @ \/ opens]
                        EXCEPT !.dirty = FALSE]
      BY <1>3 DEF SeedText, SyncTo
    <3> HIDE DEF opened, opens
    <3> QED
      BY <3>1 DEF TypeOK, LogRecord
  <2>5. opens => loop.turn = 0 /\ l.turn = 1 /\ l.phase = "running"
    BY <2>1, TurnFields DEF TypeOK, LoopRecord, TurnsTracked
  <2> QED
    BY <2>1, <2>3, <2>4, <2>5 DEF TurnsTracked
<1>4. CASE StepHead
  <2>1. pc = "head" /\ pc' \in {"admit", "finish"}
    BY <1>4 DEF StepHead, SyncTo
  <2>2. loop'.turn = loop.turn /\ loop'.phase = loop.phase
    <3>1. StopNow(loop) \in LoopRecord
      BY LoopTyped DEF TypeOK
    <3>2. loop' = [(IF cancel THEN StopNow(loop) ELSE loop) EXCEPT !.steering = 0]
      BY <1>4 DEF StepHead
    <3> QED
      BY <3>1, <3>2, StopKeeps DEF TypeOK, LoopRecord
  <2>3. log'.turns = log.turns
    BY <1>4 DEF StepHead, SyncTo, TypeOK, LogRecord
  <2> QED
    BY <2>1, <2>2, <2>3 DEF TurnsTracked
<1>5. CASE JudgeHop
  <2>1. pc \in {"judge", "settle"} /\ pc' \in {"head", "finish"}
    BY <1>5 DEF JudgeHop, SyncTo
  <2>2. loop'.turn = loop.turn + 1 /\ loop'.phase = "running" /\ loop.turn \in Nat
    BY <1>5 DEF JudgeHop, HopTurn, OpenTurn, TypeOK, LoopRecord
  <2>3. log'.turns = Hopped(log.turns)
    BY <1>5 DEF JudgeHop, SyncTo, TypeOK, LogRecord
  <2> QED
    BY <2>1, <2>2, <2>3 DEF TurnsTracked, Hopped
<1>6. CASE FinishRun
  <2>1. pc = "finish" /\ pc' = "done" /\ log'.turns = log.turns \ {loop.turn}
    BY <1>6 DEF FinishRun
  <2> QED
    BY <2>1 DEF TurnsTracked
<1> QED
  BY <1>1, <1>2, <1>3, <1>4, <1>5, <1>6, QuietKeeps, SettleKeeps, ToolKeeps
  DEF Next, Step, Tool, Ended, Bill

\* The inductive invariant: the types and the five relations the properties rest on.
Safe == TypeOK /\ BatchGrows /\ RowsSettled /\ CallsAnswered /\ StepsCounted /\ TurnsTracked

\* A run that has not started is safe.
LEMMA InitSafe == Init => Safe
<1> SUFFICES ASSUME Init PROVE Safe
  OBVIOUS
<1>1. RowsSettled /\ CallsAnswered
  BY DEF Init, InitLoop, RowsSettled, CallsAnswered
<1>2. StepsCounted
  BY BudgetAssumption DEF Init, InitLoop, ZeroBudget, StepsCounted, BudgetAssumption
<1>3. TurnsTracked
  BY DEF Init, InitLoop, TurnsTracked
<1> QED
  BY <1>1, <1>2, <1>3, InitTyped DEF Safe

\* Every step, and every stutter, keeps the invariant.
LEMMA NextSafe == Safe /\ [Next]_vars => Safe'
BY NextTyped, NextGrows, NextSettles, NextAnswers, NextCounts, NextTracks DEF Safe

\* The inductive invariant holds in every reachable state of the run.
THEOREM SafeAlways == Spec => []Safe
BY InitSafe, NextSafe, PTL DEF Spec

\* No provider or summary request, tool execution or rollback starts with a row that is only
\* in memory, whatever appends fail (run.rs sync).
THEOREM WriteAheadAlways == Spec => []WriteAhead
<1>1. Safe => WriteAhead
  BY DEF Safe, RowsSettled, WriteAhead
<1> QED
  BY <1>1, SafeAlways, PTL

\* No request goes out while a logged tool call has no result (state.rs open_tools).
THEOREM NoDanglingCallsAlways == Spec => []NoDanglingCalls
<1>1. Safe => NoDanglingCalls
  BY DEF Safe, CallsAnswered, NoDanglingCalls
<1> QED
  BY <1>1, SafeAlways, PTL

\* For every max_steps, a run starts at most max_steps + 1 provider rounds (guard.rs may_step).
THEOREM CallsBoundedAlways == Spec => []CallsBounded
<1>1. Safe => CallsBounded
  BY DEF Safe, StepsCounted, CallsBounded
<1> QED
  BY <1>1, SafeAlways, PTL

\* The log never holds two open turns and a finished run leaves none, across any number of
\* follow-up hops (state.rs terminate, run.rs finish).
THEOREM OneOpenTurnAlways == Spec => []OneOpenTurn
<1>1. Safe => OneOpenTurn
  <2> SUFFICES ASSUME Safe PROVE OneOpenTurn
    OBVIOUS
  <2>1. log.turns = {} \/ log.turns = {loop.turn}
    BY DEF Safe, TurnsTracked
  <2>2. Cardinality({}) = 0 /\ Cardinality({loop.turn}) = 1
    BY FS_Singleton, FS_EmptySet
  <2>3. Cardinality(log.turns) <= 1
    BY <2>1, <2>2
  <2> QED
    BY <2>3 DEF Safe, TurnsTracked, OneOpenTurn
<1> QED
  BY <1>1, SafeAlways, PTL

\* No step after the token is cancelled starts a provider call, a summary or a tool
\* (run.rs provider_round and tool_batch).
THEOREM NoEffectAfterCancelAlways == Spec => NoEffectAfterCancel
<1> DEFINE A == cancel => ~(pc' # pc /\ pc' \in {"calling", "summary", "exec"})
<1>1. [Next]_vars => [A]_vars
  <2> SUFFICES ASSUME Next, cancel PROVE ~(pc' # pc /\ pc' \in {"calling", "summary", "exec"})
    BY DEF vars
  <2>1. CASE \/ SendRequest \/ BeginSummary \/ StartTool
             \/ OpenLog \/ WriteHeader \/ Ensure \/ SeedText \/ SeedStop \/ Opened
             \/ StepHead \/ StartProviderCall \/ RefuseProviderCall
             \/ JudgeReturn \/ JudgePark \/ JudgeContinue \/ JudgeHop
             \/ SkipSummary \/ DropSummary \/ CancelCall \/ FailCall
             \/ Baseline \/ Probe \/ RecordNotice \/ Undo \/ CommitBatch \/ AbortBatch \/ KeepPrefix
             \/ FinishRun \/ Cancel \/ WallClock \/ Ended
    BY <2>1
    DEF SendRequest, BeginSummary, StartTool, OpenLog, WriteHeader, Ensure, SeedText, SeedStop, Opened,
        StepHead, StartProviderCall, RefuseProviderCall, JudgeReturn, JudgePark, JudgeContinue,
        JudgeHop, SkipSummary, DropSummary, CancelCall, FailCall, Baseline, Probe, RecordNotice, Undo,
        CommitBatch, AbortBatch, KeepPrefix, FinishRun, Cancel, WallClock, Ended, vars, Finish, SyncTo
  <2>2. ASSUME NEW bill \in Bill,
               \/ EndSummary(bill)
               \/ \E exhausted \in BOOLEAN :
                     SettleCancelled(exhausted, bill) \/ SettleFailed(exhausted, bill)
               \/ Claim(bill)
        PROVE  ~(pc' # pc /\ pc' \in {"calling", "summary", "exec"})
    BY <2>2
    DEF EndSummary, SettleCancelled, SettleFailed, Claim, ClaimStopped, ClaimHardExit, ClaimHeld,
        ClaimDone, ClaimDispatch, Finish, SyncTo
  <2>3. ASSUME NEW same \in BOOLEAN, NEW leaves \in BOOLEAN,
               \/ AbortCall \/ DenyCall \/ PassTool(same)
               \/ FailTool(same, leaves) \/ CancelTool(same, leaves)
        PROVE  ~(pc' # pc /\ pc' \in {"calling", "summary", "exec"})
    BY <2>3 DEF AbortCall, DenyCall, PassTool, FailTool, CancelTool, RecordResult, SyncTo
  <2> QED
    BY <2>1, <2>2, <2>3 DEF Next, Step, Tool, Bill
<1> QED
  BY <1>1, PTL DEF Spec, NoEffectAfterCancel

-----------------------------------------------------------------------------
(* The work tree and the counters that describe it: through retries, held declares, failed
   and aborted batches the counters move with the tree.  With a proof command a gate may keep
   part of a batch without moving the counters (the `partial' run), so what is said of the
   tree is said of the other gates. *)

\* Where a batch has a baseline and is not settled, and where the run is over.
Closing == {"finish", "done"}

\* The mark of the last verify nudge is never above the edits, nor above the edits that a
\* refund of the running batch goes back to.
NudgeMarked ==
    /\ verify.atNudge <= verify.edits
    /\ pc \in InBatch => verify.atNudge <= batch.snap.edits

\* Between batches the counters describe the tree; inside one its snapshot describes the
\* baseline, and only a failed call may have spoiled a verified tree; a settled failed batch
\* has left its baseline.
TreeTracked ==
    /\ pc \notin InBatch \union Closing /\ batch.failed => disk = base
    /\ pc \notin Closing => verify.edits = disk.edits
    /\ pc \notin Closing /\ verify.verified =>
          disk.green \/ (pc \in InBatch \ {"gate"} /\ batch.failed)
    /\ pc \in InBatch => batch.snap.edits = base.edits /\ (batch.snap.verified => base.green)
    /\ pc \in {"notice", "undo"} => batch.failed
    /\ pc = "gate" /\ batch.failed => disk = base
    /\ pc \in {"notice", "undo", "gate"} => batch.proven \in {0, batch.hunks}

\* A step that leaves tree, batch and counters alone and neither enters a batch nor leaves one.
Undisturbed ==
    /\ UNCHANGED <<disk, base, batch>>
    /\ verify'.edits = verify.edits /\ verify'.verified = verify.verified
    /\ verify'.atNudge = verify.atNudge \/ (verify'.atNudge = verify.edits /\ pc \notin InBatch)
    /\ pc' = pc \/ pc' \in Closing \/ (pc \notin InBatch \union Closing /\ pc' \notin InBatch)

\* Opening the run, its heads, its judgements and its rounds disturb nothing.
LEMMA RoundsUndisturbed ==
    ASSUME TypeOK,
           \/ OpenLog \/ WriteHeader \/ Ensure \/ SeedText \/ SeedStop \/ Opened
           \/ StepHead \/ StartProviderCall \/ RefuseProviderCall
           \/ JudgeReturn \/ JudgePark \/ JudgeContinue \/ JudgeHop
           \/ SkipSummary \/ BeginSummary \/ DropSummary \/ CancelCall \/ SendRequest \/ FailCall
           \/ FinishRun \/ Cancel \/ WallClock \/ UNCHANGED vars
    PROVE  Undisturbed
BY DEF Undisturbed, InBatch, Closing, OpenLog, WriteHeader, Ensure, SeedText, SeedStop, Opened,
       StepHead, StartProviderCall, RefuseProviderCall, JudgeReturn, JudgePark, JudgeContinue,
       JudgeHop, SkipSummary, BeginSummary, DropSummary, CancelCall, SendRequest, FailCall,
       FinishRun, Cancel, WallClock, vars, Finish, SyncTo

\* Settling an answer that dispatches nothing, or a failure, disturbs nothing; a held declare
\* only moves the mark up to the edits.
LEMMA SettlesUndisturbed ==
    ASSUME TypeOK, NEW bill \in Bill,
           \/ EndSummary(bill)
           \/ \E exhausted \in BOOLEAN :
                 SettleCancelled(exhausted, bill) \/ SettleFailed(exhausted, bill)
           \/ \E why \in {"maxTokens", "error"} : ClaimStopped(bill, why)
           \/ ClaimHardExit(bill) \/ ClaimHeld(bill) \/ ClaimDone(bill)
    PROVE  Undisturbed
<1>1. CASE \/ EndSummary(bill)
           \/ \E exhausted \in BOOLEAN :
                 SettleCancelled(exhausted, bill) \/ SettleFailed(exhausted, bill)
  <2>1. /\ UNCHANGED <<disk, base, batch, verify>>
        /\ pc \in {"summary", "aborted", "failed"}
        /\ pc' \in {"request", "judge", "head", "finish"}
    BY <1>1, Zenon DEF EndSummary, SettleCancelled, SettleFailed, SyncTo
  <2> QED
    BY <2>1 DEF Undisturbed, InBatch, Closing
<1>2. CASE \/ \E why \in {"maxTokens", "error"} : ClaimStopped(bill, why)
           \/ ClaimHardExit(bill) \/ ClaimHeld(bill) \/ ClaimDone(bill)
  <2>1. /\ UNCHANGED <<disk, base, batch>>
        /\ pc = "calling" /\ pc' \in {"settle", "judge", "head", "finish"}
    BY <1>2, Zenon
    DEF ClaimStopped, ClaimHardExit, ClaimHeld, ClaimDone, Settled, SyncTo, Finish
  <2>2. \/ verify' = Unheld
        \/ verify' = [verify EXCEPT !.hold = TRUE, !.nudges = @ + 1, !.atNudge = verify.edits]
    BY <1>2, Zenon DEF ClaimStopped, ClaimHardExit, ClaimHeld, ClaimDone
  <2>3. /\ verify'.edits = verify.edits /\ verify'.verified = verify.verified
        /\ verify'.atNudge \in {verify.atNudge, verify.edits}
    BY <2>2 DEF Unheld, TypeOK, VerifyRecord
  <2> QED
    BY <2>1, <2>3 DEF Undisturbed, InBatch, Closing
<1> QED
  BY <1>1, <1>2

\* What an undisturbed step keeps.
LEMMA UndisturbedKeeps ==
    ASSUME TypeOK, Undisturbed
    PROVE  /\ NudgeMarked => NudgeMarked'
           /\ TreeTracked => TreeTracked'
<1>1. verify.edits \in Nat
  BY DEF TypeOK, VerifyRecord
<1>2. NudgeMarked => NudgeMarked'
  BY <1>1 DEF Undisturbed, NudgeMarked, InBatch, Closing
<1>3. TreeTracked => TreeTracked'
  BY DEF Undisturbed, TreeTracked, InBatch, Closing
<1> QED
  BY <1>2, <1>3

\* A dispatch starts a batch without a failed call.
LEMMA DispatchKeeps ==
    ASSUME TypeOK, NEW bill \in Bill, NEW calls \in Batches, ClaimDispatch(bill, calls)
    PROVE  /\ NudgeMarked => NudgeMarked'
           /\ TreeTracked => TreeTracked'
<1>1. /\ UNCHANGED <<disk, base>> /\ ~batch'.failed
      /\ pc = "calling" /\ pc' \in {"baseline", "finish"}
  BY DEF ClaimDispatch, Settled, SyncTo
<1>2. /\ verify'.edits = verify.edits /\ verify'.verified = verify.verified
      /\ verify'.atNudge = verify.atNudge
  BY DEF ClaimDispatch, Unheld, TypeOK, VerifyRecord
<1> QED
  BY <1>1, <1>2 DEF NudgeMarked, TreeTracked, InBatch, Closing

\* The baseline commit and the snapshot of the counters are taken of the same moment.
LEMMA BaselineKeeps ==
    ASSUME TypeOK, Baseline
    PROVE  /\ NudgeMarked => NudgeMarked'
           /\ TreeTracked => TreeTracked'
<1>1. /\ UNCHANGED <<disk, verify>> /\ pc = "baseline" /\ batch'.failed = batch.failed
      /\ \/ /\ pc' = "tools" /\ base' = disk
            /\ batch'.snap.edits = verify.edits /\ batch'.snap.verified = verify.verified
         \/ pc' = "finish" /\ UNCHANGED <<base, batch>>
  BY DEF Baseline, Finish, TypeOK, BatchRecord
<1> QED
  BY <1>1 DEF NudgeMarked, TreeTracked, InBatch, Closing

\* What recording a result does to the batch.
LEMMA ResultRecorded ==
    ASSUME TypeOK, NEW l, NEW ok \in BOOLEAN, RecordResult(l, ok)
    PROVE  /\ batch'.snap = batch.snap /\ batch'.failed = (batch.failed \/ ~ok)
           /\ batch'.next = batch.next + 1 /\ batch'.calls = batch.calls
           /\ pc' \in {"tools", "finish"} /\ base' = base
BY DEF RecordResult, SyncTo, TypeOK, BatchRecord

\* A call that passes moves the edits and the verification with the tree; one that fails may
\* spoil the tree and marks the batch.
LEMMA ToolTracks ==
    ASSUME TypeOK, NEW same \in BOOLEAN, NEW leaves \in BOOLEAN,
           \/ AbortCall \/ DenyCall \/ PassTool(same)
           \/ FailTool(same, leaves) \/ CancelTool(same, leaves)
    PROVE  /\ NudgeMarked => NudgeMarked'
           /\ TreeTracked => TreeTracked'
<1>0. verify.edits \in Nat /\ disk.edits \in Nat /\ verify.atNudge \in Nat
  BY DEF TypeOK, VerifyRecord, Trees
<1>1. CASE PassTool(same)
  <2>1. /\ batch'.snap = batch.snap /\ batch'.failed = batch.failed
        /\ pc' \in {"tools", "finish"} /\ base' = base /\ pc = "exec"
    BY <1>1, ResultRecorded DEF PassTool, TypeOK, BatchRecord
  <2>2. verify'.atNudge = verify.atNudge
    BY <1>1 DEF PassTool, TypeOK, VerifyRecord
  <2>3. CASE Kind = "edit"
    <3>1. /\ verify'.edits = verify.edits + 1 /\ ~verify'.verified
          /\ disk'.edits = disk.edits + 1
      BY <1>1, <2>3 DEF PassTool, VerifiedAfter, TypeOK, VerifyRecord, Trees
    <3> QED
      BY <1>0, <2>1, <2>2, <3>1 DEF NudgeMarked, TreeTracked, InBatch, Closing
  <2>4. CASE Kind = "test"
    <3>1. verify'.edits = verify.edits /\ disk'.edits = disk.edits /\ disk'.green
      BY <1>1, <2>4 DEF PassTool, TypeOK, VerifyRecord, Trees
    <3> QED
      BY <1>0, <2>1, <2>2, <3>1 DEF NudgeMarked, TreeTracked, InBatch, Closing
  <2>5. CASE Kind \notin {"edit", "test"}
    <3>1. /\ verify'.edits = verify.edits /\ verify'.verified = verify.verified
          /\ disk' = disk
      BY <1>1, <2>5 DEF PassTool, VerifiedAfter, TypeOK, VerifyRecord
    <3> QED
      BY <1>0, <2>1, <2>2, <3>1 DEF NudgeMarked, TreeTracked, InBatch, Closing
  <2> QED
    BY <2>3, <2>4, <2>5
<1>2. CASE AbortCall \/ DenyCall \/ FailTool(same, leaves) \/ CancelTool(same, leaves)
  <2>1. \E l \in {loop, StopNow(loop)} : RecordResult(l, FALSE)
    BY <1>2, Zenon DEF AbortCall, DenyCall, FailTool, CancelTool
  <2>2. /\ batch'.snap = batch.snap /\ batch'.failed
        /\ pc' \in {"tools", "finish"} /\ base' = base
    BY <2>1, ResultRecorded
  <2>3. pc \in {"tools", "exec"} /\ verify' = verify
    BY <1>2 DEF AbortCall, DenyCall, FailTool, CancelTool
  <2>4. disk'.edits = disk.edits
    BY <1>2 DEF AbortCall, DenyCall, FailTool, CancelTool, TypeOK, Trees
  <2> QED
    BY <2>2, <2>3, <2>4 DEF NudgeMarked, TreeTracked, InBatch, Closing
<1> QED
  BY <1>1, <1>2

\* A refund puts the counters back to the snapshot; the nudge's mark stays.
LEMMA Refunded ==
    ASSUME TypeOK
    PROVE  /\ RefundVerify(verify).edits = batch.snap.edits
           /\ RefundVerify(verify).verified = batch.snap.verified
           /\ RefundVerify(verify).atNudge = verify.atNudge
BY DEF RefundVerify, TypeOK, VerifyRecord

\* The end of a batch: probe, notice, rollback and the verdict on its hunks.
LEMMA BatchEndKeeps ==
    ASSUME TypeOK,
           \/ StartTool \/ Probe \/ RecordNotice \/ Undo \/ CommitBatch \/ AbortBatch \/ KeepPrefix
    PROVE  /\ NudgeMarked => NudgeMarked'
           /\ GateMode # "incremental" => (TreeTracked => TreeTracked')
<1>1. CASE StartTool
  BY <1>1 DEF StartTool, NudgeMarked, TreeTracked, InBatch, Closing
<1>2. CASE Probe
  <2>1. /\ UNCHANGED <<disk, base, verify>> /\ pc = "tools"
        /\ batch'.snap = batch.snap /\ batch'.failed = batch.failed
        /\ pc' \in {"notice", "gate", "finish"}
        /\ pc' = "notice" => batch.failed
        /\ pc' = "gate" => ~batch.failed
    BY <1>2 DEF Probe, Finish, TypeOK, BatchRecord
  <2>2. ASSUME GateMode # "incremental"
        PROVE  pc' # "finish" => batch'.proven \in {0, batch'.hunks}
    <3>1. SUFFICES ASSUME pc' # "finish"
                   PROVE  batch'.proven \in {0, batch'.hunks}
      OBVIOUS
    <3>2. PICK k \in ProvenPrefixes(Hunks) : batch' = [batch EXCEPT !.hunks = Hunks, !.proven = k]
      BY <1>2, <3>1 DEF Probe, Finish
    <3>3. k \in {0, Hunks}
      BY <2>2, <3>2 DEF ProvenPrefixes
    <3>4. batch'.hunks = Hunks /\ batch'.proven = k
      <4> DEFINE n == Hunks
      <4>1. batch' = [batch EXCEPT !.hunks = n, !.proven = k]
        BY <3>2
      <4> HIDE DEF n
      <4>2. batch'.hunks = n /\ batch'.proven = k
        BY <4>1 DEF TypeOK, BatchRecord
      <4> QED
        BY <4>2 DEF n
    <3> QED
      BY <3>3, <3>4
  <2>3. NudgeMarked => NudgeMarked'
    BY <2>1 DEF NudgeMarked, InBatch, Closing
  <2>4. ASSUME GateMode # "incremental", TreeTracked
        PROVE  TreeTracked'
    BY <2>1, <2>2, <2>4 DEF TreeTracked, InBatch, Closing
  <2> QED
    BY <2>3, <2>4
<1>3. CASE RecordNotice
  <2>1. UNCHANGED <<disk, base, verify, batch>> /\ pc = "notice" /\ pc' \in {"undo", "finish"}
    BY <1>3 DEF RecordNotice, SyncTo
  <2> QED
    BY <2>1 DEF NudgeMarked, TreeTracked, InBatch, Closing
<1>4. CASE Undo \/ AbortBatch
  <2>1. /\ UNCHANGED <<base, batch>> /\ pc \in {"undo", "gate"}
        /\ \/ pc' \in {"gate", "settle"} /\ disk' = base /\ verify' = RefundVerify(verify)
              /\ (pc' = "gate" => pc = "undo")
           \/ pc' = "finish" /\ UNCHANGED <<disk, verify>>
    BY <1>4 DEF Undo, AbortBatch, RolledBack, Finish
  <2> QED
    BY <2>1, Refunded DEF NudgeMarked, TreeTracked, InBatch, Closing
<1>5. CASE CommitBatch
  <2>1. UNCHANGED <<disk, base, verify, batch>> /\ pc = "gate" /\ pc' = "settle"
    BY <1>5 DEF CommitBatch
  <2> QED
    BY <2>1 DEF NudgeMarked, TreeTracked, InBatch, Closing
<1>6. CASE KeepPrefix
  <2>1. /\ UNCHANGED <<base, verify, batch>> /\ pc = "gate" /\ pc' \in {"settle", "finish"}
        /\ GateVerdict = "partial"
    BY <1>6 DEF KeepPrefix, Finish
  <2>2. ~(batch.proven \in {0, batch.hunks})
    BY <2>1 DEF GateVerdict
  <2> QED
    BY <2>1, <2>2 DEF NudgeMarked, TreeTracked, InBatch, Closing
<1> QED
  BY <1>1, <1>2, <1>3, <1>4, <1>5, <1>6

\* Every step keeps the nudge's mark, and without a proof command the tree in line.
LEMMA NextTree ==
    ASSUME TypeOK, [Next]_vars
    PROVE  /\ NudgeMarked => NudgeMarked'
           /\ GateMode # "incremental" => (TreeTracked => TreeTracked')
BY RoundsUndisturbed, SettlesUndisturbed, UndisturbedKeeps, DispatchKeeps, BaselineKeeps,
   ToolTracks, BatchEndKeeps
DEF Next, Step, Claim, Tool, Ended, Bill

\* A run starts with an empty tree and empty counters.
LEMMA InitTracks == Init => NudgeMarked /\ TreeTracked
BY DEF Init, InitTree, NudgeMarked, TreeTracked, InBatch, Closing

\* The edits at the last verify nudge never exceed the edits, so a refund cannot mute a later
\* nudge, under any gate (verify.rs verify_nudge_due, proof.rs refund_batch).
THEOREM NudgeBaselineSoundAlways == Spec => []NudgeBaselineSound
<1>1. Spec => []NudgeMarked
  BY InitTracks, NextTree, TypeCorrect, PTL DEF Spec
<1>2. NudgeMarked => NudgeBaselineSound
  BY DEF NudgeMarked, NudgeBaselineSound
<1> QED
  BY <1>1, <1>2, PTL

\* Without a proof command the tree and its counters stay in line, in and between batches.
THEOREM TreeTrackedAlways ==
    ASSUME GateMode # "incremental"
    PROVE  Spec => []TreeTracked
BY InitTracks, NextTree, TypeCorrect, PTL DEF Spec

\* Between batches the edits counter counts what the tree holds, for any number of batches,
\* refunds and failed calls (verify.rs record_tool_result, proof.rs refund_batch).
THEOREM CountersMatchTreeAlways ==
    ASSUME GateMode # "incremental"
    PROVE  Spec => []CountersMatchTree
<1>1. TreeTracked => CountersMatchTree
  BY DEF TreeTracked, CountersMatchTree, Closing
<1> QED
  BY <1>1, TreeTrackedAlways, PTL

\* A run that counts its writes as verified has a tested tree (verify.rs, proof.rs).
THEOREM VerifiedMeansTestedAlways ==
    ASSUME GateMode # "incremental"
    PROVE  Spec => []VerifiedMeansTested
<1>1. TreeTracked => VerifiedMeansTested
  BY DEF TreeTracked, VerifiedMeansTested, Closing, InBatch
<1> QED
  BY <1>1, TreeTrackedAlways, PTL

\* A settled failed batch has left its baseline: without a proof command ROLLBACK_NOTICE tells
\* the truth (proof.rs ROLLBACK_NOTICE, run.rs tool_batch).
THEOREM FailedBatchRevertedAlways ==
    ASSUME GateMode # "incremental"
    PROVE  Spec => []FailedBatchReverted
<1>1. TreeTracked => FailedBatchReverted
  BY DEF TreeTracked, FailedBatchReverted, Closing, InBatch
<1> QED
  BY <1>1, TreeTrackedAlways, PTL

-----------------------------------------------------------------------------
(* How a run ends: what outcome a stop, a fatal error or a directive leads *)
(* to, how many rounds fail in a row, which frames stay open and how far the *)
(* tokens overshoot.                                                       *)

Rounding == {"round", "summary", "request", "calling", "failed"}

\* The effect gate is shut by a stop or a fatal error and by nothing else; no round runs behind
\* a shut gate; a run that has its outcome and was stopped was not reported otherwise.
StopTracked ==
    /\ loop.gate # "open" <=> loop.stopHard \/ loop.fatal
    /\ pc \in Rounding => loop.gate = "open"
    /\ pc \notin Closing => outcome = "none"
    /\ pc \in Closing /\ loop.stopHard => outcome \in {"cancelled", "log", "snapshot", "input"}

\* What the shared updates do to the gate and to what shuts it.
LEMMA GateFields ==
    ASSUME NEW l \in LoopRecord
    PROVE  /\ StopNow(l).gate # "open" /\ StopNow(l).stopHard /\ StopNow(l).fatal = l.fatal
           /\ Fatal(l).gate # "open" /\ Fatal(l).stopHard = l.stopHard /\ Fatal(l).fatal
           /\ \A why : /\ StickReason(l, why).gate = l.gate
                       /\ StickReason(l, why).stopHard = l.stopHard
                       /\ StickReason(l, why).fatal = l.fatal
           /\ OpenTurn(l).gate = l.gate /\ OpenTurn(l).stopHard = l.stopHard
           /\ OpenTurn(l).fatal = l.fatal
BY DEF StopNow, Fatal, StickReason, OpenTurn, LoopRecord

\* The gate and its two reasons stay as they are.
GateKept ==
    /\ loop'.gate = loop.gate /\ loop'.stopHard = loop.stopHard /\ loop'.fatal = loop.fatal

\* A step keeps the gate in line with what shuts it, and a stop in line with the outcome.
LEMMA NextStops ==
    ASSUME Safe, StopTracked, [Next]_vars
    PROVE  StopTracked'
<1> USE DEF Closing, Rounding
<1>0. TypeOK
  BY DEF Safe
<1>1. CASE \/ OpenLog \/ WriteHeader \/ Ensure \/ RefuseProviderCall \/ JudgeContinue
           \/ SkipSummary \/ DropSummary \/ SendRequest \/ FailCall
           \/ Baseline \/ StartTool \/ Probe \/ RecordNotice \/ Undo \/ CommitBatch \/ AbortBatch
           \/ KeepPrefix \/ Cancel \/ WallClock \/ UNCHANGED vars
  <2>1. /\ UNCHANGED loop
        /\ pc' \in Rounding => pc \in Rounding
        /\ pc' \notin Closing => pc \notin Closing /\ UNCHANGED outcome
        /\ pc' \in Closing =>
              UNCHANGED <<pc, outcome>> \/ outcome' \in {"log", "snapshot"}
    BY <1>1
    DEF OpenLog, WriteHeader, Ensure, RefuseProviderCall, JudgeContinue, SkipSummary, DropSummary,
        SendRequest, FailCall, Baseline, StartTool, Probe, RecordNotice, Undo, CommitBatch, AbortBatch,
        KeepPrefix, Cancel, WallClock, vars, Finish, SyncTo
  <2> QED
    BY <2>1 DEF StopTracked
<1>2. CASE JudgeReturn
  <2>1. /\ UNCHANGED loop /\ pc' = "finish" /\ outcome' = Verdict
        /\ Verdict \in Outcomes
    BY <1>2 DEF JudgeReturn, Finish
  <2>2. loop.stopHard => Verdict = "cancelled"
    BY <2>1 DEF Verdict, Outcomes
  <2> QED
    BY <2>1, <2>2 DEF StopTracked
<1>3. CASE JudgePark
  <2>1. /\ GateKept /\ pc' = "finish" /\ Verdict = "park"
    BY <1>0, <1>3 DEF JudgePark, GateKept, Finish, TypeOK, LoopRecord
  <2>2. ~loop.stopHard
    BY <2>1 DEF Verdict
  <2> QED
    BY <2>1, <2>2 DEF StopTracked, GateKept
<1>4. CASE JudgeHop \/ SeedText
  <2>1. /\ GateKept
        /\ \/ pc' \in {"head", "seed"} /\ UNCHANGED outcome
           \/ pc' = "finish" /\ outcome' = "log"
        /\ pc \notin Closing
    <3>1. CASE JudgeHop
      BY <1>0, <3>1 DEF JudgeHop, HopTurn, OpenTurn, GateKept, SyncTo, TypeOK, LoopRecord
    <3>2. CASE SeedText
      BY <1>0, <3>2 DEF SeedText, OpenTurn, GateKept, SyncTo, TypeOK, LoopRecord
    <3> QED
      BY <1>4, <3>1, <3>2
  <2> QED
    BY <2>1 DEF StopTracked, GateKept
<1>5. CASE SeedStop \/ CancelCall
  <2>1. /\ pc' \in {"seed", "aborted"} /\ pc \notin Closing /\ UNCHANGED outcome
        /\ loop' = StopNow(loop) \/ loop' = [loop EXCEPT !.stopWhenIdle = TRUE]
    BY <1>5 DEF SeedStop, CancelCall
  <2> QED
    BY <1>0, <2>1, GateFields DEF StopTracked, TypeOK, LoopRecord
<1>6. CASE Opened
  BY <1>6 DEF Opened, StopTracked
<1>7. CASE StepHead
  <2>1. PICK l \in {loop, StopNow(loop)} : loop' = [l EXCEPT !.steering = 0]
    BY <1>7 DEF StepHead
  <2>2. l \in LoopRecord
    BY <1>0, LoopTyped DEF TypeOK
  <2>3. loop'.gate = l.gate /\ loop'.stopHard = l.stopHard /\ loop'.fatal = l.fatal
    BY <2>1, <2>2 DEF LoopRecord
  <2>4. /\ \/ pc' = "admit" /\ UNCHANGED outcome
           \/ pc' = "finish" /\ outcome' = "log"
        /\ pc = "head"
    BY <1>7 DEF StepHead, SyncTo
  <2> QED
    BY <1>0, <2>1, <2>3, <2>4, GateFields DEF StopTracked, TypeOK
<1>8. CASE StartProviderCall \/ BeginSummary
  <2>1. GateKept /\ pc \notin Closing /\ pc' \in Rounding /\ UNCHANGED outcome /\ loop.gate = "open"
    BY <1>0, <1>8 DEF StartProviderCall, BeginSummary, MayStart, GateKept, StopTracked, TypeOK, LoopRecord
  <2> QED
    BY <2>1 DEF StopTracked, GateKept
<1>9. ASSUME NEW bill \in Bill, NEW exhausted \in BOOLEAN, NEW why \in {"maxTokens", "error"},
             \/ EndSummary(bill) \/ SettleCancelled(exhausted, bill) \/ SettleFailed(exhausted, bill)
             \/ ClaimStopped(bill, why) \/ ClaimHardExit(bill) \/ ClaimHeld(bill) \/ ClaimDone(bill)
             \/ \E calls \in Batches : ClaimDispatch(bill, calls)
      PROVE  StopTracked'
  <2>1. /\ pc \notin Closing
        /\ pc' \notin Closing => UNCHANGED outcome
        /\ pc' \in Rounding => pc' = "request" /\ pc = "summary"
        /\ pc' \in Closing => pc \in Rounding /\ outcome' \in {"log", "done"}
    BY <1>9
    DEF EndSummary, SettleCancelled, SettleFailed, ClaimStopped, ClaimHardExit, ClaimHeld, ClaimDone,
        ClaimDispatch, Settled, Finish, SyncTo
  <2>2. /\ loop'.stopHard = loop.stopHard
        /\ \/ loop'.gate = loop.gate /\ loop'.fatal = loop.fatal
           \/ loop'.gate # "open" /\ loop'.fatal /\ pc' # "request"
    <3>1. CASE EndSummary(bill)
      BY <3>1 DEF EndSummary
    <3>2. CASE SettleCancelled(exhausted, bill)
      BY <1>0, <3>2 DEF SettleCancelled, TypeOK, LoopRecord
    <3>3. CASE SettleFailed(exhausted, bill)
      <4>1. pc' # "request"
        BY <3>3 DEF SettleFailed, SyncTo
      <4> QED
        BY <1>0, <3>3, <4>1 DEF SettleFailed, Fatal, TypeOK, LoopRecord
    <3>4. CASE ClaimStopped(bill, why)
      BY <1>0, <3>4 DEF ClaimStopped, StickReason, Answered, TypeOK, LoopRecord
    <3>5. CASE ClaimHardExit(bill)
      BY <1>0, <3>5 DEF ClaimHardExit, Fatal, Answered, TypeOK, LoopRecord
    <3>6. CASE \/ ClaimHeld(bill) \/ ClaimDone(bill)
               \/ \E calls \in Batches : ClaimDispatch(bill, calls)
      BY <1>0, <3>6 DEF ClaimHeld, ClaimDone, ClaimDispatch, Answered, TypeOK, LoopRecord
    <3> QED
      BY <1>9, <3>1, <3>2, <3>3, <3>4, <3>5, <3>6
  <2> QED
    BY <2>1, <2>2 DEF StopTracked
<1>10. ASSUME NEW same \in BOOLEAN, NEW leaves \in BOOLEAN,
              \/ AbortCall \/ DenyCall \/ PassTool(same)
              \/ FailTool(same, leaves) \/ CancelTool(same, leaves)
       PROVE  StopTracked'
  <2>1. PICK l \in {loop, StopNow(loop)}, ok \in BOOLEAN : RecordResult(l, ok)
    BY <1>10, Zenon DEF AbortCall, DenyCall, PassTool, FailTool, CancelTool
  <2>2. pc \in {"tools", "exec"}
    BY <1>10 DEF AbortCall, DenyCall, PassTool, FailTool, CancelTool
  <2>3. l \in LoopRecord
    BY <1>0, LoopTyped DEF TypeOK
  <2>4. loop'.gate = l.gate /\ loop'.stopHard = l.stopHard /\ loop'.fatal = l.fatal
    BY <2>1, <2>3 DEF RecordResult, LoopRecord
  <2>5. \/ pc' = "tools" /\ UNCHANGED outcome
        \/ pc' = "finish" /\ outcome' = "log"
    BY <2>1 DEF RecordResult, SyncTo
  <2> QED
    BY <1>0, <2>1, <2>2, <2>4, <2>5, GateFields DEF StopTracked, TypeOK
<1>11. CASE FinishRun
  <2>1. GateKept /\ pc' = "done" /\ pc = "finish" /\ UNCHANGED outcome
    BY <1>0, <1>11, GateFields DEF FinishRun, GateKept, TypeOK
  <2> QED
    BY <2>1 DEF StopTracked, GateKept
<1> QED
  BY <1>1, <1>2, <1>3, <1>4, <1>5, <1>6, <1>7, <1>8, <1>9, <1>10, <1>11
  DEF Next, Step, Claim, Tool, Ended, Bill

\* Where a round is under way, the moment after the token dropped its call included.
InRound == Rounding \union {"aborted"}

\* A directive that was armed is still to be sent, or the run can no longer report Done, or the
\* call that would have sent it was settled as cancelled.
HeldTracked ==
    /\ pc \notin Closing /\ verify.hold =>
          loop.callModel \/ pc \in InRound \/ loop.fatal \/ seen.cancelled
    /\ pc \in Closing /\ outcome = "done" /\ verify.hold => seen.cancelled

\* Failures in a row and the retries left add up to the budget while there is a retry to come;
\* a step that is no retry begins with none.
FailsCounted ==
    /\ seen.fails <= StepRetryBudget + 1
    /\ ~loop.fatal /\ ~seen.cancelled /\ (loop.callModel \/ pc \in Rounding) =>
          seen.fails + loop.retries <= StepRetryBudget
    /\ ~loop.fatal /\ ~seen.cancelled /\ ~loop.callModel /\ pc \notin InRound => seen.fails = 0

\* A step that leaves retries, latch, directive and history alone and starts, ends and reports
\* nothing.
Passing ==
    /\ UNCHANGED seen /\ verify'.hold = verify.hold
    /\ loop'.fatal = loop.fatal /\ loop'.callModel = loop.callModel /\ loop'.retries = loop.retries
    /\ pc' \in Rounding => pc \in Rounding
    /\ pc' \in InRound <=> pc \in InRound
    /\ pc \in Closing => pc' \in Closing /\ UNCHANGED outcome
    /\ pc' \in Closing /\ pc \notin Closing => outcome' # "done"

\* The steps that pass: opening, heads, hops, the inside of a round, the batch but its calls.
LEMMA PassingSteps ==
    ASSUME TypeOK,
           \/ OpenLog \/ WriteHeader \/ Ensure \/ SeedText \/ SeedStop \/ Opened
           \/ StepHead \/ RefuseProviderCall \/ JudgeContinue \/ JudgeHop
           \/ SkipSummary \/ BeginSummary \/ DropSummary \/ CancelCall \/ SendRequest \/ FailCall
           \/ \E bill \in Bill : EndSummary(bill)
           \/ Baseline \/ StartTool \/ Probe \/ RecordNotice \/ Undo \/ CommitBatch \/ AbortBatch
           \/ KeepPrefix \/ FinishRun \/ Cancel \/ WallClock \/ UNCHANGED vars
    PROVE  Passing
<1> USE DEF Closing, Rounding, InRound
<1>1. CASE \/ OpenLog \/ WriteHeader \/ Ensure \/ Opened \/ RefuseProviderCall \/ JudgeContinue
           \/ SkipSummary \/ DropSummary \/ SendRequest \/ FailCall
           \/ \E bill \in Bill : EndSummary(bill)
           \/ Baseline \/ StartTool \/ Probe \/ RecordNotice \/ CommitBatch \/ KeepPrefix
           \/ Cancel \/ WallClock \/ UNCHANGED vars
  BY <1>1
  DEF Passing, OpenLog, WriteHeader, Ensure, Opened, RefuseProviderCall, JudgeContinue, SkipSummary,
      DropSummary, SendRequest, FailCall, EndSummary, Baseline, StartTool, Probe, RecordNotice,
      CommitBatch, KeepPrefix, Cancel, WallClock, vars, Finish, SyncTo
<1>2. CASE Undo \/ AbortBatch
  <2>1. RefundVerify(verify).hold = verify.hold
    BY DEF RefundVerify, TypeOK, VerifyRecord
  <2> QED
    BY <1>2, <2>1 DEF Undo, AbortBatch, Passing, Finish
<1>3. CASE SeedText \/ JudgeHop
  <2>1. /\ UNCHANGED <<seen, verify>> /\ pc \in {"seed", "judge", "settle"}
        /\ \/ pc' \in {"seed", "head"}
           \/ pc' = "finish" /\ outcome' = "log"
    BY <1>3 DEF SeedText, JudgeHop, SyncTo
  <2>2. /\ loop'.fatal = loop.fatal /\ loop'.callModel = loop.callModel
        /\ loop'.retries = loop.retries
    BY <1>3 DEF SeedText, JudgeHop, HopTurn, OpenTurn, TypeOK, LoopRecord
  <2> QED
    BY <2>1, <2>2 DEF Passing
<1>4. CASE SeedStop \/ StepHead \/ BeginSummary \/ CancelCall
  <2>1. /\ UNCHANGED <<seen, verify>>
        /\ \/ pc = "seed" /\ pc' = "seed"
           \/ pc = "head" /\ pc' = "admit"
           \/ pc = "head" /\ pc' = "finish" /\ outcome' = "log"
           \/ pc \in {"round", "request", "calling"} /\ pc' \in {"summary", "aborted"}
    BY <1>4 DEF SeedStop, StepHead, BeginSummary, CancelCall, SyncTo
  <2>2. /\ loop'.fatal = loop.fatal /\ loop'.callModel = loop.callModel
        /\ loop'.retries = loop.retries
    BY <1>4 DEF SeedStop, StepHead, BeginSummary, CancelCall, StopNow, TypeOK, LoopRecord
  <2> QED
    BY <2>1, <2>2 DEF Passing
<1>5. CASE FinishRun
  <2>1. UNCHANGED <<seen, verify, outcome>> /\ pc = "finish" /\ pc' = "done"
    BY <1>5 DEF FinishRun
  <2>2. /\ loop'.fatal = loop.fatal /\ loop'.callModel = loop.callModel
        /\ loop'.retries = loop.retries
    BY <1>5 DEF FinishRun, StickReason, TypeOK, LoopRecord
  <2> QED
    BY <2>1, <2>2 DEF Passing
<1> QED
  BY <1>1, <1>2, <1>3, <1>4, <1>5

\* A step keeps what is known of a held directive and of the failures in a row.
LEMMA NextHoldsAndFails ==
    ASSUME Safe, TypeOK', StopTracked, HeldTracked, FailsCounted, [Next]_vars
    PROVE  HeldTracked' /\ FailsCounted'
<1> USE DEF Closing, Rounding, InRound
<1>0. TypeOK /\ StepsCounted /\ seen.fails \in Nat /\ loop.retries \in 0..StepRetryBudget
  BY DEF Safe, TypeOK, SeenRecord, LoopRecord
<1>1. CASE Passing
  BY <1>1 DEF Passing, HeldTracked, FailsCounted
<1>2. CASE StartProviderCall
  <2>1. /\ pc = "admit" /\ pc' = "round" /\ UNCHANGED <<seen, verify, outcome>>
        /\ loop.gate = "open"
    BY <1>2 DEF StartProviderCall, MayStart
  <2>2. ~loop.fatal /\ ~seen.cancelled
    BY <1>0, <2>1 DEF StopTracked, StepsCounted
  <2>3. loop'.retries = RetriesAtStart
    BY <1>0, <1>2 DEF StartProviderCall, TypeOK, LoopRecord
  <2>4. seen.fails + loop'.retries <= StepRetryBudget
    BY <1>0, <2>1, <2>2, <2>3 DEF FailsCounted, RetriesAtStart, StepRetryBudget
  <2> QED
    BY <2>1, <2>2, <2>4 DEF HeldTracked, FailsCounted
<1>3. CASE JudgeReturn \/ JudgePark
  <2>1. /\ pc \in {"judge", "settle"} /\ pc' = "finish" /\ UNCHANGED <<seen, verify>>
        /\ outcome' = "done" => Verdict \in {"done", "park"}
        /\ UNCHANGED loop \/ loop' = [loop EXCEPT !.phase = "idle"]
    BY <1>3 DEF JudgeReturn, JudgePark, Finish
  <2>2. /\ loop'.fatal = loop.fatal /\ loop'.callModel = loop.callModel
        /\ loop'.retries = loop.retries
    BY <1>0, <2>1 DEF TypeOK, LoopRecord
  <2>3. outcome' = "done" => ~loop.callModel /\ ~loop.fatal
    BY <2>1 DEF Verdict
  <2> QED
    BY <2>1, <2>2, <2>3 DEF HeldTracked, FailsCounted
<1>4. ASSUME NEW bill \in Bill, NEW exhausted \in BOOLEAN, SettleCancelled(exhausted, bill)
      PROVE  HeldTracked' /\ FailsCounted'
  <2>1. pc' = "judge" /\ seen'.cancelled /\ seen'.fails = seen.fails
    BY <1>0, <1>4 DEF SettleCancelled, TypeOK, SeenRecord
  <2> QED
    BY <2>1 DEF HeldTracked, FailsCounted
<1>5. ASSUME NEW bill \in Bill, NEW exhausted \in BOOLEAN, SettleFailed(exhausted, bill)
      PROVE  HeldTracked' /\ FailsCounted'
  <2>1. /\ pc = "failed"
        /\ \/ pc' \in {"head", "judge"}
           \/ pc' = "finish" /\ outcome' = "log"
    BY <1>5 DEF SettleFailed, SyncTo
  <2>2. ~loop.fatal /\ ~seen.cancelled
    BY <1>0, <2>1 DEF StopTracked, StepsCounted
  <2>3. seen.fails + loop.retries <= StepRetryBudget
    BY <2>1, <2>2 DEF FailsCounted
  <2>4. seen'.fails = seen.fails + 1
    BY <1>0, <1>5 DEF SettleFailed, TypeOK, SeenRecord
  <2>5. \/ loop'.callModel /\ loop'.retries = loop.retries - 1
        \/ loop'.fatal
    BY <1>0, <1>5 DEF SettleFailed, MayRetry, Fatal, TypeOK, LoopRecord
  <2> QED
    BY <1>0, <2>1, <2>3, <2>4, <2>5 DEF HeldTracked, FailsCounted, StepRetryBudget
<1>6. ASSUME NEW bill \in Bill, Claim(bill)
      PROVE  HeldTracked' /\ FailsCounted'
  <2>1. Settled(bill) /\ pc' \notin InRound
    BY <1>6
    DEF Claim, ClaimStopped, ClaimHardExit, ClaimHeld, ClaimDone, ClaimDispatch, Finish, SyncTo
  <2>2. seen'.fails = 0
    BY <1>0, <2>1 DEF Settled, TypeOK, SeenRecord
  <2>3. loop'.retries \in 0..StepRetryBudget
    BY DEF TypeOK, LoopRecord
  <2>4. CASE ClaimHeld(bill)
    <3>1. loop'.callModel
      BY <1>0, <2>4 DEF ClaimHeld, Answered, TypeOK, LoopRecord
    <3>2. pc' = "head" \/ outcome' = "log"
      BY <2>4 DEF ClaimHeld, SyncTo
    <3> QED
      BY <2>1, <2>2, <2>3, <3>1, <3>2 DEF HeldTracked, FailsCounted, StepRetryBudget
  <2>5. CASE ~ClaimHeld(bill)
    <3>1. verify' = Unheld
      BY <1>6, <2>5, Zenon DEF Claim, ClaimStopped, ClaimHardExit, ClaimDone, ClaimDispatch
    <3>2. ~verify'.hold
      BY <1>0, <3>1 DEF Unheld, TypeOK, VerifyRecord
    <3> QED
      BY <2>1, <2>2, <2>3, <3>2 DEF HeldTracked, FailsCounted, StepRetryBudget
  <2> QED
    BY <2>4, <2>5
<1>7. ASSUME NEW same \in BOOLEAN, NEW leaves \in BOOLEAN,
             \/ AbortCall \/ DenyCall \/ PassTool(same)
             \/ FailTool(same, leaves) \/ CancelTool(same, leaves)
      PROVE  HeldTracked' /\ FailsCounted'
  <2>1. PICK l \in {loop, StopNow(loop)}, ok \in BOOLEAN : RecordResult(l, ok)
    BY <1>7, Zenon DEF AbortCall, DenyCall, PassTool, FailTool, CancelTool
  <2>2. /\ l \in LoopRecord /\ l.fatal = loop.fatal /\ l.callModel = loop.callModel
        /\ l.retries = loop.retries
    <3>1. /\ StopNow(loop).fatal = loop.fatal /\ StopNow(loop).callModel = loop.callModel
          /\ StopNow(loop).retries = loop.retries
      BY <1>0 DEF StopNow, TypeOK, LoopRecord
    <3> QED
      BY <1>0, <3>1, LoopTyped DEF TypeOK
  <2>3. /\ loop'.fatal = loop.fatal /\ loop'.retries = loop.retries
        /\ loop.callModel => loop'.callModel
    BY <2>1, <2>2 DEF RecordResult, LoopRecord
  <2>4. /\ pc \in {"tools", "exec"} /\ UNCHANGED seen /\ verify'.hold = verify.hold
        /\ \/ pc' = "tools"
           \/ pc' = "finish" /\ outcome' = "log"
    BY <1>0, <1>7
    DEF AbortCall, DenyCall, PassTool, FailTool, CancelTool, RecordResult, SyncTo, TypeOK, VerifyRecord
  <2> QED
    BY <1>0, <2>3, <2>4 DEF HeldTracked, FailsCounted, StepRetryBudget
<1> QED
  BY <1>0, <1>1, <1>2, <1>3, <1>4, <1>5, <1>6, <1>7, PassingSteps DEF Next, Step, Tool, Ended, Bill

\* The Start frames still open are the log's open turn and the open calls, unless the log or
\* git failed; a step head or a failed call that is judged was stopped, is fatal, out of budget
\* or settled as cancelled, so only the last can hop without its frames.
FramesTracked ==
    /\ pc = "judge" => loop.stopHard \/ loop.fatal \/ seen.cancelled \/ Exceeded(budget)
    /\ pc = "done" /\ outcome # "log" => ~live.run
    /\ outcome \notin {"log", "snapshot"} =>
          /\ live.tools = open
          /\ pc \in Closing => open = {}
          /\ live.turns = log.turns \/ seen.cancelled

\* A step that opens and closes neither turn nor call, in log, loop or frames, and reports a
\* failure when it ends the run in the middle of a batch.
FramesKept ==
    /\ UNCHANGED <<live, open>> /\ log'.turns = log.turns
    /\ pc \notin Closing /\ pc' # "done"
    /\ pc' # "judge"
    /\ seen.cancelled => seen'.cancelled
    /\ pc' = "finish" => outcome' \in {"log", "snapshot"} \/ open = {}

\* The steps that keep the frames.
LEMMA FramesKeptSteps ==
    ASSUME Safe,
           \/ WriteHeader \/ Ensure \/ SeedStop \/ StepHead \/ StartProviderCall
           \/ JudgeReturn \/ JudgePark \/ JudgeContinue
           \/ SkipSummary \/ BeginSummary \/ DropSummary \/ CancelCall \/ SendRequest \/ FailCall
           \/ \E bill \in Bill : EndSummary(bill)
           \/ Baseline \/ StartTool \/ Probe \/ RecordNotice \/ Undo \/ CommitBatch \/ AbortBatch
           \/ KeepPrefix
    PROVE  FramesKept
<1> USE DEF Closing
<1>0. TypeOK /\ CallsAnswered
  BY DEF Safe
<1>1. CASE \/ Ensure \/ SeedStop \/ StartProviderCall \/ JudgeContinue
           \/ SkipSummary \/ BeginSummary \/ DropSummary \/ CancelCall \/ SendRequest \/ FailCall
           \/ \E bill \in Bill : EndSummary(bill)
           \/ Baseline \/ StartTool \/ Probe \/ Undo \/ CommitBatch \/ AbortBatch \/ KeepPrefix
  BY <1>1
  DEF FramesKept, Ensure, SeedStop, StartProviderCall, JudgeContinue, SkipSummary, BeginSummary,
      DropSummary, CancelCall, SendRequest, FailCall, EndSummary, Baseline, StartTool, Probe, Undo,
      CommitBatch, AbortBatch, KeepPrefix, Finish
<1>2. CASE JudgeReturn \/ JudgePark
  BY <1>0, <1>2 DEF FramesKept, JudgeReturn, JudgePark, Finish, CallsAnswered
<1>3. CASE WriteHeader \/ RecordNotice
  <2>1. /\ UNCHANGED <<live, open, seen>> /\ pc \in {"header", "notice"}
        /\ \E next \in {"ensure", "undo"} : SyncTo(Rows, next, live)
    BY <1>3 DEF WriteHeader, RecordNotice, SyncTo
  <2>2. pc' = "finish" => outcome' = "log"
    BY <2>1 DEF SyncTo
  <2> QED
    BY <1>0, <2>1, <2>2, SyncKeeps DEF FramesKept
<1>4. CASE StepHead
  <2>1. log'.turns = log.turns
    BY <1>0, <1>4 DEF StepHead, SyncTo, TypeOK, LogRecord
  <2> QED
    BY <1>4, <2>1 DEF FramesKept, StepHead, SyncTo
<1> QED
  BY <1>1, <1>2, <1>3, <1>4

\* A step keeps the frames in line with turns and calls.
LEMMA NextFrames ==
    ASSUME Safe, Safe', StopTracked, FramesTracked, [Next]_vars
    PROVE  FramesTracked'
<1> USE DEF Closing
<1>0. TypeOK /\ TypeOK' /\ CallsAnswered /\ TurnsTracked
  BY DEF Safe
<1>a. /\ pc \notin Closing => outcome = "none"
      /\ outcome \notin {"log", "snapshot"} \/ pc \in Closing
  BY DEF StopTracked
<1>1. CASE FramesKept
  BY <1>a, <1>1 DEF FramesKept, FramesTracked
<1>2. CASE Cancel \/ UNCHANGED vars
  BY <1>2 DEF Cancel, vars, FramesTracked
<1>3. CASE WallClock
  <2>1. budget'.late
    BY <1>0, <1>3 DEF WallClock, TypeOK, BudgetRecord
  <2>2. Exceeded(budget')
    BY <2>1 DEF Exceeded, Peek
  <2> QED
    BY <1>3, <2>2 DEF WallClock, FramesTracked
<1>4. CASE OpenLog
  <2>1. /\ UNCHANGED <<open, log, seen>> /\ pc = "start"
        /\ \/ pc' = "header" /\ live' = [live EXCEPT !.run = TRUE] /\ UNCHANGED outcome
           \/ pc' = "done" /\ outcome' = "log"
    BY <1>4 DEF OpenLog
  <2>2. pc' = "header" => live'.tools = live.tools /\ live'.turns = live.turns
    BY <1>0, <2>1 DEF TypeOK, LiveRecord
  <2> QED
    BY <1>a, <2>1, <2>2 DEF FramesTracked
<1>5. CASE Opened
  <2>1. /\ UNCHANGED <<open, log, seen>> /\ pc = "seed"
        /\ \/ pc' = "head" /\ UNCHANGED <<outcome, live>>
           \/ pc' = "done" /\ live' = [live EXCEPT !.run = FALSE]
    BY <1>5 DEF Opened
  <2>2. live'.tools = live.tools /\ live'.turns = live.turns /\ (pc' = "done" => ~live'.run)
    BY <1>0, <2>1 DEF TypeOK, LiveRecord
  <2> QED
    BY <1>0, <1>a, <2>1, <2>2 DEF FramesTracked, CallsAnswered
<1>6. CASE SeedText
  <2> DEFINE opens == loop.phase = "idle"
             l == IF opens THEN OpenTurn(loop) ELSE loop
             opened == IF opens THEN {l.turn} ELSE {}
             rows == [log EXCEPT !.turns = @ \union opened, !.dirty = @ \/ opens]
             frames == [live EXCEPT !.turns = @ \union opened]
  <2>1. UNCHANGED <<open, seen>> /\ pc = "seed" /\ SyncTo(rows, "seed", frames)
    BY <1>6 DEF SeedText
  <2>2. /\ frames.tools = live.tools /\ frames.turns = live.turns \union opened
        /\ rows.turns = log.turns \union opened /\ [rows EXCEPT !.dirty = FALSE].turns = rows.turns
    <3> HIDE DEF opens, opened
    <3> QED
      BY <1>0 DEF TypeOK, LiveRecord, LogRecord
  <2> HIDE DEF rows, frames, opened
  <2>3. \/ pc' = "seed" /\ log'.turns = rows.turns /\ live' = frames /\ UNCHANGED outcome
        \/ pc' = "finish" /\ outcome' = "log"
    BY <2>1, <2>2 DEF SyncTo
  <2> QED
    BY <1>a, <2>1, <2>2, <2>3 DEF FramesTracked
<1>7. CASE RefuseProviderCall
  <2>1. UNCHANGED <<live, open, log, seen, loop, budget, outcome>> /\ pc = "admit" /\ pc' = "judge"
        /\ ~MayStart
    BY <1>7 DEF RefuseProviderCall
  <2>2. loop.stopHard \/ loop.fatal \/ Exceeded(budget)
    BY <1>0, <2>1 DEF MayStart, MayStep, CallsAnswered, StopTracked
  <2> QED
    BY <1>a, <2>1, <2>2 DEF FramesTracked
<1>8. CASE JudgeHop
  <2> DEFINE rows == [log EXCEPT !.turns = Hopped(@), !.dirty = TRUE]
             frames == [live EXCEPT !.turns = Hopped(@)]
  <2>1. /\ UNCHANGED <<open, seen, budget>> /\ pc \in {"judge", "settle"} /\ Verdict = "hop"
        /\ \/ pc = "settle" /\ SyncTo(rows, "head", frames)
           \/ pc = "judge" /\ pc' = "head" /\ UNCHANGED <<live, outcome>>
    BY <1>8 DEF JudgeHop
  <2>2. pc = "judge" => seen.cancelled
    BY <2>1 DEF Verdict, FramesTracked
  <2>3. /\ frames.tools = live.tools /\ frames.turns = Hopped(live.turns)
        /\ rows.turns = Hopped(log.turns) /\ [rows EXCEPT !.dirty = FALSE].turns = rows.turns
    BY <1>0 DEF TypeOK, LiveRecord, LogRecord
  <2> HIDE DEF rows, frames
  <2>4. \/ pc = "settle" /\ pc' = "head" /\ log'.turns = rows.turns /\ live' = frames
           /\ UNCHANGED outcome
        \/ pc = "judge" /\ pc' = "head" /\ UNCHANGED <<live, outcome>>
        \/ pc' = "finish" /\ outcome' = "log"
    BY <2>1, <2>3 DEF SyncTo
  <2> QED
    BY <1>a, <2>1, <2>2, <2>3, <2>4 DEF FramesTracked
<1>9. ASSUME NEW bill \in Bill, NEW exhausted \in BOOLEAN, SettleCancelled(exhausted, bill)
      PROVE  FramesTracked'
  <2>1. seen'.cancelled /\ pc \notin Closing /\ pc' = "judge" /\ UNCHANGED <<live, open, outcome>>
    BY <1>0, <1>9 DEF SettleCancelled, TypeOK, SeenRecord
  <2> QED
    BY <1>a, <2>1 DEF FramesTracked
<1>10. ASSUME NEW bill \in Bill, NEW exhausted \in BOOLEAN, SettleFailed(exhausted, bill)
       PROVE  FramesTracked'
  <2>1. /\ UNCHANGED open /\ pc = "failed"
        /\ \E next \in {"head", "judge"} : SyncTo(Rows, next, live)
    BY <1>10 DEF SettleFailed
  <2>2. /\ log'.turns = log.turns /\ UNCHANGED live
        /\ \/ pc' \in {"head", "judge"} /\ UNCHANGED outcome
           \/ pc' = "finish" /\ outcome' = "log"
    BY <1>0, <2>1, SyncKeeps DEF SyncTo
  <2>3. pc' = "judge" => loop'.fatal
    BY <1>0, <1>10 DEF SettleFailed, SyncTo, Fatal, TypeOK, LoopRecord
  <2>4. seen'.cancelled = seen.cancelled
    BY <1>0, <1>10 DEF SettleFailed, TypeOK, SeenRecord
  <2> QED
    BY <1>a, <2>1, <2>2, <2>3, <2>4 DEF FramesTracked
<1>11. ASSUME NEW bill \in Bill, Claim(bill)
       PROVE  FramesTracked'
  <2>1. /\ pc = "calling" /\ open = {}
        /\ seen'.cancelled = seen.cancelled
    <3>1. Settled(bill)
      BY <1>11 DEF Claim, ClaimStopped, ClaimHardExit, ClaimHeld, ClaimDone, ClaimDispatch
    <3> QED
      BY <1>0, <3>1 DEF Settled, CallsAnswered, TypeOK, SeenRecord
  <2>2. CASE ClaimHardExit(bill)
    <3>1. loop'.fatal
      BY <1>0, <2>2 DEF ClaimHardExit, Fatal, Answered, TypeOK, LoopRecord
    <3> QED
      BY <1>a, <2>1, <2>2, <3>1 DEF ClaimHardExit, FramesTracked
  <2>3. CASE \/ \E why \in {"maxTokens", "error"} : ClaimStopped(bill, why)
             \/ ClaimHeld(bill) \/ ClaimDone(bill)
    <3>1. UNCHANGED <<open, live>>
      BY <2>3 DEF ClaimStopped, ClaimHeld, ClaimDone, SyncTo
    <3>2. /\ log'.turns = log.turns
          /\ \/ pc' \in {"head", "settle"} /\ UNCHANGED outcome
             \/ pc' = "finish"
      <4>1. CASE ClaimDone(bill) /\ LastStepDone(Charge(budget, bill))
        BY <1>0, <4>1 DEF ClaimDone, Finish, Rows, TypeOK, LogRecord
      <4>2. CASE \E next \in {"head", "settle"} : SyncTo(Rows, next, live)
        BY <1>0, <4>2, SyncKeeps DEF SyncTo
      <4> QED
        BY <2>3, <4>1, <4>2 DEF ClaimStopped, ClaimHeld, ClaimDone
    <3> QED
      BY <1>a, <2>1, <3>1, <3>2 DEF FramesTracked
  <2>4. ASSUME NEW calls \in Batches, ClaimDispatch(bill, calls)
        PROVE  FramesTracked'
    <3> DEFINE frames == [live EXCEPT !.tools = @ \union open']
    <3>1. SyncTo(Rows, "baseline", frames)
      BY <2>4 DEF ClaimDispatch
    <3>2. frames.tools = live.tools \union open' /\ frames.turns = live.turns
      BY <1>0 DEF TypeOK, LiveRecord
    <3> HIDE DEF frames
    <3>3. /\ log'.turns = log.turns
          /\ \/ pc' = "baseline" /\ live' = frames /\ UNCHANGED outcome
             \/ pc' = "finish" /\ outcome' = "log"
      BY <1>0, <3>1, SyncKeeps DEF SyncTo
    <3> QED
      BY <1>a, <2>1, <3>2, <3>3 DEF FramesTracked
  <2> QED
    BY <1>11, <2>2, <2>3, <2>4 DEF Claim
<1>12. ASSUME NEW same \in BOOLEAN, NEW leaves \in BOOLEAN,
              \/ AbortCall \/ DenyCall \/ PassTool(same)
              \/ FailTool(same, leaves) \/ CancelTool(same, leaves)
       PROVE  FramesTracked'
  <2> DEFINE frames == [live EXCEPT !.tools = EndFrame(@)]
  <2>1. PICK l \in {loop, StopNow(loop)}, ok \in BOOLEAN : RecordResult(l, ok)
    BY <1>12, Zenon DEF AbortCall, DenyCall, PassTool, FailTool, CancelTool
  <2>2. /\ pc \in {"tools", "exec"} /\ UNCHANGED seen /\ open' = open \ {batch.next}
        /\ SyncTo(Rows, "tools", frames)
    BY <1>12, <2>1 DEF AbortCall, DenyCall, PassTool, FailTool, CancelTool, RecordResult
  <2>3. frames.tools = live.tools \ {batch.next} /\ frames.turns = live.turns
    BY <1>0 DEF EndFrame, TypeOK, LiveRecord
  <2> HIDE DEF frames
  <2>4. /\ log'.turns = log.turns
        /\ \/ pc' = "tools" /\ live' = frames /\ UNCHANGED outcome
           \/ pc' = "finish" /\ outcome' = "log"
    BY <1>0, <2>2, SyncKeeps DEF SyncTo
  <2> QED
    BY <1>a, <2>2, <2>3, <2>4 DEF FramesTracked
<1>13. CASE FinishRun
  <2>1. /\ UNCHANGED <<open, outcome, seen>> /\ pc = "finish" /\ pc' = "done"
        /\ log'.turns = log.turns \ {loop.turn}
    BY <1>13 DEF FinishRun
  <2>2. live'.tools = live.tools /\ live'.turns = live.turns \ {loop.turn} /\ ~live'.run
    BY <1>0, <1>13 DEF FinishRun, TypeOK, LiveRecord
  <2> QED
    BY <2>1, <2>2 DEF FramesTracked
<1> QED
  BY <1>1, <1>2, <1>3, <1>4, <1>5, <1>6, <1>7, <1>8, <1>9, <1>10, <1>11, <1>12, <1>13,
     FramesKeptSteps
  DEF Next, Step, Tool, Ended, Bill

\* The tokens overshoot the cap by less than k bills of one size.
Over(k, tokens) == \E bill \in Bill : tokens < MaxTokens + k * bill.tokens

\* One more bill of any size is one more bill of the larger of the two sizes.
LEMMA OverCharge ==
    ASSUME NEW tokens \in Nat, NEW bill \in Bill
    PROVE  /\ tokens < MaxTokens => Over(1, tokens + bill.tokens)
           /\ Over(1, tokens) => Over(2, tokens + bill.tokens)
           /\ Over(2, tokens) => Over(3, tokens + bill.tokens)
<1>1. MaxTokens \in Nat /\ \A b \in Bill : b.tokens \in Nat
  BY BudgetAssumption, RunAssumption DEF BudgetAssumption, RunAssumption, Bill, NoBill
<1>2. tokens < MaxTokens => Over(1, tokens + bill.tokens)
  BY <1>1 DEF Over
<1>3. ASSUME NEW b \in Bill
      PROVE  /\ tokens < MaxTokens + b.tokens => Over(2, tokens + bill.tokens)
             /\ tokens < MaxTokens + 2 * b.tokens => Over(3, tokens + bill.tokens)
  <2>1. b.tokens \in Nat /\ bill.tokens \in Nat
    BY <1>1
  <2>2. CASE bill.tokens <= b.tokens
    BY <1>1, <2>1, <2>2 DEF Over
  <2>3. CASE bill.tokens > b.tokens
    BY <1>1, <2>1, <2>3 DEF Over
  <2> QED
    BY <2>1, <2>2, <2>3
<1> QED
  BY <1>1, <1>2, <1>3 DEF Over

\* Fewer bills are within more bills.
LEMMA OverGrows ==
    ASSUME NEW tokens \in Nat
    PROVE  /\ tokens < MaxTokens => Over(1, tokens)
           /\ Over(1, tokens) => Over(2, tokens)
           /\ Over(2, tokens) => Over(3, tokens)
<1>1. MaxTokens \in Nat /\ \A b \in Bill : b.tokens \in Nat
  BY BudgetAssumption, RunAssumption DEF BudgetAssumption, RunAssumption, Bill, NoBill
<1>2. NoBill \in Bill
  BY DEF Bill
<1> QED
  BY <1>1, <1>2 DEF Over

\* Whether this turn's checkpoint was tried, and the tokens one and two bills past the cap.
Tried == loop.compacted = loop.turn
Under == budget.tokens < MaxTokens
Within == IF Tried THEN Over(2, budget.tokens) ELSE Over(1, budget.tokens)

\* Between rounds: the round that crossed the cap charged its call and at most one summary,
\* and the grace step's round what that one left over.  Inside: what is charged so far.
SpendTracked ==
    /\ pc \in {"start", "header", "ensure", "seed"} => Under
    /\ pc \notin InRound =>
          Under \/ (~budget.grace /\ Within) \/ (budget.grace /\ Over(3, budget.tokens))
    /\ pc = "round" => Under \/ (budget.grace /\ Within)
    /\ pc = "summary" => Tried /\ (Under \/ (budget.grace /\ Over(1, budget.tokens)))
    /\ pc \in InRound \ {"round", "summary"} =>
          Under \/ (Tried /\ Over(1, budget.tokens)) \/ (budget.grace /\ Within)

\* Neither metering actions nor refunds move the tokens; a bill adds its own.
LEMMA TokenFields ==
    ASSUME NEW b \in BudgetRecord
    PROVE  /\ \A bill : Charge(b, bill).tokens = b.tokens + bill.tokens
           /\ \A same : ObserveAction(b, same).tokens = b.tokens
           /\ RefundBudget(b).tokens = b.tokens
           /\ RefundStep(b).tokens = b.tokens /\ RefundStep(b).grace = b.grace
           /\ RecordStep(AfterMayStep(b)).tokens = b.tokens
BY DEF Charge, ObserveAction, RefundBudget, RefundStep, RecordStep, AfterMayStep, BudgetRecord

\* A step that charges nothing and opens neither round nor turn.
SpendKept ==
    /\ budget'.tokens = budget.tokens /\ budget'.grace = budget.grace
    /\ loop'.turn = loop.turn /\ loop'.compacted = loop.compacted
    /\ pc \notin InRound /\ pc' \notin InRound
    /\ pc' \in {"start", "header", "ensure", "seed"} => pc \in {"start", "header", "ensure", "seed"}

\* The steps between rounds that keep the spending.
LEMMA SpendKeptSteps ==
    ASSUME TypeOK,
           \/ OpenLog \/ WriteHeader \/ Ensure \/ SeedStop \/ Opened
           \/ StepHead \/ RefuseProviderCall \/ JudgeReturn \/ JudgePark \/ JudgeContinue
           \/ Baseline \/ Tool \/ Probe \/ RecordNotice \/ Undo \/ CommitBatch \/ AbortBatch
           \/ KeepPrefix \/ FinishRun
    PROVE  SpendKept
<1> USE DEF Rounding, InRound
<1>1. CASE \/ OpenLog \/ WriteHeader \/ Ensure \/ Opened \/ RefuseProviderCall \/ JudgeReturn
           \/ JudgeContinue \/ Baseline \/ StartTool \/ Probe \/ RecordNotice \/ CommitBatch
           \/ KeepPrefix
  BY <1>1
  DEF SpendKept, OpenLog, WriteHeader, Ensure, Opened, RefuseProviderCall, JudgeReturn, JudgeContinue,
      Baseline, StartTool, Probe, RecordNotice, CommitBatch, KeepPrefix, Finish, SyncTo
<1>2. CASE SeedStop \/ StepHead \/ JudgePark \/ FinishRun
  <2>1. /\ UNCHANGED budget /\ pc \notin InRound /\ pc' \notin InRound
        /\ pc' \in {"start", "header", "ensure", "seed"} => pc \in {"start", "header", "ensure", "seed"}
    BY <1>2 DEF SeedStop, StepHead, JudgePark, FinishRun, Finish, SyncTo
  <2>2. loop'.turn = loop.turn /\ loop'.compacted = loop.compacted
    BY <1>2 DEF SeedStop, StepHead, JudgePark, FinishRun, StopNow, StickReason, TypeOK, LoopRecord
  <2> QED
    BY <2>1, <2>2 DEF SpendKept
<1>3. CASE Undo \/ AbortBatch
  <2>1. /\ UNCHANGED loop /\ pc \in {"undo", "gate"} /\ pc' \in {"gate", "settle", "finish"}
        /\ budget' = budget \/ budget' = RefundBudget(budget)
    BY <1>3 DEF Undo, AbortBatch, Finish
  <2> QED
    BY <2>1, TokenFields, MeterKeeps DEF SpendKept, TypeOK
<1>4. ASSUME NEW same \in BOOLEAN, NEW leaves \in BOOLEAN,
             \/ AbortCall \/ DenyCall \/ PassTool(same)
             \/ FailTool(same, leaves) \/ CancelTool(same, leaves)
      PROVE  SpendKept
  <2>1. PICK l \in {loop, StopNow(loop)}, ok \in BOOLEAN : RecordResult(l, ok)
    BY <1>4, Zenon DEF AbortCall, DenyCall, PassTool, FailTool, CancelTool
  <2>2. l \in LoopRecord /\ l.turn = loop.turn /\ l.compacted = loop.compacted
    <3>1. StopNow(loop).turn = loop.turn /\ StopNow(loop).compacted = loop.compacted
      BY DEF StopNow, TypeOK, LoopRecord
    <3> QED
      BY <3>1, LoopTyped DEF TypeOK
  <2>3. loop'.turn = loop.turn /\ loop'.compacted = loop.compacted
    BY <2>1, <2>2 DEF RecordResult, LoopRecord
  <2>4. /\ pc \in {"tools", "exec"} /\ pc' \in {"tools", "finish"}
        /\ budget' = budget \/ budget' = ObserveAction(budget, same)
    BY <1>4 DEF AbortCall, DenyCall, PassTool, FailTool, CancelTool, RecordResult, SyncTo
  <2> QED
    BY <2>3, <2>4, TokenFields, MeterKeeps DEF SpendKept, TypeOK
<1> QED
  BY <1>1, <1>2, <1>3, <1>4 DEF Tool

\* What a settled round charges leaves the spending within what the next admission allows.
LEMMA SettledSpends ==
    ASSUME TypeOK, SpendTracked, NEW bill \in Bill,
           pc \in InRound \ {"round", "summary"}, pc' \notin InRound,
           pc' \notin {"start", "header", "ensure", "seed"},
           budget'.tokens = budget.tokens + bill.tokens, budget'.grace = budget.grace,
           loop'.turn = loop.turn, loop'.compacted = loop.compacted
    PROVE  SpendTracked'
<1>1. budget.tokens \in Nat /\ budget.grace \in BOOLEAN
  BY DEF TypeOK, BudgetRecord
<1>2. bill.tokens \in Nat
  BY RunAssumption DEF RunAssumption, Bill, NoBill
<1> DEFINE t == budget.tokens + bill.tokens
<1>3. /\ Under => Over(1, t)
      /\ Over(1, budget.tokens) => Over(2, t)
      /\ Over(2, budget.tokens) => Over(3, t)
      /\ Over(1, t) => Over(2, t)
      /\ Over(2, t) => Over(3, t)
  BY <1>1, <1>2, OverCharge, OverGrows DEF Under
<1>4. /\ Under \/ (Tried /\ Over(1, budget.tokens)) \/ (budget.grace /\ Within)
  BY DEF SpendTracked, InRound, Rounding
<1>5. (~budget.grace /\ (IF Tried THEN Over(2, t) ELSE Over(1, t))) \/ (budget.grace /\ Over(3, t))
  BY <1>1, <1>3, <1>4 DEF Within
<1>6. Tried' <=> Tried
  BY DEF Tried
<1>7. (~budget'.grace /\ Within') \/ (budget'.grace /\ Over(3, budget'.tokens))
  BY <1>5, <1>6 DEF Within, Over
<1> QED
  BY <1>7 DEF SpendTracked, InRound, Rounding, Over

\* Every step keeps the spending in line with the rounds that remain.
LEMMA NextSpends ==
    ASSUME TypeOK, TypeOK', MaxTokens > 0, SpendTracked, [Next]_vars
    PROVE  SpendTracked'
<1>0. /\ budget.tokens \in Nat /\ budget.grace \in BOOLEAN /\ budget \in BudgetRecord
      /\ MaxTokens \in Nat
  BY BudgetAssumption DEF TypeOK, BudgetRecord, BudgetAssumption
<1>1. CASE SpendKept
  BY <1>1 DEF SpendKept, SpendTracked, Under, Within, Tried, Over, InRound, Rounding
<1>2. CASE Cancel \/ WallClock \/ UNCHANGED vars
  <2>1. /\ UNCHANGED <<pc, loop>>
        /\ budget'.tokens = budget.tokens /\ budget'.grace = budget.grace
    BY <1>0, <1>2 DEF Cancel, WallClock, vars, BudgetRecord
  <2> QED
    BY <2>1 DEF SpendTracked, Under, Within, Tried, Over
<1>3. CASE SeedText \/ JudgeHop
  <2>1. UNCHANGED budget /\ pc' \in {"seed", "head", "finish"}
    BY <1>3 DEF SeedText, JudgeHop, SyncTo
  <2>2. Under
    <3>1. CASE SeedText
      BY <3>1 DEF SeedText, SpendTracked
    <3>2. CASE JudgeHop
      <4>1. ~Exceeded(budget)
        BY <3>2 DEF JudgeHop, Verdict
      <4> QED
        BY <1>0, <4>1 DEF Exceeded, Peek, Reached, Under
    <3> QED
      BY <1>3, <3>1, <3>2
  <2> QED
    BY <2>1, <2>2 DEF SpendTracked, Under, InRound, Rounding
<1>4. CASE StartProviderCall
  <2>1. /\ pc = "admit" /\ pc' = "round" /\ MayStep(budget)
        /\ budget' = RecordStep(AfterMayStep(budget))
        /\ loop'.turn = loop.turn /\ loop'.compacted = loop.compacted
    BY <1>4 DEF StartProviderCall, MayStart, TypeOK, LoopRecord
  <2>2. budget'.tokens = budget.tokens
    BY <1>0, <2>1, TokenFields
  <2>3. CASE Under
    BY <2>1, <2>2, <2>3 DEF SpendTracked, Under, InRound, Rounding
  <2>4. CASE ~Under
    <3>1. Exceeded(budget)
      BY <1>0, <2>4 DEF Exceeded, Peek, Reached, Under
    <3>2. ~budget.grace /\ budget'.grace
      BY <1>0, <2>1, <3>1 DEF MayStep, RecordStep, AfterMayStep, BudgetRecord
    <3>3. Within
      BY <2>1, <2>4, <3>2 DEF SpendTracked, InRound, Rounding
    <3>4. Within'
      BY <2>1, <2>2, <3>3 DEF Within, Tried, Over
    <3> QED
      BY <2>1, <3>2, <3>4 DEF SpendTracked, InRound, Rounding
  <2> QED
    BY <2>3, <2>4
<1>5. CASE SkipSummary \/ CancelCall \/ SendRequest \/ FailCall
  <2>1. /\ pc \in {"round", "request", "calling"} /\ UNCHANGED budget
        /\ pc' \in InRound \ {"round", "summary"}
    BY <1>5 DEF SkipSummary, CancelCall, SendRequest, FailCall, InRound, Rounding
  <2>2. loop'.turn = loop.turn /\ loop'.compacted = loop.compacted
    BY <1>5 DEF SkipSummary, CancelCall, SendRequest, FailCall, StopNow, TypeOK, LoopRecord
  <2> QED
    BY <2>1, <2>2 DEF SpendTracked, Under, Within, Tried, Over, InRound, Rounding
<1>6. CASE BeginSummary
  <2>1. /\ pc = "round" /\ pc' = "summary" /\ UNCHANGED budget /\ ~Tried
        /\ loop'.compacted = loop'.turn
    BY <1>6 DEF BeginSummary, Tried, TypeOK, LoopRecord
  <2> QED
    BY <2>1 DEF SpendTracked, Under, Within, Tried, Over, InRound, Rounding
<1>7. CASE DropSummary
  <2>1. pc = "summary" /\ pc' = "request" /\ UNCHANGED <<budget, loop>>
    BY <1>7 DEF DropSummary
  <2>2. Over(1, budget.tokens) => Over(2, budget.tokens)
    BY <1>0, OverGrows
  <2> QED
    BY <2>1, <2>2 DEF SpendTracked, Under, Within, Tried, Over, InRound, Rounding
<1>8. ASSUME NEW bill \in Bill, EndSummary(bill)
      PROVE  SpendTracked'
  <2>1. pc = "summary" /\ pc' = "request" /\ UNCHANGED loop /\ budget' = Charge(budget, bill)
    BY <1>8 DEF EndSummary
  <2>2. budget'.tokens = budget.tokens + bill.tokens /\ budget'.grace = budget.grace
    BY <1>0, <2>1, TokenFields, MeterKeeps
  <2>3. /\ Under => Over(1, budget'.tokens)
        /\ Over(1, budget.tokens) => Over(2, budget'.tokens)
    BY <1>0, <2>2, OverCharge DEF Under
  <2>4. Tried /\ (Under \/ (budget.grace /\ Over(1, budget.tokens)))
    BY <2>1 DEF SpendTracked
  <2>5. Tried' /\ (Over(1, budget'.tokens) \/ (budget'.grace /\ Over(2, budget'.tokens)))
    BY <2>1, <2>2, <2>3, <2>4 DEF Tried
  <2> QED
    BY <2>1, <2>5 DEF SpendTracked, Within, Over, InRound, Rounding
<1>9. ASSUME NEW bill \in Bill,
             \/ \E exhausted \in BOOLEAN :
                   SettleCancelled(exhausted, bill) \/ SettleFailed(exhausted, bill)
             \/ Claim(bill)
      PROVE  SpendTracked'
  <2>1. /\ pc \in InRound \ {"round", "summary"} /\ pc' \notin InRound
        /\ pc' \notin {"start", "header", "ensure", "seed"}
        /\ budget' = Charge(budget, bill) \/ budget' = RefundStep(Charge(budget, bill))
    BY <1>9
    DEF SettleCancelled, SettleFailed, Claim, ClaimStopped, ClaimHardExit, ClaimHeld, ClaimDone,
        ClaimDispatch, Settled, Finish, SyncTo, InRound, Rounding
  <2>2. Charge(budget, bill) \in BudgetRecord
    BY <1>0, BudgetTyped, BillTyped DEF Bill
  <2>3. budget'.tokens = budget.tokens + bill.tokens /\ budget'.grace = budget.grace
    BY <1>0, <2>1, <2>2, TokenFields, MeterKeeps
  <2>4. loop'.turn = loop.turn /\ loop'.compacted = loop.compacted
    BY <1>9
    DEF SettleCancelled, SettleFailed, Claim, ClaimStopped, ClaimHardExit, ClaimHeld, ClaimDone,
        ClaimDispatch, Answered, StickReason, Fatal, TypeOK, LoopRecord
  <2> QED
    BY <2>1, <2>3, <2>4, SettledSpends
<1> QED
  BY <1>1, <1>2, <1>3, <1>4, <1>5, <1>6, <1>7, <1>8, <1>9, SpendKeptSteps
  DEF Next, Step, Ended, Bill

\* The inductive invariant of this module, under the types and the bookkeeping of `Safe'.
Settling ==
    Safe /\ StopTracked /\ HeldTracked /\ FailsCounted /\ FramesTracked
         /\ (MaxTokens > 0 => SpendTracked)

\* A run that has not started has no outcome, no directive, no failure, no frame and no bill.
LEMMA InitSettling == Init => Settling
<1> SUFFICES ASSUME Init PROVE Settling
  OBVIOUS
<1>1. StopTracked /\ HeldTracked /\ FailsCounted /\ FramesTracked
  BY DEF Init, InitLoop, StepRetryBudget, StopTracked, HeldTracked, FailsCounted, FramesTracked,
         Closing, Rounding
<1>2. MaxTokens > 0 => SpendTracked
  BY DEF Init, ZeroBudget, SpendTracked, Under, InRound, Rounding
<1> QED
  BY <1>1, <1>2, InitSafe DEF Settling

\* Every step, and every stutter, keeps the invariant.
LEMMA NextSettling == Settling /\ [Next]_vars => Settling'
<1> SUFFICES ASSUME Settling, [Next]_vars PROVE Settling'
  OBVIOUS
<1>1. Safe'
  BY NextSafe DEF Settling
<1>2. TypeOK /\ TypeOK'
  BY <1>1 DEF Settling, Safe
<1>3. StopTracked' /\ HeldTracked' /\ FailsCounted' /\ FramesTracked'
  BY <1>1, <1>2, NextStops, NextHoldsAndFails, NextFrames DEF Settling
<1>4. MaxTokens > 0 => SpendTracked'
  BY <1>2, NextSpends DEF Settling
<1> QED
  BY <1>1, <1>3, <1>4 DEF Settling

\* The inductive invariant holds in every reachable state of the run.
THEOREM SettlingAlways == Spec => []Settling
BY InitSettling, NextSettling, PTL DEF Spec

\* Once a branch met the token the run reports Cancelled, or the log or git failure that came
\* first, whatever caps, claims and follow-ups are due (state.rs terminate).
THEOREM HardStopReportedAlways == Spec => []HardStopReported
<1>1. Settling => HardStopReported
  BY DEF Settling, StopTracked, HardStopReported, Closing
<1> QED
  BY <1>1, SettlingAlways, PTL

\* A run never reports Done over a directive it armed and did not send, unless the call that
\* would have sent it was settled as cancelled (run.rs settle_success, state.rs terminate).
THEOREM HeldDirectiveSentAlways == Spec => []HeldDirectiveSent
<1>1. Settling => HeldDirectiveSent
  BY DEF Settling, HeldTracked, HeldDirectiveSent, Closing
<1> QED
  BY <1>1, SettlingAlways, PTL

\* No more than three rounds fail in a row, although a step may inherit fewer retries
\* (state.rs start_provider_call, run.rs settle_provider_error).
THEOREM FailuresBoundedAlways == Spec => []FailuresBounded
<1>1. Settling => FailuresBounded
  BY DEF Settling, FailsCounted, FailuresBounded
<1> QED
  BY <1>1, SettlingAlways, PTL

\* Every Start frame of a run that ends by itself is paired, for any number of hops and calls,
\* but for the turn of a hop that a call settled as cancelled takes (run.rs finish).
THEOREM FramesPairedAlways == Spec => []FramesPaired
<1>1. Settling => FramesPaired
  <2> SUFFICES ASSUME Settling, pc = "done", outcome \notin {"log", "snapshot"}
               PROVE  ~live.run /\ live.tools = {} /\ (live.turns = {} \/ seen.cancelled)
    BY DEF FramesPaired
  <2>1. log.turns = {}
    BY DEF Settling, Safe, TurnsTracked
  <2> QED
    BY <2>1 DEF Settling, FramesTracked, Closing
<1> QED
  BY <1>1, SettlingAlways, PTL

\* For every cap and every set of bills, a run spends less than three bills past its token
\* cap: summary and call of the crossing step, and the grace step (guard.rs may_step).
THEOREM SpendBoundedAlways == Spec => []SpendBounded
<1>1. Settling => SpendBounded
  <2> SUFFICES ASSUME Settling, MaxTokens > 0, ~(budget.tokens < MaxTokens)
               PROVE  \E bill \in Bills : budget.tokens < MaxTokens + 3 * bill.tokens
    BY DEF SpendBounded
  <2>1. budget.tokens \in Nat /\ MaxTokens \in Nat
    BY BudgetAssumption DEF Settling, Safe, TypeOK, BudgetRecord, BudgetAssumption
  <2>2. Over(1, budget.tokens) \/ Over(2, budget.tokens) \/ Over(3, budget.tokens)
    BY DEF Settling, SpendTracked, Within, Under
  <2>3. Over(3, budget.tokens)
    BY <2>1, <2>2, OverGrows
  <2>4. PICK bill \in Bill : budget.tokens < MaxTokens + 3 * bill.tokens
    BY <2>3 DEF Over
  <2>5. bill # NoBill
    BY <2>1, <2>4 DEF NoBill
  <2> QED
    BY <2>4, <2>5 DEF Bill
<1> QED
  BY <1>1, SettlingAlways, PTL

-----------------------------------------------------------------------------
(* The contract: RunLoop implements RunContract.  Under the two invariants *)
(* above each action is one of the contract's, or changes nothing that the *)
(* contract speaks of.                                                     *)

Working == InBatch \union {"baseline"}

\* What the refinement needs besides: a round has its request, a notice is about a failed batch,
\* and such a batch has left its baseline when the gate judges it.
BatchBound ==
    /\ pc \in InRound => loop.inFlight
    /\ pc \in {"notice", "undo"} => batch.failed
    /\ pc = "gate" /\ batch.failed => disk = base

\* The fields of the loop that the contract speaks of.
LoopKept ==
    /\ loop'.turn = loop.turn /\ loop'.step = loop.step
    /\ loop'.inFlight = loop.inFlight
    /\ loop'.stopHard \in {loop.stopHard, TRUE}

\* A step that does nothing the contract speaks of, but for a stop that is read, or for the log
\* or git being lost.
Kept ==
    /\ LoopKept
    /\ log'.turns = log.turns
    /\ UNCHANGED <<open, disk>> /\ batch'.failed = batch.failed
    /\ pc \notin Closing
    /\ \/ /\ Stage' = Stage /\ outcome' = outcome
          /\ pc' \in Working <=> pc \in Working
          /\ pc \in InBatch => pc' \in InBatch /\ base' = base
          /\ pc \notin InBatch /\ pc' \in InBatch => base' = disk
       \/ pc' = "finish" /\ outcome' \in {"log", "snapshot"}

\* A step that keeps what the contract speaks of is a StopOrLose of the contract.
LEMMA KeptImplements ==
    ASSUME Kept
    PROVE  Contract!StopOrLose
<1> DEFINE undo == IF pc \in InBatch THEN base ELSE disk
<1>1. Stage \in {"opening", "running"}
  BY DEF Kept, Stage, Closing
<1>2. \/ Stage' = Stage /\ outcome' = outcome
      \/ Stage' = "closing" /\ outcome' \in Contract!Losses
  <2>1. pc' = "finish" => Stage' = "closing"
    BY DEF Stage
  <2> QED
    BY <2>1 DEF Kept, Contract!Losses
<1>3. (pc' \in Working) = (pc \in Working /\ Stage' # "closing")
  <2>1. CASE pc' = "finish"
    BY <2>1 DEF Stage, Working, InBatch
  <2>2. CASE pc' # "finish"
    <3>1. Stage' # "closing" /\ (pc' \in Working <=> pc \in Working)
      BY <1>1, <2>2 DEF Kept
    <3> QED
      BY <3>1
  <2> QED
    BY <2>1, <2>2
<1>4. undo' = IF pc' \in Working THEN undo ELSE disk
  <2>1. CASE pc' = "finish"
    BY <2>1 DEF Kept, Working, InBatch
  <2>2. CASE pc' # "finish" /\ pc \in InBatch
    BY <2>2 DEF Kept, Working
  <2>3. CASE pc' # "finish" /\ pc \notin InBatch
    BY <2>3 DEF Kept, Working
  <2> QED
    BY <2>1, <2>2, <2>3
<1>5. /\ loop'.stopHard \in {loop.stopHard, TRUE}
      /\ UNCHANGED <<log.turns, loop.turn, loop.step, loop.inFlight, open, batch.failed, disk>>
  BY DEF Kept, LoopKept
<1> QED
  BY <1>1, <1>2, <1>3, <1>4, <1>5
  DEF Working, Contract!StopOrLose, Contract!MayStop, Contract!Onward

\* The fields of LoopState that the contract speaks of, through the shared updates.
LEMMA ContractFields ==
    ASSUME NEW l \in LoopRecord
    PROVE  /\ StopNow(l).turn = l.turn /\ StopNow(l).step = l.step
           /\ StopNow(l).inFlight = l.inFlight /\ StopNow(l).stopHard = TRUE
           /\ Fatal(l).turn = l.turn /\ Fatal(l).step = l.step
           /\ Fatal(l).inFlight = l.inFlight /\ Fatal(l).stopHard = l.stopHard
           /\ \A why : /\ StickReason(l, why).turn = l.turn /\ StickReason(l, why).step = l.step
                       /\ StickReason(l, why).inFlight = l.inFlight
                       /\ StickReason(l, why).stopHard = l.stopHard
           /\ OpenTurn(l).turn = l.turn + 1 /\ OpenTurn(l).step = l.step
           /\ OpenTurn(l).inFlight = l.inFlight /\ OpenTurn(l).stopHard = l.stopHard
BY DEF StopNow, Fatal, StickReason, OpenTurn, LoopRecord

\* The steps that only pass on: opening, heads, the inside of a round, the stages of a batch.
LEMMA PassingKept ==
    ASSUME Safe,
           \/ WriteHeader \/ Ensure \/ RefuseProviderCall \/ JudgeContinue
           \/ SkipSummary \/ DropSummary \/ SendRequest \/ FailCall
           \/ \E bill \in Bill : EndSummary(bill)
           \/ StartTool \/ RecordNotice
    PROVE  Kept
<1>0. TypeOK
  BY DEF Safe
<1>1. CASE \/ Ensure \/ RefuseProviderCall \/ JudgeContinue
           \/ SkipSummary \/ DropSummary \/ SendRequest \/ FailCall
           \/ \E bill \in Bill : EndSummary(bill)
           \/ StartTool
  BY <1>1
  DEF Kept, LoopKept, Ensure, RefuseProviderCall, JudgeContinue, SkipSummary, DropSummary,
      SendRequest, FailCall, EndSummary, StartTool, Finish, Stage, Working, InBatch, Closing
<1>2. CASE WriteHeader \/ RecordNotice
  <2>1. /\ UNCHANGED <<loop, open, disk, base, batch>>
        /\ \/ pc = "header" /\ SyncTo(Rows, "ensure", live)
           \/ pc = "notice" /\ SyncTo(Rows, "undo", live)
    BY <1>2 DEF WriteHeader, RecordNotice
  <2>2. log'.turns = log.turns
    BY <1>0, <2>1, SyncKeeps
  <2>3. \/ pc = "header" /\ pc' = "ensure" /\ outcome' = outcome
        \/ pc = "notice" /\ pc' = "undo" /\ outcome' = outcome
        \/ pc \in {"header", "notice"} /\ pc' = "finish" /\ outcome' = "log"
    BY <2>1 DEF SyncTo
  <2> QED
    BY <2>1, <2>2, <2>3 DEF Kept, LoopKept, Stage, Working, InBatch, Closing
<1> QED
  BY <1>1, <1>2

\* A stop that is read, a summary that begins, the baseline of a batch and its probe.
LEMMA OthersKept ==
    ASSUME Safe, SeedStop \/ StepHead \/ BeginSummary \/ CancelCall \/ Baseline \/ Probe
    PROVE  Kept
<1>0. TypeOK
  BY DEF Safe
<1>1. CASE SeedStop \/ CancelCall
  <2>1. /\ UNCHANGED <<log, open, disk, base, batch, outcome>>
        /\ \/ pc = "seed" /\ pc' = "seed"
           \/ pc \in {"request", "calling"} /\ pc' = "aborted"
        /\ loop' = StopNow(loop) \/ loop' = [loop EXCEPT !.stopWhenIdle = TRUE]
    BY <1>1 DEF SeedStop, CancelCall
  <2>2. LoopKept
    <3>1. loop \in LoopRecord
      BY <1>0 DEF TypeOK
    <3>2. CASE loop' = StopNow(loop)
      BY <3>1, <3>2, ContractFields DEF LoopKept
    <3>3. CASE loop' = [loop EXCEPT !.stopWhenIdle = TRUE]
      BY <3>1, <3>3 DEF LoopKept, LoopRecord
    <3> QED
      BY <2>1, <3>2, <3>3
  <2> QED
    BY <2>1, <2>2 DEF Kept, Stage, Working, InBatch, Closing
<1>2. CASE StepHead
  <2>1. PICK l \in {loop, StopNow(loop)} : loop' = [l EXCEPT !.steering = 0]
    BY <1>2 DEF StepHead
  <2>2. l \in LoopRecord
    BY <1>0, LoopTyped DEF TypeOK
  <2>3. LoopKept
    <3>1. /\ loop'.turn = l.turn /\ loop'.step = l.step
          /\ loop'.inFlight = l.inFlight /\ loop'.stopHard = l.stopHard
      BY <2>1, <2>2 DEF LoopRecord
    <3> QED
      <4>1. loop \in LoopRecord
        BY <1>0 DEF TypeOK
      <4>2. CASE l = loop
        BY <3>1, <4>2 DEF LoopKept
      <4>3. CASE l = StopNow(loop)
        BY <3>1, <4>1, <4>3, ContractFields DEF LoopKept
      <4> QED
        BY <4>2, <4>3
  <2>4. log'.turns = log.turns
    BY <1>0, <1>2 DEF StepHead, SyncTo, TypeOK, LogRecord
  <2>5. /\ UNCHANGED <<open, disk, base, batch>> /\ pc = "head"
        /\ \/ pc' = "admit" /\ outcome' = outcome
           \/ pc' = "finish" /\ outcome' = "log"
    BY <1>2 DEF StepHead, SyncTo
  <2> QED
    BY <2>3, <2>4, <2>5 DEF Kept, Stage, Working, InBatch, Closing
<1>3. CASE BeginSummary
  <2>1. LoopKept
    BY <1>0, <1>3 DEF BeginSummary, LoopKept, TypeOK, LoopRecord
  <2> QED
    BY <1>3, <2>1 DEF BeginSummary, Kept, Stage, Working, InBatch, Closing
<1>4. CASE Baseline
  <2>1. batch'.failed = batch.failed
    BY <1>0, <1>4 DEF Baseline, TypeOK, BatchRecord
  <2>2. /\ UNCHANGED <<loop, log, open, disk>> /\ pc = "baseline"
        /\ \/ pc' = "tools" /\ base' = disk /\ outcome' = outcome
           \/ pc' = "finish" /\ outcome' = "snapshot"
    BY <1>4 DEF Baseline, Finish
  <2> QED
    BY <2>1, <2>2 DEF Kept, LoopKept, Stage, Working, InBatch, Closing
<1>5. CASE Probe
  <2>1. batch'.failed = batch.failed
    BY <1>0, <1>5 DEF Probe, TypeOK, BatchRecord
  <2>2. /\ UNCHANGED <<loop, log, open, disk, base>> /\ pc = "tools"
        /\ \/ pc' \in {"notice", "gate"} /\ outcome' = outcome
           \/ pc' = "finish" /\ outcome' = "snapshot"
    BY <1>5, Zenon DEF Probe, Finish
  <2> QED
    BY <2>1, <2>2 DEF Kept, LoopKept, Stage, Working, InBatch, Closing
<1> QED
  BY <1>1, <1>2, <1>3, <1>4, <1>5

\* Where no batch is running there is nothing to undo, and no call is open.
LEMMA FreeHere ==
    ASSUME Safe, pc \in {"seed", "head", "admit", "judge", "settle"}
    PROVE  Contract!Free
BY DEF Safe, CallsAnswered, Contract!Free, InBatch

\* The first text and a followup open the next turn; a text that finds one open steers.
LEMMA TurnOpens ==
    ASSUME Safe, SeedText \/ JudgeHop
    PROVE  Contract!OpenTurn \/ Kept
<1>0. TypeOK /\ TurnsTracked
  BY DEF Safe
<1>1. CASE SeedText
  <2> DEFINE opens == loop.phase = "idle"
             l == IF opens THEN OpenTurn(loop) ELSE loop
             opened == IF opens THEN {l.turn} ELSE {}
  <2>1. /\ UNCHANGED <<open, disk, base, batch>> /\ pc = "seed"
        /\ \/ pc' = "seed" /\ outcome' = outcome
           \/ pc' = "finish" /\ outcome' = "log"
    BY <1>1 DEF SeedText, SyncTo
  <2>2. loop \in LoopRecord /\ l \in LoopRecord
    BY <1>0, LoopTyped DEF TypeOK
  <2>3. /\ loop'.turn = l.turn /\ loop'.step = l.step
        /\ loop'.inFlight = l.inFlight /\ loop'.stopHard = l.stopHard
    <3>1. loop' = [l EXCEPT !.steering = @ + 1]
      BY <1>1 DEF SeedText
    <3> HIDE DEF l
    <3> QED
      BY <2>2, <3>1 DEF LoopRecord
  <2>4. log'.turns = log.turns \union opened
    <3>1. log' = [log EXCEPT !.turns = @ \union opened, !.dirty = @ \/ opens]
          \/ log' = [[log EXCEPT !.turns = @ \union opened, !.dirty = @ \/ opens]
                        EXCEPT !.dirty = FALSE]
      BY <1>1 DEF SeedText, SyncTo
    <3> HIDE DEF opened, opens
    <3> QED
      BY <1>0, <3>1 DEF TypeOK, LogRecord
  <2>5. /\ l.step = loop.step /\ l.inFlight = loop.inFlight /\ l.stopHard = loop.stopHard
    BY <2>2, ContractFields
  <2>6. CASE opens
    <3>1. loop.turn = 0 /\ log.turns = {}
      BY <1>0, <2>1, <2>6 DEF TurnsTracked
    <3>2. l.turn = loop.turn + 1
      BY <2>2, <2>6, ContractFields
    <3>3. loop'.turn = loop.turn + 1 /\ log'.turns = {loop'.turn}
      BY <2>3, <2>4, <2>6, <3>1, <3>2
    <3>4. Contract!Free
      BY <2>1, FreeHere
    <3>5. /\ Stage = "opening"
          /\ \/ Stage' = Stage /\ outcome' = outcome
             \/ Stage' = "closing" /\ outcome' \in Contract!Losses
      BY <2>1 DEF Stage, Contract!Losses
    <3> QED
      BY <2>1, <2>3, <2>5, <3>1, <3>3, <3>4, <3>5
      DEF Contract!OpenTurn, Contract!Onward, InBatch
  <2>7. CASE ~opens
    <3>1. log'.turns = log.turns /\ LoopKept
      BY <2>3, <2>4, <2>7 DEF LoopKept
    <3> QED
      BY <2>1, <3>1 DEF Kept, Stage, Working, InBatch, Closing
  <2> QED
    BY <2>6, <2>7
<1>2. CASE JudgeHop
  <2>1. /\ UNCHANGED <<open, disk, base, batch>> /\ pc \in {"judge", "settle"}
        /\ \/ pc' = "head" /\ outcome' = outcome
           \/ pc' = "finish" /\ outcome' = "log"
    BY <1>2 DEF JudgeHop, SyncTo
  <2>2. /\ loop'.turn = loop.turn + 1 /\ loop'.step = loop.step
        /\ loop'.inFlight = loop.inFlight /\ loop'.stopHard = loop.stopHard
    BY <1>0, <1>2 DEF JudgeHop, HopTurn, OpenTurn, TypeOK, LoopRecord
  <2>3. log'.turns = {loop'.turn}
    <3>1. log'.turns = Hopped(log.turns)
      BY <1>0, <1>2 DEF JudgeHop, SyncTo, TypeOK, LogRecord
    <3>2. log.turns \ {loop.turn} = {}
      BY <1>0, <2>1 DEF TurnsTracked
    <3> QED
      BY <2>2, <3>1, <3>2 DEF Hopped
  <2>4. Contract!Free
    BY <2>1, FreeHere
  <2>5. /\ Stage = "running"
        /\ \/ Stage' = Stage /\ outcome' = outcome
           \/ Stage' = "closing" /\ outcome' \in Contract!Losses
    BY <2>1 DEF Stage, Contract!Losses
  <2> QED
    BY <2>1, <2>2, <2>3, <2>4, <2>5 DEF Contract!OpenTurn, Contract!Onward, InBatch
<1> QED
  BY <1>1, <1>2

\* A run begins when its inputs are applied, unless there is no log or no turn.
LEMMA RunBegins ==
    ASSUME Safe, OpenLog \/ Opened
    PROVE  Contract!Begin \/ Contract!Refuse \/ UNCHANGED Contract!runVars
<1>1. /\ UNCHANGED <<loop, log, open, disk, base, batch>>
      /\ \/ pc = "start" /\ pc' = "header" /\ outcome' = outcome
         \/ pc = "start" /\ pc' = "done" /\ outcome' = "log"
         \/ pc = "seed" /\ pc' = "done" /\ outcome' = "input" /\ loop.turn = 0
         \/ pc = "seed" /\ pc' = "head" /\ outcome' = outcome /\ loop.turn # 0
  BY DEF OpenLog, Opened
<1>2. pc = "start" => loop.turn = 0
  BY DEF Safe, TurnsTracked
<1>3. loop.turn # 0 /\ pc = "seed" => log.turns # {}
  BY DEF Safe, TurnsTracked
<1> QED
  BY <1>1, <1>2, <1>3
  DEF Contract!Begin, Contract!Refuse, Contract!runVars, Stage, InBatch

\* A round that starts asks: no call is open, no batch unsettled, no stop read.
LEMMA RoundAsks ==
    ASSUME Safe, StopTracked, StartProviderCall
    PROVE  Contract!Ask
<1>0. TypeOK
  BY DEF Safe
<1>1. /\ UNCHANGED <<log, open, disk, base, batch, outcome>>
      /\ pc = "admit" /\ pc' = "round" /\ loop.gate = "open" /\ ~loop.inFlight
  BY DEF StartProviderCall, MayStart
<1>2. /\ loop'.turn = loop.turn /\ loop'.step = loop.step + 1
      /\ loop'.inFlight = TRUE /\ loop'.stopHard = loop.stopHard
  BY <1>0 DEF StartProviderCall, TypeOK, LoopRecord
<1>3. ~loop.stopHard
  BY <1>1 DEF StopTracked
<1>4. Contract!Free
  BY <1>1, FreeHere
<1>5. loop.step <= MaxSteps
  <2>1. loop'.step <= MaxSteps + 1
    BY NextSafe DEF Safe, StepsCounted, Next, Step
  <2> QED
    BY <1>0, <1>2, <2>1, BudgetAssumption DEF TypeOK, LoopRecord, BudgetAssumption
<1> QED
  BY <1>1, <1>2, <1>3, <1>4, <1>5 DEF Contract!Ask, Stage, InBatch

\* A round that ends without calls ends its request; the final declare may close the run.
LEMMA RoundEnds ==
    ASSUME Safe, StopTracked, BatchBound,
           NEW bill \in Bill, NEW exhausted \in BOOLEAN, NEW why \in {"maxTokens", "error"},
           \/ SettleCancelled(exhausted, bill) \/ SettleFailed(exhausted, bill)
           \/ ClaimStopped(bill, why) \/ ClaimHardExit(bill) \/ ClaimHeld(bill) \/ ClaimDone(bill)
    PROVE  Contract!EndRequest
<1>0. TypeOK
  BY DEF Safe
<1>1. UNCHANGED <<open, disk, base, batch>> /\ pc \in {"aborted", "failed", "calling"}
  BY DEF SettleCancelled, SettleFailed, ClaimStopped, ClaimHardExit, ClaimHeld, ClaimDone, Settled
<1>2. log'.turns = log.turns /\ loop'.turn = loop.turn
  <2>1. TurnKept
    BY <1>0, SettleKeeps DEF Claim
  <2> QED
    BY <2>1 DEF TurnKept
<1>3. loop.inFlight
  BY <1>1 DEF BatchBound, InRound, Rounding
<1>4. /\ loop'.step = loop.step /\ loop'.inFlight = FALSE /\ loop'.stopHard = loop.stopHard
  <2>1. CASE SettleCancelled(exhausted, bill)
    BY <1>0, <2>1 DEF SettleCancelled, TypeOK, LoopRecord
  <2>2. CASE SettleFailed(exhausted, bill)
    BY <1>0, <2>2 DEF SettleFailed, Fatal, TypeOK, LoopRecord
  <2>3. CASE ClaimStopped(bill, why)
    BY <1>0, <2>3 DEF ClaimStopped, StickReason, Answered, TypeOK, LoopRecord
  <2>4. CASE ClaimHardExit(bill)
    BY <1>0, <2>4 DEF ClaimHardExit, Fatal, Answered, TypeOK, LoopRecord
  <2>5. CASE ClaimHeld(bill) \/ ClaimDone(bill)
    BY <1>0, <2>5 DEF ClaimHeld, ClaimDone, Answered, TypeOK, LoopRecord
  <2> QED
    BY <2>1, <2>2, <2>3, <2>4, <2>5
<1>5. \/ pc' \in {"head", "judge", "settle"} /\ outcome' = outcome
      \/ pc' = "finish" /\ outcome' = "log"
      \/ pc' = "finish" /\ outcome' = "done" /\ pc = "calling"
  BY DEF SettleCancelled, SettleFailed, ClaimStopped, ClaimHardExit, ClaimHeld, ClaimDone, Settled,
         Finish, SyncTo
<1>6. pc = "calling" => ~loop.stopHard
  BY DEF StopTracked, Rounding
<1>7. /\ Stage = "running"
      /\ \/ Stage' = Stage /\ outcome' = outcome
         \/ Stage' = "closing" /\ outcome' \in Contract!Losses
         \/ ~loop.stopHard /\ Stage' = "closing" /\ outcome' = "done"
  BY <1>1, <1>5, <1>6 DEF Stage, Contract!Losses
<1>8. pc \notin Working /\ pc' \notin Working
  BY <1>1, <1>5 DEF Working, InBatch
<1> QED
  BY <1>1, <1>2, <1>3, <1>4, <1>7, <1>8
  DEF Contract!EndRequest, Contract!Onward, Working

\* An answer with calls opens a batch.
LEMMA AnswerDispatches ==
    ASSUME Safe, BatchBound, NEW bill \in Bill, NEW calls \in Batches, ClaimDispatch(bill, calls)
    PROVE  Contract!Reply
<1>0. TypeOK
  BY DEF Safe
<1>1. /\ UNCHANGED <<disk, base>> /\ pc = "calling" /\ open' = 1..Len(calls)
      /\ \/ pc' = "baseline" /\ outcome' = outcome
         \/ pc' = "finish" /\ outcome' = "log"
  BY DEF ClaimDispatch, Settled, SyncTo
<1>2. log'.turns = log.turns /\ loop'.turn = loop.turn
  <2>1. TurnKept
    BY <1>0, SettleKeeps DEF Claim
  <2> QED
    BY <2>1 DEF TurnKept
<1>3. loop.inFlight
  BY <1>1 DEF BatchBound, InRound, Rounding
<1>4. /\ loop'.step = loop.step /\ loop'.inFlight = FALSE /\ loop'.stopHard = loop.stopHard
      /\ batch'.failed = FALSE
  BY <1>0 DEF ClaimDispatch, Answered, TypeOK, LoopRecord
<1>5. Len(calls) \in 1..MaxCalls
  <2>1. PICK n \in 1..MaxCalls : calls \in [1..n -> Kinds]
    BY DEF Batches
  <2>2. calls \in Seq(Kinds) /\ n \in Nat /\ DOMAIN calls = 1..n
    BY <2>1
  <2>3. Len(calls) = n
    BY <2>2
  <2> QED
    BY <2>1, <2>3
<1>6. /\ Stage = "running"
      /\ \/ Stage' = Stage /\ outcome' = outcome
         \/ Stage' = "closing" /\ outcome' \in Contract!Losses
      /\ (pc' \in Working) = (Stage' = "running")
  BY <1>1 DEF Stage, Contract!Losses, Working, InBatch
<1>7. pc \notin InBatch /\ pc' \notin InBatch
  BY <1>1 DEF InBatch
<1> QED
  BY <1>1, <1>2, <1>3, <1>4, <1>5, <1>6, <1>7 DEF Contract!Reply, Contract!Onward, Working

\* Every recorded result answers the first open call.
LEMMA ResultAnswers ==
    ASSUME Safe, NEW same \in BOOLEAN, NEW leaves \in BOOLEAN,
           \/ AbortCall \/ DenyCall \/ PassTool(same)
           \/ FailTool(same, leaves) \/ CancelTool(same, leaves)
    PROVE  Contract!Answer
<1>0. TypeOK
  BY DEF Safe
<1>1. PICK l \in {loop, StopNow(loop)}, ok \in BOOLEAN : RecordResult(l, ok)
  BY Zenon DEF AbortCall, DenyCall, PassTool, FailTool, CancelTool
<1>2. pc \in {"tools", "exec"} /\ (pc = "tools" => MoreCalls)
  BY DEF AbortCall, DenyCall, PassTool, FailTool, CancelTool
<1>3. /\ batch.next \in Nat /\ Len(batch.calls) \in Nat /\ batch.next <= Len(batch.calls)
      /\ open = batch.next..Len(batch.calls)
  BY <1>0, <1>2 DEF Safe, CallsAnswered, MoreCalls, TypeOK, BatchRecord
<1>4. /\ open' = open \ {batch.next} /\ base' = base
      /\ \/ pc' = "tools" /\ outcome' = outcome
         \/ pc' = "finish" /\ outcome' = "log"
  BY <1>1 DEF RecordResult, SyncTo
<1>5. batch'.failed \in {batch.failed, TRUE}
  <2>1. batch'.failed = (batch.failed \/ ~ok) /\ batch.failed \in BOOLEAN
    BY <1>0, <1>1, ResultRecorded DEF TypeOK, BatchRecord
  <2> QED
    BY <2>1
<1>6. LoopKept
  <2>1. loop \in LoopRecord /\ l \in LoopRecord
    BY <1>0, LoopTyped DEF TypeOK
  <2>2. /\ loop'.turn = l.turn /\ loop'.step = l.step
        /\ loop'.inFlight = l.inFlight /\ loop'.stopHard = l.stopHard
    BY <1>1, <2>1 DEF RecordResult, LoopRecord
  <2>3. CASE l = loop
    BY <2>2, <2>3 DEF LoopKept
  <2>4. CASE l = StopNow(loop)
    BY <2>1, <2>2, <2>4, ContractFields DEF LoopKept
  <2> QED
    BY <2>3, <2>4
<1>7. log'.turns = log.turns
  BY <1>0, <1>1, SyncKeeps DEF RecordResult
<1>8. \E call \in open : /\ \A other \in open : call <= other
                         /\ open' = open \ {call}
  <2>1. batch.next \in open /\ \A other \in open : batch.next <= other
    BY <1>3
  <2> QED
    BY <1>4, <2>1
<1>9. /\ Stage = "running"
      /\ \/ Stage' = Stage /\ outcome' = outcome
         \/ Stage' = "closing" /\ outcome' \in Contract!Losses
      /\ (pc' \in Working) = (Stage' = "running")
      /\ pc \in Working
  BY <1>2, <1>4 DEF Stage, Contract!Losses, Working, InBatch
<1>10. /\ pc \in InBatch
       /\ (IF pc' \in InBatch THEN base' ELSE disk') = IF pc' \in Working THEN base ELSE disk'
  BY <1>2, <1>4 DEF Working, InBatch
<1> QED
  BY <1>5, <1>6, <1>7, <1>8, <1>9, <1>10
  DEF LoopKept, Contract!Answer, Contract!MayStop, Contract!Onward, Working

\* A failed batch goes back to its baseline, or git is lost.
LEMMA FailedUndone ==
    ASSUME Safe, BatchBound, Undo
    PROVE  Contract!Undo \/ Kept
<1>1. UNCHANGED <<loop, log, open, base, batch>> /\ pc = "undo"
  BY DEF Undo
<1>2. open = {} /\ batch.failed
  BY <1>1 DEF Safe, CallsAnswered, BatchBound
<1>3. CASE disk' = base /\ pc' = "gate" /\ outcome' = outcome
  <2>1. Stage' = Stage /\ pc \in InBatch /\ pc' \in InBatch
    BY <1>1, <1>3 DEF Stage, InBatch
  <2> QED
    BY <1>1, <1>2, <1>3, <2>1 DEF Contract!Undo
<1>4. CASE pc' = "finish" /\ outcome' = "snapshot" /\ disk' = disk
  BY <1>1, <1>4 DEF Kept, LoopKept, Stage, Working, InBatch, Closing
<1> QED
  BY <1>3, <1>4 DEF Undo, Finish, RolledBack

\* The verdict keeps a batch or undoes it; only a proof command has it kept in part.
LEMMA VerdictSettles ==
    ASSUME Safe, BatchBound, GateMode # "incremental" => TreeTracked,
           CommitBatch \/ AbortBatch \/ KeepPrefix
    PROVE  Contract!SettleBatch
<1>1. /\ UNCHANGED <<loop, log, open, base, batch>> /\ pc = "gate"
      /\ \/ pc' = "settle" /\ outcome' = outcome
         \/ pc' = "finish" /\ outcome' = "snapshot"
      /\ disk' \in {disk, base} \/ GateVerdict = "partial"
  BY DEF CommitBatch, AbortBatch, KeepPrefix, RolledBack, Finish
<1>2. open = {}
  BY <1>1 DEF Safe, CallsAnswered
<1>3. batch.failed => disk = base
  BY <1>1 DEF BatchBound
<1>4. GateVerdict = "partial" => GateMode = "incremental"
  <2>1. GateMode # "incremental" => batch.proven \in {0, batch.hunks}
    BY <1>1 DEF TreeTracked
  <2> QED
    BY <2>1 DEF GateVerdict
<1>5. \/ Stage' = Stage /\ outcome' = outcome
      \/ Stage' = "closing" /\ outcome' \in Contract!Losses
  BY <1>1 DEF Stage, Contract!Losses
<1>6. pc \in InBatch /\ pc' \notin InBatch /\ pc' # "baseline"
  BY <1>1 DEF InBatch
<1> QED
  BY <1>1, <1>2, <1>3, <1>4, <1>5, <1>6 DEF Contract!SettleBatch, Contract!Onward

\* `terminate' reports between batches; a stop that was read decides what.
LEMMA RunCloses ==
    ASSUME Safe, JudgeReturn \/ JudgePark
    PROVE  Contract!Close
<1>1. /\ UNCHANGED <<log, open, disk, base, batch>> /\ pc \in {"judge", "settle"} /\ pc' = "finish"
      /\ \/ Verdict \in Outcomes /\ outcome' = Verdict
         \/ Verdict = "park" /\ outcome' = "done"
  BY DEF JudgeReturn, JudgePark, Finish
<1>2. /\ loop'.turn = loop.turn /\ loop'.step = loop.step
      /\ loop'.inFlight = loop.inFlight /\ loop'.stopHard = loop.stopHard
  BY DEF JudgeReturn, JudgePark, Safe, TypeOK, LoopRecord
<1>3. /\ loop.stopHard => Verdict \in {"break", "cancelled"}
      /\ ~loop.stopHard => Verdict \in {"provider", "halted", "continue", "hop", "done", "park"}
  BY DEF Verdict
<1>4. outcome' \in IF loop.stopHard THEN {"cancelled"} ELSE {"done", "halted", "provider"}
  BY <1>1, <1>3 DEF Outcomes
<1>5. Contract!Free
  BY <1>1, FreeHere
<1>6. Stage = "running" /\ Stage' = "closing" /\ pc \notin Working /\ pc' \notin Working
  BY <1>1 DEF Stage, Working, InBatch
<1> QED
  BY <1>1, <1>2, <1>4, <1>5, <1>6 DEF Contract!Close, Working

\* finish closes the turn that is open.
LEMMA RunEnds ==
    ASSUME Safe, FinishRun
    PROVE  Contract!End
<1>1. UNCHANGED <<open, disk, base, batch, outcome>> /\ pc = "finish" /\ pc' = "done"
  BY DEF FinishRun
<1>2. /\ loop'.turn = loop.turn /\ loop'.step = loop.step
      /\ loop'.inFlight = loop.inFlight /\ loop'.stopHard = loop.stopHard
  BY ContractFields DEF FinishRun, Safe, TypeOK
<1>3. log'.turns = {}
  <2>1. log.turns \subseteq {loop.turn}
    BY <1>1 DEF Safe, TurnsTracked
  <2>2. log'.turns = log.turns \ {loop.turn}
    BY DEF FinishRun
  <2> QED
    BY <2>1, <2>2
<1>4. Stage = "closing" /\ Stage' = "closed" /\ pc \notin Working /\ pc' \notin Working
  BY <1>1 DEF Stage, Working, InBatch
<1> QED
  BY <1>1, <1>2, <1>3, <1>4 DEF Contract!End, Working

\* Ctrl-C and the clock are nothing the contract speaks of until the loop reads them.
LEMMA EnvironmentStutters ==
    ASSUME Cancel \/ WallClock \/ UNCHANGED vars
    PROVE  UNCHANGED Contract!runVars
BY DEF Cancel, WallClock, vars, Contract!runVars, Stage, InBatch

\* What the refinement needs besides is kept: a round keeps its request, the probe sends failed
\* batches to the notice and the undoing leaves the baseline.
LEMMA NextBound ==
    ASSUME Safe, BatchBound, [Next]_vars
    PROVE  BatchBound'
<1> USE DEF InRound, Rounding
<1>0. TypeOK
  BY DEF Safe
<1>1. CASE pc' \notin InRound \union {"notice", "undo", "gate"}
  BY <1>1 DEF BatchBound
<1>2. CASE \/ SkipSummary \/ DropSummary \/ SendRequest \/ FailCall \/ BeginSummary \/ CancelCall
           \/ \E bill \in Bill : EndSummary(bill)
           \/ StartProviderCall
  <2>1. /\ pc' \in InRound
        /\ \/ pc \in InRound /\ loop'.inFlight = loop.inFlight
           \/ loop'.inFlight = TRUE
    <3>1. CASE SkipSummary \/ DropSummary \/ SendRequest \/ FailCall
               \/ \E bill \in Bill : EndSummary(bill)
      BY <3>1 DEF SkipSummary, DropSummary, SendRequest, FailCall, EndSummary
    <3>2. CASE BeginSummary
      BY <1>0, <3>2 DEF BeginSummary, TypeOK, LoopRecord
    <3>3. CASE CancelCall
      BY <1>0, <3>3, ContractFields DEF CancelCall, TypeOK
    <3>4. CASE StartProviderCall
      BY <1>0, <3>4 DEF StartProviderCall, TypeOK, LoopRecord
    <3> QED
      BY <1>2, <3>1, <3>2, <3>3, <3>4
  <2> QED
    BY <2>1 DEF BatchBound
<1>3. CASE Probe
  <2>1. /\ pc' = "notice" => batch.failed
        /\ pc' = "gate" => ~batch.failed
        /\ pc' \in {"notice", "gate", "finish"}
    BY <1>3, Zenon DEF Probe, Finish
  <2>2. batch'.failed = batch.failed
    BY <1>0, <1>3 DEF Probe, TypeOK, BatchRecord
  <2> QED
    BY <2>1, <2>2 DEF BatchBound
<1>4. CASE RecordNotice
  BY <1>4 DEF RecordNotice, SyncTo, BatchBound
<1>5. CASE Undo
  BY <1>5 DEF Undo, RolledBack, Finish, BatchBound
<1>6. CASE Cancel \/ WallClock \/ UNCHANGED vars
  BY <1>6 DEF Cancel, WallClock, vars, BatchBound
<1>7. ASSUME \/ OpenLog \/ WriteHeader \/ Ensure \/ SeedText \/ SeedStop \/ Opened
             \/ StepHead \/ RefuseProviderCall
             \/ JudgeReturn \/ JudgePark \/ JudgeContinue \/ JudgeHop
             \/ Baseline \/ StartTool \/ CommitBatch \/ AbortBatch \/ KeepPrefix \/ FinishRun
      PROVE  pc' \notin InRound \union {"notice", "undo", "gate"}
  BY <1>7
  DEF OpenLog, WriteHeader, Ensure, SeedText, SeedStop, Opened, StepHead, RefuseProviderCall,
      JudgeReturn, JudgePark, JudgeContinue, JudgeHop, Baseline, StartTool, CommitBatch,
      AbortBatch, KeepPrefix, FinishRun, Finish, SyncTo
<1>8. ASSUME NEW bill \in Bill, NEW exhausted \in BOOLEAN, NEW why \in {"maxTokens", "error"},
             \/ SettleCancelled(exhausted, bill) \/ SettleFailed(exhausted, bill)
             \/ ClaimStopped(bill, why) \/ ClaimHardExit(bill) \/ ClaimHeld(bill) \/ ClaimDone(bill)
             \/ \E calls \in Batches : ClaimDispatch(bill, calls)
      PROVE  pc' \notin InRound \union {"notice", "undo", "gate"}
  BY <1>8
  DEF SettleCancelled, SettleFailed, ClaimStopped, ClaimHardExit, ClaimHeld, ClaimDone,
      ClaimDispatch, Finish, SyncTo
<1>9. ASSUME NEW same \in BOOLEAN, NEW leaves \in BOOLEAN,
             \/ AbortCall \/ DenyCall \/ PassTool(same)
             \/ FailTool(same, leaves) \/ CancelTool(same, leaves)
      PROVE  pc' \notin InRound \union {"notice", "undo", "gate"}
  <2>1. \E l, ok : RecordResult(l, ok)
    BY <1>9, Zenon DEF AbortCall, DenyCall, PassTool, FailTool, CancelTool
  <2> QED
    BY <2>1 DEF RecordResult, SyncTo
<1> QED
  BY <1>1, <1>2, <1>3, <1>4, <1>5, <1>6, <1>7, <1>8, <1>9
  DEF Next, Step, Claim, Tool, Ended, Bill

\* Every step of the run is one of the contract's or changes nothing it speaks of.
LEMMA StepImplements ==
    ASSUME Safe, StopTracked, BatchBound, GateMode # "incremental" => TreeTracked, [Next]_vars
    PROVE  [Contract!ContractNext]_Contract!runVars
<1>1. ASSUME NEW bill \in Bill,
             \/ \E exhausted \in BOOLEAN :
                   SettleCancelled(exhausted, bill) \/ SettleFailed(exhausted, bill)
             \/ Claim(bill)
      PROVE  Contract!EndRequest \/ Contract!Reply
  <2>1. TRUE \in BOOLEAN /\ "error" \in {"maxTokens", "error"}
    OBVIOUS
  <2> QED
    BY <1>1, <2>1, RoundEnds, AnswerDispatches, Zenon DEF Claim
<1>2. CASE Kept
  BY <1>2, KeptImplements DEF Contract!ContractNext
<1>3. ASSUME NEW same \in BOOLEAN, NEW leaves \in BOOLEAN,
             \/ AbortCall \/ DenyCall \/ PassTool(same)
             \/ FailTool(same, leaves) \/ CancelTool(same, leaves)
      PROVE  Contract!Answer
  BY <1>3, ResultAnswers
<1>4. CASE Tool
  <2>1. Contract!Answer \/ Kept
    BY <1>3, <1>4, PassingKept DEF Tool
  <2> QED
    BY <1>2, <2>1 DEF Contract!ContractNext
<1>5. CASE \E bill \in Bill :
              \/ EndSummary(bill)
              \/ \E exhausted \in BOOLEAN :
                    SettleCancelled(exhausted, bill) \/ SettleFailed(exhausted, bill)
              \/ Claim(bill)
  <2>1. Contract!EndRequest \/ Contract!Reply \/ Kept
    BY <1>1, <1>5, PassingKept
  <2> QED
    BY <1>2, <2>1 DEF Contract!ContractNext
<1>6. CASE SeedText \/ JudgeHop
  BY <1>2, <1>6, TurnOpens DEF Contract!ContractNext
<1>7. CASE OpenLog \/ Opened
  BY <1>7, RunBegins DEF Contract!ContractNext
<1>8. CASE StartProviderCall
  BY <1>8, RoundAsks DEF Contract!ContractNext
<1>9. CASE Undo
  BY <1>2, <1>9, FailedUndone DEF Contract!ContractNext
<1>10. CASE CommitBatch \/ AbortBatch \/ KeepPrefix
  BY <1>10, VerdictSettles DEF Contract!ContractNext
<1>11. CASE JudgeReturn \/ JudgePark
  BY <1>11, RunCloses DEF Contract!ContractNext
<1>12. CASE FinishRun
  BY <1>12, RunEnds DEF Contract!ContractNext
<1>13. CASE Cancel \/ WallClock \/ UNCHANGED vars
  BY <1>13, EnvironmentStutters
<1>14. CASE \/ WriteHeader \/ Ensure \/ RefuseProviderCall \/ JudgeContinue
            \/ SkipSummary \/ DropSummary \/ SendRequest \/ FailCall \/ RecordNotice
            \/ SeedStop \/ StepHead \/ BeginSummary \/ CancelCall \/ Baseline \/ Probe
  BY <1>2, <1>14, PassingKept, OthersKept
<1> QED
  BY <1>4, <1>5, <1>6, <1>7, <1>8, <1>9, <1>10, <1>11, <1>12, <1>13, <1>14
  DEF Next, Step, Ended, Bill

\* Every behaviour of a run is one of RunContract, for every cap, gate, input, answer and fault:
\* turns one at a time, requests only behind settled batches, answers in order, batches kept or
\* undone as a whole, one result, and Cancelled exactly when a stop was read.
THEOREM RunImplementsContract == Spec => ImplementsContract
<1>1. Init => Contract!ContractInit
  BY DEF Init, InitLoop, InitTree, Contract!ContractInit, Stage, InBatch
<1>2. Init => BatchBound
  BY DEF Init, BatchBound, InRound, Rounding
<1>3. Safe /\ BatchBound /\ [Next]_vars => BatchBound'
  BY NextBound
<1>4. Spec => []BatchBound
  BY <1>2, <1>3, SafeAlways, PTL DEF Spec
<1>5. Settling => Safe /\ StopTracked
  BY DEF Settling
<1>6. CASE GateMode = "incremental"
  <2>1. Safe /\ StopTracked /\ BatchBound /\ [Next]_vars => [Contract!ContractNext]_Contract!runVars
    BY <1>6, StepImplements
  <2> QED
    BY <1>1, <1>4, <1>5, <2>1, SettlingAlways, PTL DEF Spec, ImplementsContract, Contract!RunSafety
<1>7. CASE GateMode # "incremental"
  <2>1. Safe /\ StopTracked /\ BatchBound /\ TreeTracked /\ [Next]_vars
           => [Contract!ContractNext]_Contract!runVars
    BY StepImplements
  <2>2. Spec => []TreeTracked
    BY <1>7, TreeTrackedAlways
  <2> QED
    BY <1>1, <1>4, <1>5, <2>1, <2>2, SettlingAlways, PTL
    DEF Spec, ImplementsContract, Contract!RunSafety
<1> QED
  BY <1>6, <1>7

=============================================================================
