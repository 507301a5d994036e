---------------------------- MODULE BudgetGuard ----------------------------
(***************************************************************************)
(* The budget guard of crates/agent-budget: six counters, each with a cap, *)
(* and one latched grace step.  The guard is a value owned by the agent    *)
(* loop, so it is a record `b' and operators on it, not a state machine of *)
(* its own.  The wall clock is the boolean `late' (elapsed() reached       *)
(* max_wallclock), which only ever turns TRUE.  Saturation of the u32/u64  *)
(* counters is left out: every count here is bounded by its cap plus one   *)
(* charge.                                                                 *)
(***************************************************************************)
EXTENDS Naturals

CONSTANTS
    MaxSteps,          \* max_steps, a NonZeroU32
    MaxTokens,         \* max_tokens, 0 = off
    MaxCents,          \* max_spend_cents, 0 stands for None
    SameActionCycles,  \* same_action_cycles, 0 = off
    ActionsPerTrial,   \* actions_per_trial, 0 = off
    MaxRefunds         \* max_refunds (the presets use max_steps / 4)

ASSUME BudgetAssumption ==
    /\ MaxSteps \in Nat \ {0}
    /\ MaxTokens \in Nat
    /\ MaxCents \in Nat
    /\ SameActionCycles \in Nat
    /\ ActionsPerTrial \in Nat
    /\ MaxRefunds \in Nat

BudgetRecord ==
    [steps: Nat, tokens: Nat, cents: Nat, refunds: Nat, streak: Nat,
     actions: Nat, late: BOOLEAN, grace: BOOLEAN]

ZeroBudget ==
    [steps |-> 0, tokens |-> 0, cents |-> 0, refunds |-> 0, streak |-> 0,
     actions |-> 0, late |-> FALSE, grace |-> FALSE]

Reached(count, cap) == cap > 0 /\ count >= cap

\* peek: the first tripped cap, in the guard's order.
Peek(b) ==
    IF b.steps >= MaxSteps THEN "steps"
    ELSE IF Reached(b.tokens, MaxTokens) THEN "tokens"
    ELSE IF b.late THEN "wallclock"
    ELSE IF Reached(b.cents, MaxCents) THEN "spend"
    ELSE IF Reached(b.streak, SameActionCycles) THEN "same-action"
    ELSE IF Reached(b.actions, ActionsPerTrial) THEN "trial-actions"
    ELSE "none"

Exceeded(b) == Peek(b) # "none"

\* may_step answers Ok below every cap, and once more while the grace step is unused.
MayStep(b) == ~Exceeded(b) \/ ~b.grace

\* A bug in which the goodbye step never latches.
GraceNeverLatches(b) == b

\* What an Ok of may_step leaves behind: the first exhaustion burns the grace latch.
AfterMayStep(b) == [b EXCEPT !.grace = @ \/ Exceeded(b)]

RecordStep(b) == [b EXCEPT !.steps = @ + 1]

\* refund_step: steps only, bounded by max_refunds, never below zero.
RefundStep(b) ==
    IF b.refunds < MaxRefunds /\ b.steps > 0
    THEN [b EXCEPT !.steps = @ - 1, !.refunds = @ + 1]
    ELSE b

\* record_tokens and record_spend_cents: a settle or a metered failure, never refunded.
Charge(b, bill) == [b EXCEPT !.tokens = @ + bill.tokens, !.cents = @ + bill.cents]

\* observe_action: the streak grows when signature and observation repeat the last ones.
ObserveAction(b, same) ==
    [b EXCEPT !.streak = IF same THEN @ + 1 ELSE 0, !.actions = @ + 1]

=============================================================================
