-------------------------- MODULE RetryLadderProofs --------------------------
(***************************************************************************)
(* Theorems about RetryLadder for every value of its constants.  Each of   *)
(* the ways an attempt may fail is an application of Failed, so one lemma  *)
(* about Failed carries most of the work: AttemptFails turns a step into   *)
(* a Failed, and FailedKeeps shows what a Failed preserves.                *)
(***************************************************************************)
EXTENDS RetryLadder, FiniteSetTheorems, TLAPS

\* While the call is busy the total is what was reported; afterwards the result carries it.
Metered ==
    /\ pc \in Busy => Known(acc) = reported
    /\ pc \in Busy \union {"dropped"} => result = [charged |-> 0, exhausted |-> FALSE]
    /\ pc \in {"answered", "failed"} => result.charged = reported

\* The shape to be sent has more room, or less thinking, than every shape that was cut.
Reshaped ==
    pc \in Busy =>
        \A s \in seen.truncated :
            s.tokens < knobs.tokens \/ (s.tokens = knobs.tokens /\ ~s.off /\ knobs.off)

\* The budget is the one asked for, or the ladder's, which has a ceiling.
RoomBounded == knobs.tokens <= seen.asked \/ knobs.tokens <= Ceiling

\* A wait follows an attempt.
Counted == pc = "backoff" => attempt > 0

\* Thinking is suppressed only where the endpoint can.
KnobThere == knobs.off => HasKnob

LadderInv ==
    TypeOK /\ AttemptsBounded /\ Metered /\ Reshaped /\ RoomBounded /\ Counted /\ KnobThere

-----------------------------------------------------------------------------

LEMMA NoneIsNoNat == None \notin Nat /\ None \in Int
  BY DEF None

\* merge_usage adds what is known, and never goes below zero.
LEMMA MergeAdds ==
    ASSUME NEW total \in Nat \union {None}, NEW usage \in Nat \union {None}
    PROVE  /\ MergeUsage(total, usage) \in Nat \union {None}
           /\ Known(MergeUsage(total, usage)) = Known(total) + Known(usage)
           /\ Known(usage) \in Nat
  BY DEF MergeUsage, Known, None

\* apply_ladder yields knobs with more room or, once, less thinking.
LEMMA ReshapeGrows ==
    ASSUME NEW k \in Knobs, NEW f \in FailRecord
    PROVE  /\ Reshape(k, f) \in Knobs
           /\ Reshape(k, f).tokens >= k.tokens
           /\ Reshape(k, f).tokens <= k.tokens \/ Reshape(k, f).tokens <= Ceiling
           /\ k.off => Reshape(k, f).off
           /\ CanReshape(k, f) =>
                \/ k.tokens < Reshape(k, f).tokens
                \/ k.tokens = Reshape(k, f).tokens /\ ~k.off /\ Reshape(k, f).off
  <1> USE LadderAssumption DEF Knobs
  <1>1. Raised(k.tokens) \in Int /\ Raised(k.tokens) <= Ceiling
    BY DEF Raised
  <1>2. CASE CanSuppress(k, f)
    <2>1. Reshape(k, f) = [tokens |-> k.tokens, off |-> TRUE]
      BY <1>2 DEF Reshape
    <2>2. ~k.off
      BY <1>2 DEF CanSuppress
    <2> QED
      BY <2>1, <2>2
  <1>3. CASE ~CanSuppress(k, f) /\ Raised(k.tokens) > k.tokens
    <2>1. Reshape(k, f) = [tokens |-> Raised(k.tokens), off |-> k.off]
      BY <1>3 DEF Reshape
    <2> QED
      BY <1>1, <1>3, <2>1
  <1>4. CASE ~CanSuppress(k, f) /\ ~(Raised(k.tokens) > k.tokens)
    BY <1>4 DEF Reshape, CanReshape
  <1> QED
    BY <1>2, <1>3, <1>4

\* What `once' can return is a well-formed failure, or the step is an answer.
LEMMA AttemptFails ==
    ASSUME Attempt
    PROVE  /\ pc = "sending"
           /\ \/ \E f \in FailRecord, usage \in Usages : Failed(f, usage)
              \/ \E usage \in Usages : Answered(usage)
  <1> USE LadderAssumption DEF FailRecord, OnceFail, Usages
  <1>1. ASSUME NoKey
        PROVE  \E f \in FailRecord, usage \in Usages : Failed(f, usage)
    <2> DEFINE f == OnceFail(FALSE, FALSE, None)
    <2>1. f \in FailRecord /\ None \in Usages
      OBVIOUS
    <2>2. Failed(f, None)
      BY <1>1 DEF NoKey
    <2> HIDE DEF f
    <2> QED
      BY <2>1, <2>2
  <1>2. ASSUME SendFails \/ NotJson
        PROVE  \E f \in FailRecord, usage \in Usages : Failed(f, usage)
    <2> DEFINE f == OnceFail(TRUE, ColdUrl, None)
    <2>1. f \in FailRecord /\ None \in Usages
      OBVIOUS
    <2>2. Failed(f, None)
      BY <1>2 DEF SendFails, NotJson
    <2> HIDE DEF f
    <2> QED
      BY <2>1, <2>2
  <1>3. ASSUME NEW text \in Texts, BadBody(text)
        PROVE  \E f \in FailRecord, usage \in Usages : Failed(f, usage)
    <2> DEFINE f == OnceFail(Retries(ClassifyMessage(text)), "503" \in text, None)
    <2>1. f \in FailRecord
      BY DEF Retries
    <2>2. Failed(f, None)
      BY <1>3 DEF BadBody
    <2> HIDE DEF f
    <2> QED
      BY <2>1, <2>2
  <1>4. ASSUME NEW text \in Texts, NEW after \in Asks, NEW usage \in Usages,
               AuthRefused(text, after, usage)
        PROVE  \E f \in FailRecord, u \in Usages : Failed(f, u)
    <2> DEFINE stale == Refreshable /\ "stale" \in text
               f == OnceFail(stale, "503" \in text, IF stale THEN after ELSE None)
    <2>1. f \in FailRecord
      OBVIOUS
    <2>2. Failed(f, usage)
      BY <1>4 DEF AuthRefused
    <2> HIDE DEF f
    <2> QED
      BY <2>1, <2>2
  <1>5. ASSUME NEW text \in Texts, NEW after \in Asks, NEW usage \in Usages,
               NEW status \in {"busy", "cold", "other"}, StatusFails(status, text, after, usage)
        PROVE  \E f \in FailRecord, u \in Usages : Failed(f, u)
    <2> DEFINE f == OnceFail(Retries(ClassifyHttp(status, text)),
                             status = "cold" \/ "503" \in text, after)
    <2>1. f \in FailRecord
      BY DEF Retries
    <2>2. Failed(f, usage)
      BY <1>5 DEF StatusFails
    <2> HIDE DEF f
    <2> QED
      BY <2>1, <2>2
  <1>6. ASSUME NEW body \in Bodies, NEW usage \in Usages, BodyArrives(body, usage)
        PROVE  \/ \E f \in FailRecord, u \in Usages : Failed(f, u)
               \/ \E u \in Usages : Answered(u)
    <2>1. CASE EmptyBody(usage)
      BY <2>1 DEF EmptyBody
    <2>2. CASE TruncatedBody(body, usage)
      <3> DEFINE f == Truncation(body.text, body.reasoning)
      <3>1. f \in FailRecord
        BY DEF Truncation, Bodies
      <3>2. Failed(f, usage)
        BY <2>2 DEF TruncatedBody
      <3> HIDE DEF f
      <3> QED
        BY <3>1, <3>2
    <2>3. CASE Answered(usage)
      BY <2>3
    <2> QED
      BY <1>6, <2>1, <2>2, <2>3 DEF BodyArrives
  <1> QED
    BY <1>1, <1>2, <1>3, <1>4, <1>5, <1>6 DEF Attempt

\* A failed attempt keeps every part of the invariant.
LEMMA FailedKeeps ==
    ASSUME LadderInv, NEW f \in FailRecord, NEW usage \in Usages,
           pc = "sending", Failed(f, usage)
    PROVE  LadderInv'
  <1> USE DEF LadderInv
  <1> DEFINE Cut == f.truncated
             On == GoesOn(f)
  <1>1. usage \in Nat \union {None} /\ Known(usage) \in Nat
    BY LadderAssumption DEF Usages, Known
  <1>2. /\ pc = "sending" /\ pc \in Busy
        /\ pc' \in {"backoff", "failed"}
        /\ On => pc' = "backoff" /\ attempt' = attempt + 1 /\ result' = result
        /\ ~On => pc' = "failed" /\ attempt' = attempt
                  /\ result' = [charged |-> Known(acc'), exhausted |-> f.retryable]
    BY DEF Failed, GiveUp, Busy
  <1>3. acc' \in Nat \union {None} /\ Known(acc') = Known(acc) + Known(usage) /\ Known(acc') \in Nat
    BY <1>1, MergeAdds DEF Failed, TypeOK, Known
  <1>4. /\ knobs' \in Knobs
        /\ knobs'.tokens >= knobs.tokens
        /\ knobs'.tokens <= knobs.tokens \/ knobs'.tokens <= Ceiling
        /\ knobs.off => knobs'.off
        /\ Cut /\ On => \/ knobs.tokens < knobs'.tokens
                        \/ knobs.tokens = knobs'.tokens /\ ~knobs.off /\ knobs'.off
    <2>1. CASE Cut
      <3>1. knobs' = Reshape(knobs, f) /\ knobs \in Knobs
        BY <2>1 DEF Failed, TypeOK
      <3>2. On => CanReshape(knobs, f)
        BY <2>1 DEF GoesOn
      <3> QED
        BY <3>1, <3>2, ReshapeGrows
    <2>2. CASE ~Cut
      <3>1. knobs' = knobs /\ knobs \in Knobs
        BY <2>2 DEF Failed, TypeOK
      <3> QED
        BY <2>2, <3>1 DEF Knobs
    <2> QED
      BY <2>1, <2>2
  <1>5. /\ seen'.truncated = IF Cut THEN seen.truncated \union {knobs} ELSE seen.truncated
        /\ seen'.rungs = IF Cut /\ On THEN seen.rungs + 1 ELSE seen.rungs
        /\ seen'.asked = seen.asked
        /\ seen' = [truncated |-> seen'.truncated, rungs |-> seen'.rungs, asked |-> seen'.asked]
    BY DEF Failed, TypeOK
  <1>6. seen' \in [truncated: SUBSET Knobs, rungs: Nat, asked: Nat \ {0}]
    <2>1. seen'.truncated \in SUBSET Knobs /\ seen'.asked \in Nat \ {0}
      BY <1>5 DEF TypeOK
    <2>2. seen'.rungs \in Nat
      BY <1>5 DEF TypeOK
    <2> QED
      BY <1>5, <2>1, <2>2
  <1>7. TypeOK'
    <2>1. pc' \in Busy \union {"answered", "failed", "dropped"}
      BY <1>2 DEF Busy
    <2>2. attempt' \in Nat
      BY <1>2 DEF TypeOK
    <2>3. result' \in [charged: Nat, exhausted: BOOLEAN]
      BY <1>2, <1>3 DEF TypeOK, FailRecord
    <2>4. last' \in FailRecord /\ delay' \in Nat /\ reported' \in Nat
      BY <1>1 DEF Failed, TypeOK
    <2> QED
      BY <1>3, <1>4, <1>6, <2>1, <2>2, <2>3, <2>4 DEF TypeOK
  <1>8. AttemptsBounded'
    <2>1. CASE Cut
      BY <1>2, <1>5, <2>1 DEF AttemptsBounded, TypeOK, ColdCap
    <2>2. CASE ~Cut
      <3>1. On => attempt < ColdCap
        BY <2>2 DEF GoesOn, ColdCap, ShortCap, TypeOK
      <3> QED
        BY <1>2, <1>5, <2>2, <3>1 DEF AttemptsBounded, TypeOK, ColdCap
    <2> QED
      BY <2>1, <2>2
  <1>9. Metered'
    <2>1. reported' = reported + Known(usage) /\ Known(acc) = reported
      BY <1>2 DEF Failed, Metered
    <2>2. Known(acc)' = reported'
      BY <1>3, <2>1 DEF Known
    <2>3. CASE On
      BY <1>2, <2>2, <2>3 DEF Metered
    <2>4. CASE ~On
      BY <1>2, <1>3, <2>1, <2>4 DEF Metered, Busy
    <2> QED
      BY <2>3, <2>4
  <1>10. Reshaped'
    <2> SUFFICES ASSUME pc' \in Busy, NEW s \in seen'.truncated
                 PROVE  \/ s.tokens < knobs'.tokens
                        \/ s.tokens = knobs'.tokens /\ ~s.off /\ knobs'.off
      BY DEF Reshaped
    <2>0. On
      BY <1>2 DEF Busy
    <2>1. CASE s \in seen.truncated
      <3>1. \/ s.tokens < knobs.tokens
            \/ s.tokens = knobs.tokens /\ ~s.off /\ knobs.off
        BY <1>2, <2>1 DEF Reshaped
      <3>2. s.tokens \in Nat /\ knobs.tokens \in Nat /\ knobs'.tokens \in Nat
        BY <1>4, <2>1 DEF TypeOK, Knobs
      <3> QED
        BY <1>4, <3>1, <3>2
    <2>2. CASE s \notin seen.truncated
      <3>1. Cut /\ s = knobs
        BY <1>5, <2>2
      <3> QED
        BY <1>4, <2>0, <3>1
    <2> QED
      BY <2>1, <2>2
  <1>11. RoomBounded'
    BY <1>4, <1>5, LadderAssumption DEF RoomBounded, TypeOK, Knobs
  <1>12. Counted'
    BY <1>2 DEF Counted, TypeOK
  <1>13. KnobThere'
    BY DEF KnobThere, Failed, Reshape, CanSuppress, TypeOK, Knobs
  <1> QED
    BY <1>7, <1>8, <1>9, <1>10, <1>11, <1>12, <1>13

LEMMA AnsweredKeeps ==
    ASSUME LadderInv, NEW usage \in Usages, pc = "sending", Answered(usage)
    PROVE  LadderInv'
  <1> USE DEF LadderInv
  <1>1. Known(usage) \in Nat /\ Known(acc) \in Nat
    BY LadderAssumption DEF Usages, Known, TypeOK
  <1>2. TypeOK'
    BY <1>1 DEF Answered, TypeOK, Busy
  <1>3. Metered'
    BY <1>1 DEF Answered, Metered, Busy
  <1> QED
    BY <1>2, <1>3 DEF Answered, AttemptsBounded, Reshaped, RoomBounded, KnobThere, Counted, Busy

\* Waiting, giving up over a long ask, and the caller's drop.
LEMMA WaitingKeeps ==
    ASSUME LadderInv, RefuseLongAsk \/ Sleep \/ Wake \/ Dropped
    PROVE  LadderInv'
  <1> USE DEF LadderInv
  <1>1. attempt > 0 => BackoffDelay(attempt) \in Nat
    <2> DEFINE n == IF attempt < 10 THEN attempt ELSE 10
               rungs == <<2, 4, 8, 16, 32, 64, 128, 256, 512, 1024>>
    <2>1. attempt > 0 => n \in 1..10
      BY DEF TypeOK
    <2>2. \A i \in 1..10 : rungs[i] \in Nat
      OBVIOUS
    <2> QED
      BY <2>1, <2>2 DEF BackoffDelay
  <1>2. CASE RefuseLongAsk
    <2>1. Known(acc) \in Nat /\ last.retryable \in BOOLEAN
      BY DEF TypeOK, Known, FailRecord
    <2>2. TypeOK'
      BY <1>2, <2>1 DEF RefuseLongAsk, GiveUp, TypeOK, Busy
    <2>3. Metered'
      BY <1>2, <2>1 DEF RefuseLongAsk, GiveUp, Metered, Busy
    <2> QED
      BY <1>2, <2>2, <2>3
      DEF RefuseLongAsk, GiveUp, AttemptsBounded, Reshaped, RoomBounded, KnobThere, Counted, Busy
  <1>3. CASE Sleep
    <2>1. delay' \in Nat
      BY <1>1, <1>3 DEF Sleep, TypeOK, FailRecord, None, Counted
    <2> QED
      BY <1>3, <2>1
      DEF Sleep, TypeOK, AttemptsBounded, Metered, Reshaped, RoomBounded, KnobThere, Counted, Busy
  <1>4. CASE Wake
    BY <1>4 DEF Wake, TypeOK, AttemptsBounded, Metered, Reshaped, RoomBounded, KnobThere, Counted, Busy
  <1>5. CASE Dropped
    BY <1>5
    DEF Dropped, TypeOK, AttemptsBounded, Metered, Reshaped, RoomBounded, KnobThere, Counted, Busy
  <1> QED
    BY <1>2, <1>3, <1>4, <1>5

LEMMA InitEstablishes == Init => LadderInv
  <1> SUFFICES ASSUME Init PROVE LadderInv
    OBVIOUS
  <1>1. knobs \in Knobs /\ knobs.tokens \in Nat \ {0}
    BY LadderAssumption DEF Init, Knobs
  <1>2. TypeOK
    BY <1>1 DEF Init, TypeOK, Busy, OnceFail, FailRecord
  <1>3. KnobThere
    <2>1. PICK r \in Requests : knobs = [tokens |-> r.tokens, off |-> r.off /\ HasKnob]
      BY DEF Init
    <2> QED
      BY <2>1 DEF KnobThere
  <1> QED
    BY <1>1, <1>2, <1>3
    DEF Init, LadderInv, AttemptsBounded, ColdCap, Metered, Known, Reshaped, RoomBounded, Counted, Busy

LEMMA StepKeeps == LadderInv /\ [Next]_vars => LadderInv'
  <1> SUFFICES ASSUME LadderInv, [Next]_vars PROVE LadderInv'
    OBVIOUS
  <1>1. CASE Attempt
    BY <1>1, AttemptFails, FailedKeeps, AnsweredKeeps
  <1>2. CASE RefuseLongAsk \/ Sleep \/ Wake \/ Dropped
    BY <1>2, WaitingKeeps
  <1>3. CASE UNCHANGED vars
    BY <1>3
    DEF LadderInv, TypeOK, AttemptsBounded, Metered, Reshaped, RoomBounded, KnobThere, Counted, Busy,
        Known, vars
  <1> QED
    BY <1>1, <1>2, <1>3 DEF Next, Step, Settled

-----------------------------------------------------------------------------

\* The invariant holds in every state a call can reach, whatever the endpoint answers.
THEOREM LadderInvariant == Spec => []LadderInv
  <1>1. Init => LadderInv
    BY InitEstablishes
  <1>2. LadderInv /\ [Next]_vars => LadderInv'
    BY StepKeeps
  <1> QED
    BY <1>1, <1>2, PTL DEF Spec

\* The variables keep their types (client.rs complete, retry.rs).
THEOREM LadderTyped == Spec => []TypeOK
  <1>1. LadderInv => TypeOK
    BY DEF LadderInv
  <1> QED
    BY <1>1, LadderInvariant, PTL

\* Whatever mix of failures the endpoint sends, a call is eight attempts and its rungs.
THEOREM LadderAttemptsBounded == Spec => []AttemptsBounded
  <1>1. LadderInv => AttemptsBounded
    BY DEF LadderInv
  <1> QED
    BY <1>1, LadderInvariant, PTL

\* No shape that came back truncated is sent again, for every ceiling and every request.
THEOREM LadderNeverRepeatsTruncation == Spec => []TruncatedShapeNotResent
  <1>1. LadderInv => TruncatedShapeNotResent
    <2> SUFFICES ASSUME LadderInv, pc \in Busy, NEW s \in seen.truncated
                 PROVE  WireBody(s) # WireBody(knobs)
      BY DEF TruncatedShapeNotResent
    <2>1. s.tokens \in Nat /\ knobs.tokens \in Nat
      BY DEF LadderInv, TypeOK, Knobs
    <2>2. \/ s.tokens < knobs.tokens
          \/ ~s.off /\ knobs.off /\ HasKnob
      BY DEF LadderInv, Reshaped, KnobThere
    <2>3. /\ WireBody(s).max_tokens = s.tokens /\ WireBody(knobs).max_tokens = knobs.tokens
          /\ WireBody(s).thinking = ~(s.off /\ HasKnob)
          /\ WireBody(knobs).thinking = ~(knobs.off /\ HasKnob)
      BY DEF WireBody
    <2>4. CASE s.tokens < knobs.tokens
      BY <2>1, <2>3, <2>4
    <2>5. CASE ~s.off /\ knobs.off /\ HasKnob
      BY <2>3, <2>5
    <2> QED
      BY <2>2, <2>4, <2>5
  <1> QED
    BY <1>1, LadderInvariant, PTL

\* A step of the ladder is a step of ProviderCall or leaves it alone.
LEMMA StepRefines == LadderInv /\ [Next]_vars => [Call!CallNext]_Call!callVars
  <1> SUFFICES ASSUME LadderInv, [Next]_vars PROVE [Call!CallNext]_Call!callVars
    OBVIOUS
  <1> USE DEF Call!CallNext, Call!callVars, Call!Settle
  <1>1. ASSUME NEW f \in FailRecord, NEW usage \in Usages,
               pc = "sending", Failed(f, usage)
        PROVE  Call!CallNext
    <2>1. Known(usage) \in Bills
      BY LadderAssumption DEF Usages, Known
    <2>2. /\ pc = "sending" /\ reported' = reported + Known(usage)
          /\ result = [charged |-> 0, exhausted |-> FALSE]
      BY <1>1 DEF Failed, LadderInv, Metered, Busy
    <2>3. CASE GoesOn(f)
      <3>1. Call!Report(Known(usage))
        BY <1>1, <2>2, <2>3 DEF Failed, Call!Report, Busy
      <3> QED
        BY <2>1, <3>1
    <2>4. CASE ~GoesOn(f)
      <3>1. LadderInv'
        BY <1>1, FailedKeeps
      <3>2. pc' = "failed" /\ result'.charged = reported'
        BY <1>1, <2>4, <3>1 DEF Failed, GiveUp, LadderInv, Metered
      <3>3. result'.exhausted \in BOOLEAN
        BY <3>1 DEF LadderInv, TypeOK
      <3>4. Call!Fail(Known(usage))
        BY <2>2, <3>2, <3>3 DEF Call!Fail, Busy
      <3> QED
        BY <2>1, <3>4
    <2> QED
      BY <2>3, <2>4
  <1>2. ASSUME NEW usage \in Usages, pc = "sending", Answered(usage)
        PROVE  Call!CallNext
    <2>1. Known(usage) \in Bills
      BY LadderAssumption DEF Usages, Known
    <2>2. LadderInv'
      BY <1>2, AnsweredKeeps
    <2>3. Call!Answer(Known(usage))
      <3>1. /\ pc = "sending" /\ pc' = "answered"
            /\ reported' = reported + Known(usage)
            /\ result'.exhausted = FALSE
        BY <1>2 DEF Answered
      <3>2. result'.charged = reported'
        BY <2>2, <3>1 DEF LadderInv, Metered
      <3>3. result.exhausted = FALSE
        BY <3>1 DEF LadderInv, Metered, Busy
      <3> QED
        BY <3>1, <3>2, <3>3 DEF Call!Answer, Busy
    <2> QED
      BY <2>1, <2>3
  <1>3. CASE RefuseLongAsk
    <2>1. LadderInv'
      BY <1>3, WaitingKeeps
    <2>2. result'.exhausted \in BOOLEAN /\ result'.charged = reported' /\ reported' \in Nat
      BY <1>3, <2>1 DEF RefuseLongAsk, GiveUp, LadderInv, TypeOK, Metered
    <2>3. Call!Fail(0)
      BY <1>3, <2>2 DEF RefuseLongAsk, GiveUp, Call!Fail, Busy
    <2> QED
      BY <2>3, LadderAssumption
  <1>4. CASE Sleep \/ Wake
    BY <1>4 DEF Sleep, Wake, Busy
  <1>5. CASE Dropped
    BY <1>5 DEF Dropped, Call!DropCall, Busy
  <1>6. CASE UNCHANGED vars
    BY <1>6 DEF vars, Busy
  <1>7. CASE Attempt
    BY <1>1, <1>2, <1>7, AttemptFails
  <1> QED
    BY <1>3, <1>4, <1>5, <1>6, <1>7 DEF Next, Step, Settled

\* Every behaviour of the ladder is one of ProviderCall, liveness apart: it settles at most
\* once, and then with every token that was reported.
THEOREM LadderImplementsCall == Spec => Call!CallSafety
  <1>1. Init => Call!CallInit
    BY DEF Init, Call!CallInit, Busy
  <1>2. LadderInv /\ [Next]_vars => [Call!CallNext]_Call!callVars
    BY StepRefines
  <1> QED
    BY <1>1, <1>2, LadderInvariant, PTL DEF Spec, Call!CallSafety

-----------------------------------------------------------------------------
(* How high the ladder is.  Its bound is a power of two, so the recursion  *)
(* that defines TwoTo comes first: induction over a set of naturals, the   *)
(* initial segments of the function, and the function they add up to.      *)

\* A set that holds 0 and the successor of each of its members holds every natural number.
LEMMA SetInduction ==
    ASSUME NEW S, 0 \in S, \A n \in Nat : n \in S => n + 1 \in S
    PROVE  Nat \subseteq S
  <1> SUFFICES ASSUME NEW m \in Nat, m \notin S PROVE FALSE
    OBVIOUS
  <1> DEFINE A == (0..m) \intersect S
             B == A \ {0}
             g == [n \in A |-> n + 1]
  <1>1. 0 \in A /\ \A n \in A : n \in Nat /\ n + 1 \in B
    OBVIOUS
  <1>2. IsFiniteSet(A)
    <2>1. IsFiniteSet(0..m) /\ A \subseteq 0..m
      BY FS_Interval
    <2> QED
      BY <2>1, FS_Subset
  <1>3. g \in [A -> B] /\ \A n \in A : g[n] = n + 1
    BY <1>1
  <1> HIDE DEF A, g
  <1>4. IsFiniteSet(B) /\ Cardinality(B) < Cardinality(A)
    <2>1. IsFiniteSet(B) /\ Cardinality(B) = Cardinality(A) - 1 /\ Cardinality(A) \in Nat
      BY <1>1, <1>2, FS_RemoveElement, FS_CardinalityType
    <2> QED
      BY <2>1
  <1> HIDE DEF B
  <1>5. PICK n \in A, k \in A : n # k /\ g[n] = g[k]
    BY <1>2, <1>3, <1>4, FS_PigeonHole
  <1> QED
    BY <1>1, <1>3, <1>5

\* The powers of two up to the m-th.
Doubles(g, m) ==
    /\ g \in [0..m -> Nat \ {0}]
    /\ g[0] = 1
    /\ \A k \in 1..m : g[k] = 2 * g[k - 1]

LEMMA DoublesExist == \A m \in Nat : \E g : Doubles(g, m)
  <1> DEFINE S == {m \in Nat : \E g : Doubles(g, m)}
  <1>1. 0 \in S
    <2>1. Doubles([k \in 0..0 |-> 1], 0)
      BY DEF Doubles
    <2> QED
      BY <2>1
  <1>2. ASSUME NEW m \in Nat, m \in S PROVE m + 1 \in S
    <2>1. PICK g : Doubles(g, m)
      BY <1>2
    <2> DEFINE h == [k \in 0..(m + 1) |-> IF k = m + 1 THEN 2 * g[m] ELSE g[k]]
    <2>2. /\ h[m + 1] = 2 * g[m]
          /\ \A k \in 0..m : h[k] = g[k] /\ g[k] \in Nat \ {0}
      BY <2>1 DEF Doubles
    <2>3. DOMAIN h = 0..(m + 1) /\ h = [k \in 0..(m + 1) |-> h[k]]
      OBVIOUS
    <2> HIDE DEF h
    <2>4. ASSUME NEW k \in 0..(m + 1) PROVE h[k] \in Nat \ {0}
      <3>1. m \in 0..m /\ (k \in 0..m \/ k = m + 1)
        OBVIOUS
      <3>2. g[m] \in Nat \ {0}
        BY <2>2, <3>1
      <3> QED
        BY <2>2, <3>1, <3>2
    <2>5. h \in [0..(m + 1) -> Nat \ {0}]
      BY <2>3, <2>4
    <2>6. h[0] = 1
      BY <2>1, <2>2 DEF Doubles
    <2>7. ASSUME NEW k \in 1..(m + 1) PROVE h[k] = 2 * h[k - 1]
      <3>1. CASE k = m + 1
        <4>1. k - 1 = m /\ m \in 0..m
          BY <3>1
        <4> QED
          BY <2>2, <3>1, <4>1
      <3>2. CASE k # m + 1
        <4>1. k \in 1..m /\ k \in 0..m /\ k - 1 \in 0..m
          BY <3>2
        <4> QED
          BY <2>1, <2>2, <4>1 DEF Doubles
      <3> QED
        BY <3>1, <3>2
    <2>8. Doubles(h, m + 1)
      BY <2>5, <2>6, <2>7 DEF Doubles
    <2> QED
      BY <2>8
  <1>3. Nat \subseteq S
    <2> HIDE DEF S
    <2> QED
      BY <1>1, <1>2, SetInduction
  <1> QED
    BY <1>3

\* Two segments agree where both are defined.
LEMMA DoublesAgree ==
    ASSUME NEW m \in Nat, NEW n \in Nat, NEW g, NEW h, Doubles(g, m), Doubles(h, n)
    PROVE  \A k \in 0..m : k <= n => g[k] = h[k]
  <1> DEFINE S == {k \in Nat : k <= m /\ k <= n => g[k] = h[k]}
  <1>1. 0 \in S
    BY DEF Doubles
  <1>2. ASSUME NEW k \in Nat, k \in S PROVE k + 1 \in S
    <2> SUFFICES ASSUME k + 1 <= m, k + 1 <= n PROVE g[k + 1] = h[k + 1]
      OBVIOUS
    <2>1. g[k] = h[k]
      BY <1>2
    <2>2. k + 1 \in 1..m /\ k + 1 \in 1..n /\ (k + 1) - 1 = k
      OBVIOUS
    <2> QED
      BY <2>1, <2>2 DEF Doubles
  <1>3. Nat \subseteq S
    <2> HIDE DEF S
    <2> QED
      BY <1>1, <1>2, SetInduction
  <1> QED
    BY <1>3

\* The recursion has a solution, so TwoTo satisfies it.
LEMMA TwoToRecursion ==
    /\ TwoTo = [n \in Nat |-> IF n = 0 THEN 1 ELSE 2 * TwoTo[n - 1]]
    /\ TwoTo[0] = 1
    /\ \A n \in Nat : TwoTo[n + 1] = 2 * TwoTo[n]
  <1> DEFINE Segment(m) == CHOOSE g : Doubles(g, m)
             f == [n \in Nat |-> Segment(n)[n]]
  <1>1. ASSUME NEW m \in Nat PROVE Doubles(Segment(m), m)
    BY DoublesExist
  <1> HIDE DEF Segment
  <1>2. ASSUME NEW n \in Nat PROVE f[n] = IF n = 0 THEN 1 ELSE 2 * f[n - 1]
    <2>1. CASE n = 0
      <3>1. Segment(0)[0] = 1
        BY <1>1 DEF Doubles
      <3> QED
        BY <2>1, <3>1
    <2>2. CASE n # 0
      <3>1. n - 1 \in Nat /\ n \in 1..n /\ n - 1 \in 0..(n - 1) /\ n - 1 <= n
        BY <2>2
      <3>2. Segment(n)[n] = 2 * Segment(n)[n - 1]
        <4>1. Doubles(Segment(n), n)
          BY <1>1
        <4> QED
          BY <3>1, <4>1 DEF Doubles
      <3>3. Segment(n - 1)[n - 1] = Segment(n)[n - 1]
        BY <1>1, <3>1, DoublesAgree
      <3>4. f[n] = Segment(n)[n] /\ f[n - 1] = Segment(n - 1)[n - 1]
        BY <3>1
      <3> QED
        BY <2>2, <3>2, <3>3, <3>4
    <2> QED
      BY <2>1, <2>2
  <1>3. f = [n \in Nat |-> IF n = 0 THEN 1 ELSE 2 * f[n - 1]]
    <2>1. f = [n \in Nat |-> f[n]]
      OBVIOUS
    <2> HIDE DEF f
    <2> QED
      BY <1>2, <2>1
  <1> HIDE DEF f
  <1>4. TwoTo = [n \in Nat |-> IF n = 0 THEN 1 ELSE 2 * TwoTo[n - 1]]
    BY <1>3 DEF TwoTo
  <1>5. ASSUME NEW n \in Nat PROVE TwoTo[n] = IF n = 0 THEN 1 ELSE 2 * TwoTo[n - 1]
    BY <1>4
  <1>6. TwoTo[0] = 1
    BY <1>5
  <1>7. ASSUME NEW n \in Nat PROVE TwoTo[n + 1] = 2 * TwoTo[n]
    <2>1. n + 1 \in Nat /\ n + 1 # 0 /\ (n + 1) - 1 = n
      OBVIOUS
    <2> QED
      BY <1>5, <2>1
  <1> QED
    BY <1>4, <1>6, <1>7

LEMMA TwoToPositive == \A n \in Nat : TwoTo[n] \in Nat \ {0}
  <1> DEFINE S == {n \in Nat : TwoTo[n] \in Nat \ {0}}
  <1>1. 0 \in S
    BY TwoToRecursion
  <1>2. ASSUME NEW n \in Nat, n \in S PROVE n + 1 \in S
    <2>1. TwoTo[n + 1] = 2 * TwoTo[n]
      BY TwoToRecursion
    <2> QED
      BY <1>2, <2>1
  <1>3. Nat \subseteq S
    <2> HIDE DEF S
    <2> QED
      BY <1>1, <1>2, SetInduction
  <1> QED
    BY <1>3

\* A bound below the ceiling doubles to a budget the ladder still reaches.
LEMMA DoubleRoom ==
    ASSUME NEW a \in Nat, NEW b \in Nat, NEW t \in Nat, t >= a * b
    PROVE  2 * t >= a * (2 * b) /\ a * b \in Nat /\ a * (2 * b) \in Nat
  <1>1. a * b \in Nat /\ a * (2 * b) = 2 * (a * b)
    OBVIOUS
  <1> DEFINE p == a * b
  <1>2. 2 * t >= 2 * p
    <2> HIDE DEF p
    <2>1. p \in Nat /\ t >= p
      BY <1>1 DEF p
    <2> QED
      BY <2>1
  <1> QED
    BY <1>1, <1>2

\* After d doublings the budget holds 2^d times the tokens asked for, or has met the ceiling;
\* and the doubling before the last one had not.
Doubled(d) ==
    /\ knobs.tokens >= Ceiling \/ knobs.tokens >= seen.asked * TwoTo[d]
    /\ \A e \in Nat : e + 1 = d => seen.asked * TwoTo[e] < Ceiling

\* Every rung is a doubling, but for the one that switched thinking off.
Climbed ==
    \/ Doubled(seen.rungs)
    \/ knobs.off /\ (\E d \in Nat : seen.rungs = d + 1 /\ Doubled(d))

\* A doubling: the budget was below the ceiling, and now holds twice as much or has met it.
LEMMA DoublingClimbs ==
    ASSUME LadderInv, NEW d \in Nat, Doubled(d),
           Raised(knobs.tokens) > knobs.tokens, knobs'.tokens = Raised(knobs.tokens),
           seen'.asked = seen.asked
    PROVE  Doubled(d + 1)'
  <1>1. /\ knobs.tokens \in Nat /\ seen.asked \in Nat /\ Ceiling \in Nat
        /\ TwoTo[d] \in Nat /\ TwoTo[d + 1] = 2 * TwoTo[d]
    BY LadderAssumption, TwoToPositive, TwoToRecursion DEF LadderInv, TypeOK, Knobs
  <1>2. knobs.tokens < Ceiling
    BY <1>1 DEF Raised
  <1>3. knobs.tokens >= seen.asked * TwoTo[d]
    BY <1>1, <1>2 DEF Doubled
  <1>4. /\ 2 * knobs.tokens >= seen.asked * (2 * TwoTo[d])
        /\ seen.asked * TwoTo[d] \in Nat
    BY <1>1, <1>3, DoubleRoom
  <1>5. seen.asked * TwoTo[d] < Ceiling
    BY <1>1, <1>2, <1>3, <1>4
  <1>6. knobs'.tokens >= Ceiling \/ knobs'.tokens >= seen'.asked * TwoTo[d + 1]
    BY <1>1, <1>4 DEF Raised
  <1>7. ASSUME NEW e \in Nat, e + 1 = d + 1 PROVE seen'.asked * TwoTo[e] < Ceiling
    <2>1. e = d
      BY <1>7
    <2> QED
      BY <1>5, <2>1
  <1> QED
    BY <1>6, <1>7 DEF Doubled

\* More room, or as much, changes nothing.
LEMMA RoomKept ==
    ASSUME LadderInv, NEW d \in Nat, Doubled(d),
           knobs' \in Knobs, knobs'.tokens >= knobs.tokens, seen'.asked = seen.asked
    PROVE  Doubled(d)'
  <1>1. /\ knobs.tokens \in Nat /\ knobs'.tokens \in Nat /\ Ceiling \in Nat
        /\ seen.asked \in Nat /\ TwoTo[d] \in Nat
    BY LadderAssumption, TwoToPositive DEF LadderInv, TypeOK, Knobs
  <1> DEFINE p == seen.asked * TwoTo[d]
  <1>2. p \in Nat
    BY <1>1
  <1>3. knobs'.tokens >= Ceiling \/ knobs'.tokens >= p
    <2>1. knobs.tokens >= Ceiling \/ knobs.tokens >= p
      BY DEF Doubled
    <2> HIDE DEF p
    <2> QED
      BY <1>1, <1>2, <2>1
  <1> QED
    BY <1>3 DEF Doubled

\* A failed attempt climbs one rung, or none.
LEMMA FailedClimbs ==
    ASSUME LadderInv, Climbed, NEW f \in FailRecord, NEW usage \in Usages,
           pc = "sending", Failed(f, usage)
    PROVE  Climbed'
  <1>1. /\ knobs \in Knobs /\ seen.rungs \in Nat
        /\ knobs' = IF f.truncated THEN Reshape(knobs, f) ELSE knobs
        /\ seen'.asked = seen.asked
        /\ seen'.rungs = IF f.truncated /\ GoesOn(f) THEN seen.rungs + 1 ELSE seen.rungs
    BY DEF Failed, LadderInv, TypeOK
  <1>2. /\ knobs' \in Knobs
        /\ knobs'.tokens >= knobs.tokens
        /\ knobs.off => knobs'.off
    <2>1. CASE f.truncated
      <3>1. knobs' = Reshape(knobs, f)
        BY <1>1, <2>1
      <3> QED
        BY <1>1, <3>1, ReshapeGrows
    <2>2. CASE ~f.truncated
      <3>1. knobs' = knobs /\ knobs.tokens \in Int
        BY <1>1, <2>2 DEF Knobs
      <3> QED
        BY <1>1, <3>1
    <2> QED
      BY <2>1, <2>2
  <1>3. ASSUME NEW d \in Nat, Doubled(d) PROVE Doubled(d)'
    BY <1>1, <1>2, <1>3, RoomKept
  <1>4. CASE ~(f.truncated /\ GoesOn(f))
    <2>1. seen'.rungs = seen.rungs
      BY <1>1, <1>4
    <2>2. CASE Doubled(seen.rungs)
      <3>1. PICK d \in Nat : d = seen.rungs
        BY <1>1
      <3>2. Doubled(d)'
        BY <1>3, <2>2, <3>1
      <3> QED
        BY <2>1, <3>1, <3>2 DEF Climbed, Doubled
    <2>3. CASE knobs.off /\ (\E d \in Nat : seen.rungs = d + 1 /\ Doubled(d))
      <3>1. PICK d \in Nat : seen.rungs = d + 1 /\ Doubled(d)
        BY <2>3
      <3>2. Doubled(d)'
        BY <1>3, <3>1
      <3> QED
        BY <1>2, <2>1, <2>3, <3>1, <3>2 DEF Climbed
    <2> QED
      BY <2>2, <2>3 DEF Climbed
  <1>5. CASE f.truncated /\ GoesOn(f) /\ CanSuppress(knobs, f)
    <2>1. knobs' = [knobs EXCEPT !.off = TRUE] /\ ~knobs.off
      BY <1>1, <1>5 DEF Reshape, CanSuppress
    <2>2. knobs'.off
      BY <1>1, <2>1 DEF Knobs
    <2>3. PICK d \in Nat : d = seen.rungs
      BY <1>1
    <2>4. Doubled(d)
      BY <2>1, <2>3 DEF Climbed
    <2>5. Doubled(d)'
      BY <1>3, <2>4
    <2>6. seen'.rungs = d + 1
      BY <1>1, <1>5, <2>3
    <2> QED
      BY <2>2, <2>5, <2>6 DEF Climbed
  <1>6. CASE f.truncated /\ GoesOn(f) /\ ~CanSuppress(knobs, f)
    <2>1. Raised(knobs.tokens) > knobs.tokens
      BY <1>6 DEF GoesOn, CanReshape
    <2>2. knobs'.tokens = Raised(knobs.tokens) /\ knobs'.off = knobs.off
      BY <1>1, <1>6, <2>1 DEF Reshape, Knobs
    <2>3. seen'.rungs = seen.rungs + 1
      BY <1>1, <1>6
    <2>4. CASE Doubled(seen.rungs)
      <3>1. PICK d \in Nat : d = seen.rungs
        BY <1>1
      <3>2. Doubled(d + 1)'
        BY <1>1, <2>1, <2>2, <2>4, <3>1, DoublingClimbs
      <3> QED
        BY <2>3, <3>1, <3>2 DEF Climbed, Doubled
    <2>5. CASE knobs.off /\ (\E d \in Nat : seen.rungs = d + 1 /\ Doubled(d))
      <3>1. PICK d \in Nat : seen.rungs = d + 1 /\ Doubled(d)
        BY <2>5
      <3>2. Doubled(d + 1)'
        BY <1>1, <2>1, <2>2, <3>1, DoublingClimbs
      <3>3. d + 1 \in Nat /\ seen'.rungs = (d + 1) + 1 /\ knobs'.off
        BY <2>2, <2>3, <2>5, <3>1
      <3> QED
        BY <3>2, <3>3 DEF Climbed
    <2> QED
      BY <2>4, <2>5 DEF Climbed
  <1> QED
    BY <1>4, <1>5, <1>6

\* Only a failed attempt moves the knobs or the rungs.
LEMMA StepClimbs == LadderInv /\ Climbed /\ [Next]_vars => Climbed'
  <1> SUFFICES ASSUME LadderInv, Climbed, [Next]_vars PROVE Climbed'
    OBVIOUS
  <1>1. ASSUME knobs' = knobs, seen' = seen PROVE Climbed'
    BY <1>1 DEF Climbed, Doubled
  <1>2. CASE Attempt
    <2>1. ASSUME NEW usage \in Usages, Answered(usage) PROVE Climbed'
      BY <1>1, <2>1 DEF Answered
    <2> QED
      BY <1>2, <2>1, AttemptFails, FailedClimbs
  <1> QED
    BY <1>1, <1>2
    DEF Next, Step, RefuseLongAsk, Sleep, Wake, Dropped, Settled, vars

\* For every ceiling and every request, each rung but one doubled a budget that was below
\* the ceiling, so a call that is cut over and over asks only a logarithm of the ceiling more
\* times, and never for more than the ceiling (retry.rs apply_ladder, MAX_TOKENS_CEILING).
THEOREM LadderRungsBounded == Spec => []RungsBounded
  <1>1. Init => Climbed
    <2> SUFFICES ASSUME Init PROVE Doubled(0) /\ seen.rungs = 0
      BY DEF Climbed
    <2>1. seen.asked = knobs.tokens /\ seen.rungs = 0 /\ knobs.tokens \in Nat
      BY LadderAssumption DEF Init
    <2>2. seen.asked * TwoTo[0] = knobs.tokens
      BY <2>1, TwoToRecursion
    <2>3. \A e \in Nat : e + 1 # 0
      OBVIOUS
    <2> QED
      BY <2>1, <2>2, <2>3 DEF Doubled
  <1>2. LadderInv /\ Climbed /\ [Next]_vars => Climbed'
    BY StepClimbs
  <1>3. LadderInv /\ Climbed => RungsBounded
    <2> SUFFICES ASSUME LadderInv, Climbed, seen.rungs > 1
                 PROVE  seen.asked * TwoTo[seen.rungs - 2] < Ceiling
      BY DEF LadderInv, RoomBounded, RungsBounded
    <2>1. PICK e \in Nat : seen.rungs = e + 2
      <3>1. seen.rungs \in Nat
        BY DEF LadderInv, TypeOK
      <3>2. seen.rungs - 2 \in Nat /\ seen.rungs = (seen.rungs - 2) + 2
        BY <3>1
      <3> QED
        BY <3>2
    <2>2. CASE Doubled(seen.rungs)
      <3>1. (e + 1) + 1 = seen.rungs /\ e + 1 \in Nat
        BY <2>1
      <3>2. seen.asked * TwoTo[e + 1] < Ceiling
        BY <2>2, <3>1 DEF Doubled
      <3>3. /\ seen.asked \in Nat /\ TwoTo[e] \in Nat /\ TwoTo[e + 1] = 2 * TwoTo[e]
            /\ Ceiling \in Nat
        BY TwoToPositive, TwoToRecursion, LadderAssumption DEF LadderInv, TypeOK
      <3> DEFINE p == seen.asked * TwoTo[e]
      <3>4. p \in Nat /\ seen.asked * TwoTo[e + 1] = 2 * p
        BY <3>3
      <3>5. p < Ceiling
        <4> HIDE DEF p
        <4> QED
          BY <3>2, <3>3, <3>4
      <3>6. seen.rungs - 2 = e
        BY <2>1
      <3> QED
        BY <3>5, <3>6
    <2>3. CASE knobs.off /\ (\E d \in Nat : seen.rungs = d + 1 /\ Doubled(d))
      <3>1. PICK d \in Nat : seen.rungs = d + 1 /\ Doubled(d)
        BY <2>3
      <3>2. e + 1 = d /\ seen.rungs - 2 = e
        BY <2>1, <3>1
      <3> QED
        BY <3>1, <3>2 DEF Doubled
    <2> QED
      BY <2>2, <2>3 DEF Climbed
  <1> QED
    BY <1>1, <1>2, <1>3, LadderInvariant, PTL DEF Spec

=============================================================================
