----------------------------- MODULE RetryLadder -----------------------------
(***************************************************************************)
(* OpenAiCompat::complete (crates/provider-openai): one logical request as *)
(* a ladder of HTTP attempts.  `once' classifies what an attempt met;      *)
(* `complete' adds up its bill and decides between another attempt, a      *)
(* reshaped one and giving up.  An answer's text is the set of markers the *)
(* classifier looks for in it, a character count is zero or not, and usage *)
(* is a number of tokens.  The loop sends no extras, so the knobs are all  *)
(* that differs between two attempts of a call.                            *)
(***************************************************************************)
EXTENDS Integers, FiniteSets

CONSTANTS
    Requests,     \* [tokens, off] records: Request.max_tokens, Thinking::Off
    Ceiling,      \* MAX_TOKENS_CEILING
    HasKnob,      \* EndpointProfile.thinking_off is there
    Refreshable,  \* CredentialSource.refreshable
    ColdUrl,      \* the endpoint's URL holds the digits 503
    Texts,        \* error bodies, each a set of Markers
    Asks,         \* Retry-After values in seconds, and None
    Bills         \* token counts a body may report

None == -1
Markers == {"overflow", "overload", "stale", "402", "fatal", "503"}

ASSUME LadderAssumption ==
    /\ Requests \subseteq [tokens: Nat \ {0}, off: BOOLEAN]
    /\ Ceiling \in Nat
    /\ {HasKnob, Refreshable, ColdUrl} \subseteq BOOLEAN
    /\ Texts \subseteq SUBSET Markers
    /\ Asks \subseteq Nat \union {None}
    /\ Bills \subseteq Nat /\ 0 \in Bills

VARIABLES
    pc,        \* "sending", "backoff", "sleeping"; "answered", "failed", "dropped"
    knobs,     \* WireKnobs: max_tokens, and whether thinking is suppressed
    attempt,   \* the attempt under way, from 0
    last,      \* the last OnceFail
    acc,       \* usage_acc, None when nothing was reported
    delay,     \* the wait before the next attempt, without its jitter
    reported,  \* tokens the endpoint reported
    result,    \* what `complete' returned: tokens it carries, Metered.exhausted
    seen       \* history: shapes that came back truncated, rungs taken, tokens first asked for

vars == <<pc, knobs, attempt, last, acc, delay, reported, result, seen>>

RetryAfterCap == 60
ColdCap == 7
ShortCap == 4

-----------------------------------------------------------------------------
(* classify_error. *)

\* The string table: the first entry that matches decides, an unknown text retries.
ClassifyMessage(text) ==
    CASE "overflow" \in text -> "contextOverflow"
      [] "overflow" \notin text /\ "overload" \in text -> "overload"
      [] text \intersect {"overflow", "overload"} = {} /\ "stale" \in text -> "authStale"
      [] text \intersect {"overflow", "overload", "stale", "402"} = {} /\ "fatal" \in text -> "fatal"
      [] OTHER -> "retryable"

\* "auth" is 401 or 403, "busy" is 402, 429 or a 5xx but 503, which is "cold".
ClassifyHttp(status, text) ==
    CASE "overflow" \in text -> "contextOverflow"
      [] "overflow" \notin text /\ status = "auth" -> "fatal"
      [] "overflow" \notin text /\ status # "auth" /\ "overload" \in text -> "overload"
      [] text \intersect {"overflow", "overload"} = {} /\ status \in {"busy", "cold"} -> "retryable"
      [] OTHER -> ClassifyMessage(text)

Retries(class) == class \in {"retryable", "overload", "authStale"}

\* An OnceFail; the counts matter only when the answer was truncated.
OnceFail(retryable, cold, after) ==
    [retryable |-> retryable, truncated |-> FALSE, cold |-> cold, after |-> after,
     content |-> FALSE, reasoning |-> FALSE]

Truncation(content, reasoning) ==
    [retryable |-> TRUE, truncated |-> TRUE, cold |-> FALSE, after |-> None,
     content |-> content, reasoning |-> reasoning]

-----------------------------------------------------------------------------
(* The ladder. *)

\* A bug: the newest usage replaces what the earlier attempts had.
MergeLatest(total, usage) == IF usage = None THEN total ELSE usage

\* merge_usage: None is "unreported", never zero.
MergeUsage(total, usage) ==
    IF total = None THEN usage ELSE IF usage = None THEN total ELSE total + usage

Known(usage) == IF usage = None THEN 0 ELSE usage

\* Thinking may still be switched off: reasoning took the whole budget.
CanSuppress(k, f) == ~k.off /\ HasKnob /\ ~f.content /\ f.reasoning

Raised(tokens) == IF 2 * tokens < Ceiling THEN 2 * tokens ELSE Ceiling

CanReshape(k, f) == CanSuppress(k, f) \/ Raised(k.tokens) > k.tokens

\* Bugs: a truncated attempt is sent again as it was, or the budget has no ceiling.
ReshapeNothing(k, f) == k
ReshapePastCeiling(k, f) == [k EXCEPT !.tokens = 4 * @]

\* apply_ladder: thinking off once, then twice the room.
Reshape(k, f) ==
    IF CanSuppress(k, f) THEN [k EXCEPT !.off = TRUE]
    ELSE IF Raised(k.tokens) > k.tokens THEN [k EXCEPT !.tokens = Raised(@)]
    ELSE k

\* wire_body, by what the knobs put into it: messages and tools are the same for every attempt.
WireBody(k) == [max_tokens |-> k.tokens, thinking |-> ~(k.off /\ HasKnob)]

\* A bug: every failure gets the attempts of a cold start, and one more.
GoesOnLonger(f) == f.retryable /\ IF f.truncated THEN CanReshape(knobs, f) ELSE attempt <= ColdCap

\* Whether the Err arm of `complete' goes round again.
GoesOn(f) ==
    /\ f.retryable
    /\ IF f.truncated THEN CanReshape(knobs, f)
       ELSE attempt < IF f.cold THEN ColdCap ELSE ShortCap

Init ==
    /\ pc = "sending"
    /\ \E r \in Requests : knobs = [tokens |-> r.tokens, off |-> r.off /\ HasKnob]
    /\ attempt = 0
    /\ last = OnceFail(FALSE, FALSE, None)
    /\ acc = None
    /\ delay = 0
    /\ reported = 0
    /\ result = [charged |-> 0, exhausted |-> FALSE]
    /\ seen = [truncated |-> {}, rungs |-> 0, asked |-> knobs.tokens]

\* LlmError::Metered with the sum of what the attempts reported.
GiveUp(total, exhausted) ==
    /\ pc' = "failed"
    /\ result' = [charged |-> Known(total), exhausted |-> exhausted]

\* The Err arm: meter, then stop, reshape or go round again.
Failed(f, usage) ==
    /\ last' = f
    /\ acc' = MergeUsage(acc, usage)
    /\ reported' = reported + Known(usage)
    /\ knobs' = IF f.truncated THEN Reshape(knobs, f) ELSE knobs
    /\ seen' = [seen EXCEPT !.truncated = IF f.truncated THEN @ \union {knobs} ELSE @,
                            !.rungs = IF f.truncated /\ GoesOn(f) THEN @ + 1 ELSE @]
    /\ IF GoesOn(f)
       THEN pc' = "backoff" /\ attempt' = attempt + 1 /\ UNCHANGED result
       ELSE GiveUp(acc', f.retryable) /\ UNCHANGED attempt
    /\ UNCHANGED delay

-----------------------------------------------------------------------------
(* What one attempt may meet: `once' and parse_body. *)

Usages == Bills \union {None}

\* The key is read from the environment for every attempt.
NoKey == Failed(OnceFail(FALSE, FALSE, None), None)

\* No status came back: refused, reset, or the request timeout passed.
SendFails == Failed(OnceFail(TRUE, ColdUrl, None), None)

\* 401 and 403: only a refreshable source tries a stale body again.
AuthRefused(text, after, usage) ==
    LET stale == Refreshable /\ "stale" \in text
    IN  Failed(OnceFail(stale, "503" \in text, IF stale THEN after ELSE None), usage)

StatusFails(status, text, after, usage) ==
    Failed(OnceFail(Retries(ClassifyHttp(status, text)), status = "cold" \/ "503" \in text, after),
           usage)

\* A 200 that does not decode: what it was billed is not known.
NotJson == Failed(OnceFail(TRUE, ColdUrl, None), None)
BadBody(text) == Failed(OnceFail(Retries(ClassifyMessage(text)), "503" \in text, None), None)

\* infer_stop: a reason that says nothing is inferred from the tool calls.
InferStop(body) ==
    IF body.finish # "unknown" THEN body.finish ELSE IF body.calls THEN "toolUse" ELSE "stop"

\* parse_body: a cut answer is an error, with or without tool calls, and so is an empty one.
ParseBody(body) ==
    CASE ~body.choice -> "empty"
      [] body.choice /\ InferStop(body) = "maxTokens" -> "truncated"
      [] body.choice /\ InferStop(body) # "maxTokens" /\ ~body.text /\ ~body.calls -> "empty"
      [] OTHER -> "answer"

Bodies ==
    [choice: BOOLEAN, finish: {"unknown", "maxTokens", "refused"},
     text: BOOLEAN, reasoning: BOOLEAN, calls: BOOLEAN]

EmptyBody(usage) == Failed(OnceFail(TRUE, FALSE, None), usage)

TruncatedBody(body, usage) == Failed(Truncation(body.text, body.reasoning), usage)

\* An answer; without a usage object it counts as zero tokens.
Answered(usage) ==
    /\ pc' = "answered"
    /\ reported' = reported + Known(usage)
    /\ result' = [charged |-> Known(acc) + Known(usage), exhausted |-> FALSE]
    /\ UNCHANGED <<knobs, attempt, last, acc, delay, seen>>

BodyArrives(body, usage) ==
    \/ ParseBody(body) = "empty" /\ EmptyBody(usage)
    \/ ParseBody(body) = "truncated" /\ TruncatedBody(body, usage)
    \/ ParseBody(body) = "answer" /\ Answered(usage)

-----------------------------------------------------------------------------
(* schedule_delay, between two attempts. *)

\* 2^n seconds, clamped at the tenth rung.
BackoffDelay(n) ==
    <<2, 4, 8, 16, 32, 64, 128, 256, 512, 1024>>[IF n < 10 THEN n ELSE 10]

\* A server that asks for more than RETRY_AFTER_CAP ends the call.
RefuseLongAsk ==
    /\ pc = "backoff" /\ last.after > RetryAfterCap
    /\ GiveUp(acc, last.retryable)
    /\ UNCHANGED <<knobs, attempt, last, acc, delay, reported, seen>>

Sleep ==
    /\ pc = "backoff" /\ last.after <= RetryAfterCap
    /\ pc' = "sleeping"
    /\ delay' = IF last.after # None THEN last.after
                ELSE IF last.cold THEN 60 ELSE BackoffDelay(attempt)
    /\ UNCHANGED <<knobs, attempt, last, acc, reported, result, seen>>

Wake ==
    /\ pc = "sleeping"
    /\ pc' = "sending"
    /\ delay' = 0
    /\ UNCHANGED <<knobs, attempt, last, acc, reported, result, seen>>

Busy == {"sending", "backoff", "sleeping"}

\* The caller raced the future against its token and lost interest.
Dropped ==
    /\ pc \in Busy
    /\ pc' = "dropped"
    /\ UNCHANGED <<knobs, attempt, last, acc, delay, reported, result, seen>>

Settled == pc \notin Busy /\ UNCHANGED vars

Attempt ==
    /\ pc = "sending"
    /\ \/ NoKey
       \/ SendFails \/ NotJson
       \/ \E text \in Texts : BadBody(text)
       \/ \E text \in Texts, after \in Asks, usage \in Usages :
             \/ AuthRefused(text, after, usage)
             \/ \E status \in {"busy", "cold", "other"} : StatusFails(status, text, after, usage)
       \/ \E body \in Bodies, usage \in Usages : BodyArrives(body, usage)

Step == Attempt \/ RefuseLongAsk \/ Sleep \/ Wake

Next == Step \/ Dropped \/ Settled

Spec == Init /\ [][Next]_vars

\* Every attempt ends within the request timeout, and every sleep is finite.
FairSpec == Spec /\ WF_vars(Step)

-----------------------------------------------------------------------------
(* What makes the ladder correct. *)

Knobs == [tokens: Nat \ {0}, off: BOOLEAN]

FailRecord ==
    [retryable: BOOLEAN, truncated: BOOLEAN, cold: BOOLEAN, after: Nat \union {None},
     content: BOOLEAN, reasoning: BOOLEAN]

\* The types of the variables.
TypeOK ==
    /\ pc \in Busy \union {"answered", "failed", "dropped"}
    /\ knobs \in Knobs
    /\ attempt \in Nat
    /\ last \in FailRecord
    /\ acc \in Nat \union {None}
    /\ delay \in Nat
    /\ reported \in Nat
    /\ result \in [charged: Nat, exhausted: BOOLEAN]
    /\ seen \in [truncated: SUBSET Knobs, rungs: Nat, asked: Nat \ {0}]

\* However failures of different kinds alternate, a call sends eight attempts and one more
\* for each rung of the overflow ladder it took: no kind of failure refills another's
\* attempts (client.rs complete, the two caps and the ladder share `attempt').
AttemptsBounded == attempt <= ColdCap + seen.rungs

\* The powers of two.
TwoTo[n \in Nat] == IF n = 0 THEN 1 ELSE 2 * TwoTo[n - 1]

\* The ladder itself is short: one rung for thinking, and a doubling only below the ceiling,
\* so the budget it reaches is bounded (retry.rs apply_ladder, MAX_TOKENS_CEILING).
RungsBounded ==
    /\ seen.rungs > 1 => seen.asked * TwoTo[seen.rungs - 2] < Ceiling
    /\ knobs.tokens <= seen.asked \/ knobs.tokens <= Ceiling

\* A body whose answer came back truncated is not sent again, also when other failures come
\* between (client.rs: "instead of re-sending the identical shape").
TruncatedShapeNotResent ==
    pc \in Busy => \A k \in seen.truncated : WireBody(k) # WireBody(knobs)

Call ==
    INSTANCE ProviderCall
        WITH call <- IF pc \in Busy THEN "busy" ELSE pc,
             charged <- result.charged,
             spent <- result.exhausted

\* The ladder is one ProviderCall: it settles once, with every token that was reported, and
\* a caller that waits is answered (client.rs complete, types.rs billed_usage).
ImplementsCall == Call!CallSpec

=============================================================================
