---------------------------- MODULE ProviderCall ----------------------------
(***************************************************************************)
(* What LlmClient::complete promises its caller (crates/provider-core):    *)
(* one logical request settles once, as an answer or as a failure, and the *)
(* settled result carries every token an endpoint reported on the way.     *)
(* The agent loop relies on this alone: it meters what the result carries, *)
(* and a dropped call carries nothing.                                     *)
(***************************************************************************)
EXTENDS Naturals

CONSTANT Bills   \* token counts one HTTP round trip may report, zero among them

VARIABLES
    call,      \* "busy", then "answered", "failed" or "dropped"
    reported,  \* tokens the endpoint reported so far
    charged,   \* tokens the settled result carries
    spent      \* Metered.exhausted: the caller must not run the call again

callVars == <<call, reported, charged, spent>>

CallInit ==
    /\ call = "busy"
    /\ reported = 0
    /\ charged = 0
    /\ spent = FALSE

\* An attempt failed and the call goes on.
Report(bill) ==
    /\ call = "busy"
    /\ reported' = reported + bill
    /\ UNCHANGED <<call, charged, spent>>

\* Response.billed_usage: the answer carries its own bill and the failed attempts'.
Answer(bill) ==
    /\ call = "busy"
    /\ call' = "answered"
    /\ reported' = reported + bill
    /\ charged' = reported'
    /\ UNCHANGED spent

\* LlmError::Metered.
Fail(bill) ==
    /\ call = "busy"
    /\ call' = "failed"
    /\ reported' = reported + bill
    /\ charged' = reported'
    /\ spent' \in BOOLEAN

\* Cancellation is drop-based: the future is gone, and what it had added up with it.
DropCall ==
    /\ call = "busy"
    /\ call' = "dropped"
    /\ UNCHANGED <<reported, charged, spent>>

Settle == \E bill \in Bills : Answer(bill) \/ Fail(bill)

CallNext == Settle \/ DropCall \/ \E bill \in Bills : Report(bill)

CallSafety == CallInit /\ [][CallNext]_callVars

\* A caller that waits is answered.
CallSpec == CallSafety /\ WF_callVars(Settle)

=============================================================================
