------------------------------ MODULE RunContract ------------------------------
(***************************************************************************)
(* What a run of crates/agent-loop promises the one who started it, and    *)
(* whoever reads its log and its work tree afterwards.  Turns are opened   *)
(* one at a time.  A request goes out only when every call of the last     *)
(* answer has its result and the batch is settled.  Calls are answered     *)
(* once and in order.  A batch is a transaction on the work tree: it is    *)
(* kept whole or undone, and one with a failed call is undone; only a      *)
(* proof command may keep a part.  The run closes once, with one result,   *)
(* and a stop that was read decides it.                                    *)
(*                                                                         *)
(* The log file or git may fail in any step.  The run then closes as lost, *)
(* in the middle of whatever it was doing.                                 *)
(***************************************************************************)
EXTENDS Naturals

CONSTANTS
    Steps,          \* the cap on provider rounds
    CallCounts,     \* how many calls one answer may carry
    ProofCommand    \* hunks are probed one by one: part of a batch may be kept

VARIABLES
    stage,     \* "opening", "running", "closing", "closed"
    turns,     \* the turns the log shows as open
    last,      \* the number of the last turn
    rounds,    \* provider rounds started
    asking,    \* a request is under way
    waiting,   \* calls of the last answer without a result
    working,   \* a batch is not settled
    failed,    \* one of its calls failed
    tree,      \* the work tree
    saved,     \* the tree a batch is undone to
    stopped,   \* a stop was read
    result     \* what the run reports

runVars == <<stage, turns, last, rounds, asking, waiting, working, failed, tree, saved,
             stopped, result>>

Losses == {"log", "snapshot"}

ContractInit ==
    /\ stage = "opening"
    /\ turns = {} /\ last = 0 /\ rounds = 0
    /\ ~asking /\ waiting = {} /\ ~working /\ ~failed
    /\ tree = saved
    /\ ~stopped /\ result = "none"

\* The step goes on, or loses the log or git.
Onward ==
    \/ UNCHANGED <<stage, result>>
    \/ stage' = "closing" /\ result' \in Losses

\* Between requests and batches.
Free == ~asking /\ ~working /\ waiting = {}

\* A stop may be read in any step that awaits.
MayStop == stopped' \in {stopped, TRUE}

\* The first input or a followup opens the next turn; the one before is closed with it.
OpenTurn ==
    /\ stage \in {"opening", "running"} /\ Free
    /\ stage = "opening" => last = 0
    /\ last' = last + 1
    /\ turns' = {last'}
    /\ Onward
    /\ UNCHANGED <<rounds, asking, waiting, working, failed, tree, saved, stopped>>

\* Without a log, or without an input that opens a turn, there is no run.
Refuse ==
    /\ stage = "opening" /\ last = 0
    /\ stage' = "closed"
    /\ result' \in {"log", "input"}
    /\ UNCHANGED <<turns, last, rounds, asking, waiting, working, failed, tree, saved, stopped>>

Begin ==
    /\ stage = "opening" /\ turns # {}
    /\ stage' = "running"
    /\ UNCHANGED <<turns, last, rounds, asking, waiting, working, failed, tree, saved,
                   stopped, result>>

\* A stop is read between two steps, or something outside them is lost.
StopOrLose ==
    /\ stage \in {"opening", "running"}
    /\ MayStop
    /\ Onward
    /\ working' = (working /\ stage' # "closing")
    /\ saved' = IF working' THEN saved ELSE tree
    /\ UNCHANGED <<turns, last, rounds, asking, waiting, failed, tree>>

\* The cap admits one round more, for the grace step.
Ask ==
    /\ stage = "running" /\ Free
    /\ ~stopped /\ rounds <= Steps
    /\ asking' = TRUE
    /\ rounds' = rounds + 1
    /\ UNCHANGED <<stage, turns, last, waiting, working, failed, tree, saved, stopped, result>>

\* The request ends without tool calls: failed, dropped, cut, held, or the final declare.
EndRequest ==
    /\ asking
    /\ asking' = FALSE
    /\ Onward \/ (~stopped /\ stage' = "closing" /\ result' = "done")
    /\ UNCHANGED <<turns, last, rounds, waiting, working, failed, tree, saved, stopped>>

\* The answer's calls, numbered in order.
Reply ==
    /\ asking
    /\ asking' = FALSE
    /\ \E n \in CallCounts : waiting' = 1..n
    /\ failed' = FALSE
    /\ Onward
    /\ working' = (stage' = "running")
    /\ UNCHANGED <<turns, last, rounds, tree, saved, stopped>>

\* The first call without a result gets one; what it did to the tree is its own affair.
Answer ==
    /\ working
    /\ \E call \in waiting :
          /\ \A other \in waiting : call <= other
          /\ waiting' = waiting \ {call}
    /\ failed' \in {failed, TRUE}
    /\ MayStop
    /\ Onward
    /\ working' = (stage' = "running")
    /\ saved' = IF working' THEN saved ELSE tree'
    /\ UNCHANGED <<turns, last, rounds, asking>>

\* A failed batch goes back before it is judged.
Undo ==
    /\ working /\ waiting = {} /\ failed
    /\ tree' = saved
    /\ UNCHANGED <<stage, turns, last, rounds, asking, waiting, working, failed, saved,
                   stopped, result>>

\* The verdict: undone, or kept whole when no call failed, or in part by the proof command.
SettleBatch ==
    /\ working /\ waiting = {}
    /\ failed => tree = saved
    /\ working' = FALSE
    /\ \/ tree' \in {tree, saved}
       \/ ProofCommand
    /\ saved' = tree'
    /\ Onward
    /\ UNCHANGED <<turns, last, rounds, asking, waiting, failed, stopped>>

\* The run reports: Cancelled if and only if a stop was read.
Close ==
    /\ stage = "running" /\ Free
    /\ stage' = "closing"
    /\ result' \in IF stopped THEN {"cancelled"} ELSE {"done", "halted", "provider"}
    /\ UNCHANGED <<turns, last, rounds, asking, waiting, working, failed, tree, saved, stopped>>

\* The closing row and the closing frames.
End ==
    /\ stage = "closing"
    /\ stage' = "closed"
    /\ turns' = {}
    /\ UNCHANGED <<last, rounds, asking, waiting, working, failed, tree, saved, stopped, result>>

ContractNext ==
    \/ OpenTurn \/ Refuse \/ Begin \/ StopOrLose
    \/ Ask \/ EndRequest \/ Reply
    \/ Answer \/ Undo \/ SettleBatch
    \/ Close \/ End

RunSafety == ContractInit /\ [][ContractNext]_runVars

=============================================================================
