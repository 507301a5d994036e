------------------------------ MODULE Workbench ------------------------------
(***************************************************************************)
(* One run's tool batches on its work tree: TreeService around each batch, *)
(* the calls that change the tree, the process runner behind exec, test    *)
(* and the syntax check, and the proof command.                            *)
(*                                                                         *)
(* RunLoop abstracts the tree to its number of edits and a call to its     *)
(* result; here both are opened up, and the provider rounds between two    *)
(* batches are one step.  The processes a tool starts are actors of their  *)
(* own: they write while their call runs, and those that outlive it        *)
(* (strays) whenever they like.  TreeService calls are atomic.             *)
(***************************************************************************)
EXTENDS GitTree, FiniteSets

CONSTANTS
    WorkTrees,   \* the trees a run may open
    Options,     \* [proof : --proof-cmd, bets : --bets, check : Policy::syntax_cmd]
    MaxBatches,  \* bounds the batches of a run,
    MaxCalls,    \* the calls of a batch
    MaxWrites,   \* and what the processes of a run write or stage
    MaxKids,     \* and the processes its children leave behind
    Outputs,     \* what they make of a file
    KidKinds,    \* "pipe", "quiet" or "away", see below
    MayStage     \* whether a tool may run `git add'

\* What a tool's child may leave running: a member of its process group that holds the
\* output pipes, one that does not, and a pipe holder that left the group.
Group == {"pipe", "quiet"}
Holders == {"pipe", "away"}

ASSUME WorkbenchAssumption ==
    /\ WorkTrees \subseteq Tree
    /\ Options \subseteq [proof : BOOLEAN, bets : BOOLEAN, check : BOOLEAN]
    /\ MaxBatches \in Nat /\ MaxCalls \in Nat /\ MaxWrites \in Nat /\ MaxKids \in Nat
    /\ Outputs \subseteq Contents \cup {Absent}
    /\ KidKinds \subseteq Group \cup Holders
    /\ MayStage \in BOOLEAN

VARIABLES
    pc,       \* where the driver is
    opt,      \* the options of this run
    repo,     \* work tree and git repository
    child,    \* the child process of the running call
    strays,   \* processes whose call is over
    cancel,   \* RunCtx::cancel
    batch,    \* the batch: its calls, whether one failed, its hunks and their proofs
    seen      \* history: the trees around the batch and what became of it

vars == <<pc, opt, repo, child, strays, cancel, batch, seen>>

Jobs == {"exec", "check"}
PCs == {"open", "idle", "batch", "exec", "probe", "prefix", "proof", "undo", "gate", "closed"}

\* phase: run_allowed_argv waits for the child, joins the readers of a child that exited,
\* or of one it killed.
NoChild == [phase |-> "none", leader |-> "none", ok |-> FALSE, kids |-> {}, job |-> "exec"]

NoBatch == [n |-> 0, calls |-> 0, failed |-> FALSE, hunks |-> {}, probed |-> {}, proven |-> {},
            writes |-> 0, kids |-> 0]

Init ==
    \E tree \in WorkTrees, o \in Options, born \in BOOLEAN :
        LET index == [p \in Paths |-> IF born /\ p \notin Ignored THEN tree[p] ELSE Absent]
        IN  /\ pc = "open"
            /\ opt = o
            /\ repo = [born |-> born, head |-> index, index |-> index, work |-> tree,
                       started |-> FALSE, start |-> EmptyTree]
            /\ child = NoChild
            /\ strays = {}
            /\ cancel = FALSE
            /\ batch = NoBatch
            /\ seen = [origin |-> tree, before |-> tree, ended |-> tree, whole |-> TRUE,
                       staged |-> FALSE, outside |-> FALSE, verdict |-> "none"]

-----------------------------------------------------------------------------
(* The run around a batch.                                                 *)

Closed(verdict) ==
    /\ pc' = "closed"
    /\ seen' = [seen EXCEPT !.verdict = verdict]

Open ==
    /\ pc = "open"
    /\ repo' = Ensure(repo)
    /\ pc' = "idle"
    /\ UNCHANGED <<opt, child, strays, cancel, batch, seen>>

StartBatch ==
    /\ pc = "idle"
    /\ batch.n < MaxBatches
    /\ repo' = Baseline(repo)
    /\ pc' = "batch"
    /\ batch' = [NoBatch EXCEPT !.n = batch.n + 1, !.writes = batch.writes,
                         !.kids = batch.kids]
    /\ seen' = [seen EXCEPT !.before = repo.work, !.ended = repo.work, !.whole = TRUE,
                            !.staged = FALSE, !.outside = FALSE, !.verdict = "running"]
    /\ UNCHANGED <<opt, child, strays, cancel>>

\* The model declares, or the run is cancelled or halted.
Close ==
    /\ pc = "idle"
    /\ pc' = "closed"
    /\ UNCHANGED <<opt, repo, child, strays, cancel, batch, seen>>

\* Any git command may fail; the run then ends and leaves the tree as it is.
GitFails ==
    /\ pc \in {"open", "idle", "probe", "prefix", "undo", "gate"}
    /\ Closed("gitFailed")
    /\ UNCHANGED <<opt, repo, child, strays, cancel, batch>>

Cancel ==
    /\ pc # "closed"
    /\ ~cancel
    /\ cancel' = TRUE
    /\ UNCHANGED <<pc, opt, repo, child, strays, batch, seen>>

-----------------------------------------------------------------------------
(* The calls of a batch.                                                   *)

NextCall(ok) == [batch EXCEPT !.calls = batch.calls + 1, !.failed = batch.failed \/ ~ok]

\* Refused by the gate, the schema, the guard, the allowlist or a cap; or a tool that reads.
Answer ==
    /\ pc = "batch"
    /\ batch.calls < MaxCalls
    /\ \E ok \in BOOLEAN :
           /\ ok => ~cancel
           /\ batch' = NextCall(ok)
    /\ UNCHANGED <<pc, opt, repo, child, strays, cancel, seen>>

\* fs::write is not atomic: an I/O error may leave any content.
WriteFile ==
    \E path \in Paths, content \in Contents \ Binary, ok \in BOOLEAN :
        /\ repo' = [repo EXCEPT !.work[path] = content]
        /\ batch' = NextCall(ok)

WriteUnchecked ==
    /\ pc = "batch"
    /\ ~cancel
    /\ batch.calls < MaxCalls
    /\ ~opt.check
    /\ WriteFile
    /\ UNCHANGED <<pc, opt, child, strays, cancel, seen>>

\* exec and test run their command; a checked write stages its candidate and runs the check.
Spawn ==
    /\ pc = "batch"
    /\ ~cancel
    /\ batch.calls < MaxCalls
    /\ \E job \in IF opt.check THEN Jobs ELSE {"exec"} :
           child' = [NoChild EXCEPT !.phase = "running", !.leader = "up", !.job = job]
    /\ pc' = "exec"
    /\ UNCHANGED <<opt, repo, strays, cancel, batch, seen>>

EndCalls ==
    /\ pc = "batch"
    /\ batch.calls > 0
    /\ pc' = "probe"
    /\ seen' = [seen EXCEPT !.ended = repo.work, !.whole = WholePatch(repo)]
    /\ UNCHANGED <<opt, repo, child, strays, cancel, batch>>

-----------------------------------------------------------------------------
(* run_allowed_argv.  The run's token drops the whole call before it is    *)
(* polled again (the race is biased), so each step of it needs ~cancel.    *)

Outlive(kids, after) == {[kind |-> k, after |-> after] : k \in kids}

Leave(after) ==
    /\ child' = NoChild
    /\ strays' = strays \cup Outlive(child.kids, after)
    /\ pc' = "batch"

\* A bug: only the direct child is killed, as kill_on_drop alone would.
KilledChild(c) == [c EXCEPT !.leader = "reaped", !.phase = "killed"]

\* kill_tree: the group while the leader is not reaped, then the leader.
Killed(c) ==
    [c EXCEPT !.kids = IF c.leader = "reaped" THEN @ ELSE @ \ Group,
              !.leader = "reaped", !.phase = "killed"]

ChildGone ==
    /\ pc = "exec"
    /\ ~cancel
    /\ child.phase = "running"
    /\ child.leader = "zombie"
    /\ child' = [child EXCEPT !.phase = "drain", !.leader = "reaped"]
    /\ UNCHANGED <<pc, opt, repo, strays, cancel, batch, seen>>

\* A bug: the timer is only armed while the child itself runs without children.
TimedOutAlone ==
    /\ pc = "exec"
    /\ ~cancel
    /\ child.phase = "running"
    /\ child.kids = {}
    /\ child' = Killed(child)
    /\ UNCHANGED <<pc, opt, repo, strays, cancel, batch, seen>>

\* Also the tool token's branch, which the run loop never reaches: it drops the call first.
TimedOut ==
    /\ pc = "exec"
    /\ ~cancel
    /\ child.phase = "running"
    /\ child' = Killed(child)
    /\ UNCHANGED <<pc, opt, repo, strays, cancel, batch, seen>>

\* The readers of a killed child end when nobody holds its pipes: the call failed.
JoinedKilled ==
    /\ pc = "exec"
    /\ ~cancel
    /\ child.phase = "killed"
    /\ child.kids \cap Holders = {}
    /\ Leave("timeout")
    /\ batch' = NextCall(FALSE)
    /\ UNCHANGED <<opt, repo, cancel, seen>>

\* The same of a child that exited, with no timer and no kill; a failed check is a veto.
Joined ==
    /\ pc = "exec"
    /\ ~cancel
    /\ child.phase = "drain"
    /\ child.kids \cap Holders = {}
    /\ Leave("exit")
    /\ IF child.job = "check" /\ child.ok
       THEN WriteFile
       ELSE batch' = NextCall(child.ok) /\ UNCHANGED repo
    /\ UNCHANGED <<opt, cancel, seen>>

\* execute_call's race drops the call; GroupGuard kills the group unless the child is reaped.
DropCall ==
    /\ pc = "exec"
    /\ cancel
    /\ child' = NoChild
    /\ strays' = strays \cup Outlive(Killed(child).kids,
                     IF child.leader = "reaped" THEN child.phase ELSE "dropped")
    /\ batch' = NextCall(FALSE)
    /\ pc' = "batch"
    /\ UNCHANGED <<opt, repo, cancel, seen>>

-----------------------------------------------------------------------------
(* The processes.                                                          *)

Forks ==
    /\ child.leader = "up"
    /\ batch.kids < MaxKids
    /\ \E kind \in KidKinds \ child.kids : child' = [child EXCEPT !.kids = @ \cup {kind}]
    /\ batch' = [batch EXCEPT !.kids = @ + 1]
    /\ UNCHANGED <<pc, opt, repo, strays, cancel, seen>>

ChildExits ==
    /\ child.leader = "up"
    /\ \E ok \in BOOLEAN : child' = [child EXCEPT !.leader = "zombie", !.ok = ok]
    /\ UNCHANGED <<pc, opt, repo, strays, cancel, batch, seen>>

KidEnds ==
    /\ \/ /\ \E kind \in child.kids : child' = [child EXCEPT !.kids = @ \ {kind}]
          /\ UNCHANGED strays
       \/ /\ \E s \in strays : strays' = strays \ {s}
          /\ UNCHANGED child
    /\ UNCHANGED <<pc, opt, repo, cancel, batch, seen>>

\* A process writes, deletes or stages files.  Outside of the calls nothing asked for it.
ProcessWrites ==
    /\ strays # {} \/ child.leader = "up" \/ child.kids # {} \/ pc = "proof"
    /\ pc # "closed"
    /\ batch.writes < MaxWrites
    /\ batch' = [batch EXCEPT !.writes = batch.writes + 1]
    /\ \/ /\ \E files \in SUBSET Paths, content \in Outputs :
                 repo' = [repo EXCEPT !.work =
                             [p \in Paths |-> IF p \in files THEN content ELSE repo.work[p]]]
          /\ seen' = [seen EXCEPT !.outside = seen.outside \/ pc \notin {"batch", "exec"}]
       \/ /\ MayStage
          /\ repo' = AddAll(repo)
          /\ seen' = [seen EXCEPT !.staged = TRUE]
    /\ UNCHANGED <<pc, opt, child, strays, cancel>>

-----------------------------------------------------------------------------
(* Hunks, rollback and gate.                                               *)

\* The hunks are read before the rollback; without a proof command their flag is uniform.
Probe ==
    /\ pc = "probe"
    /\ LET hunks == SplitPatch(repo)
       IN  batch' = [batch EXCEPT !.hunks = hunks,
                                  !.proven = IF opt.proof \/ batch.failed THEN {} ELSE hunks]
    /\ pc' = IF opt.proof THEN "prefix" ELSE "undo"
    /\ UNCHANGED <<opt, repo, child, strays, cancel, seen>>

\* One more fragment on top of the baseline, then the proof command on that tree.
ProbePrefix ==
    /\ pc = "prefix"
    /\ \E h \in batch.hunks \ batch.probed :
        LET prefix == UpTo(batch.hunks, h)
        IN  /\ prefix \ {h} = batch.probed
            /\ batch' = [batch EXCEPT !.probed = prefix]
            /\ repo' = RestoreHunks(repo, prefix)
            /\ IF CanRestore(repo, prefix)
               THEN pc' = "proof" /\ UNCHANGED seen
               ELSE Closed(IF CanRollback(repo) THEN "notApplied" ELSE "gitFailed")
    /\ UNCHANGED <<opt, child, strays, cancel>>

ProbeEnds ==
    /\ pc = "prefix"
    /\ batch.probed = batch.hunks
    /\ pc' = "undo"
    /\ UNCHANGED <<opt, repo, child, strays, cancel, batch, seen>>

\* The hunk on top of the tree the proof command runs on.
Newest == {h \in batch.probed : UpTo(batch.hunks, h) = batch.probed}

\* It passes, fails or is killed after a minute, and only its leader is.
ProofEnds ==
    /\ pc = "proof"
    /\ \E ok \in BOOLEAN, kids \in {{}} \cup {{k} : k \in KidKinds} :
           /\ batch.kids + Cardinality(kids) <= MaxKids
           /\ batch' = [batch EXCEPT !.kids = @ + Cardinality(kids),
                            !.proven = IF ok THEN @ \cup Newest ELSE @]
           /\ strays' = strays \cup Outlive(kids, "proof")
    /\ pc' = "prefix"
    /\ UNCHANGED <<opt, repo, child, cancel, seen>>

\* A failed batch is rolled back before the gate is asked.
Undo ==
    /\ pc = "undo"
    /\ IF batch.failed THEN repo' = Rollback(repo) ELSE UNCHANGED repo
    /\ IF batch.failed /\ ~CanRollback(repo)
       THEN Closed("gitFailed")
       ELSE pc' = "gate" /\ UNCHANGED seen
    /\ UNCHANGED <<opt, child, strays, cancel, batch>>

\* split_savepoint: a hunk that passed behind one that failed is not proven.
Kept == {h \in batch.hunks : UpTo(batch.hunks, h) \subseteq batch.proven}

\* rof's Gate; NoBets commits.
Verdict ==
    IF ~opt.bets \/ batch.hunks \subseteq batch.proven THEN "committed"
    ELSE IF opt.proof /\ Kept # {} THEN "partial" ELSE "aborted"

GateCommits ==
    /\ pc = "gate"
    /\ Verdict = "committed"
    /\ pc' = "idle"
    /\ seen' = [seen EXCEPT !.verdict = IF batch.failed THEN "reverted" ELSE "kept"]
    /\ UNCHANGED <<opt, repo, child, strays, cancel, batch>>

GateKeepsPrefix ==
    /\ pc = "gate"
    /\ Verdict = "partial"
    /\ repo' = RestoreHunks(repo, Kept)
    /\ IF CanRestore(repo, Kept)
       THEN pc' = "idle" /\ seen' = [seen EXCEPT !.verdict = "partial"]
       ELSE Closed(IF CanRollback(repo) THEN "notApplied" ELSE "gitFailed")
    /\ UNCHANGED <<opt, child, strays, cancel, batch>>

GateAborts ==
    /\ pc = "gate"
    /\ Verdict = "aborted"
    /\ repo' = Rollback(repo)
    /\ IF CanRollback(repo)
       THEN pc' = "idle" /\ seen' = [seen EXCEPT !.verdict = "reverted"]
       ELSE Closed("gitFailed")
    /\ UNCHANGED <<opt, child, strays, cancel, batch>>

Ended == pc = "closed" /\ UNCHANGED vars

-----------------------------------------------------------------------------
Runner == ChildGone \/ TimedOut \/ JoinedKilled \/ Joined \/ DropCall
Batch == StartBatch \/ Answer \/ WriteUnchecked \/ Spawn \/ EndCalls
Gate == Probe \/ ProbePrefix \/ ProbeEnds \/ ProofEnds \/ Undo
            \/ GateCommits \/ GateKeepsPrefix \/ GateAborts
Processes == Forks \/ ChildExits \/ KidEnds \/ ProcessWrites

Next == Open \/ Batch \/ Runner \/ Gate \/ Close \/ GitFails \/ Cancel \/ Processes \/ Ended

Spec == Init /\ [][Next]_vars

\* The runner's steps are the task's own: it is polled, and its timer fires.  Nothing is
\* assumed of the processes, of the token or of the model that picks the calls.
FairSpec == Spec /\ WF_vars(Runner)

-----------------------------------------------------------------------------
(* Properties.                                                             *)

Stray == [kind : Group \cup Holders,
          after : {"exit", "timeout", "dropped", "drain", "killed", "proof"}]

\* Types of the whole state; a child exists exactly while its call runs, and is reaped
\* before its readers are joined.
TypeOK ==
    /\ pc \in PCs
    /\ opt \in [proof : BOOLEAN, bets : BOOLEAN, check : BOOLEAN]
    /\ repo \in Repo
    /\ child \in [phase : {"none", "running", "drain", "killed"},
                  leader : {"none", "up", "zombie", "reaped"}, ok : BOOLEAN,
                  kids : SUBSET (Group \cup Holders), job : Jobs]
    /\ strays \in SUBSET Stray
    /\ cancel \in BOOLEAN
    /\ batch \in [n : Nat, calls : Nat, failed : BOOLEAN, hunks : SUBSET Hunk,
                  probed : SUBSET Hunk, proven : SUBSET Hunk, writes : Nat, kids : Nat]
    /\ seen \in [origin : Tree, before : Tree, ended : Tree, whole : BOOLEAN,
                 staged : BOOLEAN, outside : BOOLEAN,
                 verdict : {"none", "running", "kept", "reverted", "partial", "notApplied",
                            "gitFailed"}]
    /\ pc = "exec" <=> child.phase # "none"
    /\ child.phase = "running" <=> child.leader \in {"up", "zombie"}

Between == pc \in {"idle", "closed"}

\* A batch that failed, that the gate aborted, or whose hunks did not apply (restore_hunks:
\* "Err always means the tree sits at baseline") leaves the tree it found, whatever its
\* calls wrote or tore; unless a process wrote outside of the calls or staged its files.
BatchReverted ==
    Between /\ seen.verdict \in {"reverted", "notApplied"} /\ ~seen.outside /\ ~seen.staged
        => \A p \in Visible(repo) : repo.work[p] = seen.before[p]

\* A batch that stands is in the tree as its calls left it, and of one that was split the
\* proven prefix.  With a proof command the tree is rebuilt from the hunks, so this holds
\* only for a batch whose hunks say all: none binary, none CRLF, none cut by the bound.
KeptAsProven ==
    Between /\ ~seen.outside =>
        /\ seen.verdict = "kept" /\ (opt.proof => seen.whole) => repo.work = seen.ended
        /\ seen.verdict = "partial" /\ ~seen.staged =>
               \A p \in Visible(repo) :
                   repo.work[p] = Patched(seen.before, Kept)[p]

\* The patch rof prints at the end, applied to the tree the run was given, is the tree it
\* leaves, over all batches and rollbacks; binary files excepted.
DeliverableComplete ==
    repo.started => \A p \in Visible(repo) :
        {seen.origin[p], repo.work[p]} \cap Binary = {}
            => Delivered(repo, seen.origin)[p] = repo.work[p]

\* No member of a call's process group survives a call that timed out or was dropped while
\* its child was not reaped.  What may: quiet members after an exit, those of a call that
\* was dropped while its readers were joined, and whatever the proof command started.
GroupsKilled ==
    \A s \in strays : s.kind \in Group =>
        \/ s.after = "exit" /\ s.kind = "quiet"
        \/ s.after \in {"drain", "proof"}

PipeHeld == child.phase \in {"drain", "killed"} /\ child.kids \cap Holders # {}

\* A call ends, by its child, its timeout or the token; unless a process that outlived the
\* child holds its pipes, and even then if the run is cancelled.
CallReturns == (pc = "exec") ~> (pc # "exec" \/ (PipeHeld /\ ~cancel))

=============================================================================
