# rof-harness in TLA+

A verification development of the `rof` agent harness: TLA+ modules that model its run loop, its
budget, its durable log, the provider's retry ladder, the tool batches on the work tree, the rows
the model reads, the standard tools and the evaluation; TLC configurations that check them on small
instances; and theorems that TLAPS proves for every value of the constants. `PROJECT.json` maps
every definition to the lines it stands for and lists hazards, findings and what each run checks.

## 1. Inventory

One process. `rof` wires sibling crates together; a model drives a sequential tool loop over a
disposable work tree; every durable fact goes to an append-only log before the effect it precedes.

| component (crates/) | state | operations | modelled in |
|---|---|---|---|
| `agent-loop` run driver (`run.rs`) | rows synced, writer, tree, tokens | open, step head, provider round, settle, tool batch, proof gate, finish | `RunLoop`, `Transcript` |
| `agent-loop` state (`state.rs`, `verify.rs`, `gate.rs`) | phase, turn, queues, latches, retries, rows, calls, verify state, effect gate | apply input, start call, finish call, claim, record result, terminate | `RunLoop`, `Transcript` |
| proof gate (`proof.rs`, `bets/commit.rs`) | batch snapshot, hunks and their proof flags | capture, refund, probe prefixes, verdict | `Workbench`, `RunLoop` |
| directives (`budget_nudge.rs`) | pending texts, one-shot latches, action signature | observe, queue, deliver on the newest tool row | `Transcript`, `RunLoop` |
| request and compaction (`request.rs`, `context`) | checkpoint, usage anchor, frozen map and pins | derive messages, fold, summarise | `Transcript` |
| `agent-budget` | six counters, the grace latch, the nudge latch | peek, may_step, record, refund | `BudgetGuard` |
| `agent-log` | the file, BufWriter | open with repair, append = write + flush + fsync, read and validate | `DurableLog` |
| `agent-event`, `trace` | history, listeners, taps; sinks that share a file | emit, tap, fork, pairing check | frames in `RunLoop` |
| `snapshot` | git index, HEAD, exclude file, work tree | ensure, baseline, rollback, restore hunks, patch | `GitTree` |
| `provider-core`, `provider-openai` | attempts, delays, wire knobs, merged usage | complete with its retry ladder | `ProviderCall`, `RetryLadder` |
| `tool-core`, `tools-std` | grants; one child process per exec | prepare, resolve, execute; file policy | `Workbench`, `FileTools`, `ToolText` |
| `bets` | none (race unwired) | gate verdicts, savepoint, winner | the gate's part only |
| `eval`, `rof eval` | per-instance home, container, reports | seed, run, grade, aggregate | `EvalLeg` |
| `rof` | flags, cancel token | wire, Ctrl-C, patch, exit code | `RunLoop` |

What is hard here:

- **Cancellation.** Ctrl-C fires on another worker at any moment. It is read at the step head,
  raced against the summary, the provider call and each tool, read again before each call of a
  batch and once more after a provider error. A tool call that loses the race is dropped.
- **Write-ahead order.** Rows are appended in memory at many places and synced at fewer; each
  effect outside the process (request, tool, rollback) must find them on disk. A directive is
  written onto a row that must not be on disk yet.
- **Rollback with counters.** A failed or aborted batch moves the tree back; edits, actions,
  streak and the `verified` flag must move with it, and later directives are computed from them.
- **Git as the undo log.** Rollback reads the index, which a tool may change; the proof gate
  rebuilds the tree from a patch, which does not hold everything.
- **Processes.** A child, its group, pipes held by a grandchild, exit, timeout, token and drop.
- **Latches that share a flag.** `call_model` means "retry", "held declare" and "batch answered".
- **Budget edges.** A latched grace step, bounded refunds, a last-step declare that wins over the
  step cap, a summary charged after admission, one ladder for six kinds of provider trouble.
- **Crash and I/O failure of the log.** Torn rows, retained buffer bytes, failed fsyncs, repair.
- **Evaluation over leftovers.** A killed pass leaves a container, files and running verifiers to
  the next pass over the same `--out-dir`.
- **Termination.** The drive loop has no bound of its own.

What makes each component correct is in the property comments of its module, and PROJECT.json ties
each hazard to the properties that would catch it.

## 2. Modules

### The run

`BudgetGuard` holds the guard as a record and pure operators (`Peek`, `MayStep`, `AfterMayStep`,
`RefundStep`, ...), because the code embeds it by value in `LoopState`. The wall clock is the
boolean `late`, which only turns true.

`RunLoop` extends it and is the run. The driver is one task, so its handlers are sequential; what
interleaves with them is `Cancel` and `WallClock`, and each await may end in any of its results.
`pc` cuts a handler exactly at its awaits and at its reads of the token:

| pc | in the code |
|---|---|
| start, header, ensure, seed | `open_run` |
| head, admit | `step_head`, `start_provider_call` |
| round, summary, request, calling | `provider_round`: checkpoint race, then call race |
| aborted, failed | `settle_provider_error`, by token or by the provider |
| judge, settle | `terminate`, without and with the frames of a hop |
| baseline, tools, exec, notice, undo | `tool_batch` |
| gate | `proof_gate` |
| finish, done | `finish`, and after `run` returned |

`loop`, `budget`, `verify`, `open` and `batch` are the control part of `LoopState`; `log` and
`live` are what the file and the event stream show; `disk` and `base` are the work tree and its
last baseline commit. A tree is the edits it holds, whether that content passed a test and whether
a failed call left something behind. `log` keeps only what the loop's properties tell apart: the
open turns and whether a row is pending; cells, torn writes and fsync are `DurableLog`'s. `seen`
is history: failures in a row, a pending retry, a call settled as cancelled. It guards nothing.
A followup hop, `SettleCancelled` and the rows `HardExit` leaves out follow the code in that they
do not emit or sync what one might expect.

`RunContract` is what a run promises from outside: turns one at a time, a request only when every
call has its result and the batch is settled, answers in order, a batch as a transaction on the work
tree (kept whole or undone; part of it only with a proof command), one result, and Cancelled exactly
when a stop was read. Losing the log or git is part of it, in any step. `RunLoop` implements it
(`ImplementsContract`): the batch runs from `baseline` to the verdict at `gate`, and the tree it is
undone to is `base` while it does.

`DurableLog` is the writer, the reader and the tail sync between them. A row is three cells, so a
write can tear inside a body and before the LF. `AppendRow`, `AppendEnd` and `AppendFailed` are the
loop's side (`sync`, `finish`); `BeginAppend` to `Fsync` is one `append`; `WriteFails` and
`FsyncFails` are its errors with what `BufWriter` keeps; `Crash` leaves any cut behind the last
fsync; `Reopen` is `open` with its repair, by an owner that continues behind the rows it reads.
The repository has no such owner yet (`rof` deletes a stale log), so it stands for the contract
that `LogWriter::open` documents.

`Transcript` opens up the rows that `RunLoop` counts: assistant rows with their calls by id, the
result rows that answer them, directives on result rows, user rows, the checkpoint that replaces a
prefix by a summary and the anchor of the token estimate. An answer may use an id twice or one of
an earlier answer, and every request is the list of messages `derive_messages` would build. Rows
the model never reads are left out, what a sync may lose is `DurableLog`'s, and whether tests
covered the edits is nondeterministic here.

### Around the run

`ProviderCall` is the abstract call: it settles once and the settled result carries every token an
endpoint reported. `RetryLadder` is `OpenAiCompat::complete` with its attempts, classification,
delays and the knobs an attempt may change (`max_tokens`, thinking). A text is the set of markers
the classifier looks for. It implements `ProviderCall` (`ImplementsCall`, an `INSTANCE ... WITH`).
`RunLoop` uses a call as one answer with a bill, which is what `ProviderCall` promises.

`GitTree` is the snapshot crate over git's index, HEAD and work tree, as a record and operators.
`Workbench` uses it for the batches of a run: `TreeService` around each batch, the calls that write,
the process runner behind `exec`, and the proof command that probes prefixes of a batch. The
processes a tool starts are actors: they write while their call runs, and those that outlive it
(strays) whenever they like. `TreeService` calls are atomic.

`ToolText` is what the standard tools do with text (find and replace, pages, condensing of output),
`FileTools` one call of each tool on a host file system with links and another process beside it.

`EvalLeg` is `rof eval`: one pass over a slice in its three modes, killed anywhere and started
again over the same `--out-dir`. The agent's run is one step; verifiers are actors of their own,
because a grading that times out is abandoned and not killed.

### Checking and proving

`MC*` modules give the model values. `RunLoopProofs`, `DurableLogProofs`, `RetryLadderProofs`,
`WorkbenchProofs`, `TranscriptProofs`, `EvalLegProofs` and `FileToolsProofs` hold the proofs, the
last over `ToolTextProofs`: induction over a set of naturals, least and greatest members, bounds of
finite families, and what the operators of `ToolText` do with any text. Operators whose comment says
"A bug" are no part of any specification: they are the mutated forms of the definition that follows,
each a plausible slip in that code, and each property is known to fail under at least one of them.

## 3. Runs

| run | question | bounds |
|---|---|---|
| `core` | Do counters, tree and outcomes stay in line through retries, holds, rollbacks and Ctrl-C at every await, and is each step one of the contract's? | 4 steps, batches of 2 calls of 4 kinds, `--bets`, no I/O failures (3.3 M states) |
| `faults` | With every cap armed and any append or git call failing: is each effect behind its row, are frames paired, how far are caps overshot, does the run end? | 2 steps, batches of 2, 2 tokens, streak 1, 1 action per trial, wall clock, compaction, 1 follow-up, incremental gate, fair (2.1 M states) |
| `retries` | Does a fresh step have its full retries, as `state.rs:230` says? Violated. | 3 steps, batches of 1 |
| `cancelrace` | Does a run cancelled by Ctrl-C report Cancelled, as `main.rs:110` says? Violated. | 3 steps, batches of 1 |
| `partial` | Is a failed batch wholly reverted, as `ROLLBACK_NOTICE` says, with `--proof-cmd`? Violated. | 2 steps, batches of 3 |
| `log_faults` | What does an acknowledged row survive? | 4 rows before the closing one, row 2 longer than the buffer |
| `log_seqgap` | Does a closed log validate after a failed append? Violated. | same |
| `ladder` | Does one logical call end, within which attempts, with which bill, and does it repeat what was cut? | all answer sequences of the 8 attempts, ceiling 8, a refreshable key, fair |
| `workbench` | Is what is undone undone, what stands whole, the printed patch complete, and every killed group gone? Does a call return? | 3 paths (one ignored), text, CRLF, binary and oversized contents, 2 batches, 1 process write, 1 grandchild, fair |
| `transcript` | Is each request well-formed and made of what the log holds, through summaries and directives? | 2 batches of 2 calls, 2 ids, 1 input, 1 follow-up, trial cap 4 |
| `eval` | What may a verdict stand for, what does a rerun find, does a pass end? | 2 instances (one without an image), 2 passes, 1 failing call, fair |
| `files` | Do write, edit, view, search and exec do what they say? | see below |

Why the bounds are enough.

- *`core`, `faults`.* Four steps fit the longest chain a property of `core` needs: an edit, a held
  declare, a failed batch and the declare after it; retries are 2 in the code and are not shrunk,
  nor is the nudge cap. Two calls in a batch give a first, a last and a failure before and after a
  success; `partial` needs the third for a proper prefix before a failure. The model is finite
  without a state constraint, since rounds are bounded by `MaxSteps + 1` and everything else by
  rounds. Two tokens and one follow-up let the summary, the call and the grace step each overshoot.
  What these bounds hide is proved for every value, see section 5.
- *`log_faults`.* A header, a large row, a row after it and one more after a reopening.
- *`ladder`.* The attempt cap is the code's. Texts are the marker sets that the classifier treats
  differently, asks for a delay lie below, at and above the code's bounds.
- *`workbench`.* One process write races a batch, one grandchild holds a pipe, stays in the group or
  leaves it; two batches are needed to see a baseline follow a kept batch. One call per batch is
  enough because processes of the call write several files at once.
- *`transcript`.* Two ids are enough for a clash inside an answer and across answers (they are
  symmetric); two batches and a follow-up let a second checkpoint absorb the first.
- *`eval`.* The second pass meets what the first left; the second instance what the first instance
  of the same pass left.
- *`files`.* Texts of up to 4 characters over a letter, a blank and a newline against searches of up
  to 3; views of texts of up to 6 over a letter, a wide character and a newline, from every offset,
  with `max_bytes` 0, 2 or absent; trees with one link (11 targets), an empty tree, `/app` on the
  host; output of up to 6 lines; commands of three words of up to 2 characters over a letter, a
  blank, quotes, the backslash and `>`; one write of another process; two link hops.

Deadlock is checked unless the system may stop: `Ended` and `Refused` and their kind are stuttering
actions where a run is over. `transcript`, `eval` and `files` switch the check off because there a
run may end at any point, a pass is over, or a call has answered.

Fairness. `RunLoop`'s `FairSpec` adds `WF_vars(Step)`: the task's next step is taken if it stays
enabled. The code justifies it because each await ends: provider calls by the adapter's bounded
ladder (`ImplementsCall`, run `ladder`), tools and proof commands by their timeouts (`CallReturns`,
run `workbench`, with its exception), git and log I/O by returning; and the executor polls the task.
`RetryLadder` has `WF(Step)`, since an attempt ends by its request timeout and a sleep by the clock;
`Workbench` has weak fairness of the runner only: it makes progress when a child has exited, a pipe
is closed or the timeout is due, and nothing is assumed of the processes it started. `EvalLeg` has
weak fairness of the harness only and none of the verifiers. `Cancel`, `WallClock`, crashes and
failures are the environment's and get none.

## 4. Findings

1. **Retries are inherited.** `start_provider_call` refills `step_retries` unless `call_model` is
   latched, but a finished batch and a held declare latch it too. The comment says a new step
   after success never inherits consumed retries. `FailuresBounded` still holds: no more than
   three rounds fail in a row.
2. **Ctrl-C can end in Done.** If a provider error is ready and the token fires before
   `settle_provider_error` reads it, the failure is settled as cancelled, `stop_hard` stays unset,
   and the run parks and reports Done; with a follow-up queued it hops first, without frames.
   `HardStopReported` shows that this is the only way: once `stop_hard` is set, Cancelled wins.
3. **A reverted batch comes back in part.** With `--proof-cmd` the hunks are probed before the
   rollback, and a Partial verdict puts the proven prefix back although notice and refund say
   that the whole batch is gone.
4. **A row twice.** After an append error the closing sync of `finish` appends from the first row
   that is not synced, which may already be in the file or in the buffer. The closed log has a
   sequence gap, or, with a row longer than the buffer, one merged line that reads as a torn tail.

Smaller disagreements met while modelling; the models follow the code, and a property that touches
one states it as an exception or a guard:

- *Run loop.* A run ended by a log or git failure may leave ToolStart frames open although
  `pairing.rs` asks for pairs. `End::Cancelled` of a tool is unreachable in the shipped loop.
- *Transcript.* Two calls of one answer with the same id get one result row, so that request and
  every later one stays ill-formed, and later directives land on a row that is already synced,
  against the comment in `budget_nudge.rs:95-97`. The anchor counts the row of a held nudge, so the
  next estimate skips one message (`run.rs:821-825`). A batch that the gate aborts gives the model
  no rollback notice.
- *Proof command.* `split_patch` reads lines without their CR, so editing a CRLF file makes
  `git apply` fail and the run ends as failed, and a new CRLF file comes back as LF. A binary change
  has no hunk and the probe loses it. `checkout -- .` fails on an empty index, so a rollback there is
  an error, and an initially empty work tree records no start: Done becomes Failed.
- *Runner.* After a normal exit the readers are joined without a kill, although `runner.rs:338-341`
  says otherwise, so a grandchild that holds the pipe blocks the call; after a timeout, one that left
  the group does. Dropping the call while readers are joined does not kill. `CallReturns` states
  exactly these exceptions.
- *Ladder.* A request that timed out is retried (`client.rs:286-299`), so one dead endpoint holds
  `complete` for several request timeouts although the comment at `client.rs:36-38` says it wedges
  no longer than one. The comment on 503s speaks of about 4 minutes, the delays add up to 7 x 60 s.
  A transport error's text includes the URL, which is searched for "503" too.
- *Evaluation.* The reward files under one `--out-dir` are never removed, so a file of an earlier
  pass, or of an agent command that ran the task's tests, can decide a verdict
  (`eval_agent.rs:404-412` says fresh per cell). A harbor that timed out may write its result later.
  Excluded instances still run. An exit status of 130 or 137 of `docker exec` scores Unresolved.
  An infra row reads the dump of an earlier pass.
- *File tools.* A write to `/app/new/x` resolves, but its missing parents are made from the
  unstripped path, so it is denied although `policy.rs:184` says `/app` is the workspace. A file that
  appears between the check and the write is truncated although the comment in `write.rs` says the
  write fails. Matches do not overlap, so "aa" in "aaa" counts as unique. The notice of a page cut
  inside the last line names an offset behind the end. `**` in a pattern crosses `/` only before a
  `/`. `split_cmd` drops an empty quoted argument. An edit loses a change made between its read and
  its write, which its comment says.

## 5. Proofs

Every theorem holds for every value of the constants under the module's named assumption, which
states the code's own types (`max_steps` is a NonZeroU32, other caps are unsigned, instance ids
differ). Nothing bounds steps, batches, bills, rows or processes in a proof.

**Run loop.** `RunLoopProofs` begins with `TypeCorrect == Spec => []TypeOK`. `TypeOK` alone is not
inductive: that a batch's hunks are a natural number needs `disk.edits >= base.edits` while the
batch runs. That is `BatchGrows`, and the induction is over both. One lemma types the shared updates
of each record, one the outcome of a sync, and the step is split by group of actions.

Then comes one inductive invariant, `Safe`, a conjunction of `TypeOK`, `BatchGrows` and

- `RowsSettled`: a row is pending only at a step head, in finish or after it. `WriteAhead` follows.
- `CallsAnswered`: the open calls are exactly the rest of the batch, none are open elsewhere, and
  a request is in flight only inside its round. `NoDanglingCalls` follows. It is needed because the
  property itself says nothing of the states in which a batch is running.
- `StepsCounted`: the guard's counter is the number of rounds started until a round is refunded;
  only a call settled as cancelled is, the token is then set for good, so the next head closes the
  gate and no round starts. A round past the cap has burnt the grace latch. `CallsBounded` follows.
- `TurnsTracked`: the log's open turn is the loop's turn. `OneOpenTurn` follows.

`NoEffectAfterCancel` is proved from `Next` alone.

The next part is about the counters and the tree. `TreeTracked`, for every gate but the one with
a proof command: between batches the counters equal the tree, `verified` implies a tested tree and a failed
batch has left its baseline on disk; inside a batch the snapshot describes the baseline, and only a
failed call may spoil a verified tree, which the rollback then undoes. Hunks are proven all or not
at all, so a Partial verdict cannot occur. `CountersMatchTree`, `VerifiedMeansTested` and
`FailedBatchReverted` follow. With a proof command they are false (run `partial`) and not claimed.
`NudgeMarked`, under every gate: the nudge's mark never exceeds the edits, nor the edits that a
refund would return to; `NudgeBaselineSound` follows.

The last part adds what a run reports and what it may use up, as `Settling`:

- `StopTracked`: the effect gate is shut exactly when a stop or a fatal error has been recorded, a
  round runs only behind an open gate, and the outcome is set only by closing. `HardStopReported`.
- `HeldTracked`: an armed directive has the model called again, is on its way in a request, or the
  run is fatal or cancelled. `HeldDirectiveSent`.
- `FailsCounted`: failures in a row and retries left add up to at most 2 while a retry is to come.
  `FailuresBounded`; this is what makes finding 1 harmless.
- `FramesTracked`: the live stream's open tools are the open calls, its open turns are the log's
  unless the run was cancelled, lost its log or its git. `FramesPaired`.
- `SpendTracked`: under the cap until a bill crosses it, then at most the summary, the call and the
  grace step, by whether a checkpoint was tried. `SpendBounded`.

`RunImplementsContract` is the refinement: initial states map to initial states, and under `Safe` and
`StopTracked` every step is one of the contract's or a stutter, with a lemma for each action of the
contract. Besides it needs that a round has its request, that a notice is about a failed batch, and
that such a batch has left its baseline when the gate judges it (`BatchBound`); that nothing but a
proof command keeps part of a batch is `TreeTracked`.

**Ladder.** `RetryLadderProofs`: the attempt counter never passes the cap; a truncated shape is
changed before it is sent again (with a wire knob there, about the bodies on the wire); and
`LadderImplementsCall`, the safety part of the refinement: initial states map to initial states and
every step to a step of `ProviderCall` or a stutter, because the accumulated usage is what was
reported so far. `LadderRungsBounded`: at most two rungs of a climb are no counted doubling, and a
ceiling of 2^k steps has room for k doublings (`Climbed`). The powers of two are a recursive
function; that it exists is shown by induction over the set of naturals up to which it does.

**Work tree.** `WorkbenchProofs`: from the start of a batch to its verdict the baseline is the
index unless a tool staged something (`BaselineInIndex`), and once undone it is in the tree
(`UndoneInPlace`); ignored paths never enter the index, so what the patch shows is what
changed since the start commit, which stays the first one. `KilledGroup` strengthens `GroupsKilled`:
a child whose group was killed has no member left, because the leader is not reaped before.
`KeptAsProven` rests on `KeptInv`: a batch that ended as kept has its last probe in the tree, and
while prefixes are probed the tree is the baseline under the hunks of the prefix on trial.

**Rows.** `TranscriptProofs`: a row keeps its role, calls and answers for good; the ids still open
are those of the calls to come (`OpenCalls`), so a directive lands on a row appended in the same
step, before it is synced; a cut never starts at a tool row (`CutClean`), so no summary separates a
call from its answer; calls are answered in order except those of the running batch
(`CallsAnswered`); a held nudge adds one user row (`RequestRows`). One settling may meet the notice that waits and two
counter directives, so that no directive is lost or doubled (`DirectivesOnce`, by `NoticeInv`) needs
a queue of three: the hypothesis `DirectiveCap >= 3` is the code's `DIRECTIVE_CAP`. `WireWellFormed`,
`NothingForgotten`, `DurableText` and `AnchorExact` follow. Induction over the rows is avoided by
stating each part for every index.

**Evaluation.** `EvalLegProofs`: a container carries a pass's number only once that pass started it
(`BoxInv`, which needs distinct ids); verifiers of the current pass that still run belong to
instances that are over (`StrayInv`), so a mark in the running container was written while verifying
in it (`WrittenInv`); along an instance without a failed call the tree is clean, the container alive
and the dump ended (`CleanInv`); `GroundInv` and `CellInv` carry what a verdict rests on.
`CapabilityGrounded`, `VerdictAsWritten`, `RerunScores` and `NoBoxLeft` follow.

**Log.** `DurableLogProofs`: look at file and buffer as one stream. Rows enter it whole and every
failure, crash or repair leaves a beginning of it, so each LF has its row's body before it
(`WovenStream`). While the log is open each synced row has its LF in the file (`SyncedHeld`), behind
an fsync each acknowledged one in the durable part (`AckedHeld`). What a reopening counts as synced
is in the file too: the ranks of a gapless file are a one-to-one map into as many numbers, so they
take every one (`EveryRank`). `AckedOnDisk` follows. Without a failed append the stream is the rows
in order (`InOrder`), any cut of which the reader reads (`OrderedReads`, whole rows by their quotient
by three); `ReadableAtAnyCut` and `ClosedComplete` follow. No induction over the file is needed.

**Files.** `ToolTextProofs` has the facts about texts, `FileToolsProofs` those about paths and calls.
Walks along a path are recursive functions over finitely many steps, which exist by set induction
(`WalkExists`), and every fact about them is an invariant of the step.

- `ReadsWhole`: a reader has seen the first lines, up to the offset the next call goes on at
  (`ReadInv`); a page is never empty, because a line that overflows a cap is cut and counted rather
  than left for the next page. A view is refused only for what stands in its own path: the walks
  along a path and along its parent go abreast until the last name (`StepsAbreast`, `ParentThere`).
- `EditOneSpan` has two halves. About texts: positions that match are sets, each overlapped by an
  earlier match or a match itself (`MatchesRule`); the k-th origin and the place of an origin are
  inverse (`NthPlace`), so that a part of a text that begins at an origin collapses to a part of the
  collapsed text (`SliceCollapses`). Hence a span reads like the search exactly where the collapsed
  text matches (`LikeMatches`), and a hunk is applied to the single meaning of its search and fails
  if there is not one (`HunkApplied`). About files: a regular file put where a path leads is where it
  leads afterwards, for no link changes (`RealPut`). So an edit under way is at a regular file
  nobody can take from its path (`EditInv`), its save always finds it, and `fs` differs from `before`
  there only.
- `ExecFaithful` has two halves as well. About words: what the reader of a command makes of a piece
  takes it from one state to another (`Reads`), pieces put together take the one on from the other
  (`ReadsOn`), and each of them is read off by its own kind: a quoted word letter by letter
  (`QuotedReads`), a plain one (`PlainReads`), a gap, which ends the word before it (`GapReads`). So
  a command that spells its words is split into them (`SpeltSplit`). About output: the pipe holds
  the first lines and the last ones whatever the reads were (`PushPiped`), what is collected of it
  is those two ends in order (`PipedCollects`), and of any such lines condensing keeps the last
  signal, the specific ones while there is room, and never more than the cap (`CondensedTells`).
- `WriteLands` is about two trees, the one the path was checked in and the one it is written in.
  What a walk does is told from the path: one that meets no link leads to the path's normal form if
  what it names on the way are directories (`StraightWays`), and a walk along a path goes on where
  the one along its parent ended (`LastFollows`). So what symlink_safe lets through leads into the
  workspace and not into .git (`SafeTarget`), the target of a link in the last place included. And
  more of a tree, a directory where nothing was or a file over a file, leads no walk elsewhere but
  one that had failed for want of it (`RealSteady`). Hence `WriteInv`: from the last check on, where
  the path leads is safe to put a file at (`Guarded`), and nothing else differs from the tree before
  but by new directories (`Spared`). That an ordinary path is written is `WantedInv`: every directory
  on its way is one if it is there (`Paved`), the level about to be made is below one that is there,
  symlink_safe finds nothing against it (`LevelMade`, `LevelSafe`), and the second check finds the
  last one (`ClearAnswer`). The other process may write the file at any instant; all that `Small` asks
  of it is not to make it too big.
- `SearchExact` is about one list, which grows by the hits of a file at a time. What a search has
  gathered of a set of files (`Gathers`) is the first hits of all of theirs, in order and within the
  limit, and the number of files left out for their size. A file that comes after all of them adds
  its own to it, cut where the room ends (`FileGathered`); once the list is full, later files change
  nothing (`FullStays`). The entries of a directory are its names in their order (`ChildrenAre`), and
  what is behind the one comes before what is behind the next (`SweptOn`), so a directory swept adds
  the files below it (`SweepAdds`) if the directories in it do. Depth is where the induction is: a
  tree is finite, so its paths have a longest one (`DepthBounded`); the recursion over its directories
  has a value at those that are deep enough, then at their parents, up to the root (`WalksThere`), and
  in the same order each of them adds what is below it (`WalkAdds`). `SearchInv` carries the result to
  the answer; that a list cut at the limit has all hits or as many as asked for is counting
  (`FirstsCounted`).

The assumption is that trees are finite and rooted in a directory, that texts are sequences of
characters, that paths and link targets are sequences of names, that a command whose words are
given spells them by the rules of quoting (`Spelt`), and that the tail of an answer is no longer
than the tail of the pipe, as in the code (2000 bytes and 64 KiB; a line is the unit here). Of trees
(`WritesAssumption`): what is there is in a directory, the workspace is one, a link to what is not
there names no other link and not .git from outside (`Plainly`: of such a target symlink_safe has
the text only). Of a write: its path does not spell the workspace itself, which symlink_safe accepts
as it is. Of a search (`SearchAssumption`): every name of a tree has its own place in the order
directories are sorted by. TLC evaluates these assumptions on every tree and call of `files`.

Every safety invariant of the passing runs is a theorem. Only model-checked is what is out of the
prover's reach, liveness under fairness and ENABLED (`Termination`, `CallReturns`, `PassEnds`, the
liveness half of `ImplementsCall`).

## 6. What is not modelled

- *Event consumers.* Listeners and taps of the emitter: only `rof`'s own dump listens, and history
  is appended before anything is delivered. Forked trace sinks: no caller in `src/` makes one, and
  the one shipped sink sits behind one emitter.
- *Unwired code.* The race of `bets` and its metrics, `crash_repair`, the channel driver
  `drive_tick` (compiled for tests only), hooks that return a verdict from `on_step` (no shipped hook
  does), the drain deadline of `terminate` (nothing is in flight when `run` asks it).
- *Text and data.* The estimate in tokens, collapse of old results, pins and the budget line of a
  request; the JSON of messages and the reasoning echo; flag parsing, printing, prices; parsing,
  estimands and statistics of evaluation reports; winnability and credential gates.
- *Run loop.* Message frames and saturation of counters.
- *Transcript.* Rows the model never reads; token sizes are nondeterministic.
- *Work tree.* More than one hunk per file, renames, modes, embedded repositories, a dirty work tree
  at the start, an atomic git call that fails half way, the staging directory of the syntax check.
- *File tools.* A link swapped in after the check, chains of dangling links, a write whose
  path spells the workspace itself, `.` components, CR.
- *Evaluation.* Torn dumps, reward files with other words than the verdicts.
- Developer scripts and documents, which are used as what the program promises.

## 7. What is left

- A model of `Workbench` with a git call that fails half way.
- A model of chains of dangling links, which `Plainly` keeps out, and of a link swapped in after the check.
