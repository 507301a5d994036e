------------------------------- MODULE EvalLeg -------------------------------
(***************************************************************************)
(* `rof eval': one pass over a slice of task instances.  Per instance a    *)
(* fresh work tree, the agent's run, a verifier and a report row; at the   *)
(* end one report.  The pass may be killed at any point and started again  *)
(* on the same --out-dir, in any of its three modes.                       *)
(*                                                                         *)
(*   plain      docker run of the task image, reward file in the work tree *)
(*   harbor     --agent: the agent on the host, graded by `harbor run'     *)
(*   container  --agent --in-container: agent and verifier in one          *)
(*              container that the pass starts and removes                 *)
(*                                                                         *)
(* The agent's run is RunLoop's; here it is one step that ends.  docker,   *)
(* harbor and the processes they start are actors of their own: what the   *)
(* pass stopped waiting for may still write.                               *)
(***************************************************************************)
EXTENDS Naturals, Sequences, FiniteSets

CONSTANTS
    Slice,       \* load_tb_slice: the instance ids in order
    HasImage,    \* the ids whose task.toml names an image
    MaxPasses,   \* bounds the passes over one --out-dir
    MaxFaults    \* and the calls that fail

Ids == {Slice[i] : i \in DOMAIN Slice}
Modes == {"plain", "harbor", "container"}
Runs == 0..MaxPasses

ASSUME EvalAssumption ==
    /\ Slice \in Seq(Ids) /\ \A i, j \in DOMAIN Slice : Slice[i] = Slice[j] => i = j
    /\ HasImage \subseteq Ids
    /\ MaxPasses \in Nat /\ MaxFaults \in Nat

VARIABLES
    pass,      \* the running pass: its number, mode, place, rows and exit code
    disk,      \* per instance: root-owned leftovers, event dump, each mode's reward file
    box,       \* per instance: the container called eval-ID-env, and the pass that started it
    strays,    \* verifiers that nobody waits for any more
    cell,      \* the current instance: its verdict, and what happened to it (history)
    report,    \* the report file: the pass that wrote it, and its rows
    faults     \* calls that failed so far

vars == <<pass, disk, box, strays, cell, report, faults>>

Verdicts == {"Resolved", "Unresolved", "ErrorNoReport", "InfraFailure", "Ambiguous"}
Capability == {"Resolved", "Unresolved"}
Says == {"pass", "fail", "junk"}
PCs == {"off", "home", "wipe", "seed", "preclean", "boot", "agent", "grade", "verify",
        "remove", "row", "report", "done"}

NoDump == [run |-> 0, ended |-> FALSE]
NoBox == [run |-> 0, alive |-> FALSE]
NoReport == [run |-> 0, rows |-> <<>>]

\* verdict: decided, early when the failure has its own `continue'; clean: the work tree held
\* the task's own files only; ended: the dump has a RunEnd; ran: a verifier of this cell did;
\* wrote: what it wrote; timely: it was waited for; worked: the agent did something; faulty: a
\* call failed, a container died or time ran out; leaks: the container could not be removed.
FreshCell == [verdict |-> "none", early |-> FALSE, clean |-> FALSE, ended |-> FALSE,
              ran |-> FALSE, wrote |-> "none", timely |-> FALSE, worked |-> FALSE,
              faulty |-> FALSE, leaks |-> FALSE]

Id == Slice[pass.at]
InBox == pass.mode = "container"
Mark == disk[Id].mark[pass.mode]

\* A call to the file system, docker or harbor goes well or fails.
Tries == IF faults < MaxFaults THEN BOOLEAN ELSE {TRUE}
Tally(ok) == faults' = IF ok THEN faults ELSE faults + 1
Noting(ok, c) == [c EXCEPT !.faulty = @ \/ ~ok]

Goto(pc) == pass' = [pass EXCEPT !.pc = pc]
Quit(code) == pass' = [pass EXCEPT !.pc = "done", !.code = code]
Failing(c) == [c EXCEPT !.verdict = "InfraFailure", !.early = TRUE]

-----------------------------------------------------------------------------
(* Before the agent *)

Begin ==
    /\ pass.pc \in {"off", "done"} /\ pass.n < MaxPasses
    /\ \E m \in Modes :
           pass' = [n |-> pass.n + 1, mode |-> m, at |-> 1, rows |-> <<>>, code |-> 0,
                    pc |-> IF Slice = <<>> THEN "report" ELSE "home"]
    /\ cell' = FreshCell
    /\ UNCHANGED <<disk, box, strays, report, faults>>

\* An instance home that cannot be created ends the pass: no report.
OpenHome ==
    /\ pass.pc = "home"
    /\ \E ok \in Tries :
           /\ Tally(ok)
           /\ IF ~ok THEN Quit(2)
              ELSE Goto(CASE pass.mode = "plain" -> "grade"
                          [] InBox /\ Id \in HasImage -> "wipe"
                          [] OTHER -> "seed")
    /\ UNCHANGED <<disk, box, strays, cell, report>>

\* wipe_workdir_via_docker, best effort: an image without sh leaves everything as it is.
Wipe ==
    /\ pass.pc = "wipe"
    /\ \E ok \in Tries :
           /\ Tally(ok)
           /\ disk' = [disk EXCEPT ![Id].root = @ /\ ~ok]
           /\ cell' = Noting(ok, cell)
    /\ Goto("seed")
    /\ UNCHANGED <<box, strays, report>>

\* fresh_workdir ignores what it cannot delete and seeds over it; validate_workdir refuses the
\* tree if the leftovers are a repository with changes.
Seed ==
    /\ pass.pc = "seed"
    /\ \E ok \in Tries, dirty \in BOOLEAN :
           LET refused == ~ok \/ dirty
               imageless == InBox /\ Id \notin HasImage
               c == [Noting(ok, cell) EXCEPT !.clean = ~disk[Id].root]
           IN  /\ dirty => disk[Id].root
               /\ Tally(ok)
               /\ cell' = IF refused \/ imageless THEN Failing(c) ELSE c
               /\ Goto(IF refused \/ imageless THEN "row"
                       ELSE IF InBox THEN "preclean" ELSE "agent")
    /\ UNCHANGED <<disk, box, strays, report>>

\* What lives in a container dies with it.
Without(id) == {s \in strays : ~(s.mode = "container" /\ s.id = id)}

\* rm_env_container: docker rm -f, whatever it answers.
Remove(ok) ==
    /\ Tally(ok)
    /\ box' = IF ok THEN [box EXCEPT ![Id] = NoBox] ELSE box
    /\ strays' = IF ok THEN Without(Id) ELSE strays

\* A bug: a fresh name is assumed.
NoPreclean ==
    /\ pass.pc = "preclean" /\ Goto("boot")
    /\ UNCHANGED <<disk, box, strays, cell, report, faults>>

Preclean ==
    /\ pass.pc = "preclean"
    /\ \E ok \in Tries : Remove(ok) /\ cell' = Noting(ok, cell)
    /\ Goto("boot")
    /\ UNCHANGED <<disk, report>>

\* A bug: a container that has the name will do.
BootOrReuse ==
    /\ pass.pc = "boot" /\ Goto("agent")
    /\ box' = IF box[Id].alive THEN box ELSE [box EXCEPT ![Id] = [run |-> pass.n, alive |-> TRUE]]
    /\ UNCHANGED <<disk, strays, cell, report, faults>>

\* docker run --name fails when the name is taken; a container that could not be started may
\* keep it.
Boot ==
    /\ pass.pc = "boot"
    /\ \E ok \in Tries, kept \in BOOLEAN :
           LET up == ok /\ box[Id] = NoBox
               c == Noting(ok, cell)
           IN  /\ kept => ~ok /\ box[Id] = NoBox
               /\ Tally(ok)
               /\ box' = IF up \/ kept THEN [box EXCEPT ![Id] = [run |-> pass.n, alive |-> up]]
                         ELSE box
               /\ cell' = IF up THEN c ELSE Failing(c)
               /\ Goto(IF up THEN "agent" ELSE "row")
    /\ UNCHANGED <<disk, strays, report>>

-----------------------------------------------------------------------------
(* The agent's run *)

\* In the container the agent's commands write as root, and may run the task's own tests, which
\* leave their reward where the grading looks.
AgentWorks ==
    /\ pass.pc = "agent" /\ InBox /\ box[Id].alive /\ ~cell.worked
    /\ \E says \in Says \cup {Mark} :
           disk' = [disk EXCEPT ![Id].root = TRUE, ![Id].mark["container"] = says]
    /\ cell' = [cell EXCEPT !.worked = TRUE]
    /\ UNCHANGED <<pass, box, strays, report, faults>>

\* A bug: only a finished run's container is removed.
SettledIfEnded(pc) == IF InBox /\ cell.ended THEN "remove" ELSE pc

Settled(pc) == IF InBox THEN "remove" ELSE pc

\* execute replaces the dump at its start; finalize_dump checks it against the history and
\* writes it anew if it must, which may fail, or, in TraceSink, fall short without an error.
AgentEnds ==
    /\ pass.pc = "agent"
    /\ \E ok, told \in BOOLEAN :
           /\ ok \in Tries /\ (ok => told)
           /\ Tally(ok)
           /\ disk' = [disk EXCEPT ![Id].dump = IF ok THEN [run |-> pass.n, ended |-> TRUE]
                                                ELSE [run |-> IF told THEN 0 ELSE pass.n,
                                                      ended |-> FALSE]]
           /\ cell' = CASE ok -> [cell EXCEPT !.ended = TRUE]
                        [] ~ok /\ told -> Failing(Noting(ok, cell))
                        [] OTHER -> Noting(ok, cell)
           /\ Goto(IF ~told \/ ok THEN "grade" ELSE Settled("row"))
    /\ UNCHANGED <<box, strays, report>>

BoxDies ==
    /\ pass.pc \in {"agent", "grade", "verify"} /\ InBox /\ box[Id].alive
    /\ FALSE \in Tries /\ Tally(FALSE)
    /\ box' = [box EXCEPT ![Id].alive = FALSE]
    /\ cell' = Noting(FALSE, cell)
    /\ UNCHANGED <<pass, disk, strays, report>>

-----------------------------------------------------------------------------
(* Grading *)

\* No RunEnd in the dump: infra.  Then the verifier is started: docker exec in the agent's
\* container, harbor on a packed copy of the work tree, docker run of the task image.
Grade ==
    /\ pass.pc = "grade"
    /\ \E ok \in Tries :
           LET go == (pass.mode = "plain" \/ disk[Id].dump.ended) /\ ok
           IN  /\ Tally(ok)
               /\ cell' = IF go THEN [cell EXCEPT !.timely = TRUE]
                          ELSE [Noting(ok, cell) EXCEPT !.verdict = "InfraFailure"]
               /\ Goto(IF go THEN "verify" ELSE Settled("row"))
    /\ UNCHANGED <<disk, box, strays, report>>

VerifierWrites ==
    /\ pass.pc = "verify" /\ cell.wrote = "none"
    /\ InBox => box[Id].alive
    /\ \E says \in Says :
           /\ disk' = [disk EXCEPT ![Id].mark[pass.mode] = says]
           /\ cell' = [cell EXCEPT !.ran = TRUE, !.wrote = says]
    /\ UNCHANGED <<pass, box, strays, report, faults>>

\* check_tb_reward and reward_verdict: what is neither 1 nor 0.
FromMark(says) ==
    CASE says = "pass" -> "Resolved"
      [] says = "fail" -> "Unresolved"
      [] says = "junk" /\ pass.mode # "harbor" -> "Ambiguous"
      [] OTHER -> "ErrorNoReport"

\* A bug: every nonzero exit is a failed suite.
FromStatus(exit) == IF exit = "zero" THEN "Resolved" ELSE "Unresolved"

\* grade_exit_verdict: docker's own errors, and a test script that cannot be run, are infra.
FromExit(exit) ==
    CASE exit = "zero" -> "Resolved"
      [] exit = "nonzero" -> "Unresolved"
      [] OTHER -> "InfraFailure"

\* The reward file decides if there is one; without it the container's exit code does, and
\* harbor has failed unless it said otherwise.  DockerEngine does not look at the exit code.
VerdictOf(exit) ==
    CASE InBox /\ Mark = "none" -> FromExit(exit)
      [] pass.mode = "harbor" /\ Mark = "none" /\ exit # "zero" -> "InfraFailure"
      [] OTHER -> FromMark(Mark)

\* zero and nonzero are the verifier's own, error is docker's or harbor's.
VerifierEnds ==
    /\ pass.pc = "verify"
    /\ \E exit \in {"zero", "nonzero", "error"} :
           LET own == exit # "error"
               dead == InBox /\ ~box[Id].alive
           IN  /\ own => ~dead \/ cell.ran
               /\ exit = "nonzero" => InBox
               /\ own /\ pass.mode = "harbor" => cell.wrote # "none"
               /\ own \/ dead \/ FALSE \in Tries
               /\ Tally(own \/ dead)
               /\ cell' = [Noting(own \/ dead, cell) EXCEPT !.ran = @ \/ own,
                                                           !.verdict = VerdictOf(exit)]
    /\ Goto(Settled("row"))
    /\ UNCHANGED <<disk, box, strays, report>>

Verifier == [mode |-> pass.mode, id |-> Id, run |-> pass.n]

\* A bug: the grading is awaited without a timeout.
NoTimeout == FALSE

\* A docker exec or a harbor that is not waited for is not killed either.
GradeTimeout ==
    /\ pass.pc = "verify" /\ pass.mode # "plain"
    /\ cell' = [Noting(FALSE, cell) EXCEPT !.timely = FALSE, !.verdict = "InfraFailure"]
    /\ strays' = strays \cup {Verifier}
    /\ Goto(Settled("row"))
    /\ UNCHANGED <<disk, box, report, faults>>

StrayWrites ==
    /\ \E s \in strays, says \in Says :
           /\ s.mode = "container" => box[s.id] = [run |-> s.run, alive |-> TRUE]
           /\ disk' = [disk EXCEPT ![s.id].mark[s.mode] = says]
           /\ strays' = strays \ {s}
    /\ UNCHANGED <<pass, box, cell, report, faults>>

CleanUp ==
    /\ pass.pc = "remove"
    /\ \E ok \in Tries :
           /\ Remove(ok)
           /\ cell' = [Noting(ok, cell) EXCEPT !.leaks = ~ok]
    /\ Goto("row")
    /\ UNCHANGED <<disk, report>>

-----------------------------------------------------------------------------
(* The report *)

\* instance_report takes the bill from whatever dump lies in the home.  An unreadable dump ends
\* the pass after a grading; infra_report has a row without facts for it.  A plain pass empties
\* the dump first.
AddRow ==
    /\ pass.pc = "row"
    /\ \E ok \in Tries :
           LET dump == IF pass.mode = "plain" THEN NoDump ELSE disk[Id].dump
               facts == IF ok THEN dump.run ELSE 0
               last == pass.at = Len(Slice)
           IN  /\ Tally(ok)
               /\ disk' = [disk EXCEPT ![Id].dump = dump]
               /\ IF ~ok /\ ~cell.early THEN Quit(2) /\ UNCHANGED cell
                  ELSE /\ pass' = [pass EXCEPT
                               !.rows = Append(@, [id |-> Id, verdict |-> cell.verdict,
                                                   facts |-> facts]),
                               !.at = IF last THEN @ ELSE @ + 1,
                               !.pc = IF last THEN "report" ELSE "home"]
                       /\ cell' = FreshCell
    /\ UNCHANGED <<box, strays, report>>

FinishReport ==
    /\ pass.pc = "report"
    /\ \E ok \in Tries :
           /\ Tally(ok)
           /\ report' = IF ok THEN [run |-> pass.n, rows |-> pass.rows] ELSE report
           /\ Quit(IF ok THEN 0 ELSE 2)
    /\ UNCHANGED <<disk, box, strays, cell>>

\* The pass is killed: its rows are lost, a running agent leaves a dump without RunEnd, its
\* container and a verifier live on.
Kill ==
    /\ pass.pc \notin {"off", "done"}
    /\ pass' = [pass EXCEPT !.pc = "off", !.rows = <<>>]
    /\ disk' = IF pass.pc = "agent"
               THEN [disk EXCEPT ![Id].dump = [run |-> pass.n, ended |-> FALSE]] ELSE disk
    /\ strays' = IF pass.pc = "verify" THEN strays \cup {Verifier} ELSE strays
    /\ cell' = FreshCell
    /\ UNCHANGED <<box, report, faults>>

-----------------------------------------------------------------------------
Init ==
    /\ pass = [n |-> 0, mode |-> "plain", at |-> 1, rows |-> <<>>, code |-> 0, pc |-> "off"]
    /\ disk = [id \in Ids |-> [root |-> FALSE, dump |-> NoDump,
                               mark |-> [m \in Modes |-> "none"]]]
    /\ box = [id \in Ids |-> NoBox]
    /\ strays = {}
    /\ cell = FreshCell
    /\ report = NoReport
    /\ faults = 0

Harness ==
    \/ OpenHome \/ Wipe \/ Seed \/ Preclean \/ Boot \/ AgentEnds \/ Grade \/ GradeTimeout
    \/ CleanUp \/ AddRow \/ FinishReport

World ==
    \/ AgentWorks \/ BoxDies \/ VerifierWrites \/ VerifierEnds \/ StrayWrites

Next == Begin \/ Harness \/ World \/ Kill

Spec == Init /\ [][Next]_vars

\* The harness is a process that is scheduled; docker answers its own calls, the agent's run
\* ends (RunLoop's Termination) and timers fire.  Verifiers promise nothing.
FairSpec == Spec /\ WF_vars(Harness)

-----------------------------------------------------------------------------
(* Properties *)

Row == [id : Ids, verdict : Verdicts, facts : Runs]
Marks == Says \cup {"none"}

PassType == [n : Runs, mode : Modes, at : Nat, rows : Seq(Row), code : {0, 2}, pc : PCs]
DiskType == [root : BOOLEAN, dump : [run : Runs, ended : BOOLEAN], mark : [Modes -> Marks]]
CellType ==
    [verdict : Verdicts \cup {"none"}, early : BOOLEAN, clean : BOOLEAN, ended : BOOLEAN,
     ran : BOOLEAN, wrote : Marks, timely : BOOLEAN, worked : BOOLEAN, faulty : BOOLEAN,
     leaks : BOOLEAN]

\* The types of the variables; a row that is due has a verdict.
TypeOK ==
    /\ pass \in PassType
    /\ disk \in [Ids -> DiskType]
    /\ box \in [Ids -> [run : Runs, alive : BOOLEAN]]
    /\ strays \subseteq [mode : Modes, id : Ids, run : Runs]
    /\ cell \in CellType
    /\ report \in [run : Runs, rows : Seq(Row)]
    /\ faults \in 0..MaxFaults
    /\ pass.pc \in {"remove", "row"} => cell.verdict # "none"

Decided == pass.pc = "row"

\* An infrastructure failure never scores as capability: a resolved or unresolved row is one
\* whose agent run ended (has_run_end), whose verifier answered in time, and ran, unless a
\* reward file that was there before stands in for one.
CapabilityGrounded ==
    Decided /\ cell.verdict \in Capability =>
        /\ cell.timely
        /\ pass.mode # "plain" => cell.ended
        /\ cell.ran \/ (cell.wrote = "none" /\ Mark # "none")

\* What this grading's verifier wrote is the verdict, although earlier passes may have left
\* verifiers running: docker rm and the name of the container keep them out.
VerdictAsWritten ==
    Decided /\ InBox /\ cell.timely /\ cell.wrote # "none" =>
        cell.verdict = FromMark(cell.wrote)

\* Whatever earlier passes left behind (killed ones too), an instance of an in-container pass
\* in which every call succeeds starts on the task's own files and is not infra.
RerunScores ==
    Decided /\ InBox /\ Id \in HasImage /\ ~cell.faulty =>
        cell.clean /\ cell.verdict # "InfraFailure"

\* "The env container dies on every path": a pass that is done with an instance leaves none of
\* its own running, unless docker rm failed.
NoBoxLeft ==
    Decided /\ box[Id].run = pass.n /\ box[Id].alive => cell.leaks

\* A pass with an agent ends, or is killed, although verifiers may hang: the grading is bounded.
PassEnds ==
    pass.pc \notin {"off", "done"} /\ pass.mode # "plain" ~> pass.pc \in {"off", "done"}

=============================================================================
