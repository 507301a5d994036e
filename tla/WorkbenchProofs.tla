--------------------------- MODULE WorkbenchProofs ---------------------------
(***************************************************************************)
(* Proofs about Workbench, for every set of paths and contents, every      *)
(* number of batches, calls and writes, and any processes left behind.     *)
(*                                                                         *)
(* The invariant says where the baseline is: in the index from the moment  *)
(* a batch starts until its verdict, and in the work tree once a failed    *)
(* batch was undone.  Ignored paths never enter the index, so what git     *)
(* sees is fixed.                                                          *)
(***************************************************************************)
EXTENDS Workbench, FiniteSetTheorems, TLAPS

USE DEF Absent, Group, Holders

Seen == Paths \ Ignored

\* Ignored paths are in no index and so in no commit.
IgnoredUntracked == \A p \in Ignored : repo.index[p] = Absent

StartIsOrigin == repo.started => \A p \in Seen : repo.start[p] = seen.origin[p]

\* Nothing has run yet, and HEAD is what the workdir holds unless it has no commit.
Unopened ==
    pc = "open" =>
        /\ child = NoChild /\ strays = {} /\ ~repo.started /\ repo.work = seen.origin
        /\ repo.born => \A p \in Seen : repo.head[p] = seen.origin[p]
        /\ seen.verdict = "none"

InBatch == {"batch", "exec", "probe", "prefix", "proof", "undo", "gate"}

BaselineInIndex ==
    pc \in InBatch /\ ~seen.staged => \A p \in Seen : repo.index[p] = seen.before[p]

UndoneInPlace ==
    pc = "gate" /\ batch.failed /\ ~seen.outside /\ ~seen.staged
        => \A p \in Seen : repo.work[p] = seen.before[p]

\* BatchReverted, of the paths git sees as long as no ignored one is in the index.
BaselineBack ==
    Between /\ seen.verdict \in {"reverted", "notApplied"} /\ ~seen.outside /\ ~seen.staged
        => \A p \in Seen : repo.work[p] = seen.before[p]

TreeInv ==
    /\ IgnoredUntracked
    /\ StartIsOrigin
    /\ Unopened
    /\ BaselineInIndex
    /\ UndoneInPlace
    /\ BaselineBack

KilledGroup == child.phase = "killed" => child.kids \cap Group = {}

-----------------------------------------------------------------------------
(* The git operators.                                                      *)

\* Every TreeService operation leaves a repository.
LEMMA RepoKept ==
    ASSUME GitAssumption, NEW r \in Repo
    PROVE  /\ AddAll(r) \in Repo
           /\ CommitAll(r) \in Repo
           /\ Ensure(r) \in Repo
           /\ Rollback(r) \in Repo
           /\ Restored(r) \in Tree
  <1>1. AddAll(r) \in Repo
    BY DEF AddAll, Visible, Tracked, Repo, Tree
  <1>2. CommitAll(r) \in Repo
    BY <1>1 DEF CommitAll, Repo
  <1>3. Ensure(r) \in Repo
    BY <1>2 DEF Ensure, Repo
  <1>4. Restored(r) \in Tree
    BY DEF Restored, Visible, Tracked, Repo, Tree
  <1>5. Rollback(r) \in Repo
    BY <1>4 DEF Rollback, Repo
  <1> QED BY <1>1, <1>2, <1>3, <1>4, <1>5

\* Applying fragments to a tree gives a tree.
LEMMA PatchedTree ==
    ASSUME GitAssumption, NEW tree \in Tree, NEW hunks \in SUBSET Hunk
    PROVE  Patched(tree, hunks) \in Tree
  <1>1. \A p \in Paths : Patched(tree, hunks)[p] \in Contents \cup {Absent}
    <2> TAKE p \in Paths
    <2>1. CASE \E h \in hunks : h.path = p
      <3>1. (CHOOSE h \in hunks : h.path = p) \in Hunk
        BY <2>1
      <3> QED BY <2>1, <3>1 DEF Patched, Hunk
    <2>2. CASE ~\E h \in hunks : h.path = p
      BY <2>2 DEF Patched, Tree
    <2> QED BY <2>1, <2>2
  <1> QED BY <1>1 DEF Patched, Tree

LEMMA RestoreKept ==
    ASSUME GitAssumption, NEW r \in Repo, NEW hunks \in SUBSET Hunk
    PROVE  RestoreHunks(r, hunks) \in Repo
  <1>1. Patched(Restored(r), hunks) \in Tree
    BY RepoKept, PatchedTree
  <1> QED BY <1>1, RepoKept DEF RestoreHunks, Repo

\* A split patch is a set of fragments.
LEMMA SplitTyped ==
    ASSUME GitAssumption, NEW r \in Repo
    PROVE  SplitPatch(r) \in SUBSET Hunk
  <1>1. \A c \in Contents \cup {Absent} : Stripped(c) \in Contents \cup {Absent}
    BY DEF Stripped, GitAssumption
  <1>2. \A p \in Paths : /\ Stripped(r.index[p]) \in Contents \cup {Absent}
                         /\ Stripped(r.work[p]) \in Contents \cup {Absent}
    BY <1>1 DEF Repo, Tree
  <1>3. Fragments(r) \in SUBSET Hunk
    <2> SUFFICES ASSUME NEW p \in Paths
                 PROVE  [path |-> p, new |-> p \in Untracked(r),
                         from |-> Stripped(r.index[p]), to |-> Stripped(r.work[p])] \in Hunk
      BY DEF Fragments, Changed, Untracked, Tracked
    <2>1. (p \in Untracked(r)) \in BOOLEAN
      OBVIOUS
    <2> QED BY <1>2, <2>1 DEF Hunk
  <1> QED BY <1>3 DEF SplitPatch

\* While no ignored path is in the index, git sees exactly the paths that are not ignored;
\* a rollback gives them the index, and the index takes them from the work tree.
LEMMA VisibleSeen ==
    ASSUME GitAssumption, NEW r \in Repo, \A p \in Ignored : r.index[p] = Absent
    PROVE  /\ Visible(r) = Seen
           /\ \A p \in Seen : Restored(r)[p] = r.index[p]
           /\ \A p \in Seen : AddAll(r).index[p] = r.work[p]
           /\ \A p \in Ignored : AddAll(r).index[p] = Absent
  <1>1. Visible(r) = Seen
    BY DEF Visible, Tracked, Seen, GitAssumption
  <1>2. \A p \in Seen : Restored(r)[p] = r.index[p]
    BY <1>1 DEF Restored, Seen
  <1>3. \A p \in Paths : AddAll(r).index[p] = IF p \in Seen THEN r.work[p] ELSE Absent
    BY <1>1 DEF AddAll, Repo
  <1> QED BY <1>1, <1>2, <1>3 DEF Seen, GitAssumption

\* What each operation does to the parts of the repository.
LEMMA CommitParts ==
    ASSUME NEW r \in Repo
    PROVE  /\ AddAll(r).work = r.work /\ AddAll(r).start = r.start
           /\ AddAll(r).started = r.started /\ AddAll(r).head = r.head
           /\ AddAll(r).born = r.born
           /\ CommitAll(r).index = AddAll(r).index /\ CommitAll(r).work = r.work
           /\ CommitAll(r).start = r.start /\ CommitAll(r).started = r.started
           /\ CommitAll(r).head = AddAll(r).index
           /\ CommitAll(r).born = (r.born \/ AddAll(r).index # r.head)
  <1>1. /\ AddAll(r).work = r.work /\ AddAll(r).start = r.start
        /\ AddAll(r).started = r.started /\ AddAll(r).head = r.head
        /\ AddAll(r).born = r.born
        /\ AddAll(r) = [born |-> r.born, head |-> r.head, index |-> AddAll(r).index,
                        work |-> r.work, started |-> r.started, start |-> r.start]
    BY DEF AddAll, Repo
  <1> QED BY <1>1 DEF CommitAll, Repo

LEMMA RestoreParts ==
    ASSUME NEW r \in Repo, NEW hunks
    PROVE  /\ Rollback(r).index = r.index /\ Rollback(r).start = r.start
           /\ Rollback(r).started = r.started
           /\ CanRollback(r) => Rollback(r).work = Restored(r)
           /\ RestoreHunks(r, hunks).index = r.index
           /\ RestoreHunks(r, hunks).start = r.start
           /\ RestoreHunks(r, hunks).started = r.started
           /\ CanRollback(r) /\ ~CanRestore(r, hunks)
                 => RestoreHunks(r, hunks).work = Restored(r)
  BY DEF Rollback, RestoreHunks, Repo

-----------------------------------------------------------------------------
(* Types.                                                                  *)

ChildTypes ==
    [phase : {"none", "running", "drain", "killed"},
     leader : {"none", "up", "zombie", "reaped"}, ok : BOOLEAN,
     kids : SUBSET (Group \cup Holders), job : Jobs]

BatchTypes ==
    [n : Nat, calls : Nat, failed : BOOLEAN, hunks : SUBSET Hunk, probed : SUBSET Hunk,
     proven : SUBSET Hunk, writes : Nat, kids : Nat]

SeenTypes ==
    [origin : Tree, before : Tree, ended : Tree, whole : BOOLEAN, staged : BOOLEAN,
     outside : BOOLEAN,
     verdict : {"none", "running", "kept", "reverted", "partial", "notApplied", "gitFailed"}]

\* The updates that several actions share.
LEMMA SharedTypes ==
    ASSUME TypeOK
    PROVE  /\ \A ok \in BOOLEAN : NextCall(ok) \in BatchTypes
           /\ NoChild \in ChildTypes
           /\ NoBatch \in BatchTypes
           /\ Killed(child) \in ChildTypes
           /\ Killed(child).leader = "reaped" /\ Killed(child).phase = "killed"
           /\ \A after \in {"exit", "timeout", "dropped", "drain", "killed", "proof"} :
                  \A kids \in SUBSET (Group \cup Holders) : Outlive(kids, after) \in SUBSET Stray
  <1>1. ASSUME NEW ok \in BOOLEAN PROVE NextCall(ok) \in BatchTypes
    <2> DEFINE failed == batch.failed \/ ~ok
    <2>1. failed \in BOOLEAN
      OBVIOUS
    <2>2. NextCall(ok) = [batch EXCEPT !.calls = batch.calls + 1, !.failed = failed]
      BY Zenon DEF NextCall
    <2> HIDE DEF failed
    <2>3. NextCall(ok) = [n |-> batch.n, calls |-> batch.calls + 1, failed |-> failed,
                          hunks |-> batch.hunks, probed |-> batch.probed,
                          proven |-> batch.proven, writes |-> batch.writes, kids |-> batch.kids]
      BY <2>2 DEF TypeOK
    <2> QED BY <2>1, <2>3 DEF TypeOK, BatchTypes
  <1>2. NoChild \in ChildTypes /\ NoBatch \in BatchTypes
    BY DEF NoChild, NoBatch, ChildTypes, BatchTypes, Jobs
  <1>3. Killed(child) \in ChildTypes
    BY DEF TypeOK, Killed, ChildTypes
  <1>4. Killed(child).leader = "reaped" /\ Killed(child).phase = "killed"
    BY DEF TypeOK, Killed, ChildTypes
  <1>5. \A after \in {"exit", "timeout", "dropped", "drain", "killed", "proof"} :
            \A kids \in SUBSET (Group \cup Holders) : Outlive(kids, after) \in SUBSET Stray
    BY DEF Outlive, Stray
  <1> QED BY <1>1, <1>2, <1>3, <1>4, <1>5

LEMMA WriteTyped ==
    ASSUME TypeOK, WriteFile
    PROVE  repo' \in Repo /\ batch' \in BatchTypes
  <1>1. PICK path \in Paths, content \in Contents \ Binary, ok \in BOOLEAN :
            /\ repo' = [repo EXCEPT !.work[path] = content]
            /\ batch' = NextCall(ok)
    BY DEF WriteFile
  <1>2. repo' \in Repo
    BY <1>1 DEF TypeOK, Repo, Tree
  <1> QED BY <1>1, <1>2, SharedTypes

LEMMA InitTyped == ASSUME GitAssumption, WorkbenchAssumption, Init PROVE TypeOK
  <1>1. PICK tree \in WorkTrees, o \in Options, born \in BOOLEAN :
        LET index == [p \in Paths |-> IF born /\ p \notin Ignored THEN tree[p] ELSE Absent]
        IN  /\ pc = "open"
            /\ opt = o
            /\ repo = [born |-> born, head |-> index, index |-> index, work |-> tree,
                       started |-> FALSE, start |-> EmptyTree]
            /\ child = NoChild
            /\ strays = {}
            /\ cancel = FALSE
            /\ batch = NoBatch
            /\ seen = [origin |-> tree, before |-> tree, ended |-> tree, whole |-> TRUE,
                       staged |-> FALSE, outside |-> FALSE, verdict |-> "none"]
    BY DEF Init
  <1>2. tree \in Tree /\ o \in [proof : BOOLEAN, bets : BOOLEAN, check : BOOLEAN]
    BY <1>1 DEF WorkbenchAssumption
  <1>3. [p \in Paths |-> IF born /\ p \notin Ignored THEN tree[p] ELSE Absent] \in Tree
    BY <1>2 DEF Tree
  <1>4. EmptyTree \in Tree
    BY DEF EmptyTree, Tree
  <1>5. repo \in Repo
    BY <1>1, <1>2, <1>3, <1>4 DEF Repo
  <1>6. child \in ChildTypes /\ batch \in BatchTypes
    BY <1>1 DEF NoChild, NoBatch, ChildTypes, BatchTypes, Jobs
  <1>7. seen \in SeenTypes
    BY <1>1, <1>2 DEF SeenTypes
  <1>8. strays \in SUBSET Stray /\ cancel \in BOOLEAN /\ pc \in PCs
    BY <1>1 DEF PCs
  <1>9. pc # "exec" /\ child.phase = "none" /\ child.leader = "none"
    BY <1>1 DEF NoChild
  <1> QED BY <1>1, <1>2, <1>5, <1>6, <1>7, <1>8, <1>9 DEF TypeOK, ChildTypes, BatchTypes, SeenTypes

LEMMA DriverTyped ==
    ASSUME GitAssumption, TypeOK,
           Open \/ StartBatch \/ Close \/ GitFails \/ Cancel \/ Answer \/ WriteUnchecked
                \/ Spawn \/ EndCalls \/ Ended
    PROVE  TypeOK'
  <1> USE DEF TypeOK, PCs
  <1>1. CASE Open
    BY <1>1, RepoKept DEF Open
  <1>2. CASE StartBatch
    <2>1. repo' \in Repo
      BY <1>2, RepoKept DEF StartBatch, Baseline
    <2>2. batch' = [n |-> batch.n + 1, calls |-> 0, failed |-> FALSE, hunks |-> {},
                    probed |-> {}, proven |-> {}, writes |-> batch.writes, kids |-> batch.kids]
      BY <1>2 DEF StartBatch, NoBatch
    <2>4. batch' \in BatchTypes
      BY <2>2 DEF BatchTypes
    <2>3. seen' \in SeenTypes
      BY <1>2 DEF StartBatch, SeenTypes, Repo
    <2> QED BY <1>2, <2>1, <2>3, <2>4 DEF StartBatch, BatchTypes, SeenTypes
  <1>3. CASE Close
    BY <1>3 DEF Close
  <1>4. CASE GitFails
    BY <1>4 DEF GitFails, Closed
  <1>5. CASE Cancel
    BY <1>5 DEF Cancel
  <1>6. CASE Answer
    BY <1>6, SharedTypes DEF Answer, BatchTypes
  <1>7. CASE WriteUnchecked
    BY <1>7, WriteTyped DEF WriteUnchecked, BatchTypes
  <1>8. CASE Spawn
    <2>1. PICK job \in Jobs :
              child' = [NoChild EXCEPT !.phase = "running", !.leader = "up", !.job = job]
      BY <1>8 DEF Spawn, Jobs
    <2>2. child' \in ChildTypes /\ child'.phase = "running" /\ child'.leader = "up"
      BY <2>1 DEF NoChild, ChildTypes
    <2>3. UNCHANGED <<opt, repo, strays, cancel, batch, seen>> /\ pc' = "exec"
      BY <1>8 DEF Spawn
    <2> QED BY <2>2, <2>3 DEF ChildTypes
  <1>9. CASE EndCalls
    <2>1. WholePatch(repo) \in BOOLEAN
      BY DEF WholePatch
    <2>2. seen' \in SeenTypes
      BY <1>9, <2>1 DEF EndCalls, SeenTypes, Repo
    <2> QED BY <1>9, <2>2 DEF EndCalls, SeenTypes
  <1>10. CASE Ended
    BY <1>10 DEF Ended, vars
  <1> QED BY <1>1, <1>2, <1>3, <1>4, <1>5, <1>6, <1>7, <1>8, <1>9, <1>10

LEMMA RunnerTyped ==
    ASSUME GitAssumption, TypeOK, Runner
    PROVE  TypeOK'
  <1> USE DEF TypeOK, PCs
  <1>1. CASE ChildGone
    <2>1. child' \in ChildTypes /\ child'.phase = "drain" /\ child'.leader = "reaped"
      BY <1>1 DEF ChildGone, ChildTypes
    <2> QED BY <1>1, <2>1 DEF ChildGone, ChildTypes
  <1>2. CASE TimedOut
    BY <1>2, SharedTypes DEF TimedOut, ChildTypes
  <1>3. ASSUME NEW after \in {"exit", "timeout"}, Leave(after)
        PROVE  child' = NoChild /\ strays' \in SUBSET Stray /\ pc' = "batch"
    BY <1>3, SharedTypes DEF Leave
  <1>4. child' = NoChild => child' \in ChildTypes /\ child'.phase = "none" /\ child'.leader = "none"
    BY DEF NoChild, ChildTypes, Jobs
  <1>5. CASE JoinedKilled
    <2>1. pc' = "batch" /\ child' = NoChild /\ strays' \in SUBSET Stray
      BY <1>3, <1>5 DEF JoinedKilled
    <2>2. batch' \in BatchTypes
      BY <1>5, SharedTypes DEF JoinedKilled
    <2>3. UNCHANGED <<opt, repo, cancel, seen>>
      BY <1>5 DEF JoinedKilled
    <2> QED BY <1>4, <2>1, <2>2, <2>3 DEF BatchTypes, ChildTypes
  <1>6. CASE Joined
    <2>1. repo' \in Repo /\ batch' \in BatchTypes
      BY <1>6, WriteTyped, SharedTypes DEF Joined
    <2>2. pc' = "batch" /\ child' = NoChild /\ strays' \in SUBSET Stray
      BY <1>3, <1>6 DEF Joined
    <2>3. UNCHANGED <<opt, cancel, seen>>
      BY <1>6 DEF Joined
    <2> QED BY <1>4, <2>1, <2>2, <2>3 DEF BatchTypes, ChildTypes
  <1>7. CASE DropCall
    <2>1. strays' \in SUBSET Stray
      <3>1. Killed(child).kids \in SUBSET (Group \cup Holders)
        BY SharedTypes DEF ChildTypes
      <3>2. child.leader = "reaped" => child.phase \in {"drain", "killed"}
        BY <1>7 DEF DropCall
      <3> QED BY <1>7, <3>1, <3>2, SharedTypes DEF DropCall
    <2>2. batch' \in BatchTypes
      BY <1>7, SharedTypes DEF DropCall
    <2>3. pc' = "batch" /\ child' = NoChild /\ UNCHANGED <<opt, repo, cancel, seen>>
      BY <1>7 DEF DropCall
    <2> QED BY <1>4, <2>1, <2>2, <2>3 DEF BatchTypes, ChildTypes
  <1> QED BY <1>1, <1>2, <1>5, <1>6, <1>7 DEF Runner

LEMMA ProcessesTyped ==
    ASSUME GitAssumption, WorkbenchAssumption, TypeOK, Processes
    PROVE  TypeOK'
  <1> USE DEF TypeOK, PCs
  <1>1. CASE Forks
    <2>1. PICK kind \in KidKinds : child' = [child EXCEPT !.kids = @ \cup {kind}]
      BY <1>1 DEF Forks
    <2>2. /\ child' \in ChildTypes /\ child'.phase = child.phase
          /\ child'.leader = child.leader
      BY <2>1, WorkbenchAssumption DEF WorkbenchAssumption, ChildTypes
    <2>3. batch' \in BatchTypes
      BY <1>1 DEF Forks, BatchTypes
    <2> QED BY <1>1, <2>2, <2>3 DEF Forks, BatchTypes, ChildTypes
  <1>2. CASE ChildExits
    <2>1. PICK ok \in BOOLEAN : child' = [child EXCEPT !.leader = "zombie", !.ok = ok]
      BY <1>2 DEF ChildExits
    <2>2. child' \in ChildTypes /\ child'.phase = child.phase /\ child'.leader = "zombie"
      BY <2>1 DEF ChildTypes
    <2> QED BY <1>2, <2>2 DEF ChildExits, ChildTypes
  <1>3. CASE KidEnds
    <2>1. strays' \in SUBSET Stray
      BY <1>3 DEF KidEnds
    <2>2. /\ child' \in ChildTypes /\ child'.phase = child.phase
          /\ child'.leader = child.leader
      BY <1>3 DEF KidEnds, ChildTypes
    <2> QED BY <1>3, <2>1, <2>2 DEF KidEnds, ChildTypes
  <1>4. CASE ProcessWrites
    <2>1. repo' \in Repo
      <3>1. CASE \E files \in SUBSET Paths, content \in Outputs :
                    repo' = [repo EXCEPT !.work =
                                [p \in Paths |-> IF p \in files THEN content ELSE repo.work[p]]]
        BY <3>1 DEF WorkbenchAssumption, Repo, Tree
      <3>2. CASE repo' = AddAll(repo)
        BY <3>2, RepoKept
      <3> QED BY <1>4, <3>1, <3>2 DEF ProcessWrites
    <2>2. batch' \in BatchTypes
      BY <1>4 DEF ProcessWrites, BatchTypes
    <2>3. seen' \in SeenTypes
      <3>1. CASE seen' = [seen EXCEPT !.staged = TRUE]
        BY <3>1 DEF SeenTypes
      <3>2. CASE \E b \in BOOLEAN : seen' = [seen EXCEPT !.outside = b]
        BY <3>2 DEF SeenTypes
      <3>3. (seen.outside \/ pc \notin {"batch", "exec"}) \in BOOLEAN
        OBVIOUS
      <3> QED BY <1>4, <3>1, <3>2, <3>3, Zenon DEF ProcessWrites
    <2> QED BY <1>4, <2>1, <2>2, <2>3 DEF ProcessWrites, BatchTypes, SeenTypes
  <1> QED BY <1>1, <1>2, <1>3, <1>4 DEF Processes

\* A prefix of the hunks is a set of hunks.
LEMMA GateHunks ==
    ASSUME TypeOK
    PROVE  /\ Kept \in SUBSET Hunk
           /\ \A h \in batch.hunks : UpTo(batch.hunks, h) \in SUBSET Hunk
  BY DEF TypeOK, Kept, UpTo

LEMMA GateTyped ==
    ASSUME GitAssumption, WorkbenchAssumption, TypeOK, Gate
    PROVE  TypeOK'
  <1> USE DEF TypeOK, PCs
  <1>1. CASE Probe
    <2> DEFINE hunks == SplitPatch(repo)
    <2>1. hunks \in SUBSET Hunk
      BY SplitTyped
    <2>2. batch' = [batch EXCEPT !.hunks = hunks,
                        !.proven = IF opt.proof \/ batch.failed THEN {} ELSE hunks]
      BY <1>1 DEF Probe
    <2> HIDE DEF hunks
    <2>3. batch' \in BatchTypes
      BY <2>1, <2>2 DEF BatchTypes
    <2> QED BY <1>1, <2>3 DEF Probe, BatchTypes
  <1>2. CASE ProbePrefix
    <2>1. PICK h \in batch.hunks :
            /\ batch' = [batch EXCEPT !.probed = UpTo(batch.hunks, h)]
            /\ repo' = RestoreHunks(repo, UpTo(batch.hunks, h))
            /\ \/ pc' = "proof" /\ UNCHANGED seen
               \/ Closed("notApplied")
               \/ Closed("gitFailed")
      BY <1>2 DEF ProbePrefix
    <2>2. batch' \in BatchTypes
      BY <2>1, GateHunks DEF BatchTypes
    <2>3. repo' \in Repo
      BY <2>1, GateHunks, RestoreKept
    <2>4. pc' \in PCs \ {"exec"} /\ seen' \in SeenTypes
      BY <2>1 DEF Closed, SeenTypes
    <2>5. UNCHANGED <<opt, child, strays, cancel>> /\ pc # "exec"
      BY <1>2 DEF ProbePrefix
    <2> QED BY <2>2, <2>3, <2>4, <2>5 DEF BatchTypes, SeenTypes
  <1>3. CASE ProbeEnds
    BY <1>3 DEF ProbeEnds
  <1>4. CASE ProofEnds
    <2>1. PICK ok \in BOOLEAN, kids \in {{}} \cup {{k} : k \in KidKinds} :
            /\ batch' = [batch EXCEPT !.kids = @ + Cardinality(kids),
                            !.proven = IF ok THEN @ \cup Newest ELSE @]
            /\ strays' = strays \cup Outlive(kids, "proof")
      BY <1>4 DEF ProofEnds
    <2>5. Newest \in SUBSET Hunk
      BY DEF Newest
    <2>2. kids \in SUBSET (Group \cup Holders) /\ Cardinality(kids) \in Nat
      <3>1. CASE kids = {}
        BY <3>1, FS_EmptySet
      <3>2. CASE \E k \in KidKinds : kids = {k}
        BY <3>2, FS_Singleton DEF WorkbenchAssumption
      <3> QED BY <2>1, <3>1, <3>2
    <2>6. batch.kids + Cardinality(kids) \in Nat
      BY <2>2
    <2>7. (IF ok THEN batch.proven \cup Newest ELSE batch.proven) \in SUBSET Hunk
      BY <2>5
    <2>8. batch' = [n |-> batch.n, calls |-> batch.calls, failed |-> batch.failed,
                    hunks |-> batch.hunks, probed |-> batch.probed,
                    proven |-> IF ok THEN batch.proven \cup Newest ELSE batch.proven,
                    writes |-> batch.writes, kids |-> batch.kids + Cardinality(kids)]
      BY <2>1
    <2>3. batch' \in BatchTypes
      BY <2>6, <2>7, <2>8 DEF BatchTypes
    <2>4. strays' \in SUBSET Stray
      BY <2>1, <2>2, SharedTypes
    <2> QED BY <1>4, <2>3, <2>4 DEF ProofEnds, BatchTypes
  <1>5. CASE Undo
    <2>1. repo' \in Repo
      BY <1>5, RepoKept DEF Undo
    <2>2. pc' \in PCs \ {"exec"} /\ seen' \in SeenTypes
      BY <1>5 DEF Undo, Closed, SeenTypes
    <2> QED BY <1>5, <2>1, <2>2 DEF Undo, SeenTypes
  <1>6. CASE GateCommits
    BY <1>6 DEF GateCommits
  <1>7. CASE GateKeepsPrefix
    <2>1. repo' \in Repo
      BY <1>7, GateHunks, RestoreKept DEF GateKeepsPrefix
    <2>2. pc' \in PCs \ {"exec"} /\ seen' \in SeenTypes
      BY <1>7 DEF GateKeepsPrefix, Closed, SeenTypes
    <2> QED BY <1>7, <2>1, <2>2 DEF GateKeepsPrefix, SeenTypes
  <1>8. CASE GateAborts
    <2>1. repo' \in Repo
      BY <1>8, RepoKept DEF GateAborts
    <2>2. pc' \in PCs \ {"exec"} /\ seen' \in SeenTypes
      BY <1>8 DEF GateAborts, Closed, SeenTypes
    <2> QED BY <1>8, <2>1, <2>2 DEF GateAborts, SeenTypes
  <1> QED BY <1>1, <1>2, <1>3, <1>4, <1>5, <1>6, <1>7, <1>8 DEF Gate

LEMMA StepTyped ==
    ASSUME GitAssumption, WorkbenchAssumption, TypeOK, [Next]_vars
    PROVE  TypeOK'
  <1>1. CASE UNCHANGED vars
    BY <1>1 DEF vars, TypeOK
  <1>2. CASE Next
    BY <1>2, DriverTyped, RunnerTyped, GateTyped, ProcessesTyped DEF Next, Batch
  <1> QED BY <1>1, <1>2

\* Types, and that a child exists exactly while its call runs (run_allowed_argv never
\* returns with one, and never joins the readers of a child it has not reaped).
THEOREM WorkbenchTyped == Spec => []TypeOK
  <1>1. Init => TypeOK
    BY InitTyped, GitAssumption, WorkbenchAssumption
  <1>2. TypeOK /\ [Next]_vars => TypeOK'
    BY StepTyped, GitAssumption, WorkbenchAssumption
  <1> QED BY <1>1, <1>2, PTL DEF Spec

-----------------------------------------------------------------------------
(* The processes.                                                          *)

LEMMA KillSafe ==
    ASSUME TypeOK, KilledGroup, GroupsKilled, [Next]_vars
    PROVE  KilledGroup' /\ GroupsKilled'
  <1> USE DEF KilledGroup, GroupsKilled
  <1>1. /\ child.phase = "running" <=> child.leader \in {"up", "zombie"}
        /\ child \in ChildTypes
        /\ strays \in SUBSET Stray
    BY DEF TypeOK, ChildTypes
  <1>2. CASE UNCHANGED <<child, strays>>
    BY <1>2
  <1>3. CASE Spawn
    BY <1>3 DEF Spawn, NoChild
  <1>4. CASE ChildGone
    BY <1>1, <1>4 DEF ChildGone, ChildTypes
  <1>5. CASE TimedOut
    <2>1. child.leader # "reaped"
      BY <1>1, <1>5 DEF TimedOut
    <2>2. child'.kids = child.kids \ Group
      BY <1>1, <1>5, <2>1 DEF TimedOut, Killed, ChildTypes
    <2> QED BY <1>5, <2>2 DEF TimedOut
  <1>6. CASE JoinedKilled
    <2>1. child' = NoChild /\ strays' = strays \cup Outlive(child.kids, "timeout")
      BY <1>6 DEF JoinedKilled, Leave
    <2>2. child.kids \cap Group = {}
      BY <1>6 DEF JoinedKilled
    <2> QED BY <2>1, <2>2 DEF Outlive, NoChild
  <1>7. CASE Joined
    <2>1. child' = NoChild /\ strays' = strays \cup Outlive(child.kids, "exit")
      BY <1>7 DEF Joined, Leave
    <2>2. child.kids \cap Holders = {}
      BY <1>7 DEF Joined
    <2> QED BY <2>1, <2>2 DEF Outlive, NoChild
  <1>8. CASE DropCall
    <2> DEFINE after == IF child.leader = "reaped" THEN child.phase ELSE "dropped"
    <2>1. child' = NoChild /\ strays' = strays \cup Outlive(Killed(child).kids, after)
      BY <1>8 DEF DropCall
    <2>2. CASE child.leader = "reaped"
      <3>1. Killed(child).kids = child.kids
        BY <1>1, <2>2 DEF Killed, ChildTypes
      <3>2. after = "drain" \/ (after = "killed" /\ child.kids \cap Group = {})
            \/ (after = "none" /\ child.kids \cap Group = {})
        BY <1>1, <1>8, <2>2 DEF ChildTypes, DropCall, TypeOK
      <3> QED BY <2>1, <3>1, <3>2 DEF Outlive, NoChild
    <2>3. CASE child.leader # "reaped"
      <3>1. Killed(child).kids = child.kids \ Group
        BY <1>1, <2>3 DEF Killed, ChildTypes
      <3> QED BY <2>1, <3>1 DEF Outlive, NoChild
    <2> QED BY <2>2, <2>3
  <1>9. CASE Forks \/ ChildExits
    <2>1. child.phase # "killed"
      BY <1>1, <1>9 DEF Forks, ChildExits
    <2>2. child'.phase = child.phase /\ strays' = strays
      BY <1>1, <1>9 DEF Forks, ChildExits, ChildTypes
    <2> QED BY <2>1, <2>2
  <1>10. CASE KidEnds
    <2>1. child'.phase = child.phase /\ child'.kids \subseteq child.kids
      BY <1>1, <1>10 DEF KidEnds, ChildTypes
    <2>2. strays' \subseteq strays
      BY <1>10 DEF KidEnds
    <2> QED BY <2>1, <2>2
  <1>11. CASE ProofEnds
    <2>1. PICK kids : strays' = strays \cup Outlive(kids, "proof")
      BY <1>11 DEF ProofEnds
    <2>2. child' = child
      BY <1>11 DEF ProofEnds
    <2> QED BY <2>1, <2>2 DEF Outlive
  <1>12. ASSUME Open \/ StartBatch \/ Close \/ GitFails \/ Cancel \/ Answer \/ WriteUnchecked
                \/ EndCalls \/ Ended \/ UNCHANGED vars
         PROVE  UNCHANGED <<child, strays>>
    BY <1>12 DEF Open, StartBatch, Close, GitFails, Cancel, Answer, WriteUnchecked, EndCalls,
                 Ended, vars
  <1>13. ASSUME Probe \/ ProbePrefix \/ ProbeEnds \/ Undo \/ GateCommits \/ GateKeepsPrefix
                \/ GateAborts \/ ProcessWrites
         PROVE  UNCHANGED <<child, strays>>
    BY <1>13 DEF Probe, ProbePrefix, ProbeEnds, Undo, GateCommits, GateKeepsPrefix, GateAborts,
                 ProcessWrites
  <1> QED
    BY <1>2, <1>3, <1>4, <1>5, <1>6, <1>7, <1>8, <1>9, <1>10, <1>11, <1>12, <1>13
    DEF Next, Batch, Runner, Gate, Processes

\* No member of a call's process group outlives a call that timed out or was dropped while
\* its child was not reaped (kill_tree and GroupGuard), whatever the processes do.
THEOREM GroupsKilledAlways == Spec => []GroupsKilled
  <1> DEFINE K == TypeOK /\ KilledGroup /\ GroupsKilled
  <1>1. Init => K
    <2>1. Init => child = NoChild /\ strays = {}
      BY DEF Init
    <2>2. child = NoChild /\ strays = {} => KilledGroup /\ GroupsKilled
      BY DEF KilledGroup, GroupsKilled, NoChild
    <2> QED BY <2>1, <2>2, InitTyped, GitAssumption, WorkbenchAssumption
  <1>2. K /\ [Next]_vars => K'
    BY StepTyped, KillSafe, GitAssumption, WorkbenchAssumption
  <1> QED BY <1>1, <1>2, PTL DEF Spec

-----------------------------------------------------------------------------
(* The tree.                                                               *)

\* TreeInv but for its last two conjuncts only reads the repository, the history and pc.
LEMMA QuietTree ==
    ASSUME TypeOK, TreeInv, UNCHANGED <<repo, seen>>,
           pc = "open" => pc' = "open" /\ UNCHANGED <<child, strays>>,
           pc # "open" => pc' # "open",
           pc' \in InBatch => pc \in InBatch,
           pc' = "gate" => pc = "gate" /\ batch'.failed = batch.failed,
           pc' \in {"idle", "closed"} => pc \in {"idle", "closed"}
    PROVE  TreeInv'
  <1>1. IgnoredUntracked' /\ StartIsOrigin' /\ Unopened'
    BY DEF TreeInv, IgnoredUntracked, StartIsOrigin, Unopened
  <1>2. BaselineInIndex' /\ UndoneInPlace'
    BY DEF TreeInv, BaselineInIndex, UndoneInPlace
  <1>3. BaselineBack'
    BY DEF TreeInv, BaselineBack, Between
  <1> QED BY <1>1, <1>2, <1>3 DEF TreeInv

LEMMA InitTree == ASSUME GitAssumption, WorkbenchAssumption, Init PROVE TreeInv
  <1>1. PICK tree \in WorkTrees, born \in BOOLEAN :
        LET index == [p \in Paths |-> IF born /\ p \notin Ignored THEN tree[p] ELSE Absent]
        IN  /\ repo = [born |-> born, head |-> index, index |-> index, work |-> tree,
                       started |-> FALSE, start |-> EmptyTree]
            /\ seen = [origin |-> tree, before |-> tree, ended |-> tree, whole |-> TRUE,
                       staged |-> FALSE, outside |-> FALSE, verdict |-> "none"]
    BY DEF Init
  <1>2. pc = "open" /\ child = NoChild /\ strays = {}
    BY DEF Init
  <1>3. IgnoredUntracked
    BY <1>1 DEF IgnoredUntracked, GitAssumption
  <1>4. StartIsOrigin /\ Unopened
    BY <1>1, <1>2 DEF StartIsOrigin, Unopened, Seen
  <1>5. BaselineInIndex /\ UndoneInPlace /\ BaselineBack
    BY <1>2 DEF BaselineInIndex, InBatch, UndoneInPlace, BaselineBack, Between
  <1> QED BY <1>3, <1>4, <1>5 DEF TreeInv

\* What Ensure does to the parts of a repository that has no start yet.
LEMMA EnsureParts ==
    ASSUME NEW r \in Repo, ~r.started
    PROVE  /\ Ensure(r).work = r.work
           /\ r.born => Ensure(r).index = r.index /\ Ensure(r).start = r.head
           /\ ~r.born => Ensure(r).index = AddAll(r).index
           /\ ~r.born /\ Ensure(r).started => Ensure(r).start = AddAll(r).index
  <1>1. CASE r.born
    BY <1>1 DEF Ensure, Repo
  <1>2. CASE ~r.born
    <2> DEFINE s == CommitAll(r)
    <2>1. /\ s.work = r.work /\ s.index = AddAll(r).index /\ s.head = AddAll(r).index
          /\ s.started = FALSE
      BY CommitParts DEF Repo
    <2>2. Ensure(r) = IF s.born /\ ~s.started THEN [s EXCEPT !.started = TRUE, !.start = s.head]
                                               ELSE s
      BY <1>2 DEF Ensure
    <2>3. s = [born |-> s.born, head |-> s.head, index |-> s.index, work |-> s.work,
               started |-> s.started, start |-> s.start]
      BY DEF CommitAll, AddAll, Repo
    <2> HIDE DEF s
    <2> QED BY <1>2, <2>1, <2>2, <2>3
  <1> QED BY <1>1, <1>2

\* The steps that touch the repository or close a batch.
LEMMA OpenTree ==
    ASSUME GitAssumption, TypeOK, TreeInv, Open
    PROVE  TreeInv'
  <1>1. /\ pc = "open" /\ pc' = "idle" /\ seen' = seen /\ repo' = Ensure(repo)
        /\ repo \in Repo /\ \A p \in Ignored : repo.index[p] = Absent
    BY DEF Open, TypeOK, TreeInv, IgnoredUntracked
  <1>2. ~repo.started /\ repo.work = seen.origin /\ seen.verdict = "none"
    BY <1>1 DEF TreeInv, Unopened
  <1>3. IgnoredUntracked'
    BY <1>1, <1>2, EnsureParts, VisibleSeen DEF IgnoredUntracked
  <1>4. StartIsOrigin'
    <2>1. CASE repo.born
      BY <1>1, <1>2, <2>1, EnsureParts DEF TreeInv, Unopened, StartIsOrigin
    <2>2. CASE ~repo.born
      BY <1>1, <1>2, <2>2, EnsureParts, VisibleSeen DEF StartIsOrigin
    <2> QED BY <2>1, <2>2
  <1>5. Unopened' /\ BaselineInIndex' /\ UndoneInPlace' /\ BaselineBack'
    BY <1>1, <1>2 DEF Unopened, BaselineInIndex, InBatch, UndoneInPlace, BaselineBack
  <1> QED BY <1>3, <1>4, <1>5 DEF TreeInv

LEMMA BatchTree ==
    ASSUME GitAssumption, TypeOK, TreeInv, StartBatch
    PROVE  TreeInv'
  <1>1. /\ pc = "idle" /\ pc' = "batch" /\ repo' = CommitAll(repo)
        /\ repo \in Repo /\ \A p \in Ignored : repo.index[p] = Absent
        /\ seen \in SeenTypes
    BY DEF StartBatch, Baseline, TypeOK, TreeInv, IgnoredUntracked, SeenTypes
  <1>2. seen'.before = repo.work /\ seen'.origin = seen.origin
    BY <1>1 DEF StartBatch, SeenTypes
  <1>3. /\ repo'.index = AddAll(repo).index /\ repo'.start = repo.start
        /\ repo'.started = repo.started
    BY <1>1, CommitParts
  <1>4. IgnoredUntracked' /\ BaselineInIndex'
    BY <1>1, <1>2, <1>3, VisibleSeen DEF IgnoredUntracked, BaselineInIndex
  <1>5. StartIsOrigin'
    BY <1>2, <1>3 DEF TreeInv, StartIsOrigin
  <1>6. Unopened' /\ UndoneInPlace' /\ BaselineBack'
    BY <1>1 DEF Unopened, UndoneInPlace, BaselineBack, Between
  <1> QED BY <1>4, <1>5, <1>6 DEF TreeInv

\* Writing a file of the work tree, by a tool of the batch.
LEMMA WriteTree ==
    ASSUME TypeOK, TreeInv, pc \in {"batch", "exec"}, pc' = "batch", seen' = seen,
           repo' = repo \/ WriteFile
    PROVE  TreeInv'
  <1>1. /\ repo'.index = repo.index /\ repo'.start = repo.start
        /\ repo'.started = repo.started
    BY DEF WriteFile, TypeOK, Repo
  <1>2. IgnoredUntracked' /\ StartIsOrigin'
    BY <1>1 DEF TreeInv, IgnoredUntracked, StartIsOrigin
  <1>3. BaselineInIndex'
    BY <1>1 DEF TreeInv, BaselineInIndex, InBatch
  <1>4. Unopened' /\ UndoneInPlace' /\ BaselineBack'
    BY DEF Unopened, UndoneInPlace, BaselineBack, Between
  <1> QED BY <1>2, <1>3, <1>4 DEF TreeInv

LEMMA ProcessTree ==
    ASSUME GitAssumption, TypeOK, TreeInv, ProcessWrites
    PROVE  TreeInv'
  <1>1. /\ pc' = pc /\ pc \notin {"open", "closed"} /\ batch'.failed = batch.failed
        /\ repo \in Repo /\ seen \in SeenTypes /\ \A p \in Ignored : repo.index[p] = Absent
    BY DEF ProcessWrites, TypeOK, SeenTypes, TreeInv, Unopened, NoChild, IgnoredUntracked
  <1>2. /\ repo'.start = repo.start /\ repo'.started = repo.started
        /\ seen'.origin = seen.origin /\ seen'.before = seen.before
    BY <1>1, CommitParts DEF ProcessWrites, Repo, SeenTypes
  <1>3. \/ seen'.staged /\ repo' = AddAll(repo)
        \/ /\ seen'.staged = seen.staged /\ repo'.index = repo.index
           /\ pc \notin {"batch", "exec"} => seen'.outside
    BY <1>1 DEF ProcessWrites, Repo, SeenTypes
  <1>4. IgnoredUntracked'
    BY <1>1, <1>3, VisibleSeen DEF IgnoredUntracked
  <1>5. StartIsOrigin' /\ Unopened'
    BY <1>1, <1>2 DEF TreeInv, StartIsOrigin, Unopened
  <1>6. BaselineInIndex'
    BY <1>1, <1>2, <1>3 DEF TreeInv, BaselineInIndex
  <1>7. UndoneInPlace' /\ BaselineBack'
    BY <1>1, <1>3 DEF UndoneInPlace, BaselineBack, Between
  <1> QED BY <1>4, <1>5, <1>6, <1>7 DEF TreeInv

\* A rollback, with the fragments that follow it or without, keeps index and start; where
\* it happened and no fragment stayed, the seen paths are the index again.
LEMMA RolledTree ==
    ASSUME GitAssumption, TypeOK, TreeInv, pc \in InBatch \ {"batch", "exec"},
           pc' # "open", pc' # "gate", seen'.origin = seen.origin,
           seen'.before = seen.before, seen'.staged = seen.staged,
           \/ repo' = repo
           \/ repo' = Rollback(repo)
           \/ \E hunks : repo' = RestoreHunks(repo, hunks),
           pc' \in {"idle", "closed"} /\ seen'.verdict \in {"reverted", "notApplied"}
               => \/ \A p \in Paths : repo'.work[p] = Restored(repo)[p]
                  \/ seen'.verdict = "reverted" /\ batch.failed /\ pc = "gate" /\ repo' = repo
                        /\ seen'.outside = seen.outside
    PROVE  TreeInv'
  <1>1. repo \in Repo /\ \A p \in Ignored : repo.index[p] = Absent
    BY DEF TypeOK, TreeInv, IgnoredUntracked
  <1>2. /\ repo'.index = repo.index /\ repo'.start = repo.start
        /\ repo'.started = repo.started
    BY <1>1, RestoreParts
  <1>3. IgnoredUntracked' /\ StartIsOrigin' /\ BaselineInIndex'
    BY <1>2 DEF TreeInv, IgnoredUntracked, StartIsOrigin, BaselineInIndex
  <1>4. Unopened' /\ UndoneInPlace'
    BY DEF Unopened, UndoneInPlace
  <1>5. BaselineBack'
    <2> SUFFICES ASSUME Between', seen'.verdict \in {"reverted", "notApplied"},
                        ~seen'.outside, ~seen'.staged, NEW p \in Seen
                 PROVE  repo'.work[p] = seen'.before[p]
      BY DEF BaselineBack
    <2>1. pc' \in {"idle", "closed"} /\ p \in Paths
      BY DEF Between, Seen
    <2>2. repo.index[p] = seen.before[p] /\ Restored(repo)[p] = repo.index[p]
      BY <1>1, VisibleSeen DEF TreeInv, BaselineInIndex
    <2>3. CASE repo'.work[p] = Restored(repo)[p]
      BY <2>2, <2>3
    <2>4. CASE batch.failed /\ pc = "gate" /\ repo' = repo /\ seen'.outside = seen.outside
      BY <2>4 DEF TreeInv, UndoneInPlace
    <2> QED BY <2>1, <2>3, <2>4
  <1> QED BY <1>3, <1>4, <1>5 DEF TreeInv

\* The rollback of a failed batch, before the gate is asked.
LEMMA UndoTree ==
    ASSUME GitAssumption, TypeOK, TreeInv, Undo
    PROVE  TreeInv'
  <1>1. /\ pc = "undo" /\ batch' = batch /\ seen \in SeenTypes /\ repo \in Repo
        /\ \A p \in Ignored : repo.index[p] = Absent
    BY DEF Undo, TypeOK, SeenTypes, TreeInv, IgnoredUntracked
  <1>2. CASE pc' = "gate"
    <2>1. seen' = seen /\ (batch.failed => repo' = Rollback(repo) /\ CanRollback(repo))
          /\ (~batch.failed => repo' = repo)
      BY <1>1, <1>2 DEF Undo, Closed
    <2>2. /\ repo'.index = repo.index /\ repo'.start = repo.start
          /\ repo'.started = repo.started
      BY <1>1, <2>1, RestoreParts
    <2>3. IgnoredUntracked' /\ StartIsOrigin' /\ BaselineInIndex'
      BY <1>1, <2>1, <2>2 DEF TreeInv, IgnoredUntracked, StartIsOrigin, BaselineInIndex, InBatch
    <2>4. UndoneInPlace'
      <3> SUFFICES ASSUME batch.failed, ~seen.staged, NEW p \in Seen
                   PROVE  repo'.work[p] = seen.before[p]
        BY <1>1, <2>1 DEF UndoneInPlace
      <3>1. repo'.work = Restored(repo)
        BY <1>1, <2>1, RestoreParts
      <3>2. repo.index[p] = seen.before[p]
        BY <1>1 DEF TreeInv, BaselineInIndex, InBatch
      <3> QED BY <1>1, <3>1, <3>2, VisibleSeen
    <2>5. Unopened' /\ BaselineBack'
      BY <1>2 DEF Unopened, BaselineBack, Between
    <2> QED BY <2>3, <2>4, <2>5 DEF TreeInv
  <1>3. CASE pc' # "gate"
    <2>1. pc' = "closed" /\ seen' = [seen EXCEPT !.verdict = "gitFailed"]
      BY <1>3 DEF Undo, Closed
    <2>2. repo' = repo \/ repo' = Rollback(repo)
      BY DEF Undo
    <2>3. /\ seen'.origin = seen.origin /\ seen'.before = seen.before
          /\ seen'.staged = seen.staged /\ seen'.verdict = "gitFailed"
      BY <1>1, <2>1 DEF SeenTypes
    <2> QED BY <1>1, <2>1, <2>2, <2>3, RolledTree DEF InBatch
  <1> QED BY <1>2, <1>3

\* The gate, and the probes of the proof command.
LEMMA GateTree ==
    ASSUME GitAssumption, TypeOK, TreeInv,
           ProbePrefix \/ GateCommits \/ GateKeepsPrefix \/ GateAborts
    PROVE  TreeInv'
  <1>1. repo \in Repo /\ seen \in SeenTypes
    BY DEF TypeOK, SeenTypes
  <1>2. ASSUME NEW verdict, \/ seen' = [seen EXCEPT !.verdict = verdict] \/ seen' = seen
        PROVE  /\ seen'.origin = seen.origin /\ seen'.before = seen.before
               /\ seen'.staged = seen.staged /\ seen'.outside = seen.outside
    BY <1>1, <1>2 DEF SeenTypes
  <1>3. ASSUME NEW verdict, seen' = [seen EXCEPT !.verdict = verdict]
        PROVE  seen'.verdict = verdict
    BY <1>1, <1>3 DEF SeenTypes
  <1>4. ASSUME NEW hunks, repo' = RestoreHunks(repo, hunks), ~CanRestore(repo, hunks),
               CanRollback(repo)
        PROVE  \A p \in Paths : repo'.work[p] = Restored(repo)[p]
    BY <1>1, <1>4, RestoreParts
  <1>5. CASE ProbePrefix
    <2>1. pc = "prefix" /\ pc' \in {"proof", "closed"}
      BY <1>5 DEF ProbePrefix, Closed
    <2>2. PICK hunks : /\ repo' = RestoreHunks(repo, hunks)
                       /\ IF CanRestore(repo, hunks)
                          THEN pc' = "proof" /\ UNCHANGED seen
                          ELSE Closed(IF CanRollback(repo) THEN "notApplied" ELSE "gitFailed")
      BY <1>5 DEF ProbePrefix
    <2>3. CASE CanRestore(repo, hunks)
      BY <1>2, <2>1, <2>2, <2>3, RolledTree DEF InBatch
    <2>4. CASE ~CanRestore(repo, hunks) /\ CanRollback(repo)
      BY <1>2, <1>4, <2>1, <2>2, <2>4, RolledTree DEF InBatch, Closed
    <2>5. CASE ~CanRestore(repo, hunks) /\ ~CanRollback(repo)
      BY <1>2, <1>3, <2>1, <2>2, <2>5, RolledTree DEF InBatch, Closed
    <2> QED BY <2>3, <2>4, <2>5
  <1>6. CASE GateCommits
    <2>1. /\ pc = "gate" /\ pc' = "idle" /\ repo' = repo
          /\ seen' = [seen EXCEPT !.verdict = IF batch.failed THEN "reverted" ELSE "kept"]
      BY <1>6 DEF GateCommits
    <2> QED BY <1>2, <1>3, <2>1, RolledTree DEF InBatch
  <1>7. CASE GateKeepsPrefix
    <2>1. /\ pc = "gate" /\ pc' \in {"idle", "closed"} /\ repo' = RestoreHunks(repo, Kept)
      BY <1>7 DEF GateKeepsPrefix, Closed
    <2>2. IF CanRestore(repo, Kept)
          THEN seen' = [seen EXCEPT !.verdict = "partial"]
          ELSE seen' = [seen EXCEPT !.verdict =
                           IF CanRollback(repo) THEN "notApplied" ELSE "gitFailed"]
      BY <1>7 DEF GateKeepsPrefix, Closed
    <2>3. CASE CanRestore(repo, Kept)
      BY <1>2, <1>3, <2>1, <2>2, <2>3, RolledTree DEF InBatch
    <2>4. CASE ~CanRestore(repo, Kept) /\ CanRollback(repo)
      BY <1>2, <1>4, <2>1, <2>2, <2>4, RolledTree DEF InBatch
    <2>5. CASE ~CanRestore(repo, Kept) /\ ~CanRollback(repo)
      BY <1>2, <1>3, <2>1, <2>2, <2>5, RolledTree DEF InBatch
    <2> QED BY <2>3, <2>4, <2>5
  <1>8. CASE GateAborts
    <2>1. /\ pc = "gate" /\ pc' \in {"idle", "closed"} /\ repo' = Rollback(repo)
      BY <1>8 DEF GateAborts, Closed
    <2>2. CASE CanRollback(repo)
      <3>1. seen' = [seen EXCEPT !.verdict = "reverted"] /\ repo'.work = Restored(repo)
        BY <1>1, <1>8, <2>1, <2>2, RestoreParts DEF GateAborts
      <3> QED BY <1>2, <2>1, <3>1, RolledTree DEF InBatch
    <2>3. CASE ~CanRollback(repo)
      <3>1. seen' = [seen EXCEPT !.verdict = "gitFailed"]
        BY <1>8, <2>3 DEF GateAborts, Closed
      <3> QED BY <1>2, <1>3, <2>1, <3>1, RolledTree DEF InBatch
    <2> QED BY <2>2, <2>3
  <1> QED BY <1>5, <1>6, <1>7, <1>8

LEMMA StepTree ==
    ASSUME GitAssumption, TypeOK, TreeInv, [Next]_vars
    PROVE  TreeInv'
  <1>1. pc = "open" => child = NoChild /\ strays = {}
    BY DEF TreeInv, Unopened
  <1>2. CASE UNCHANGED vars \/ Ended \/ Cancel \/ Close \/ Spawn \/ Answer
    <2>1. UNCHANGED <<repo, seen>>
      BY <1>2 DEF vars, Ended, Cancel, Close, Spawn, Answer
    <2>2. \/ pc' = pc /\ UNCHANGED <<child, strays>>
          \/ pc = "idle" /\ pc' = "closed"
          \/ pc = "batch" /\ pc' = "exec"
      BY <1>2 DEF vars, Ended, Cancel, Close, Spawn, Answer
    <2>3. pc' = "gate" => batch' = batch
      BY <1>2 DEF vars, Ended, Cancel, Close, Spawn, Answer
    <2> QED BY <2>1, <2>2, <2>3, QuietTree DEF InBatch
  <1>3. CASE ChildGone \/ TimedOut \/ JoinedKilled \/ DropCall
    <2>1. UNCHANGED <<repo, seen>> /\ pc = "exec" /\ pc' \in {"exec", "batch"}
      BY <1>3 DEF ChildGone, TimedOut, JoinedKilled, DropCall, Leave
    <2> QED BY <2>1, QuietTree DEF InBatch
  <1>4. CASE Forks \/ ChildExits
    <2>1. UNCHANGED <<repo, seen, pc>> /\ child.leader = "up"
      BY <1>4 DEF Forks, ChildExits
    <2>2. batch'.failed = batch.failed
      BY <1>4 DEF Forks, ChildExits, TypeOK
    <2> QED BY <1>1, <2>1, <2>2, QuietTree DEF InBatch, NoChild
  <1>5. CASE KidEnds
    <2>1. UNCHANGED <<repo, seen, pc, batch>>
      BY <1>5 DEF KidEnds
    <2>2. pc # "open"
      BY <1>1, <1>5 DEF KidEnds, NoChild
    <2> QED BY <2>1, <2>2, QuietTree DEF InBatch
  <1>6. CASE Probe \/ ProbeEnds \/ ProofEnds
    <2>1. /\ UNCHANGED <<repo, seen>> /\ pc \in {"probe", "prefix", "proof"}
          /\ pc' \in {"prefix", "undo"}
      BY <1>6 DEF Probe, ProbeEnds, ProofEnds
    <2> QED BY <2>1, QuietTree DEF InBatch
  <1>7. CASE Open
    BY <1>7, OpenTree
  <1>8. CASE StartBatch
    BY <1>8, BatchTree
  <1>9. CASE WriteUnchecked \/ Joined
    <2>1. /\ pc \in {"batch", "exec"} /\ pc' = "batch" /\ seen' = seen
          /\ repo' = repo \/ WriteFile
      BY <1>9 DEF WriteUnchecked, Joined, Leave
    <2> QED BY <2>1, WriteTree
  <1>10. CASE EndCalls
    <2>1. /\ pc = "batch" /\ pc' = "probe" /\ repo' = repo /\ seen'.origin = seen.origin
          /\ seen'.before = seen.before /\ seen'.staged = seen.staged
      BY <1>10 DEF EndCalls, TypeOK
    <2> QED
      BY <2>1 DEF TreeInv, IgnoredUntracked, StartIsOrigin, Unopened, BaselineInIndex, InBatch,
                  UndoneInPlace, BaselineBack, Between
  <1>11. CASE GitFails
    <2>1. /\ pc' = "closed" /\ repo' = repo /\ seen'.origin = seen.origin
          /\ seen'.verdict = "gitFailed"
      BY <1>11 DEF GitFails, Closed, TypeOK
    <2> QED
      BY <2>1 DEF TreeInv, IgnoredUntracked, StartIsOrigin, Unopened, BaselineInIndex, InBatch,
                  UndoneInPlace, BaselineBack, Between
  <1>12. CASE ProcessWrites
    BY <1>12, ProcessTree
  <1>13. CASE Undo
    BY <1>13, UndoTree
  <1>14. CASE ProbePrefix \/ GateCommits \/ GateKeepsPrefix \/ GateAborts
    BY <1>14, GateTree
  <1> QED
    BY <1>2, <1>3, <1>4, <1>5, <1>6, <1>7, <1>8, <1>9, <1>10, <1>11, <1>12, <1>13, <1>14
    DEF Next, Batch, Runner, Gate, Processes

LEMMA InvHolds == Spec => [](TypeOK /\ TreeInv)
  <1>1. Init => TypeOK /\ TreeInv
    BY InitTyped, InitTree, GitAssumption, WorkbenchAssumption
  <1>2. TypeOK /\ TreeInv /\ [Next]_vars => (TypeOK /\ TreeInv)'
    BY StepTyped, StepTree, GitAssumption, WorkbenchAssumption
  <1> QED BY <1>1, <1>2, PTL DEF Spec

\* A failed or aborted batch leaves the tree it found (TreeService::rollback and
\* restore_hunks), for any number of files, batches and processes.
THEOREM BatchRevertedAlways == Spec => []BatchReverted
  <1>1. TypeOK /\ TreeInv => BatchReverted
    <2>1. ASSUME TypeOK, TreeInv PROVE Visible(repo) = Seen
      BY <2>1, VisibleSeen, GitAssumption DEF TypeOK, TreeInv, IgnoredUntracked
    <2> QED BY <2>1 DEF TreeInv, BaselineBack, BatchReverted
  <1> QED BY <1>1, InvHolds, PTL

\* The start commit is the tree the run was given and git sees the same paths all along, so
\* the printed patch says what became of every file that is not binary.
THEOREM DeliverableAlways == Spec => []DeliverableComplete
  <1>1. TypeOK /\ TreeInv => DeliverableComplete
    <2> SUFFICES ASSUME TypeOK, TreeInv, repo.started, NEW p \in Visible(repo),
                        {seen.origin[p], repo.work[p]} \cap Binary = {}
                 PROVE  Delivered(repo, seen.origin)[p] = repo.work[p]
      BY DEF DeliverableComplete
    <2>1. Visible(repo) = Seen
      BY VisibleSeen, GitAssumption DEF TypeOK, TreeInv, IgnoredUntracked
    <2>2. repo.start[p] = seen.origin[p] /\ p \in Paths
      BY <2>1 DEF TreeInv, StartIsOrigin, Seen
    <2> QED BY <2>2 DEF Delivered
  <1> QED BY <1>1, InvHolds, PTL

-----------------------------------------------------------------------------
(* What a batch keeps.                                                     *)

\* Outside the hunks nothing differs from the tree the calls left, and that is also what is
\* staged of it; a probed hunk has been applied again.
HunksTell ==
    /\ \A g, h \in batch.hunks : g.path = h.path => g = h
    /\ \A h \in batch.hunks : h.to = seen.ended[h.path]
    /\ \A p \in Paths : (\A h \in batch.hunks : h.path # p) =>
           /\ repo.work[p] = seen.ended[p]
           /\ p \in Seen => repo.index[p] = seen.ended[p]
    /\ \A h \in batch.probed : repo.work[h.path] = seen.ended[h.path]

Settled == pc = "undo" \/ (pc = "gate" /\ ~batch.failed) \/ (Between /\ seen.verdict = "kept")

\* The tree the calls left, from the end of the calls on: still there, taken apart while the
\* hunks are probed, and there again once all are.
EndedKept ==
    ~seen.outside /\ (opt.proof => seen.whole) =>
        /\ pc = "probe" => repo.work = seen.ended /\ (opt.proof => WholePatch(repo))
        /\ Settled => repo.work = seen.ended
        /\ pc \in {"prefix", "proof"} => HunksTell

PrefixKept ==
    Between /\ seen.verdict = "partial" /\ ~seen.outside /\ ~seen.staged
        => \A p \in Seen : repo.work[p] = Patched(seen.before, Kept)[p]

\* A patch that says all is taken apart without loss.
LEMMA SplitTells ==
    ASSUME GitAssumption, NEW r \in Repo, \A p \in Ignored : r.index[p] = Absent, WholePatch(r)
    PROVE  /\ \A g, h \in SplitPatch(r) : g.path = h.path => g = h
           /\ \A h \in SplitPatch(r) : h.path \in Paths /\ h.to = r.work[h.path]
           /\ \A p \in Seen : (\A h \in SplitPatch(r) : h.path # p) => r.index[p] = r.work[p]
  <1> DEFINE differ == Changed(r) \cup Untracked(r)
             cut(p) == [path |-> p, new |-> p \in Untracked(r),
                        from |-> Stripped(r.index[p]), to |-> Stripped(r.work[p])]
  <1>1. \A p \in differ : /\ {r.index[p], r.work[p]} \cap Binary = {}
                          /\ {r.index[p], r.work[p]} \cap Large = {}
                          /\ r.work[p] \notin Crlf
    BY DEF WholePatch
  <1>2. Fragments(r) = {cut(p) : p \in {q \in differ : {r.index[q], r.work[q]} \cap Binary = {}}}
    BY DEF Fragments
  <1>3. \A p \in Paths : cut(p).path = p /\ cut(p).to = Stripped(r.work[p])
    OBVIOUS
  <1>4. differ \subseteq Paths
    BY DEF Changed, Untracked, Tracked
  <1> HIDE DEF differ, cut
  <1>5. /\ \A h \in Fragments(r) : h.path \in differ /\ h = cut(h.path)
        /\ \A p \in differ : cut(p) \in Fragments(r)
    BY <1>1, <1>2, <1>3, <1>4
  <1>6. SplitPatch(r) = Fragments(r)
    <2>1. \A h \in Fragments(r) : \A g \in UpTo(Fragments(r), h) :
              {r.index[g.path], r.work[g.path]} \cap Large = {}
      BY <1>1, <1>5 DEF UpTo
    <2> QED BY <2>1 DEF SplitPatch
  <1>7. \A g, h \in SplitPatch(r) : g.path = h.path => g = h
    BY <1>5, <1>6
  <1>8. \A h \in SplitPatch(r) : h.path \in Paths /\ h.to = r.work[h.path]
    <2>1. \A p \in differ : Stripped(r.work[p]) = r.work[p]
      BY <1>1 DEF Stripped
    <2> TAKE h \in SplitPatch(r)
    <2>2. h.path \in differ /\ h = cut(h.path) /\ h.path \in Paths
      BY <1>4, <1>5, <1>6
    <2>3. cut(h.path).to = Stripped(r.work[h.path])
      BY <1>3, <2>2
    <2> QED BY <2>1, <2>2, <2>3
  <1>9. ASSUME NEW p \in Seen, \A h \in SplitPatch(r) : h.path # p
        PROVE  r.index[p] = r.work[p]
    <2>1. p \notin differ
      BY <1>3, <1>4, <1>5, <1>6, <1>9
    <2> QED BY <2>1 DEF differ, Changed, Untracked, Tracked, Seen
  <1> QED BY <1>7, <1>8, <1>9

\* Once everything is staged, nothing differs.
LEMMA StagedWhole ==
    ASSUME GitAssumption, NEW r \in Repo, \A p \in Ignored : r.index[p] = Absent
    PROVE  WholePatch(AddAll(r))
  <1>1. /\ \A p \in Seen : AddAll(r).index[p] = r.work[p]
        /\ \A p \in Ignored : AddAll(r).index[p] = Absent
        /\ AddAll(r).work = r.work
    BY VisibleSeen, CommitParts
  <1>2. Changed(AddAll(r)) = {} /\ Untracked(AddAll(r)) = {}
    BY <1>1 DEF Changed, Untracked, Tracked, Seen, GitAssumption
  <1> QED BY <1>2 DEF WholePatch

\* A prefix of the hunks, applied to what is staged.
LEMMA PrefixTells ==
    ASSUME GitAssumption, TypeOK, TreeInv, HunksTell, NEW prefix \in SUBSET batch.hunks,
           CanRestore(repo, prefix), repo' = RestoreHunks(repo, prefix)
    PROVE  /\ repo'.index = repo.index
           /\ \A h \in prefix : repo'.work[h.path] = seen.ended[h.path]
           /\ \A p \in Paths : (\A h \in batch.hunks : h.path # p) =>
                  repo'.work[p] = seen.ended[p]
  <1>1. repo \in Repo /\ batch.hunks \in SUBSET Hunk /\ \A p \in Ignored : repo.index[p] = Absent
    BY DEF TypeOK, TreeInv, IgnoredUntracked
  <1>2. repo'.work = Patched(Restored(repo), prefix) /\ repo'.index = repo.index
    BY <1>1 DEF RestoreHunks, Repo
  <1>3. ASSUME NEW h \in prefix PROVE repo'.work[h.path] = seen.ended[h.path]
    <2>1. h.path \in Paths /\ h \in batch.hunks
      BY <1>1 DEF Hunk
    <2>2. (CHOOSE g \in prefix : g.path = h.path) = h
      BY <2>1 DEF HunksTell
    <2>3. Patched(Restored(repo), prefix)[h.path] = h.to
      BY <2>1, <2>2 DEF Patched
    <2> QED BY <1>2, <2>1, <2>3 DEF HunksTell
  <1>4. ASSUME NEW p \in Paths, \A h \in batch.hunks : h.path # p
        PROVE  repo'.work[p] = seen.ended[p]
    <2>1. repo'.work[p] = Restored(repo)[p]
      BY <1>2, <1>4 DEF Patched
    <2>2. CASE p \in Seen
      BY <1>1, <1>4, <2>1, <2>2, VisibleSeen DEF HunksTell
    <2>3. CASE p \notin Seen
      <3>1. Restored(repo)[p] = repo.work[p]
        BY <1>1, <2>3, VisibleSeen DEF Restored
      <3> QED BY <1>4, <2>1, <3>1 DEF HunksTell
    <2> QED BY <2>2, <2>3
  <1> QED BY <1>2, <1>3, <1>4

KeptInv == EndedKept /\ PrefixKept

\* Steps that leave the tree and its history alone, and pass no stage of a batch.
LEMMA QuietKept ==
    ASSUME TypeOK, KeptInv, UNCHANGED <<opt, repo, seen>>,
           batch'.hunks = batch.hunks, batch'.proven = batch.proven,
           batch'.probed = batch.probed, batch'.failed = batch.failed,
           \/ pc' = pc
           \/ pc = "idle" /\ pc' = "closed"
    PROVE  KeptInv'
  <1>1. Kept' = Kept
    BY DEF Kept
  <1>2. Settled' => Settled
    BY DEF Settled, Between
  <1>3. HunksTell => HunksTell'
    BY DEF HunksTell
  <1>4. WholePatch(repo)' = WholePatch(repo)
    BY DEF WholePatch, Changed, Untracked, Tracked
  <1>5. EndedKept'
    BY <1>2, <1>3, <1>4 DEF KeptInv, EndedKept
  <1>6. PrefixKept'
    BY <1>1 DEF KeptInv, PrefixKept, Between
  <1> QED BY <1>5, <1>6 DEF KeptInv

\* The stages where nothing is claimed.
LEMMA UnclaimedKept ==
    ASSUME pc' \in {"open", "batch", "exec"}
           \/ (pc' \in {"idle", "closed"}
               /\ seen'.verdict \in {"none", "running", "reverted", "notApplied", "gitFailed"})
    PROVE  KeptInv'
  BY DEF KeptInv, EndedKept, PrefixKept, Settled, Between

LEMMA WritesKept ==
    ASSUME GitAssumption, TypeOK, TreeInv, KeptInv, ProcessWrites
    PROVE  KeptInv'
  <1>1. /\ UNCHANGED <<pc, opt>> /\ pc \notin {"open", "closed"}
        /\ batch'.hunks = batch.hunks /\ batch'.proven = batch.proven
        /\ batch'.probed = batch.probed /\ batch'.failed = batch.failed
        /\ repo \in Repo /\ seen \in SeenTypes /\ \A p \in Ignored : repo.index[p] = Absent
    BY DEF ProcessWrites, TypeOK, SeenTypes, TreeInv, Unopened, NoChild, IgnoredUntracked
  <1>2. CASE pc \in {"batch", "exec"}
    BY <1>1, <1>2, UnclaimedKept
  <1>3. CASE pc \notin {"batch", "exec"} /\ seen'.outside
    BY <1>3 DEF KeptInv, EndedKept, PrefixKept
  <1>4. CASE ~seen'.outside /\ repo' = AddAll(repo) /\ seen' = [seen EXCEPT !.staged = TRUE]
    <2>1. /\ repo'.work = repo.work /\ \A p \in Seen : repo'.index[p] = repo.work[p]
          /\ seen'.staged /\ seen'.outside = seen.outside /\ seen'.whole = seen.whole
          /\ seen'.ended = seen.ended /\ seen'.verdict = seen.verdict
      BY <1>1, <1>4, CommitParts, VisibleSeen DEF SeenTypes
    <2>2. WholePatch(repo)'
      BY <1>1, <1>4, StagedWhole
    <2>3. Settled' = Settled
      BY <1>1, <2>1 DEF Settled, Between
    <2>4. HunksTell => HunksTell'
      BY <1>1, <2>1 DEF HunksTell
    <2>5. EndedKept'
      BY <1>1, <2>1, <2>2, <2>3, <2>4 DEF KeptInv, EndedKept
    <2> QED BY <2>1, <2>5 DEF KeptInv, PrefixKept
  <1>5. \/ seen' = [seen EXCEPT !.outside = seen.outside \/ pc \notin {"batch", "exec"}]
        \/ repo' = AddAll(repo) /\ seen' = [seen EXCEPT !.staged = TRUE]
    BY DEF ProcessWrites
  <1>6. pc \notin {"batch", "exec"}
            /\ seen' = [seen EXCEPT !.outside = seen.outside \/ pc \notin {"batch", "exec"}]
        => seen'.outside
    BY <1>1 DEF SeenTypes
  <1> QED BY <1>1, <1>2, <1>3, <1>4, <1>5, <1>6

\* The end of the calls, and the split of what they left.
LEMMA ProbeKept ==
    ASSUME GitAssumption, TypeOK, TreeInv, KeptInv, EndCalls \/ Probe
    PROVE  KeptInv'
  <1>1. /\ repo \in Repo /\ seen \in SeenTypes /\ batch \in BatchTypes
        /\ \A p \in Ignored : repo.index[p] = Absent
    BY DEF TypeOK, SeenTypes, BatchTypes, TreeInv, IgnoredUntracked
  <1>2. CASE EndCalls
    <2>1. /\ pc' = "probe" /\ repo' = repo /\ seen'.ended = repo.work
          /\ seen'.whole = WholePatch(repo) /\ opt' = opt
      BY <1>1, <1>2 DEF EndCalls, SeenTypes
    <2>2. WholePatch(repo)' = WholePatch(repo)
      BY <2>1 DEF WholePatch, Changed, Untracked, Tracked
    <2> QED BY <2>1, <2>2 DEF KeptInv, EndedKept, PrefixKept, Settled, Between
  <1>3. CASE Probe
    <2>1. /\ UNCHANGED <<opt, repo, seen>> /\ pc = "probe"
          /\ pc' = IF opt.proof THEN "prefix" ELSE "undo"
      BY <1>3 DEF Probe
    <2>2. batch'.hunks = SplitPatch(repo) /\ batch'.probed = batch.probed
      BY <1>1, <1>3 DEF Probe, BatchTypes
    <2> SUFFICES ASSUME ~seen.outside, opt.proof => seen.whole
                 PROVE  /\ Settled' => repo.work = seen.ended
                        /\ pc' = "prefix" => HunksTell'
      BY <2>1 DEF KeptInv, EndedKept, PrefixKept, Between
    <2>3. repo.work = seen.ended /\ (opt.proof => WholePatch(repo))
      BY <2>1 DEF KeptInv, EndedKept
    <2>4. ASSUME opt.proof PROVE HunksTell'
      <3>1. /\ \A g, h \in SplitPatch(repo) : g.path = h.path => g = h
            /\ \A h \in SplitPatch(repo) : h.path \in Paths /\ h.to = repo.work[h.path]
            /\ \A p \in Seen : (\A h \in SplitPatch(repo) : h.path # p)
                                   => repo.index[p] = repo.work[p]
        BY <1>1, <2>3, <2>4, SplitTells
      <3> QED BY <2>1, <2>2, <2>3, <3>1 DEF HunksTell
    <2> QED BY <2>1, <2>3, <2>4
  <1> QED BY <1>2, <1>3

\* The probes of the proof command, and their end.
LEMMA PrefixStepKept ==
    ASSUME GitAssumption, TypeOK, TreeInv, KeptInv, ProbePrefix \/ ProbeEnds \/ ProofEnds
    PROVE  KeptInv'
  <1>1. /\ repo \in Repo /\ seen \in SeenTypes /\ batch \in BatchTypes
        /\ batch.hunks \in SUBSET Hunk
    BY DEF TypeOK, SeenTypes, BatchTypes
  <1>2. CASE ProbePrefix
    <2>1. PICK h \in batch.hunks \ batch.probed :
              /\ batch' = [batch EXCEPT !.probed = UpTo(batch.hunks, h)]
              /\ repo' = RestoreHunks(repo, UpTo(batch.hunks, h))
              /\ IF CanRestore(repo, UpTo(batch.hunks, h))
                 THEN pc' = "proof" /\ UNCHANGED seen
                 ELSE Closed(IF CanRollback(repo) THEN "notApplied" ELSE "gitFailed")
      BY <1>2 DEF ProbePrefix
    <2> DEFINE prefix == UpTo(batch.hunks, h)
    <2>2. /\ batch'.hunks = batch.hunks /\ batch'.probed = prefix /\ opt' = opt
          /\ pc = "prefix"
      BY <1>1, <1>2, <2>1 DEF ProbePrefix, BatchTypes
    <2>3. prefix \in SUBSET batch.hunks
      BY DEF UpTo
    <2>4. CASE CanRestore(repo, prefix)
      <3>1. seen' = seen /\ pc' = "proof"
        BY <2>1, <2>4
      <3> SUFFICES ASSUME HunksTell PROVE HunksTell'
        BY <2>2, <3>1 DEF KeptInv, EndedKept, PrefixKept, Settled, Between
      <3>2. /\ repo'.index = repo.index
            /\ \A g \in prefix : repo'.work[g.path] = seen.ended[g.path]
            /\ \A p \in Paths : (\A g \in batch.hunks : g.path # p) =>
                   repo'.work[p] = seen.ended[p]
        BY <2>1, <2>3, <2>4, PrefixTells
      <3> HIDE DEF prefix
      <3> QED BY <2>2, <3>1, <3>2 DEF HunksTell
    <2>5. CASE ~CanRestore(repo, prefix)
      <3>1. pc' = "closed" /\ seen'.verdict \in {"notApplied", "gitFailed"}
        BY <1>1, <2>1, <2>5 DEF Closed, SeenTypes
      <3> QED BY <3>1, UnclaimedKept
    <2> QED BY <2>4, <2>5
  <1>3. CASE ProbeEnds
    <2>1. /\ pc = "prefix" /\ batch.probed = batch.hunks /\ pc' = "undo"
          /\ UNCHANGED <<opt, repo, batch, seen>>
      BY <1>3 DEF ProbeEnds
    <2> SUFFICES ASSUME HunksTell PROVE repo.work = seen.ended
      BY <2>1 DEF KeptInv, EndedKept, PrefixKept, Between
    <2>2. \A p \in Paths : repo.work[p] = seen.ended[p]
      BY <2>1 DEF HunksTell
    <2> QED BY <1>1, <2>2 DEF Repo, SeenTypes, Tree
  <1>4. CASE ProofEnds
    <2>1. /\ pc = "proof" /\ pc' = "prefix" /\ UNCHANGED <<opt, repo, seen>>
          /\ batch'.hunks = batch.hunks /\ batch'.probed = batch.probed
      BY <1>1, <1>4 DEF ProofEnds, BatchTypes
    <2>2. HunksTell => HunksTell'
      BY <2>1 DEF HunksTell
    <2> QED BY <2>1, <2>2 DEF KeptInv, EndedKept, PrefixKept, Settled, Between
  <1> QED BY <1>2, <1>3, <1>4

\* The gate: what stands stays, and of what is split the proven prefix comes back.
LEMMA GateKept ==
    ASSUME GitAssumption, TypeOK, TreeInv, KeptInv,
           Undo \/ GateCommits \/ GateKeepsPrefix \/ GateAborts
    PROVE  KeptInv'
  <1>1. /\ repo \in Repo /\ seen \in SeenTypes /\ batch.failed \in BOOLEAN
        /\ \A p \in Ignored : repo.index[p] = Absent
    BY DEF TypeOK, SeenTypes, TreeInv, IgnoredUntracked
  <1>2. CASE Undo
    <2>1. pc = "undo" /\ UNCHANGED <<opt, batch>>
      BY <1>2 DEF Undo
    <2>2. CASE batch.failed /\ ~CanRollback(repo)
      <3>1. pc' = "closed" /\ seen'.verdict = "gitFailed"
        BY <1>1, <1>2, <2>2 DEF Undo, Closed, SeenTypes
      <3> QED BY <3>1, UnclaimedKept
    <2>3. CASE ~(batch.failed /\ ~CanRollback(repo))
      <3>1. /\ pc' = "gate" /\ UNCHANGED seen
            /\ ~batch.failed => repo' = repo
        BY <1>2, <2>3 DEF Undo
      <3> QED BY <2>1, <3>1 DEF KeptInv, EndedKept, PrefixKept, Settled, Between
    <2> QED BY <2>2, <2>3
  <1>3. CASE GateCommits
    <2>1. /\ pc = "gate" /\ pc' = "idle" /\ UNCHANGED <<opt, repo, batch>>
          /\ seen'.verdict = IF batch.failed THEN "reverted" ELSE "kept"
          /\ seen'.outside = seen.outside /\ seen'.whole = seen.whole
          /\ seen'.ended = seen.ended
      BY <1>1, <1>3 DEF GateCommits, SeenTypes
    <2>2. CASE batch.failed
      BY <2>1, <2>2, UnclaimedKept
    <2>3. CASE ~batch.failed
      BY <2>1, <2>3 DEF KeptInv, EndedKept, PrefixKept, Settled, Between
    <2> QED BY <1>1, <2>2, <2>3
  <1>4. CASE GateKeepsPrefix
    <2>1. CASE ~CanRestore(repo, Kept)
      <3>1. pc' = "closed" /\ seen'.verdict \in {"notApplied", "gitFailed"}
        BY <1>1, <1>4, <2>1 DEF GateKeepsPrefix, Closed, SeenTypes
      <3> QED BY <3>1, UnclaimedKept
    <2>2. CASE CanRestore(repo, Kept)
      <3>1. /\ pc = "gate" /\ pc' = "idle" /\ UNCHANGED <<opt, batch>>
            /\ repo' = RestoreHunks(repo, Kept)
            /\ seen'.verdict = "partial" /\ seen'.staged = seen.staged
            /\ seen'.before = seen.before
        BY <1>1, <1>4, <2>2 DEF GateKeepsPrefix, SeenTypes
      <3>2. repo'.work = Patched(Restored(repo), Kept) /\ Kept' = Kept
        BY <1>1, <2>2, <3>1 DEF RestoreHunks, Repo, Kept
      <3>3. ASSUME ~seen.staged, NEW p \in Seen
            PROVE  Patched(Restored(repo), Kept)[p] = Patched(seen.before, Kept)[p]
        <4>1. repo.index[p] = seen.before[p] /\ Restored(repo)[p] = repo.index[p] /\ p \in Paths
          BY <1>1, <3>1, <3>3, VisibleSeen DEF TreeInv, BaselineInIndex, InBatch, Seen
        <4> QED BY <4>1 DEF Patched
      <3>4. PrefixKept'
        BY <3>1, <3>2, <3>3 DEF PrefixKept
      <3> QED BY <3>1, <3>4 DEF KeptInv, EndedKept, Settled
    <2> QED BY <2>1, <2>2
  <1>5. CASE GateAborts
    <2>1. pc' \in {"idle", "closed"} /\ seen'.verdict \in {"reverted", "gitFailed"}
      BY <1>1, <1>5 DEF GateAborts, Closed, SeenTypes
    <2> QED BY <2>1, UnclaimedKept
  <1> QED BY <1>2, <1>3, <1>4, <1>5

LEMMA StepKept ==
    ASSUME GitAssumption, TypeOK, TreeInv, KeptInv, [Next]_vars
    PROVE  KeptInv'
  <1>1. CASE UNCHANGED vars \/ Ended \/ Cancel \/ Close \/ Forks \/ ChildExits \/ KidEnds
    <2>1. /\ UNCHANGED <<opt, repo, seen>>
          /\ pc' = pc \/ (pc = "idle" /\ pc' = "closed")
      BY <1>1 DEF vars, Ended, Cancel, Close, Forks, ChildExits, KidEnds
    <2>2. /\ batch'.hunks = batch.hunks /\ batch'.proven = batch.proven
          /\ batch'.probed = batch.probed /\ batch'.failed = batch.failed
      BY <1>1 DEF vars, Ended, Cancel, Close, Forks, ChildExits, KidEnds, TypeOK
    <2> QED BY <2>1, <2>2, QuietKept
  <1>2. CASE StartBatch \/ Answer \/ WriteUnchecked \/ Spawn \/ Runner
    <2>1. pc' \in {"batch", "exec"}
      BY <1>2 DEF StartBatch, Answer, WriteUnchecked, Spawn, Runner, ChildGone, TimedOut,
                  JoinedKilled, Joined, Leave, DropCall
    <2> QED BY <2>1, UnclaimedKept
  <1>3. CASE Open
    <2>1. pc' = "idle" /\ seen'.verdict = "none"
      BY <1>3 DEF Open, TreeInv, Unopened
    <2> QED BY <2>1, UnclaimedKept
  <1>4. CASE GitFails
    <2>1. pc' = "closed" /\ seen'.verdict = "gitFailed"
      BY <1>4 DEF GitFails, Closed, TypeOK
    <2> QED BY <2>1, UnclaimedKept
  <1> QED
    BY <1>1, <1>2, <1>3, <1>4, ProbeKept, PrefixStepKept, GateKept, WritesKept
    DEF Next, Batch, Gate, Processes

\* What a batch is told to have kept is in the tree: all that its calls left, taken apart and put
\* together again by the probes of a proof command or not, or the proven prefix of it.
THEOREM KeptAsProvenAlways == Spec => []KeptAsProven
  <1>1. Init => KeptInv
    <2>1. Init => pc = "open"
      BY DEF Init
    <2> QED BY <2>1 DEF KeptInv, EndedKept, PrefixKept, Settled, Between
  <1>2. TypeOK /\ TreeInv /\ KeptInv /\ [Next]_vars => KeptInv'
    BY StepKept, GitAssumption
  <1>3. TypeOK /\ TreeInv /\ KeptInv => KeptAsProven
    <2>1. ASSUME TypeOK, TreeInv PROVE Visible(repo) = Seen
      BY <2>1, VisibleSeen, GitAssumption DEF TypeOK, TreeInv, IgnoredUntracked
    <2> QED BY <2>1 DEF KeptInv, EndedKept, PrefixKept, Settled, KeptAsProven
  <1> QED BY <1>1, <1>2, <1>3, InvHolds, PTL DEF Spec

=============================================================================
