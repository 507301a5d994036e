------------------------------- MODULE GitTree -------------------------------
(***************************************************************************)
(* The snapshot crate: the git repository laid over a work tree, as a      *)
(* record and pure operators, because TreeService keeps nothing but the    *)
(* start commit and git keeps the rest.                                    *)
(*                                                                         *)
(* A tree gives each path its content or Absent.  Of a content the model   *)
(* keeps what git and the patch splitter tell apart: binary contents have  *)
(* no hunk, contents with CRLF lines lose the CR when a patch is split.    *)
(* A file has one hunk, a patch is cut where a Large content begins, and   *)
(* paths are numbers because git lists them in order.  Renames, modes,     *)
(* embedded repositories and gitlinks are left out.                        *)
(***************************************************************************)
EXTENDS Naturals

CONSTANTS
    Paths,       \* the paths of the work tree
    Ignored,     \* those that match the copy-local exclude file
    Contents,    \* what a file may hold
    Binary,      \* the contents git prints no hunk for
    Crlf,        \* the contents with CRLF line ends
    Lf,          \* of such a content, the one that has lost its CRs
    Large        \* the contents whose hunk does not fit into the bounded patch

Absent == 0

ASSUME GitAssumption ==
    /\ Paths \subseteq Nat
    /\ Ignored \subseteq Paths
    /\ Absent \notin Contents
    /\ Binary \subseteq Contents
    /\ Crlf \subseteq Contents
    /\ Lf \in [Crlf -> Contents]
    /\ Large \subseteq Contents

Tree == [Paths -> Contents \cup {Absent}]
EmptyTree == [p \in Paths |-> Absent]

\* head is the tree of the last commit, start that of TreeService::start.
Repo == [born : BOOLEAN, head : Tree, index : Tree, work : Tree,
         started : BOOLEAN, start : Tree]

Tracked(r) == {p \in Paths : r.index[p] # Absent}
Untracked(r) == {p \in Paths \ Ignored : r.index[p] = Absent /\ r.work[p] # Absent}

\* What git sees: an ignored path counts only while it is in the index.
Visible(r) == Paths \ (Ignored \ Tracked(r))

-----------------------------------------------------------------------------
\* git add -A
AddAll(r) == [r EXCEPT !.index = [p \in Paths |-> IF p \in Visible(r) THEN r.work[p] ELSE Absent]]

\* Nothing staged is no commit and no error.
CommitAll(r) ==
    LET s == AddAll(r)
    IN  IF s.index = s.head THEN s ELSE [s EXCEPT !.head = s.index, !.born = TRUE]

\* A bug: every baseline is taken for the start of the run.
BaselineAsStart(r) == LET s == CommitAll(r) IN [s EXCEPT !.start = s.index]

Baseline(r) == CommitAll(r)

\* Idempotent: the start is recorded once, and never for an unborn HEAD.
Ensure(r) ==
    LET s == IF r.born THEN r ELSE CommitAll(r)
    IN  IF s.born /\ ~s.started THEN [s EXCEPT !.started = TRUE, !.start = s.head] ELSE s

\* Without a start there is no known base, and checkout fails on an empty index.
CanRollback(r) == r.started /\ Tracked(r) # {}

\* A bug: the clean is forgotten, created files stay.
RestoredTracked(r) ==
    [p \in Paths |-> IF p \in Tracked(r) THEN r.index[p] ELSE r.work[p]]

\* git checkout -- . and git clean -fdq: from the index, not from HEAD.
Restored(r) ==
    [p \in Paths |-> IF p \in Visible(r) THEN r.index[p] ELSE r.work[p]]

Rollback(r) == IF CanRollback(r) THEN [r EXCEPT !.work = Restored(r)] ELSE r

-----------------------------------------------------------------------------
Changed(r) == {p \in Tracked(r) : r.work[p] # r.index[p]}

\* split_patch joins lines() again, which end without their CR.
Stripped(c) == IF c \in Crlf THEN Lf[c] ELSE c

Hunk == [path : Paths, new : BOOLEAN, from : Contents \cup {Absent}, to : Contents \cup {Absent}]

\* What differs between index and work tree, binary contents aside.
Fragments(r) ==
    {[path |-> p, new |-> p \in Untracked(r),
      from |-> Stripped(r.index[p]), to |-> Stripped(r.work[p])] :
        p \in {q \in Changed(r) \cup Untracked(r) : {r.index[q], r.work[q]} \cap Binary = {}}}

\* diff --patch lists tracked paths in order, the untracked ones follow.
Precedes(g, h) == IF g.new = h.new THEN g.path < h.path ELSE h.new

UpTo(hunks, h) == {g \in hunks : g = h \/ Precedes(g, h)}

\* A bug: the last fragment is dropped of a patch that was not cut, too.
SplitDropping(r) == {h \in Fragments(r) : \E g \in Fragments(r) : Precedes(h, g)}

\* The bounded patch ends inside a fragment, which is dropped with its marker.
SplitPatch(r) ==
    {h \in Fragments(r) : \A g \in UpTo(Fragments(r), h) :
        {r.index[g.path], r.work[g.path]} \cap Large = {}}

\* git apply, one fragment after the other: each must find the file it was cut from.
Applies(tree, hunks) == \A h \in hunks : tree[h.path] = h.from

Patched(tree, hunks) ==
    [p \in Paths |-> IF \E h \in hunks : h.path = p
                     THEN (CHOOSE h \in hunks : h.path = p).to ELSE tree[p]]

CanRestore(r, hunks) == CanRollback(r) /\ Applies(Restored(r), hunks)

\* A fragment that does not apply rolls the earlier ones back.
RestoreHunks(r, hunks) ==
    IF CanRestore(r, hunks) THEN [r EXCEPT !.work = Patched(Restored(r), hunks)] ELSE Rollback(r)

\* Every change of the batch is in its fragments as it is in the tree.
WholePatch(r) ==
    \A p \in Changed(r) \cup Untracked(r) :
        {r.index[p], r.work[p]} \cap (Binary \cup Crlf \cup Large) = {}

\* The deliverable: what patch_since_start_full makes of `tree'.  It is not split, so
\* CRs survive; a binary change is a line that nobody can apply.
Delivered(r, tree) ==
    LET now == [p \in Paths |-> IF p \in Visible(r) THEN r.work[p] ELSE Absent]
    IN  [p \in Paths |-> IF r.start[p] = now[p] \/ {r.start[p], now[p]} \cap Binary # {}
                         THEN tree[p] ELSE now[p]]

=============================================================================
