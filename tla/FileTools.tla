----------------------------- MODULE FileTools -----------------------------
(***************************************************************************)
(* The standard tools on files: one call of write, edit, view, search or   *)
(* exec, from its arguments to its answer, on a host file system in which  *)
(* another process may touch the same file between two steps of the call.  *)
(*                                                                         *)
(* A path is a sequence of names from the host's root.  The other process  *)
(* writes regular files only: that a link swapped in after the check is    *)
(* followed is what the comment in write.rs says of itself.                *)
(***************************************************************************)
EXTENDS ToolText

CONSTANTS
    Scenes,                         \* file systems and the calls made in them
    Foreign,                        \* the text the other process writes
    NameOrder,                      \* the names, in the order a directory is sorted
    FileCap, ReplaceCap, ReadCap,   \* EDIT_FILE_CAP, EDIT_REPLACE_CAP, READ_FILE_CAP
    Allowlist,                      \* allowed_prefixes
    MaxHits, MaxLines, MaxHops      \* clamp of max_results; bound on output; links followed

\* A word as it is, or between quotes with its backslashes and such quotes escaped.
Quoted(word, style) ==
    LET body[k \in 0..Len(word)] ==
            IF k = 0 THEN <<>>
            ELSE body[k - 1] \o IF word[k] \in {"\\", style} THEN <<"\\", word[k]>> ELSE <<word[k]>>
    IN  IF style = "none" THEN word ELSE <<style>> \o body[Len(word)] \o <<style>>

\* Words one after the other, each spelled in a style of its own.
Spelled(words, styles, gap) ==
    LET upto[k \in 0..Len(words)] ==
            IF k = 0 THEN <<>>
            ELSE upto[k - 1] \o ((IF k = 1 THEN <<>> ELSE gap) \o Quoted(words[k], styles[k]))
    IN  upto[Len(words)]

\* A command that says what its words are.
Spelt(r) ==
    /\ r.words \in Seq(Seq(Char) \ {<<>>})
    /\ \A i \in DOMAIN r.words :
           \/ r.styles[i] \in {"'", "\""}
           \/ /\ r.styles[i] = "none"
              /\ {r.words[i][k] : k \in DOMAIN r.words[i]} \intersect {" ", NL, "'", "\"", "\\"} = {}
    /\ r.gap \in Seq({" ", NL}) \ {<<>>}
    /\ r.cmd \in {Spelled(r.words, r.styles, r.gap), Spelled(r.words, r.styles, r.gap) \o r.gap}

\* What a file system and the arguments of a call are made of.
ASSUME FilesAssumption ==
    /\ MaxHops \in Nat
    /\ Foreign \in Seq(Char)
    /\ \A scene \in Scenes :
           /\ \A f \in scene.trees :
                  /\ IsFiniteSet(DOMAIN f)
                  /\ <<>> \in DOMAIN f /\ f[<<>>].kind = "dir"
                  /\ \A p \in DOMAIN f :
                         /\ f[p].kind \in {"dir", "file", "link"}
                         /\ f[p].kind = "file" =>
                                f[p] = [kind |-> "file", text |-> f[p].text]
                                /\ f[p].text \in Seq(Char)
                         /\ f[p].kind = "link" => f[p].to.names \in Seq(STRING)
           /\ \A r \in scene.calls :
                  /\ r.tool \in {"view", "edit"} => r.path.names \in Seq(STRING)
                  /\ r.tool = "view" => r.paged \in BOOLEAN /\ r.max \in Nat
                  /\ r.tool = "edit" => r.search \in Seq(Char) /\ r.replace \in Seq(Char)
                  /\ r.tool = "exec" /\ r.words # <<>> => Spelt(r)

VARIABLES
    fs, before, meddled,    \* the files, those before the call, has the other process written
    req, pc, status,        \* the call, where it is, how it ended
    cur, todo,              \* create_parent_dirs: the path so far and the names to come
    orig, new,              \* the text an edit has read, the text to be written
    answer, next,           \* what the caller has been shown, the offset it goes on at
    pipe, out               \* BoundedOut, and all the child has said

vars == <<fs, before, meddled, req, pc, status, cur, todo, orig, new, answer, next, pipe, out>>
tree == <<fs, before, meddled>>
text == <<orig, new>>
shown == <<answer, next>>
child == <<pipe, out>>
dirs == <<cur, todo>>

Root == <<"w">>         \* policy.root

Dir == [kind |-> "dir"]
File(t) == [kind |-> "file", text |-> t]
IsA(f, p, kind) == p \in DOMAIN f /\ f[p].kind = kind
Put(f, p, node) == [q \in DOMAIN f \union {p} |-> IF q = p THEN node ELSE f[q]]

-----------------------------------------------------------------------------
(* policy.rs *)

In(dir, p) == IsPrefix(dir, p)
Rel(p) == SubSeq(p, Len(Root) + 1, Len(p))

\* One name further: `..' takes a name away, whatever the name is.
Into(p, name) == IF name # ".." THEN Append(p, name) ELSE IF p = <<>> THEN p ELSE Front(p)

\* normalize.
Norm(p) == LET upto[i \in 0..Len(p)] == IF i = 0 THEN <<>> ELSE Into(upto[i - 1], p[i])
           IN  upto[Len(p)]

\* root.join: an absolute path replaces the root.
Join(path) == IF path.abs THEN path.names ELSE Root \o path.names

\* /app/x is x.
Workspace(path) ==
    IF path.abs /\ Len(path.names) > 1 /\ path.names[1] = "app"
    THEN [abs |-> FALSE, names |-> Tail(path.names)] ELSE path

\* default_denied_globs by the names they match: the last one, or any.
Denied(rel) ==
    /\ rel # <<>>
    /\ \/ Last(rel) = ".env"        \* not .env.example
       \/ Last(rel) = "k.pem"
       \/ ".ssh" \in ToSet(rel)

\* What the host makes of a path, links followed: "ok" if it is there, "new" if all but the
\* last name is, else why not.  Here, one name of it: where it leads, the names to come and the
\* links it may still follow.
Onward(f, w) ==
    LET to == Into(w.path, Head(w.names))
    IN  IF w.err # "ok" \/ w.names = <<>> THEN w
        ELSE IF f[w.path].kind # "dir" THEN [w EXCEPT !.err = "notdir"]
        ELSE IF to \notin DOMAIN f
        THEN [w EXCEPT !.err = IF Len(w.names) = 1 THEN "new" ELSE "missing", !.path = to]
        ELSE IF f[to].kind # "link" THEN [w EXCEPT !.path = to, !.names = Tail(@)]
        ELSE IF w.hops = 0 THEN [w EXCEPT !.err = "loop", !.path = to]
        ELSE [w EXCEPT !.path = IF f[to].to.abs THEN <<>> ELSE @,
                       !.names = f[to].to.names \o Tail(@), !.hops = @ - 1]

\* All of them, one after the other; a link followed brings in its own.
Real(f, p) ==
    LET longest == Max({0} \union {Len(f[q].to.names) : q \in {r \in DOMAIN f : IsA(f, r, "link")}})
        steps == Len(p) + MaxHops * longest
        walk[i \in 0..steps] ==
            IF i = 0 THEN [err |-> "ok", path |-> <<>>, names |-> p, hops |-> MaxHops]
            ELSE Onward(f, walk[i - 1])
    IN  walk[steps]

HasGit(p) == In(Root, p) /\ ".git" \in ToSet(Rel(p))

\* A bug: the last name is not looked at.
ParentSafe(f, p, write) ==
    LET up == Real(f, IF p = <<>> THEN Root ELSE Front(p))
    IN  CASE Norm(p) = Root -> "ok"
          [] Norm(p) # Root /\ up.err \in {"new", "missing"} -> "noparent"
          [] OTHER -> IF up.err # "ok" \/ ~In(Root, up.path) \/ (write /\ HasGit(up.path))
                      THEN "denied" ELSE "ok"

\* symlink_safe: the parent, then a link in the last place, which may dangle.
SymlinkSafe(f, p, write) ==
    LET up == Real(f, IF p = <<>> THEN Root ELSE Front(p))
        link == p # <<>> /\ IsA(f, Append(up.path, Last(p)), "link")
        to == f[Append(up.path, Last(p))].to
        resolved == IF to.abs THEN to.names ELSE up.path \o to.names
        real == IF Real(f, resolved).err = "ok" THEN Real(f, resolved).path ELSE resolved
        bad(q) == ~In(Root, Norm(q)) \/ (write /\ HasGit(q))
    IN  CASE Norm(p) = Root -> "ok"
          [] Norm(p) # Root /\ up.err \in {"new", "missing"} -> "noparent"
          [] OTHER -> IF up.err # "ok" \/ bad(up.path) \/ (link /\ bad(real))
                      THEN "denied" ELSE "ok"

ResolveUnder(f, path, write) ==
    LET p == Join(Workspace(path))
    IN  IF ~In(Root, Norm(p)) \/ Denied(Rel(Norm(p))) \/ (write /\ ".git" \in ToSet(p))
        THEN "denied" ELSE SymlinkSafe(f, p, write)

\* Where the link at p points to.
Pointed(f, p) == IF f[p].to.abs THEN f[p].to.names ELSE Front(p) \o f[p].to.names

\* A link to what is not there names no other link, and .git not from outside the workspace:
\* of such a target symlink_safe knows no more than its text.
Plainly(f, p) ==
    LET to == Pointed(f, p)
    IN  Real(f, to).err \in {"new", "missing"} =>
            /\ \A k \in 1..Len(to) : ~IsA(f, Norm(SubSeq(to, 1, k)), "link")
            /\ ".git" \in ToSet(to) => In(Root, to)

\* What a write is asked for, and where: what is there is in a directory, and the path does not
\* spell the workspace itself, which symlink_safe takes as it is.
ASSUME WritesAssumption ==
    \A scene \in Scenes :
        /\ \A f \in scene.trees :
               /\ DOMAIN f \subseteq Seq(STRING) /\ IsA(f, Root, "dir")
               /\ \A p \in DOMAIN f \ {<<>>} : IsA(f, Front(p), "dir")
               /\ \A p \in DOMAIN f : f[p].kind = "link" => Plainly(f, p)
        /\ \A r \in scene.calls :
               r.tool = "write" => /\ r.path.names \in Seq(STRING) /\ r.path.abs \in BOOLEAN
                                   /\ Norm(Join(Workspace(r.path))) # Root
                                   /\ r.content \in Seq(Char)

Path == Join(Workspace(req.path))
Target == Real(fs, Path)
Size(p) == Weight(fs[p].text)

\* A text above a cap.
TooBig(t, cap) == Weight(t) > cap

-----------------------------------------------------------------------------
(* search.rs *)

Found == [hits: Seq([path: Seq(STRING), line: Nat]), skipped: Nat]

\* The lines that match.
Hits(f, p, pattern) ==
    LET lines == Lines(f[p].text)
    IN  Pick([i \in DOMAIN lines |-> i], {i \in DOMAIN lines : Occurs(lines[i], pattern) # {}})

\* A bug: the limit is looked at between two files only.
WholeFile(f, p, pattern, limit, acc) ==
    IF TooBig(f[p].text, ReadCap) THEN [acc EXCEPT !.skipped = @ + 1]
    ELSE LET hits == Hits(f, p, pattern)
         IN  [acc EXCEPT !.hits = @ \o [i \in DOMAIN hits |-> [path |-> p, line |-> hits[i]]]]

SearchFile(f, p, pattern, limit, acc) ==
    IF TooBig(f[p].text, ReadCap) THEN [acc EXCEPT !.skipped = @ + 1]
    ELSE LET hits == Hits(f, p, pattern)
             room == Min({limit - Len(acc.hits), Len(hits)})
         IN  [acc EXCEPT !.hits = @ \o [i \in 1..room |-> [path |-> p, line |-> hits[i]]]]

\* Every name there is has its place in the order; what a search is asked for.
ASSUME SearchAssumption ==
    /\ MaxHits \in Nat
    /\ NameOrder \in Seq(STRING) /\ IsInjective(NameOrder)
    /\ \A scene \in Scenes :
           /\ \A f \in scene.trees : \A p \in DOMAIN f \ {<<>>} : Last(p) \in ToSet(NameOrder)
           /\ \A r \in scene.calls :
                  r.tool = "search" => r.path.names \in Seq(STRING) /\ r.limit \in Nat

Rank(name) == CHOOSE i \in DOMAIN NameOrder : NameOrder[i] = name
Children(f, dir) ==
    Pick(NameOrder, {Rank(p[Len(p)]) : p \in {q \in DOMAIN f : Len(q) = Len(dir) + 1 /\ In(dir, q)}})

\* One entry of a directory: neither .git nor a link is entered, a directory is searched in turn.
Visit(f, p, pattern, limit, acc, inside) ==
    CASE Len(acc.hits) >= limit \/ Last(p) = ".git" \/ f[p].kind = "link" -> acc
      [] OTHER -> IF f[p].kind = "dir" THEN inside[p][acc] ELSE SearchFile(f, p, pattern, limit, acc)

\* All of them, one after the other.
Sweep(f, dir, pattern, limit, acc, inside) ==
    LET names == Children(f, dir)
        upto[k \in 0..Len(names)] ==
            IF k = 0 THEN acc
            ELSE Visit(f, Append(dir, names[k]), pattern, limit, upto[k - 1], inside)
    IN  upto[Len(names)]

SearchDir(f, dir, pattern, limit, acc) ==
    LET walk[at \in {d \in DOMAIN f : f[d].kind = "dir"}] ==
            [found \in Found |-> Sweep(f, at, pattern, limit, found, walk)]
    IN  walk[dir][acc]

-----------------------------------------------------------------------------
Init ==
    /\ \E scene \in Scenes : \E f \in scene.trees, r \in scene.calls :
           fs = f /\ before = f /\ req = r
    /\ meddled = FALSE
    /\ pc = "start" /\ status = "none"
    /\ cur = <<>> /\ todo = <<>>
    /\ orig = NoText /\ new = NoText
    /\ answer = <<>> /\ next = 1
    /\ pipe = EmptyPipe /\ out = <<>>

End(how) == pc' = "done" /\ status' = how

\* path_err: a missing parent is a failure, everything else a denial.
Refused(verdict) == End(IF verdict = "noparent" THEN "failed" ELSE verdict)

-----------------------------------------------------------------------------
(* write.rs *)

\* The cap on the content and the first resolve_under.
WriteStart ==
    LET verdict == ResolveUnder(fs, req.path, TRUE)
        parents == Front(req.path.names)
    IN  /\ pc = "start" /\ req.tool = "write"
        /\ new' = req.content
        /\ CASE TooBig(req.content, ReplaceCap) -> End("failed") /\ UNCHANGED dirs
             [] OTHER ->
                IF verdict = "ok" THEN pc' = "look" /\ UNCHANGED <<status, dirs>>
                ELSE IF verdict = "denied" THEN End("denied") /\ UNCHANGED dirs
                ELSE /\ pc' = "parents"
                     /\ cur' = (IF req.path.abs THEN <<>> ELSE Root)    \* of the path as given
                     /\ todo' = parents
                     /\ UNCHANGED status
        /\ UNCHANGED <<tree, req, orig, shown, child>>

\* One level of create_parent_dirs: make it if it is not there, then check it.  It cannot be made
\* below what is no directory; outside the root, whether it can is up to the host.
CreateLevel ==
    /\ pc = "parents" /\ todo # <<>>
    /\ LET dir == Append(cur, Head(todo))
           up == Real(fs, cur)
           open == up.err = "ok" /\ fs[up.path].kind = "dir"
           at == Append(up.path, Head(todo))        \* symlink_metadata: a link is not followed
           there == open /\ (Head(todo) = ".." \/ at \in DOMAIN fs)
           made == IF there THEN fs ELSE Put(fs, at, Dir)
           verdict == SymlinkSafe(made, dir, TRUE)
       IN  \/ /\ ~there /\ ~(open /\ In(Root, at))
              /\ End("failed") /\ UNCHANGED <<fs, dirs>>
           \/ /\ open
              /\ fs' = made
              /\ cur' = dir /\ todo' = Tail(todo)
              /\ IF verdict = "ok" THEN UNCHANGED <<pc, status>> ELSE Refused(verdict)
    /\ UNCHANGED <<before, meddled, req, text, shown, child>>

ResolveAgain ==
    LET verdict == ResolveUnder(fs, req.path, TRUE)
    IN  /\ pc = "parents" /\ todo = <<>>
        /\ IF verdict = "ok" THEN pc' = "look" /\ UNCHANGED status ELSE Refused(verdict)
        /\ UNCHANGED <<tree, req, dirs, text, shown, child>>

\* No directory, and no stub over a big file; what cannot be looked at is left to the open.
WriteLook ==
    /\ pc = "look" /\ req.tool = "write"
    /\ IF Target.err = "ok" /\ (fs[Target.path].kind = "dir" \/ TooBig(fs[Target.path].text, FileCap))
       THEN End("failed")
       ELSE pc' = (IF req.checker THEN "check" ELSE "save") /\ UNCHANGED status
    /\ UNCHANGED <<tree, req, dirs, text, shown, child>>

\* check_syntax: the candidate is staged elsewhere and the checker passes it or vetoes it; a
\* checker that cannot be run, or hangs, is a veto as well.
Check ==
    /\ pc = "check"
    /\ \/ pc' = "save" /\ UNCHANGED status
       \/ End("vetoed")
    /\ UNCHANGED <<tree, req, dirs, text, shown, child>>

\* create_new, and if there is such an entry an ordinary write, which follows a link.  An edit
\* goes straight to the ordinary write, which would create the file again.
Save ==
    LET reached == Target.err \in {"ok", "new"}
                   /\ ~IsA(fs, Target.path, "dir")
    IN  /\ pc = "save"
        /\ IF reached THEN fs' = Put(fs, Target.path, File(new)) /\ End("written")
                      ELSE UNCHANGED fs /\ End("failed")
        /\ UNCHANGED <<before, meddled, req, dirs, text, shown, child>>

-----------------------------------------------------------------------------
(* edit.rs *)

EditStart ==
    LET verdict == ResolveUnder(fs, req.path, TRUE)
    IN  /\ pc = "start" /\ req.tool = "edit"
        /\ CASE TooBig(req.replace, ReplaceCap) -> End("failed")
             [] OTHER ->
                IF verdict # "ok" THEN Refused(verdict)
                ELSE IF Target.err # "ok" THEN End("failed")
                ELSE IF fs[Target.path].kind = "dir" \/ TooBig(fs[Target.path].text, FileCap)
                THEN End("failed")
                ELSE pc' = "read" /\ UNCHANGED status
        /\ UNCHANGED <<tree, req, dirs, text, shown, child>>

EditRead ==
    LET updated == ApplyHunk(fs[Target.path].text, req.search, req.replace)
    IN  /\ pc = "read"
        /\ orig' = fs[Target.path].text
        /\ new' = updated
        /\ IF updated = NoText THEN End("failed")
           ELSE pc' = (IF req.checker THEN "check" ELSE "save") /\ UNCHANGED status
        /\ UNCHANGED <<tree, req, dirs, shown, child>>

-----------------------------------------------------------------------------
(* view.rs *)

\* What view and search refuse.
Readable(verdict) ==
    verdict = "ok" /\ Target.err = "ok" /\ fs[Target.path].kind = "file"
    /\ Size(Target.path) <= ReadCap

\* view_read_cap; a call without max_bytes is one that asks for at least the cap.
Cap == Min({req.max, ViewCap})

\* A call without an offset: the first bytes, a wide character cut in two being a `?'.
ViewWhole ==
    LET verdict == ResolveUnder(fs, req.path, FALSE)
        t == fs[Target.path].text
        k == Max({n \in 0..Len(t) : Weight(SubSeq(t, 1, n)) <= Cap})
        half == IF k < Len(t) /\ Weight(SubSeq(t, 1, k)) < Cap THEN <<"?">> ELSE <<>>
        head == SubSeq(t, 1, k) \o half
    IN  /\ pc = "start" /\ req.tool = "view" /\ ~req.paged
        /\ IF Readable(verdict)
           THEN /\ answer' = [content |-> SubSeq(head, 1, Min({Len(head), OutCap})),
                              truncated |-> Len(head) > OutCap \/ k < Len(t)]
                /\ End("ok")
           ELSE UNCHANGED answer /\ Refused(IF verdict = "ok" THEN "failed" ELSE verdict)
        /\ UNCHANGED <<tree, req, dirs, text, next, child>>

\* A reader that follows the notices: each step is a call of its own.
ViewNext ==
    LET verdict == ResolveUnder(fs, req.path, FALSE)
        lines == Lines(fs[Target.path].text)
        page == ViewPage(lines, next, Cap)
    IN  /\ pc = "start" /\ req.tool = "view" /\ req.paged
        /\ IF Readable(verdict) /\ next <= Len(lines)
           THEN /\ answer' = answer \o page.lines
                /\ next' = page.next
                /\ IF page.next = 0 THEN End("ok") ELSE UNCHANGED <<pc, status>>
           ELSE UNCHANGED shown /\ Refused(IF verdict = "ok" THEN "failed" ELSE verdict)
        /\ UNCHANGED <<tree, req, dirs, text, child>>

-----------------------------------------------------------------------------
Search ==
    LET verdict == ResolveUnder(fs, req.path, FALSE)
        limit == Max({1, Min({req.limit, MaxHits})})
        none == [hits |-> <<>>, skipped |-> 0]
    IN  /\ pc = "start" /\ req.tool = "search"
        /\ IF verdict # "ok" THEN Refused(verdict) /\ UNCHANGED answer
           ELSE /\ answer' = IF Target.err # "ok" THEN none
                             ELSE IF fs[Target.path].kind = "file"
                             THEN SearchFile(fs, Target.path, req.pattern, limit, none)
                             ELSE SearchDir(fs, Target.path, req.pattern, limit, none)
                /\ End("ok")
        /\ UNCHANGED <<tree, req, dirs, text, next, child>>

-----------------------------------------------------------------------------
(* exec and test: run_allowed, and one pipe of the child, line by line *)

\* The words that are spawned are in `new'; none at all fails at the spawn.
ExecStart ==
    LET words == SplitCmd(req.cmd)
    IN  /\ pc = "start" /\ req.tool = "exec"
        /\ new' = words
        /\ IF \E i \in DOMAIN words : ShellOp(words[i]) THEN End("failed")
           ELSE IF words = <<>> \/ ~\E entry \in Allowlist : Covers(entry, words)
           THEN End("denied")
           ELSE pc' = "run" /\ UNCHANGED status
        /\ UNCHANGED <<tree, req, dirs, orig, shown, child>>

\* drain_pipe: what one read returns.
Drain(classes) ==
    LET chunk == [i \in DOMAIN classes |-> [at |-> Len(out) + i, class |-> classes[i]]]
    IN  /\ pc = "run" /\ req.talks
        /\ Len(out) + Len(classes) <= MaxLines
        /\ out' = out \o chunk
        /\ pipe' = Push(pipe, chunk)
        /\ UNCHANGED <<tree, req, pc, status, dirs, text, shown>>

\* BoundedOut::bytes, then condense_output.
Omission == [at |-> 0, class |-> "plain"]
Collected == IF Dropped(pipe) > 0 THEN pipe.head \o <<Omission>> \o pipe.tail
             ELSE pipe.head \o pipe.tail

\* Success is the exit status, whatever the output says.
Exit ==
    /\ pc = "run"
    /\ answer' = Condense(Collected)
    /\ End("ok") \/ End("red")
    /\ UNCHANGED <<tree, req, dirs, text, next, child>>

-----------------------------------------------------------------------------
\* The other process: a formatter, a build, a command of an earlier call.
Meddle ==
    /\ ~meddled /\ pc # "done"
    /\ req.tool # "exec"
    /\ Target.err \in {"ok", "new"} /\ In(Root, Target.path)
    /\ ~IsA(fs, Target.path, "dir")
    /\ fs' = Put(fs, Target.path, File(Foreign))
    /\ meddled' = TRUE
    /\ UNCHANGED <<before, req, pc, status, dirs, text, shown, child>>

Chunks == {<<c>> : c \in {"noise", "plain", "generic", "specific"}}
          \union ({"plain", "specific"} \X {"generic", "specific"})

Next ==
    \/ WriteStart \/ CreateLevel \/ ResolveAgain \/ WriteLook \/ Check \/ Save
    \/ EditStart \/ EditRead
    \/ ViewWhole \/ ViewNext \/ Search
    \/ ExecStart
    \/ \E classes \in Chunks : Drain(classes)
    \/ Exit
    \/ Meddle

Spec == Init /\ [][Next]_vars

-----------------------------------------------------------------------------
(* Properties *)

Files(f) == {p \in DOMAIN f : f[p].kind = "file"}
Same(f, g, p) == p \in DOMAIN f \intersect DOMAIN g /\ f[p] = g[p]

\* A spelling nobody could object to, for which every name on the way is a plain one.
Ordinary(names) ==
    /\ names # <<>>
    /\ {"..", ".git"} \intersect ToSet(names) = {}
    /\ ~Denied(names)
    /\ \A k \in 1..Len(names) :
           LET p == Root \o SubSeq(names, 1, k)
           IN  p \in DOMAIN before => before[p].kind = IF k < Len(names) THEN "dir" ELSE "file"
Small(p) == /\ IsA(before, p, "file") => ~TooBig(before[p].text, FileCap)
            /\ meddled => ~TooBig(Foreign, FileCap)
Writes(names) ==
    Ordinary(names) /\ Small(Root \o names) /\ ~TooBig(req.content, ReplaceCap)
    => status \in {"written", "vetoed"}

\* But for the file the path leads to, no file of the host is touched, and that one only by a call
\* that says so.
Untouched ==
    \A p \in Files(before) \union Files(fs) :
        Same(fs, before, p) \/ (status = "written" /\ p = Target.path)

\* write.rs: a write that says `wrote' has left the content in the one file its path leads to, in
\* the workspace and not in .git; one that fails has changed no file; and an ordinary path is
\* written unless the checker objects, however many of its directories are missing if it is
\* relative, and where its directory is there if it is spelled /app/... (create_parent_dirs does
\* not know that spelling).
WriteLands ==
    pc = "done" /\ req.tool = "write" =>
        /\ status = "written" => /\ Target.err = "ok" /\ In(Root, Target.path)
                                 /\ ~HasGit(Target.path)
                                 /\ fs[Target.path] = File(req.content)
        /\ ~meddled => Untouched
        /\ ~req.path.abs => Writes(req.path.names)
        /\ Workspace(req.path) # req.path /\ Front(Join(Workspace(req.path))) \in DOMAIN before
           => Writes(Tail(req.path.names))

\* The spans a search may stand for: those that read alike once every run of whitespace is one
\* blank, the search as it is coming first.
Spans(t, s) ==
    LET exact == {<<i, i + Len(s)>> : i \in Occurs(t, s)}
        alike == {c \in (1..(Len(t) + 1)) \X (1..(Len(t) + 1)) :
                    /\ c[1] <= c[2]
                    /\ Collapse(SubSeq(t, c[1], c[2] - 1)) = Collapse(s)
                    /\ c[1] > 1 /\ White(t[c[1]]) => ~White(t[c[1] - 1])
                    /\ c[2] <= Len(t) /\ White(t[c[2]]) => ~White(t[c[2] - 1])}
    IN  IF exact # {} THEN exact ELSE alike
Apart(c, d) == c[2] <= d[1] \/ d[2] <= c[1]

\* common.rs, edit.rs: an edit replaces one span of the text it has read, there is no other span
\* apart from it that the search could have meant, and nothing else in the file or in the tree
\* changes; an edit whose search has a single meaning is made.
EditOneSpan ==
    pc = "done" /\ req.tool = "edit" =>
        /\ status = "written" =>
               /\ fs[Target.path] = File(new)
               /\ \E c \in Spans(orig, req.search) :
                      /\ new = Splice(orig, c[1], c[2], req.replace)
                      /\ \A d \in Spans(orig, req.search) : d # c => ~Apart(c, d)
        /\ status = "failed" /\ orig # NoText => Cardinality(Spans(orig, req.search)) # 1
        /\ ~meddled => Untouched /\ (orig # NoText => before[Target.path] = File(orig))

\* view.rs: a reader who follows the notices sees every line once and in order, whatever the caps
\* cut, in at most a call a line; a call without an offset shows the start of the file and says so
\* when that is not all of it.
ReadsWhole ==
    req.tool = "view" /\ ~meddled /\ status # "denied" /\ Target.err = "ok"
    /\ IsA(fs, Target.path, "file") =>
        LET file == before[Target.path].text
            all == [i \in DOMAIN Lines(file) |-> i]
        IN  /\ req.paged => IsPrefix(answer, all)
            /\ req.paged /\ pc = "done" /\ Size(Target.path) <= ReadCap => answer = all
            /\ ~req.paged /\ status = "ok" /\ ~answer.truncated => answer.content = file

Lexical(p, q) ==
    \/ IsStrictPrefix(p, q)
    \/ \E k \in 1..Min({Len(p), Len(q)}) :
           SubSeq(p, 1, k - 1) = SubSeq(q, 1, k - 1) /\ Rank(p[k]) < Rank(q[k])
Earlier(h, g) == Lexical(h.path, g.path) \/ (h.path = g.path /\ h.line < g.line)

\* search.rs: the answer is the first hits, in order, of all lines of the regular files below the
\* base that are not in .git and not too big to read; if there are fewer than asked for, none is
\* missing and every file left out for its size is counted.
SearchExact ==
    pc = "done" /\ req.tool = "search" /\ status = "ok" /\ ~meddled =>
        LET base == Target.path
            limit == Max({1, Min({req.limit, MaxHits})})
            below == {p \in Files(fs) :
                        /\ Target.err = "ok" /\ In(base, p)
                        /\ ".git" \notin ToSet(SubSeq(p, Len(base) + 1, Len(p)))}
            big == {p \in below : TooBig(fs[p].text, ReadCap)}
            all == UNION {{[path |-> p, line |-> i] : i \in ToSet(Hits(fs, p, req.pattern))} :
                          p \in below \ big}
            hits == answer.hits
        IN  /\ Len(hits) = Min({limit, Cardinality(all)})
            /\ ToSet(hits) \subseteq all
            /\ \A i, j \in DOMAIN hits : i < j => Earlier(hits[i], hits[j])
            /\ \A h \in all \ ToSet(hits) : \A i \in DOMAIN hits : Earlier(hits[i], h)
            /\ Len(hits) < limit => answer.skipped = Cardinality(big)

\* runner.rs, condense.rs: words quoted by the rules reach the child one by one as they were;
\* its answer is made of lines it has written, in their order and within the cap; of the two ends
\* that are kept for certain the last signal is in it, every specific one while there is room,
\* and if there is no signal anywhere the last lines are.
ExecFaithful ==
    pc = "done" /\ req.tool = "exec" /\ status \in {"ok", "red"} =>
        LET said == {i \in DOMAIN answer : answer[i] # Omission}
            ends == {i \in DOMAIN out : i <= HeadCap \/ i > Len(out) - TailCap}
            signals == {i \in ends : Signal(out[i])}
            specific == {i \in signals : out[i].class = "specific"}
            last == {i \in DOMAIN out : i > Len(out) - TailLines}
            told == {answer[i].at : i \in said}
        IN  /\ req.words # <<>> => new = req.words
            /\ \A i \in said : answer[i] = out[answer[i].at]
            /\ \A i, j \in said : i < j => answer[i].at < answer[j].at
            /\ Len(answer) <= IF signals # {} THEN KeptCap ELSE TailLines
            /\ signals # {} => Max(signals) \in told
            /\ Cardinality(specific) < KeptCap => specific \subseteq told
            /\ signals = {} /\ (\E i \in last : out[i].class # "noise") => last \subseteq told

=============================================================================
