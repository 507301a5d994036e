----------------------------- MODULE MCFileTools -----------------------------
\* Small file systems and the calls made in them.
EXTENDS FileTools

Strings(chars, n) == UNION {[1..k -> chars] : k \in 0..n}

Order == <<".env", ".env.example", ".git", "app", "d", "e", "f", "g", "l", "out", "w", "x", "y">>
Rel1(names) == [abs |-> FALSE, names |-> names]
Host(names) == [abs |-> TRUE, names |-> names]
Link(to) == [kind |-> "link", to |-> to]

Bare == (<<>> :> Dir) @@ (<<"w">> :> Dir) @@ (<<"out">> :> Dir)
With(t) == Bare @@ (<<"w", "f">> :> File(t))

\* Every short text under every short search, and in pages of every size.
Edits ==
    [trees |-> {With(t) : t \in Strings({"a", " ", NL}, 4)},
     calls |-> {[tool |-> "edit", path |-> Rel1(<<"f">>), checker |-> FALSE,
                 search |-> s, replace |-> <<"r">>] : s \in Strings({"a", " ", NL}, 3)}]
Views ==
    [trees |-> {With(t) : t \in Strings({"a", "w", NL}, 6)},
     calls |-> {[tool |-> "view", path |-> Rel1(<<"f">>), paged |-> p, max |-> m] :
                    p \in BOOLEAN, m \in {0, 2, 9}}]

\* A workspace with a directory, the substrate, links inside it, into it and out of it.
Grown ==
    With(<<"a", NL, "b">>)
    @@ (<<"w", "d">> :> Dir) @@ (<<"w", "d", "g">> :> File(<<"a", "b", NL, "a">>))
    @@ (<<"w", "d", "x">> :> File(<<"a", "a", "a", "a", "a", "a", "a">>))
    @@ (<<"w", ".git">> :> Dir) @@ (<<"w", ".git", "f">> :> File(<<"a">>))
    @@ (<<"w", ".env">> :> File(<<"b">>))
    @@ (<<"out", "f">> :> File(<<"b">>))
Linked(to) == Grown @@ (<<"w", "l">> :> Link(to))
Targets == {Rel1(<<"f">>), Rel1(<<"d">>), Rel1(<<"y">>), Rel1(<<".git">>), Rel1(<<".git", "f">>),
            Rel1(<<"l">>), Rel1(<<"..", "out">>), Rel1(<<"..", "out", "y">>),
            Host(<<"w", "d">>), Host(<<"out">>), Host(<<"out", "f">>)}
Trees == {Linked(to) : to \in Targets} \union {Bare, Bare @@ (<<"app">> :> Dir)}

Named == {<<"f">>, <<"y">>, <<"d">>, <<"l">>, <<"d", "g">>, <<"d", "x">>, <<"d", "y">>, <<"l", "g">>,
          <<"l", "y">>, <<"f", "y">>, <<"e", "y">>, <<"e", "d", "y">>, <<"l", "e", "y">>,
          <<"d", "..", "f">>, <<"e", "..", "y">>, <<"..", "out", "f">>, <<"l", "..", "y">>,
          <<".git", "f">>, <<".git", "e", "y">>, <<".env">>, <<".env.example">>}
Paths == {Rel1(n) : n \in Named} \union {Host(<<"app">> \o n) : n \in Named}
         \union {Host(<<"w", "f">>), Host(<<"out", "f">>), Host(<<"out", "e", "y">>), Host(<<"app">>)}

PathCalls ==
    {[tool |-> "write", path |-> p, checker |-> c, content |-> t] :
        p \in Paths, c \in BOOLEAN, t \in {<<"b">>, <<"b", "b", "b", "b", "b", "b">>}}
    \union {[tool |-> "edit", path |-> p, checker |-> TRUE, search |-> <<"b">>, replace |-> <<"c">>] :
                p \in Paths}
    \union {[tool |-> "view", path |-> p, paged |-> TRUE, max |-> 9] : p \in Paths}
Calls == [trees |-> Trees, calls |-> PathCalls]

Searches ==
    [trees |-> Trees,
     calls |-> {[tool |-> "search", path |-> Rel1(p), pattern |-> s, limit |-> n] :
                    p \in Named \union {<<>>}, s \in Strings({"a", "b"}, 2), n \in {0, 2, 3, 9}}]

\* Words and a command that spells them.
Command(words, styles, gap, rest, talks) ==
    [tool |-> "exec", words |-> words, styles |-> styles, gap |-> gap, talks |-> talks,
     cmd |-> Spelled(words, styles, gap) \o rest]
Words == Strings({"a", " ", "'", "\"", "\\", ">"}, 2) \ {<<>>}
Blanks == <<" ", " ">>

\* In quotes of both kinds, as they are, and commands that are refused.
Execs ==
    [trees |-> {Bare},
     calls |-> {Command(<<<<"a">>, v, w>>, <<p, q, q>>, Blanks, Blanks, FALSE) :
                    v \in Words, w \in Words, p \in {"'", "none"}, q \in {"'", "\""}}
               \union {Command(<<<<"a">>, <<"x">>>>, <<"none", "none">>, <<" ">>, <<>>, t) :
                          t \in BOOLEAN}
               \union {[tool |-> "exec", cmd |-> c, words |-> <<>>, talks |-> FALSE] :
                          c \in {<<>>, <<"'", "'">>, <<"x">>, <<"a", " ", "|", " ", "a">>}}]

AllScenes == {Edits, Views, Calls, Searches, Execs}
Allowed == {<<"a">>}
Meddled == <<"b", "b">>

=============================================================================
