----------------------------- MODULE MCRunLoop -----------------------------
(* Model values for RunLoop: the inputs rof passes, and what a call may cost. *)
EXTENDS RunLoop

\* rof passes one User input.
OneText == {<<"text">>}

\* What an embedder may pass besides: a control after the text, a control alone, or nothing.
FewInputs == {<<"text">>, <<"text", "stopHard">>, <<"stopHard">>, <<>>}

NoBills == {}
OneToken == {[tokens |-> 1, cents |-> 0]}

=============================================================================
