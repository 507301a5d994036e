---------------------------- MODULE MCRetryLadder ----------------------------
(* Small instances of RetryLadder. *)
EXTENDS RetryLadder

MCRequests == [tokens: {2, 9}, off: BOOLEAN]
MCTexts == {{}, {"stale"}, {"fatal", "503"}, {"overload", "fatal"}, {"overflow"}}
MCAsks == {None, 0, 60, 61}
MCBills == {0, 1}
=============================================================================
