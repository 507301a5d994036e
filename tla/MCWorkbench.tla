---------------------------- MODULE MCWorkbench ----------------------------
(* Model values for Workbench: three paths, of which git ignores the last; a plain text,   *)
(* the same text with CRLF line ends, a binary content and one too long for the patch.      *)
EXTENDS Workbench

ThreePaths == 1..3
LastIgnored == {3}
FourContents == 1..4
CrlfOnly == {2}
BinaryOnly == {3}
LargeOnly == {4}
LfOf == [c \in {2} |-> 1]

Trees == {<<1, 0, 0>>, <<2, 3, 1>>, <<0, 0, 0>>}
SomeOptions ==
    {o \in [proof : BOOLEAN, bets : BOOLEAN, check : BOOLEAN] :
        /\ o.check = ~o.bets
        /\ o.proof \/ o.bets}

=============================================================================
