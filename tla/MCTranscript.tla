---------------------------- MODULE MCTranscript ----------------------------
(* Model values for Transcript. *)
EXTENDS Transcript, TLC

CONSTANTS a, b

TwoIds == {a, b}
SwapIds == Permutations(TwoIds)

=============================================================================
