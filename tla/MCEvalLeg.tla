----------------------------- MODULE MCEvalLeg -----------------------------
(* Model values for EvalLeg: two instances, the second without an image. *)
EXTENDS EvalLeg

CONSTANTS i1, i2

TwoInstances == <<i1, i2>>
FirstOnly == {i1}

=============================================================================
