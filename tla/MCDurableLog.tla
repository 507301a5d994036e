---------------------------- MODULE MCDurableLog ----------------------------
(* Instances of the durable log for TLC. *)
EXTENDS DurableLog

\* The second row is longer than the writer's buffer.
SecondLarge == {2}

=============================================================================
