-------------------------- MODULE MCCommandChannel --------------------------
(* Constant values for the runs of CommandChannel. *)
EXTENDS CommandChannel

NoSkew    == [s \in Spokes |-> 0]
MixedSkew == [s \in Spokes |-> IF s \in Keyed THEN 1 ELSE -1]
=============================================================================
