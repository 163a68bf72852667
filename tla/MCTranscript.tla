---------------------------- MODULE MCTranscript ----------------------------
(* Lines of one turn and of two, and a long one without any, as a tool's result is. *)
EXTENDS Transcript

MCLineKinds == {[len |-> 2, turns |-> 1], [len |-> 3, turns |-> 2], [len |-> 5, turns |-> 0]}
=============================================================================
