---------------------------- MODULE MCAlertEngine ----------------------------
(* Sights for the model checker: a session works, flips its mode, fills up,     *)
(* stops and asks.                                                              *)
EXTENDS AlertEngine

Sight(status, pmode, hot) == [status |-> status, pmode |-> pmode, hot |-> hot]

LocalSights ==
  {Sight("running", "plan", TRUE), Sight("stopped", "acceptEdits", TRUE),
   Sight("waiting:question", "", FALSE)}

StopSights == {Sight("running", "", FALSE), Sight("stopped", "", FALSE)}
=============================================================================
