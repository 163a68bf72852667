---------------------------- MODULE RemoteControl ----------------------------
(***************************************************************************)
(* What the remote command channel promises its user: a command that was   *)
(* asked for is performed at most once and only after it was asked for;    *)
(* the user is told one thing about it, and is told "ok" only after it was *)
(* performed with that result.  "notok", "silent" and "lost" promise       *)
(* nothing: the command may have been performed, or may be yet.            *)
(***************************************************************************)
CONSTANT Cmds
VARIABLES asked, result, told

Init ==
  /\ asked = {}
  /\ result = [c \in Cmds |-> "none"]
  /\ told = [c \in Cmds |-> "nothing"]

Ask(c) ==
  /\ c \notin asked
  /\ asked' = asked \cup {c}
  /\ UNCHANGED <<result, told>>

Perform(c) ==
  /\ c \in asked /\ result[c] = "none"
  /\ \E r \in {"ok", "fail"} : result' = [result EXCEPT ![c] = r]
  /\ UNCHANGED <<asked, told>>

Tell(c) ==
  /\ c \in asked /\ told[c] = "nothing"
  /\ \/ result[c] = "ok" /\ told' = [told EXCEPT ![c] = "ok"]
     \/ \E v \in {"notok", "silent"} : told' = [told EXCEPT ![c] = v]
  /\ UNCHANGED <<asked, result>>

\* A restart of the asker: every command nobody has been told about stays so.
Forget ==
  /\ told' = [c \in Cmds |-> IF c \in asked /\ told[c] = "nothing"
                                THEN "lost" ELSE told[c]]
  /\ UNCHANGED <<asked, result>>

Next == Forget \/ \E c \in Cmds : Ask(c) \/ Perform(c) \/ Tell(c)

Spec == Init /\ [][Next]_<<asked, result, told>>
=============================================================================
