---------------------------- MODULE ServerThreads ----------------------------
(***************************************************************************)
(* Three threads of the server whose work must come to an end: the poll of *)
(* the owner's taps and texts, the poll of the office topic and the launch *)
(* of a preset.  They share no state and do not wait for each other, so a  *)
(* property of one holds in the server if it holds of the one by itself:   *)
(* focus says which of them a behaviour is about, and the others rest.     *)
(***************************************************************************)
EXTENDS TgPoll, OfficeRelay, PresetLaunch

VARIABLE focus

Parts == {"tg", "relay", "launch"}

serverVars == <<tgVars, relayVars, launchVars, focus>>

ThreadsInit == focus \in Parts /\ TgInit /\ RelayInit /\ PresetInit

PollStep   == focus = "tg" /\ TgNext /\ UNCHANGED <<focus, relayVars, launchVars>>
RelayStep  == focus = "relay" /\ RelayNext /\ UNCHANGED <<focus, tgVars, launchVars>>
LaunchStep == focus = "launch" /\ PresetNext /\ UNCHANGED <<focus, tgVars, relayVars>>

ThreadsNext == PollStep \/ RelayStep \/ LaunchStep

\* What each part is owed by its own specification.
ThreadsSpec ==
  /\ ThreadsInit /\ [][ThreadsNext]_serverVars
  /\ WF_tgVars(focus = "tg" /\ Round)
  /\ WF_relayVars(focus = "relay" /\ Pull(Machines))
  /\ \A l \in Launches : SF_launchVars(focus = "launch" /\ Step(l))
  /\ \A l \in Launches : WF_launchVars(focus = "launch" /\ LockedOut(l))
  /\ WF_launchVars(focus = "launch" /\ writer = "alerts" /\ AlertsLock)
  /\ WF_launchVars(focus = "launch" /\ LaunchTick)

-----------------------------------------------------------------------------
(* Properties *)

\* The types of the three parts, and: a poll thread that was refused three times in a row, and no
\* other, has stepped down; a machine has one snapshot; a launch has the write lock from its first
\* UPDATE to the end of its spawns.
ThreadTypes == TgTypeOK /\ RelayTypeOK /\ PresetTypeOK

\* The file of a machine: a replayed, repeated or overtaken message never replaces a snapshot or
\* makes it look younger; what is taken is the newest there is; and what is shown as running was
\* heard of at most a window and a stale time ago.
SnapshotsMoveForward == []FalseRunningIsBounded /\ ReplayChangesNothing /\ PollTakesTheNewest

\* "a resent launch_id spawns NOTHING": an agent of a launch gets at most one pane, its row is
\* bound to the session of that pane, says retryable only of a session that was not there to be
\* seen, and changes no more once it has settled.
LaunchesAreSound == [](SpawnOnce /\ BoundToItsOwn /\ RetryableWasMissing) /\ SettledIsFinal
=============================================================================
