----------------------------- MODULE HandoffRun -----------------------------
(***************************************************************************)
(* A session whose context is nearly full is handed over to itself: a tap  *)
(* on the offer starts a thread (_run_handoff_async) that runs a script    *)
(* (tools/handoff_run.ps1) on the session's terminal tab.  The script has  *)
(* the session write a note, clears its context and tells it to read the   *)
(* note.  The user may type into the same tab all the while, a second tap  *)
(* may already be on its way, and the thread ends the script when it takes *)
(* too long.                                                               *)
(***************************************************************************)
EXTENDS Integers, FiniteSets

CONSTANTS
  Runs,   \* the taps, each with its thread and its script
  MaxWork \* bound on what a context holds

ASSUME HandoffAssumption == MaxWork \in Nat \ {0} /\ IsFiniteSet(Runs) /\ "free" \notin Runs

VARIABLES
  second,  \* the second the clock shows
  named,   \* the session has a name its tab is found by
  session, \* the prompt it works on, Ready without one; what its context holds; what is typed
  noted,   \* for every path, how much of the context the note there covers, Absent without one
  lock,    \* who holds cc_inject.lock
  script,  \* what each script is at, with the path of its note
  cleared  \* for every script, what was lost with the context, and what the user had the session
           \* do after the script had asked for the note (history)
handoffVars == <<second, named, session, noted, lock, script, cleared>>

Ready == "ready"
Absent == -1
Free == "free"
Seconds == 0..Cardinality(Runs)

HandoffTypeOK ==
  /\ second \in Seconds /\ noted \in [Seconds -> Absent..MaxWork] /\ lock \in Runs \union {Free}
  /\ \A r \in Runs : script[r].at \in {"none", "locked", "asked", "seen", "idle", "cleared",
                                   "told", "failed"}

HandoffInit ==
  /\ second = 0 /\ named \in BOOLEAN /\ lock = Free
  /\ session = [prompt |-> Ready, path |-> 0, holds |-> 1, typed |-> FALSE, told |-> TRUE]
  /\ noted = [s \in Seconds |-> Absent]
  /\ script = [r \in Runs |-> [at |-> "none", path |-> 0, report |-> "none"]]
  /\ cleared = [r \in Runs |-> [lost |-> 0, since |-> 0]]

-----------------------------------------------------------------------------
(* The session and its user *)

Prompt(kind, path) == session' = [session EXCEPT !.prompt = kind, !.path = path, !.typed = FALSE]

UserTypes ==
  /\ ~session.typed /\ session' = [session EXCEPT !.typed = TRUE]
  /\ UNCHANGED <<second, named, noted, lock, script, cleared>>

UserPrompts ==
  /\ session.prompt = Ready /\ session.holds < MaxWork /\ Prompt("work", 0)
  /\ cleared' = [r \in Runs |-> IF script[r].at \in {"asked", "seen", "idle"}
                                THEN [cleared[r] EXCEPT !.since = @ + 1] ELSE cleared[r]]
  /\ UNCHANGED <<second, named, noted, lock, script>>

\* The note is there before the session is done with the prompt that asked for it.
WriteNote ==
  /\ session.prompt = "note" /\ noted' = [noted EXCEPT ![session.path] = session.holds]
  /\ UNCHANGED <<second, named, session, lock, script, cleared>>

EndTurn ==
  /\ session.prompt # Ready
  /\ session' = [session EXCEPT !.prompt = Ready,
                    !.holds = IF session.prompt = "work" /\ @ < MaxWork THEN @ + 1 ELSE @]
  /\ UNCHANGED <<second, named, noted, lock, script, cleared>>

-----------------------------------------------------------------------------
(* The thread and its script *)

At(r, step) == script[r].at = step
Reporting(r, step, report) ==
  script' = [script EXCEPT ![r] = [at |-> step, path |-> @.path, report |-> report]]
To(r, step) == Reporting(r, step, script[r].report)

Fail(r) == Reporting(r, "failed", "not done")

\* Where there is no name the tab cannot be found, and the script is not started.  A script opens the
\* lock at once, long before another that starts with it could have asked for a note; one that finds
\* the lock held gives up.
Tap(r) ==
  /\ At(r, "none")
  /\ LET ready == named /\ lock = Free
     IN  /\ script' = [script EXCEPT ![r] = [at |-> IF ready THEN "locked" ELSE "failed", path |-> second,
                                             report |-> IF ready THEN "none" ELSE "not done"]]
         /\ lock' = IF ready THEN r ELSE lock
  /\ UNCHANGED <<second, named, session, noted, cleared>>

AtPrompt == session.prompt = Ready
BoxEmpty == ~session.typed

\* What is pasted ends what is typed, and then it is just another prompt.
Paste(kind, path) == IF session.typed THEN Prompt("work", 0) ELSE Prompt(kind, path)

AskForNote(r) ==
  /\ At(r, "locked") /\ AtPrompt /\ BoxEmpty /\ Paste("note", script[r].path)
  /\ second' = second + 1 /\ To(r, "asked") /\ UNCHANGED <<named, noted, lock, cleared>>

\* Faulty variant: the session is idle, so it is taken to have written.
NoteIsExpected(path) == noted[path] >= Absent
NoteIsThere(path) == noted[path] # Absent

\* The note must be there, and then the session idle at two reads in a row.
SeeNote(r) ==
  /\ At(r, "asked") /\ NoteIsThere(script[r].path) /\ To(r, "seen")
  /\ UNCHANGED <<second, named, session, noted, lock, cleared>>

ReadIdle(r) ==
  /\ At(r, "seen") /\ To(r, IF AtPrompt THEN "idle" ELSE "asked")
  /\ UNCHANGED <<second, named, session, noted, lock, cleared>>

\* The second read, and the gate of the clearing right after it.
Clear(r) ==
  /\ At(r, "idle")
  /\ \/ ~AtPrompt /\ To(r, "asked") /\ UNCHANGED <<session, cleared>>
     \/ AtPrompt /\ ~BoxEmpty /\ Fail(r) /\ UNCHANGED <<session, cleared>>
     \/ /\ AtPrompt /\ BoxEmpty /\ To(r, "cleared")
        /\ session' = [session EXCEPT !.holds = 0, !.told = FALSE]
        /\ cleared' = [cleared EXCEPT ![r].lost = session.holds - noted[script[r].path]]
  /\ UNCHANGED <<second, named, noted, lock>>

TellToRead(r) ==
  /\ At(r, "cleared") /\ AtPrompt
  /\ session' = [session EXCEPT !.prompt = "work", !.typed = FALSE, !.told = TRUE]
  /\ Reporting(r, "told", "done")
  /\ UNCHANGED <<second, named, noted, lock, cleared>>

\* The script ends with its lock; it gives up on the window, the tab or a wait at any step, and the
\* thread ends it when it has taken too long.
GiveUp(r) ==
  /\ script[r].at \in {"locked", "asked", "seen", "idle", "cleared"} /\ Fail(r)
  /\ UNCHANGED <<second, named, session, noted, lock, cleared>>

DropLock(r) ==
  /\ lock = r /\ script[r].at \in {"told", "failed"} /\ lock' = Free
  /\ UNCHANGED <<second, named, session, noted, script, cleared>>

HandoffNext ==
  \/ UserTypes \/ UserPrompts \/ WriteNote \/ EndTurn
  \/ \E r \in Runs : \/ Tap(r) \/ AskForNote(r) \/ SeeNote(r) \/ ReadIdle(r) \/ Clear(r)
                     \/ TellToRead(r) \/ GiveUp(r) \/ DropLock(r)

HandoffSpec == HandoffInit /\ [][HandoffNext]_handoffVars

-----------------------------------------------------------------------------
(* Properties *)

\* What a cleared context held is in the note, but for what the user had the session do after the
\* script asked for it, whatever a second tap, the user's typing or an ended script do in between;
\* and the phone is told of a handover only when the session was told to read its note.
ClearedIsNoted ==
  /\ \A r \in Runs : cleared[r].lost <= cleared[r].since
  /\ \A r \in Runs : script[r].report = "done" <=> At(r, "told")
  /\ ~session.told => \E r \in Runs :
       script[r].at = "cleared" \/ (At(r, "failed") /\ script[r].report = "not done")
=============================================================================
