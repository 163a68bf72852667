---------------------------- MODULE PresetLaunch ----------------------------
(***************************************************************************)
(* One-click launch of a preset of agents.  A request inserts one row of   *)
(* the table spawns per agent, keyed by the caller's launch id and the     *)
(* agent's index, and starts a thread when at least one row was new.  The  *)
(* thread opens a terminal pane per agent, then watches the registry of    *)
(* sessions for the names it gave them until its window closes, and writes *)
(* what became of each agent into its row.                                 *)
(*                                                                         *)
(* All writers of the SQLite file share one lock.  The thread takes it     *)
(* with the first UPDATE and gives it back at its next commit; a writer    *)
(* that waits too long for it raises, which ends the thread.  The alert    *)
(* loop is the other writer.                                               *)
(***************************************************************************)
EXTENDS Integers, Sequences, FiniteSetsExt

CONSTANTS
  Launches,      \* launch ids, a fresh one for every click
  Agents,        \* indexes of the agents of the preset
  Codex,         \* those that run codex, which registers nowhere
  BindWindow,    \* launch_bind_window_secs
  MaxLaunchTime, \* bound on the clock once no window is open
  MaxCrashes     \* bound on server restarts

ASSUME LaunchAssumption ==
  /\ Launches \cap {"nobody", "alerts"} = {}
  /\ Agents \subseteq Nat /\ Codex \subseteq Agents
  /\ BindWindow \in Nat /\ MaxLaunchTime \in Nat /\ MaxCrashes \in Nat

VARIABLES
  launchTime, \* the server's clock, in units much longer than the 3 s between two lookups
  rows,       \* committed rows of spawns
  work,       \* the rows of each launch as its thread's transaction sees them
  body,       \* the agents the request with this launch id asks for
  thread,     \* where the thread of a launch is
  todo,       \* agents it has still to spawn
  opened,     \* result of the spawn it has yet to write down
  waiting,    \* panes it waits for
  deadline,   \* end of its window
  panes,      \* terminal panes opened so far; a pane stands for the CC-<hex> name it got
  writer,     \* who holds the write lock
  crashes,
  lost        \* launches whose thread did not live to its end (history)

launchVars == <<launchTime, rows, work, body, thread, todo, opened, waiting, deadline, panes, writer,
          crashes, lost>>

NoPane == 0
Statuses == {"none", "launching", "launched", "bound", "retryable"}
Settled  == {"launched", "bound", "retryable"}
NoRow == [status |-> "none", name |-> NoPane, session |-> NoPane]
Unregistered == -1

\* Types, and: a launch holds the write lock from its first UPDATE to the end of its spawns,
\* never while it waits for sessions to register.
PresetTypeOK ==
  LET SpawnRow == [status : Statuses, name : 0..Len(panes), session : 0..Len(panes)]
  IN /\ launchTime \in Nat /\ crashes \in 0..MaxCrashes
     /\ rows \in [Launches -> [Agents -> SpawnRow]] /\ work \in [Launches -> [Agents -> SpawnRow]]
     /\ body \in [Launches -> SUBSET Agents] /\ todo \in [Launches -> SUBSET Agents]
     /\ thread \in [Launches -> {"none", "spawn", "note", "look", "close"}]
     /\ opened \in [Launches -> [agent : Agents \cup {0}, pane : 0..Len(panes)]]
     /\ waiting \in [Launches -> SUBSET (1..Len(panes))]
     /\ deadline \in [Launches -> Nat]
     /\ \A n \in DOMAIN panes :
           panes[n] \in [launch : Launches, agent : Agents, at : -1..launchTime]
     /\ writer \in Launches \cup {"nobody", "alerts"} /\ lost \subseteq Launches
     /\ writer \in Launches => thread[writer] \in {"spawn", "note"}

Nothing == [agent |-> 0, pane |-> NoPane]

PresetInit ==
  /\ launchTime = 0 /\ crashes = 0 /\ lost = {} /\ writer = "nobody" /\ panes = <<>>
  /\ rows = [l \in Launches |-> [i \in Agents |-> NoRow]] /\ work = rows
  /\ body = [l \in Launches |-> {}] /\ todo = body /\ waiting = body
  /\ thread = [l \in Launches |-> "none"]
  /\ opened = [l \in Launches |-> Nothing]
  /\ deadline = [l \in Launches |-> 0]

-----------------------------------------------------------------------------
(* The request *)

\* What the dashboard posts: the whole preset, or one agent whose row says retryable.
Requests == {Agents} \cup {{i} : i \in {j \in Agents : \E l \in Launches : rows[l][j].status = "retryable"}}

\* INSERT OR IGNORE.  Faulty variant: INSERT OR REPLACE.
Replaced(l, picked) == picked
NewRows(l, picked) == {i \in picked : rows[l][i].status = "none"}

\* ops_launch_preset.  A launch id comes with the same agents every time it is sent.
Submit(l, picked) ==
  /\ body[l] = picked \/ (body[l] = {} /\ picked \in Requests)
  /\ writer = "nobody"
  /\ LET new == NewRows(l, picked)
     IN /\ new # {}
        /\ rows' = [rows EXCEPT ![l] = [i \in Agents |->
                      IF i \in new THEN [NoRow EXCEPT !.status = "launching"] ELSE @[i]]]
        /\ work' = [work EXCEPT ![l] = rows'[l]]
        /\ body' = [body EXCEPT ![l] = picked]
        /\ thread' = [thread EXCEPT ![l] = "spawn"]
        /\ todo' = [todo EXCEPT ![l] = picked]
  /\ UNCHANGED <<launchTime, opened, waiting, deadline, panes, writer,
                 crashes, lost>>

-----------------------------------------------------------------------------
(* The thread *)

CanWrite(l) == writer \in {"nobody", l}

Update(l, i, status, name, found) ==
  /\ CanWrite(l) /\ writer' = l
  /\ work' = [work EXCEPT ![l][i] = [status |-> status, name |-> name, session |-> found]]

Commit(l) == rows' = [rows EXCEPT ![l] = work[l]] /\ writer' = IF writer = l THEN "nobody" ELSE writer

\* ops_new_session or ops_new_codex: the pane opens, or wt cannot be started.
Spawn(l) ==
  /\ thread[l] = "spawn" /\ todo[l] # {}
  /\ LET i == Min(todo[l])
     IN /\ todo' = [todo EXCEPT ![l] = @ \ {i}]
        /\ \/ /\ panes' = Append(panes, [launch |-> l, agent |-> i, at |-> Unregistered])
              /\ opened' = [opened EXCEPT ![l] = [agent |-> i, pane |-> Len(panes) + 1]]
           \/ /\ opened' = [opened EXCEPT ![l] = [agent |-> i, pane |-> NoPane]]
              /\ UNCHANGED panes
  /\ thread' = [thread EXCEPT ![l] = "note"]
  /\ UNCHANGED <<launchTime, rows, work, body, waiting, deadline, writer, crashes, lost>>

\* The UPDATE that follows each spawn; it is not committed yet.
Note(l) ==
  /\ thread[l] = "note"
  /\ LET i == opened[l].agent
         n == opened[l].pane
     IN \/ n = NoPane /\ Update(l, i, "retryable", NoPane, NoPane) /\ UNCHANGED waiting
        \/ n # NoPane /\ i \in Codex /\ Update(l, i, "launched", NoPane, NoPane) /\ UNCHANGED waiting
        \/ /\ n # NoPane /\ i \notin Codex /\ Update(l, i, "launching", n, NoPane)
           /\ waiting' = [waiting EXCEPT ![l] = @ \cup {n}]
  /\ thread' = [thread EXCEPT ![l] = "spawn"]
  /\ opened' = [opened EXCEPT ![l] = Nothing]
  /\ UNCHANGED <<launchTime, rows, body, todo, deadline, panes, crashes, lost>>

\* The head of the loop.  Faulty variant: the window does not end it.
KeepsForever(names, until) == names # {}
KeepsWaiting(names, until) == names # {} /\ launchTime < until

AtHead(l, names, until) ==
  thread' = [thread EXCEPT ![l] = IF KeepsWaiting(names, until) THEN "look" ELSE "close"]

\* All spawned: the commit, and the window opens.
OpenWindow(l) ==
  /\ thread[l] = "spawn" /\ todo[l] = {}
  /\ Commit(l)
  /\ deadline' = [deadline EXCEPT ![l] = launchTime + BindWindow]
  /\ AtHead(l, waiting[l], deadline'[l])
  /\ UNCHANGED <<launchTime, work, body, todo, opened, waiting, panes, crashes, lost>>

\* _registry_find_names.
Found(l) == {n \in waiting[l] : panes[n].at # Unregistered}

\* After the sleep: look the names up, write and commit what was found.
Bind(l) ==
  /\ thread[l] = "look"
  /\ Found(l) # {} => CanWrite(l)
  /\ work' = [work EXCEPT ![l] = [i \in Agents |->
                IF \E n \in Found(l) : panes[n].agent = i
                THEN LET n == CHOOSE m \in Found(l) : panes[m].agent = i
                     IN [status |-> "bound", name |-> work[l][i].name, session |-> n]
                ELSE @[i]]]
  /\ rows' = [rows EXCEPT ![l] = work'[l]]
  /\ waiting' = [waiting EXCEPT ![l] = @ \ Found(l)]
  /\ AtHead(l, waiting'[l], deadline[l])
  /\ UNCHANGED <<launchTime, body, todo, opened, deadline, panes, writer,
                 crashes, lost>>

\* The agents that the end of the window marks.
Missing(l) == {panes[n].agent : n \in waiting[l]}

CloseWindow(l) ==
  /\ thread[l] = "close"
  /\ waiting[l] # {} => CanWrite(l)
  /\ work' = [work EXCEPT ![l] = [i \in Agents |->
                IF i \in Missing(l) THEN [@[i] EXCEPT !.status = "retryable"] ELSE @[i]]]
  /\ rows' = [rows EXCEPT ![l] = work'[l]]
  /\ thread' = [thread EXCEPT ![l] = "none"]
  /\ waiting' = [waiting EXCEPT ![l] = {}]
  /\ UNCHANGED <<launchTime, body, todo, opened, deadline, panes, writer,
                 crashes, lost>>

Writes(l) ==
  \/ thread[l] = "note"
  \/ thread[l] = "look" /\ Found(l) # {}
  \/ thread[l] = "close" /\ waiting[l] # {}

\* "database is locked": nothing catches it, and the transaction is rolled back.
LockedOut(l) ==
  /\ Writes(l) /\ ~CanWrite(l)
  /\ work' = [work EXCEPT ![l] = rows[l]]
  /\ thread' = [thread EXCEPT ![l] = "none"]
  /\ todo' = [todo EXCEPT ![l] = {}] /\ waiting' = [waiting EXCEPT ![l] = {}]
  /\ opened' = [opened EXCEPT ![l] = Nothing]
  /\ lost' = lost \cup {l}
  /\ UNCHANGED <<launchTime, rows, body, deadline, panes, writer, crashes>>

-----------------------------------------------------------------------------
(* Around it *)

\* The session in a pane writes its file into ~/.claude/sessions.
Register(n) ==
  /\ panes[n].at = Unregistered /\ panes[n].agent \notin Codex
  /\ panes' = [panes EXCEPT ![n].at = launchTime]
  /\ UNCHANGED <<launchTime, rows, work, body, thread, todo, opened, waiting, deadline, writer,
                 crashes, lost>>

\* The alert loop opens a transaction and ends it.
AlertsLock ==
  /\ \/ writer = "nobody" /\ writer' = "alerts"
     \/ writer = "alerts" /\ writer' = "nobody"
  /\ UNCHANGED <<launchTime, rows, work, body, thread, todo, opened, waiting, deadline, panes, crashes, lost>>

\* The threads are daemons: they and their transactions end with the server, the panes stay.
Crash ==
  /\ crashes < MaxCrashes /\ crashes' = crashes + 1
  /\ work' = rows /\ writer' = "nobody"
  /\ thread' = [l \in Launches |-> "none"]
  /\ todo' = [l \in Launches |-> {}] /\ waiting' = todo'
  /\ opened' = [l \in Launches |-> Nothing]
  /\ lost' = lost \cup {l \in Launches : thread[l] # "none"}
  /\ UNCHANGED <<launchTime, rows, body, deadline, panes>>

\* The bound on the clock lets every window that was opened run out.
LaunchTick ==
  /\ launchTime < MaxLaunchTime \/ \E l \in Launches : thread[l] = "look" /\ launchTime < deadline[l]
  /\ launchTime' = launchTime + 1
  /\ UNCHANGED <<rows, work, body, thread, todo, opened, waiting, deadline, panes, writer,
                 crashes, lost>>

Step(l) == Spawn(l) \/ Note(l) \/ OpenWindow(l) \/ Bind(l) \/ CloseWindow(l)

PresetNext ==
  \/ \E l \in Launches, picked \in SUBSET Agents : Submit(l, picked)
  \/ \E l \in Launches : Step(l) \/ LockedOut(l)
  \/ \E n \in DOMAIN panes : Register(n)
  \/ AlertsLock \/ Crash \/ LaunchTick

\* A thread that runs goes on, a transaction of the alert loop ends, time passes.  A thread
\* that waits for the lock gets it, or raises, when the lock comes free again and again.
PresetFairness ==
  /\ \A l \in Launches : SF_launchVars(Step(l)) /\ WF_launchVars(LockedOut(l))
  /\ WF_launchVars(writer = "alerts" /\ AlertsLock)
  /\ WF_launchVars(LaunchTick)

PresetSpec == PresetInit /\ [][PresetNext]_launchVars
PresetFairSpec == PresetSpec /\ PresetFairness

-----------------------------------------------------------------------------
(* Properties *)

\* "a resent launch_id spawns NOTHING": however often a request is sent, and whatever
\* restarts and locks do to its thread, an agent of a launch gets at most one pane.
SpawnOnce ==
  \A m, n \in DOMAIN panes :
    panes[m].launch = panes[n].launch /\ panes[m].agent = panes[n].agent => m = n

\* The session in a bound row is the one that runs in the pane opened for that row: the
\* binding of card to session is deterministic.
BoundToItsOwn ==
  \A l \in Launches, i \in Agents :
    rows[l][i].status = "bound" =>
      LET n == rows[l][i].session
      IN /\ n \in DOMAIN panes
         /\ panes[n].launch = l /\ panes[n].agent = i /\ panes[n].at # Unregistered
         /\ rows[l][i].name = n

\* A session that registers inside the window is bound: a row says retryable only of an
\* agent whose pane did not open or whose session registered after the window, so that
\* the retry the dashboard offers duplicates nothing that was there to be seen.
RetryableWasMissing ==
  \A l \in Launches, n \in DOMAIN panes :
    LET i == panes[n].agent
    IN panes[n].launch = l /\ rows[l][i].status = "retryable" =>
         panes[n].at = Unregistered \/ panes[n].at >= deadline[l]

\* What a row settles on is final: nothing that runs later for the launch changes it.
SettledIsFinal ==
  [][\A l \in Launches, i \in Agents :
       rows[l][i].status \in Settled => rows'[l][i] = rows[l][i]]_launchVars

\* "Every terminal state lands in the spawns row ... failures stay retryable": no row
\* stays launching, unless its thread was lost to a restart or to the lock.
LaunchSettles ==
  []<>(\A l \in Launches \ lost, i \in Agents : rows[l][i].status # "launching")
=============================================================================
