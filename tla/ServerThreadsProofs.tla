------------------------- MODULE ServerThreadsProofs -------------------------
(***************************************************************************)
(* What the three threads of the server guarantee, each by itself and in   *)
(* the server: a preset's launch, for every number of launches, agents,    *)
(* restarts and sessions and every length of the bind window; the Telegram *)
(* poll for every number of updates, faults and overlaps with another      *)
(* poller, owed to no fairness; the poll of the office topic, for every    *)
(* number of machines and every window and clock; then the steps of the    *)
(* server seen by each thread, which carry over what is proved of the      *)
(* thread alone.                                                           *)
(***************************************************************************)
EXTENDS ServerThreads, SequenceTheorems, WellFoundedInduction, TLAPS

-----------------------------------------------------------------------------
(* A preset's launch *)

Pane == [launch : Launches, agent : Agents, at : Int]

\* A launch id that was never posted has no rows; one that was has a row for each of its agents.
BodyInv ==
  \A l \in Launches :
    /\ todo[l] \subseteq body[l]
    /\ \A i \in Agents \ body[l] : rows[l][i].status = "none" /\ work[l][i].status = "none"
    /\ \A i \in body[l] : rows[l][i].status # "none" /\ work[l][i].status # "none"

\* Until the window opens all rows read launching; from then on the thread commits what it writes.
CommitInv ==
  \A l \in Launches :
    IF thread[l] \in {"spawn", "note"}
    THEN \A i \in body[l] : rows[l][i].status = "launching"
    ELSE rows[l] = work[l]

\* A pane was opened for an agent asked for, and never a second one.
PaneInv ==
  /\ \A n \in DOMAIN panes :
       panes[n].agent \in body[panes[n].launch] \ todo[panes[n].launch]
  /\ SpawnOnce

\* What the thread has yet to write down is about an agent it has spawned, with its pane or
\* without any.
OpenedInv ==
  \A l \in Launches : thread[l] = "note" =>
    /\ opened[l].agent \in body[l] \ todo[l]
    /\ opened[l].pane # NoPane =>
         /\ opened[l].pane \in DOMAIN panes \ waiting[l]
         /\ panes[opened[l].pane].launch = l /\ panes[opened[l].pane].agent = opened[l].agent
    /\ opened[l].pane = NoPane =>
         \A n \in DOMAIN panes : panes[n].launch = l => panes[n].agent # opened[l].agent

\* A pane waited for is the launch's own, and its row has its name and nothing else yet.
WaitInv ==
  \A l \in Launches : \A n \in waiting[l] :
    /\ thread[l] # "none"
    /\ n \in DOMAIN panes /\ panes[n].launch = l
    /\ work[l][panes[n].agent] = [status |-> "launching", name |-> n, session |-> NoPane]

\* The pane of an agent is the one its row is bound to.
BoundInv ==
  \A l \in Launches, i \in Agents : work[l][i].status = "bound" =>
    LET n == work[l][i].session
    IN /\ n \in DOMAIN panes
       /\ panes[n].launch = l /\ panes[n].agent = i /\ panes[n].at # Unregistered
       /\ work[l][i].name = n

LaunchTypeInv == PresetTypeOK /\ panes \in Seq(Pane)

LaunchIInv == LaunchTypeInv /\ BodyInv /\ CommitInv /\ PaneInv /\ OpenedInv /\ WaitInv /\ BoundInv

\* A window that is over was not cut short: what is still waited for at its end, and what was given
\* up, had not registered before the end; what is still to be spawned was not given up.
Over(l, n) ==
  /\ launchTime >= deadline[l]
  /\ panes[n].at = Unregistered \/ panes[n].at >= deadline[l]

WindowInv ==
  /\ \A l \in Launches : \A i \in todo[l] : work[l][i].status = "launching"
  /\ \A l \in Launches, n \in DOMAIN panes : panes[n].launch = l =>
       /\ n \in waiting[l] /\ thread[l] = "close" => Over(l, n)
       /\ work[l][panes[n].agent].status = "retryable" => thread[l] = "none" /\ Over(l, n)
-----------------------------------------------------------------------------
(* Lemmas about the parts of a step *)

\* Min picks one of the agents left to spawn.
LEMMA MinIsAgent ==
  ASSUME NEW S, S \subseteq Agents, S # {}
  PROVE  Min(S) \in S
<1>0. S \subseteq Nat BY LaunchAssumption
<1>1. PICK m \in S : \A x \in S : ~(<<x, m>> \in OpToRel(<, Nat))
  BY <1>0, NatLessThanWellFounded, WFMin
<1>2. \A x \in S : m <= x
  <2> SUFFICES ASSUME NEW x \in S PROVE m <= x OBVIOUS
  <2>1. x \in Nat /\ m \in Nat BY <1>0
  <2>2. ~(x < m) BY <1>1, <2>1 DEF OpToRel
  <2> QED BY <2>1, <2>2
<1> QED BY <1>2 DEF Min

\* The panes are numbered from one.
LEMMA PaneDomain ==
  ASSUME panes \in Seq(Pane)
  PROVE  Len(panes) \in Nat /\ DOMAIN panes = 1..Len(panes)
         /\ \A n \in 1..Len(panes) : panes[n] \in Pane
BY LenProperties

\* A step opens no pane, or opens the next one, or notes that the session in one has registered.
Grow == \E l \in Launches, i \in Agents :
          panes' = Append(panes, [launch |-> l, agent |-> i, at |-> Unregistered])
Marked == \E n \in DOMAIN panes :
          panes[n].at = Unregistered /\ panes' = [panes EXCEPT ![n].at = launchTime]

\* A session that registers changes nothing of its pane but the time.
LEMMA MarkedPane ==
  ASSUME NEW pane \in Pane, launchTime \in Nat
  PROVE  LET marked == [pane EXCEPT !.at = launchTime]
         IN /\ marked \in Pane /\ marked.at = launchTime
            /\ marked.launch = pane.launch /\ marked.agent = pane.agent
BY DEF Pane

\* Panes are added and marked, never taken away.
LEMMA PanesStay ==
  ASSUME panes \in Seq(Pane), launchTime \in Nat, panes' = panes \/ Grow \/ Marked
  PROVE  /\ panes' \in Seq(Pane) /\ Len(panes') \in Nat /\ Len(panes) \in Nat
         /\ Len(panes) <= Len(panes')
         /\ DOMAIN panes' = 1..Len(panes') /\ DOMAIN panes = 1..Len(panes)
         /\ \A n \in DOMAIN panes : /\ n \in DOMAIN panes'
                                   /\ panes'[n].launch = panes[n].launch
                                   /\ panes'[n].agent = panes[n].agent
<1>0. Len(panes) \in Nat /\ DOMAIN panes = 1..Len(panes) BY LenProperties
<1>1. CASE panes' = panes BY <1>0, <1>1
<1>2. CASE Grow
  <2>1. PICK l \in Launches, i \in Agents :
          panes' = Append(panes, [launch |-> l, agent |-> i, at |-> Unregistered])
    BY <1>2 DEF Grow
  <2>2. [launch |-> l, agent |-> i, at |-> Unregistered] \in Pane BY DEF Pane, Unregistered
  <2>3. /\ panes' \in Seq(Pane) /\ Len(panes') = Len(panes) + 1
        /\ \A n \in 1..Len(panes) : panes'[n] = panes[n]
    BY <2>1, <2>2, AppendProperties
  <2>4. DOMAIN panes' = 1..Len(panes') BY <2>3, LenProperties
  <2> QED BY <1>0, <2>3, <2>4
<1>3. CASE Marked
  <2>1. PICK n \in DOMAIN panes : panes' = [panes EXCEPT ![n].at = launchTime]
    BY <1>3 DEF Marked
  <2>2. panes[n] \in Pane /\ panes \in [1..Len(panes) -> Pane] BY <1>0, LenProperties
  <2>3. PICK pane \in Pane : /\ pane = [panes[n] EXCEPT !.at = launchTime]
                             /\ pane.launch = panes[n].launch /\ pane.agent = panes[n].agent
    BY <2>2, MarkedPane
  <2>4. panes' = [panes EXCEPT ![n] = pane] BY <1>0, <2>1, <2>2, <2>3
  <2>5. panes' \in Seq(Pane) /\ Len(panes') = Len(panes)
    BY <1>0, <2>3, <2>4, ExceptSeq
  <2> QED BY <1>0, <2>2, <2>3, <2>4, <2>5, LenProperties
<1> QED BY <1>1, <1>2, <1>3
-----------------------------------------------------------------------------
(* Types *)

SpawnRow(size) == [status : Statuses, name : 0..size, session : 0..size]

\* A row that was typed stays so when there are more panes, and a status can be written into it.
LEMMA RowsGrow ==
  ASSUME NEW small \in Nat, NEW large \in Nat, small <= large, NEW row \in SpawnRow(small)
  PROVE  row \in SpawnRow(large)
BY DEF SpawnRow

\* A row that is given up keeps its name and its session.
LEMMA GivenUp ==
  ASSUME NEW size, NEW row \in SpawnRow(size)
  PROVE  LET given == [row EXCEPT !.status = "retryable"]
         IN /\ given \in SpawnRow(size) /\ given.status = "retryable"
            /\ given.name = row.name /\ given.session = row.session
BY DEF SpawnRow, Statuses

\* The row that a request inserts.
LEMMA LaunchingRow ==
  [NoRow EXCEPT !.status = "launching"] = [status |-> "launching", name |-> 0, session |-> 0]
BY DEF NoRow, NoPane

\* At first there is no pane, and every row has its type.
LEMMA LaunchTypeInit == PresetInit => PresetTypeOK /\ panes \in Seq(Pane)
<1> SUFFICES ASSUME PresetInit PROVE PresetTypeOK /\ panes \in Seq(Pane) OBVIOUS
<1>1. panes \in Seq(Pane) /\ Len(panes) = 0 BY EmptySeq DEF PresetInit
<1>2. DOMAIN panes = {} BY <1>1, LenProperties
<1> QED
  BY <1>1, <1>2, LaunchAssumption DEF PresetInit, PresetTypeOK, NoRow, NoPane, Nothing, Statuses

\* How a step changes the panes.
LEMMA PanesStep ==
  ASSUME PresetTypeOK, [PresetNext]_launchVars
  PROVE  panes' = panes \/ Grow \/ Marked
<1>1. ASSUME NEW l \in Launches, Spawn(l) PROVE panes' = panes \/ Grow
  <2>1. todo[l] \subseteq Agents /\ todo[l] # {} BY <1>1 DEF PresetTypeOK, Spawn
  <2>2. Min(todo[l]) \in Agents BY <2>1, MinIsAgent
  <2> QED BY <1>1, <2>2 DEF Spawn, Grow
<1>2. ASSUME NEW n \in DOMAIN panes, Register(n) PROVE Marked BY <1>2 DEF Register, Marked
<1>3. CASE UNCHANGED panes BY <1>3
<1> QED
  BY <1>1, <1>2, <1>3 DEF PresetNext, Step, Submit, Note, OpenWindow, Bind, CloseWindow, LockedOut,
     AlertsLock, Crash, LaunchTick, launchVars

\* Every step leaves a sequence of panes, no shorter than before.
LEMMA PanesTyped ==
  ASSUME LaunchTypeInv, [PresetNext]_launchVars
  PROVE  /\ panes' \in Seq(Pane)
         /\ \A n \in DOMAIN panes' : panes'[n] \in Pane
         /\ Len(panes) \in Nat /\ Len(panes') \in Nat /\ Len(panes) <= Len(panes')
<1>1. panes \in Seq(Pane) /\ launchTime \in Nat BY DEF LaunchTypeInv, PresetTypeOK
<1> QED BY <1>1, PanesStep, PanesStay, LenProperties DEF LaunchTypeInv

\* The panes stay typed on the clock that follows.
LEMMA PanesInTime ==
  ASSUME LaunchTypeInv, [PresetNext]_launchVars
  PROVE  /\ launchTime' \in Nat /\ launchTime <= launchTime'
         /\ \A n \in DOMAIN panes' :
              panes'[n] \in [launch : Launches, agent : Agents, at : -1..launchTime']
<1> DEFINE Typed(pane, time) == pane \in [launch : Launches, agent : Agents, at : -1..time]
<1>0. launchTime \in Nat /\ \A n \in DOMAIN panes : Typed(panes[n], launchTime)
  BY DEF LaunchTypeInv, PresetTypeOK
<1>1. launchTime' \in Nat /\ launchTime <= launchTime'
  <2>1. launchTime' = launchTime \/ launchTime' = launchTime + 1
    BY Zenon DEF PresetNext, Step, Submit, Spawn, Note, OpenWindow, Bind, CloseWindow, LockedOut,
       Register, AlertsLock, Crash, LaunchTick, launchVars
  <2> QED BY <1>0, <2>1
<1>2. ASSUME NEW pane, Typed(pane, launchTime) PROVE Typed(pane, launchTime')
  BY <1>0, <1>1, <1>2
<1>3. CASE panes' = panes
  <2>1. \A n \in DOMAIN panes : Typed(panes[n], launchTime') BY <1>0, <1>2
  <2> QED BY <1>1, <1>3, <2>1
<1>4. CASE Grow
  <2>1. PICK l \in Launches, i \in Agents :
          panes' = Append(panes, [launch |-> l, agent |-> i, at |-> Unregistered])
    BY <1>4 DEF Grow
  <2>2. [launch |-> l, agent |-> i, at |-> Unregistered] \in Pane BY DEF Pane, Unregistered
  <2>3. /\ Len(panes') = Len(panes) + 1 /\ panes' \in Seq(Pane)
        /\ \A n \in 1..Len(panes) : panes'[n] = panes[n]
        /\ panes'[Len(panes) + 1] = [launch |-> l, agent |-> i, at |-> Unregistered]
    BY <2>1, <2>2, AppendProperties DEF LaunchTypeInv
  <2>4. DOMAIN panes' = 1..(Len(panes) + 1) /\ DOMAIN panes = 1..Len(panes) /\ Len(panes) \in Nat
    BY <2>3, LenProperties DEF LaunchTypeInv
  <2>5. ASSUME NEW n \in DOMAIN panes' PROVE Typed(panes'[n], launchTime')
    <3>1. CASE n \in 1..Len(panes) BY <1>0, <1>2, <2>3, <2>4, <3>1
    <3>2. CASE n = Len(panes) + 1
      <4>1. panes'[n] = [launch |-> l, agent |-> i, at |-> Unregistered] BY <2>3, <3>2
      <4>2. Unregistered \in -1..launchTime' BY <1>1 DEF Unregistered
      <4> QED BY <4>1, <4>2
    <3> QED BY <2>4, <2>5, <3>1, <3>2
  <2> QED BY <1>1, <2>5
<1>5. CASE Marked
  <2>1. PICK n \in DOMAIN panes : panes' = [panes EXCEPT ![n].at = launchTime]
    BY <1>5 DEF Marked
  <2>2. panes[n] \in Pane /\ panes \in [1..Len(panes) -> Pane] /\ DOMAIN panes = 1..Len(panes)
    BY LenProperties DEF LaunchTypeInv
  <2>3. PICK pane \in Pane : pane = [panes[n] EXCEPT !.at = launchTime] /\ pane.at = launchTime
    BY <1>0, <2>2, MarkedPane
  <2>4. panes' = [panes EXCEPT ![n] = pane] BY <2>1, <2>2, <2>3
  <2>5. Typed(pane, launchTime') BY <1>0, <1>1, <2>3 DEF Pane
  <2>6. \A m \in DOMAIN panes : Typed(panes[m], launchTime') BY <1>0, <1>2
  <2> HIDE DEF Typed
  <2>7. \A m \in DOMAIN panes' : Typed(panes'[m], launchTime') BY <2>2, <2>4, <2>5, <2>6
  <2> QED BY <1>1, <2>7 DEF Typed
<1> QED BY <1>3, <1>4, <1>5, PanesStep DEF LaunchTypeInv

\* What does not depend on the step: rows, results and panes waited for refer to panes there are.
LEMMA TypesGrow ==
  ASSUME LaunchTypeInv, [PresetNext]_launchVars
  PROVE  LET new == Len(panes')
         IN /\ rows \in [Launches -> [Agents -> SpawnRow(new)]]
            /\ work \in [Launches -> [Agents -> SpawnRow(new)]]
            /\ opened \in [Launches -> [agent : Agents \cup {0}, pane : 0..new]]
            /\ waiting \in [Launches -> SUBSET (1..new)]
            /\ new \in Nat
<1> DEFINE old == Len(panes)
           new == Len(panes')
<1>1. old \in Nat /\ new \in Nat /\ old <= new BY PanesTyped
<1>2. /\ rows \in [Launches -> [Agents -> SpawnRow(old)]]
      /\ work \in [Launches -> [Agents -> SpawnRow(old)]]
      /\ opened \in [Launches -> [agent : Agents \cup {0}, pane : 0..old]]
      /\ waiting \in [Launches -> SUBSET (1..old)]
  BY DEF LaunchTypeInv, PresetTypeOK, SpawnRow
<1> HIDE DEF old, new
<1>3. SpawnRow(old) \subseteq SpawnRow(new) BY <1>1, RowsGrow
<1>4. [agent : Agents \cup {0}, pane : 0..old] \subseteq [agent : Agents \cup {0}, pane : 0..new]
  BY <1>1
<1>5. SUBSET (1..old) \subseteq SUBSET (1..new) BY <1>1
<1> QED BY <1>1, <1>2, <1>3, <1>4, <1>5 DEF new

\* Everything a step of one launch writes is typed by what was typed before.
LEMMA LaunchTypeStep == ASSUME LaunchTypeInv, [PresetNext]_launchVars PROVE LaunchTypeInv'
<1> DEFINE new == Len(panes')
<1>1. /\ rows \in [Launches -> [Agents -> SpawnRow(new)]]
      /\ work \in [Launches -> [Agents -> SpawnRow(new)]]
      /\ opened \in [Launches -> [agent : Agents \cup {0}, pane : 0..new]]
      /\ waiting \in [Launches -> SUBSET (1..new)]
      /\ new \in Nat
  BY TypesGrow
<1>2. /\ launchTime \in Nat /\ crashes \in 0..MaxCrashes
      /\ body \in [Launches -> SUBSET Agents] /\ todo \in [Launches -> SUBSET Agents]
      /\ thread \in [Launches -> {"none", "spawn", "note", "look", "close"}]
      /\ deadline \in [Launches -> Nat]
      /\ writer \in Launches \cup {"nobody", "alerts"} /\ lost \subseteq Launches
      /\ writer \in Launches => thread[writer] \in {"spawn", "note"}
  BY DEF LaunchTypeInv, PresetTypeOK
<1>3. /\ launchTime' \in Nat
      /\ \A n \in DOMAIN panes' :
           panes'[n] \in [launch : Launches, agent : Agents, at : -1..launchTime']
      /\ panes' \in Seq(Pane)
  BY PanesInTime, PanesTyped
<1> DEFINE Goal ==
      /\ rows' \in [Launches -> [Agents -> SpawnRow(new)]]
      /\ work' \in [Launches -> [Agents -> SpawnRow(new)]]
      /\ opened' \in [Launches -> [agent : Agents \cup {0}, pane : 0..new]]
      /\ waiting' \in [Launches -> SUBSET (1..new)]
      /\ crashes' \in 0..MaxCrashes
      /\ body' \in [Launches -> SUBSET Agents] /\ todo' \in [Launches -> SUBSET Agents]
      /\ thread' \in [Launches -> {"none", "spawn", "note", "look", "close"}]
      /\ deadline' \in [Launches -> Nat]
      /\ writer' \in Launches \cup {"nobody", "alerts"} /\ lost' \subseteq Launches
      /\ writer' \in Launches => thread'[writer'] \in {"spawn", "note"}
<1>4. SUFFICES Goal BY <1>3, Zenon DEF LaunchTypeInv, PresetTypeOK, SpawnRow
<1> HIDE DEF new
<1>5. NoRow \in SpawnRow(new) /\ Nothing \in [agent : Agents \cup {0}, pane : 0..new]
  BY <1>1 DEF NoRow, NoPane, SpawnRow, Statuses, Nothing
<1>6. Launches \cap {"nobody", "alerts"} = {} BY LaunchAssumption
<1>7. CASE UNCHANGED launchVars BY <1>1, <1>2, <1>7 DEF launchVars
<1>8. ASSUME NEW l \in Launches, NEW picked \in SUBSET Agents, Submit(l, picked) PROVE Goal
  <2>1. [NoRow EXCEPT !.status = "launching"] \in SpawnRow(new)
    <3>1. [status |-> "launching", name |-> 0, session |-> 0] \in SpawnRow(new)
      BY <1>1 DEF SpawnRow, Statuses
    <3> QED BY <3>1, LaunchingRow
  <2> QED BY <1>1, <1>2, <1>6, <1>8, <2>1, ZenonT(60) DEF Submit, NewRows
<1>9. ASSUME NEW l \in Launches, Spawn(l) PROVE Goal
  <2>1. Min(todo[l]) \in Agents BY <1>2, <1>9, MinIsAgent DEF Spawn
  <2>2. \/ opened' = [opened EXCEPT ![l] = [agent |-> Min(todo[l]), pane |-> 0]]
        \/ opened' = [opened EXCEPT ![l] = [agent |-> Min(todo[l]), pane |-> new]]
    <3>1. CASE /\ panes' = Append(panes, [launch |-> l, agent |-> Min(todo[l]), at |-> Unregistered])
               /\ opened' = [opened EXCEPT ![l] = [agent |-> Min(todo[l]), pane |-> Len(panes) + 1]]
      <4>1. [launch |-> l, agent |-> Min(todo[l]), at |-> Unregistered] \in Pane
        BY <2>1 DEF Pane, Unregistered
      <4>2. Len(panes) + 1 = new BY <3>1, <4>1, AppendProperties DEF LaunchTypeInv, new
      <4> QED BY <3>1, <4>2
    <3> QED BY <1>9, <3>1 DEF Spawn, NoPane
  <2>3. UNCHANGED <<rows, work, body, waiting, deadline, writer, crashes, lost>>
        /\ todo' = [todo EXCEPT ![l] = @ \ {Min(todo[l])}]
        /\ thread' = [thread EXCEPT ![l] = "note"]
    BY <1>9 DEF Spawn
  <2>4. opened' \in [Launches -> [agent : Agents \cup {0}, pane : 0..new]]
    <3> DEFINE i == Min(todo[l])
    <3>1. i \in Agents BY <2>1
    <3> HIDE DEF i
    <3>2. [agent |-> i, pane |-> 0] \in [agent : Agents \cup {0}, pane : 0..new]
          /\ [agent |-> i, pane |-> new] \in [agent : Agents \cup {0}, pane : 0..new]
      BY <1>1, <3>1
    <3> QED BY <1>1, <2>2, <3>2 DEF i
  <2> QED BY <1>1, <1>2, <2>3, <2>4
<1>10. ASSUME NEW l \in Launches, Note(l) PROVE Goal
  <2>1. /\ opened[l].agent \in Agents \cup {0} /\ opened[l].pane \in 0..new
    BY <1>1
  <2>2. /\ UNCHANGED <<rows, body, todo, deadline, crashes, lost>>
        /\ writer' = l /\ thread' = [thread EXCEPT ![l] = "spawn"]
        /\ opened' = [opened EXCEPT ![l] = Nothing]
    BY <1>10 DEF Note, Update
  <2>3. PICK row \in SpawnRow(new) : work' = [work EXCEPT ![l][opened[l].agent] = row]
    <3> DEFINE Row(status, name) == [status |-> status, name |-> name, session |-> NoPane]
    <3>1. Row("retryable", NoPane) \in SpawnRow(new) /\ Row("launched", NoPane) \in SpawnRow(new)
          /\ Row("launching", opened[l].pane) \in SpawnRow(new)
      BY <1>1, <2>1 DEF SpawnRow, Statuses, NoPane
    <3> QED BY <1>10, <3>1 DEF Note, Update
  <2>4. waiting' = waiting
        \/ /\ opened[l].pane # NoPane
           /\ waiting' = [waiting EXCEPT ![l] = @ \cup {opened[l].pane}]
    BY <1>10 DEF Note
  <2>5. waiting' \in [Launches -> SUBSET (1..new)] BY <1>1, <2>1, <2>4 DEF NoPane
  <2>6. work' \in [Launches -> [Agents -> SpawnRow(new)]] BY <1>1, <2>3
  <2> QED BY <1>1, <1>2, <1>5, <2>2, <2>5, <2>6
<1>11. ASSUME NEW l \in Launches, OpenWindow(l) PROVE Goal
  <2> QED BY <1>1, <1>2, <1>6, <1>11, LaunchAssumption DEF OpenWindow, Commit, AtHead
<1>12. ASSUME NEW l \in Launches, Bind(l) PROVE Goal
  <2> QED BY <1>1, <1>2, <1>12 DEF Bind, AtHead, Found, SpawnRow, Statuses
<1>13. ASSUME NEW l \in Launches, CloseWindow(l) PROVE Goal
  <2> QED BY <1>1, <1>2, <1>13, GivenUp DEF CloseWindow
<1>14. ASSUME NEW l \in Launches, LockedOut(l) PROVE Goal
  <2> QED BY <1>1, <1>2, <1>5, <1>14 DEF LockedOut, Writes, CanWrite
<1>15. ASSUME NEW n \in DOMAIN panes, Register(n) PROVE Goal
  BY <1>1, <1>2, <1>15 DEF Register
<1>16. CASE AlertsLock BY <1>1, <1>2, <1>6, <1>16 DEF AlertsLock
<1>17. CASE Crash
  <2>1. lost' \subseteq Launches BY <1>2, <1>17 DEF Crash
  <2>2. /\ rows' = rows /\ work' = rows /\ body' = body /\ deadline' = deadline
        /\ writer' = "nobody" /\ crashes' = crashes + 1 /\ crashes < MaxCrashes
        /\ thread' = [l \in Launches |-> "none"] /\ opened' = [l \in Launches |-> Nothing]
        /\ todo' = [l \in Launches |-> {}] /\ waiting' = [l \in Launches |-> {}]
    BY <1>17 DEF Crash
  <2>3. crashes' \in 0..MaxCrashes BY <1>2, <2>2, LaunchAssumption
  <2> QED BY <1>1, <1>2, <1>5, <1>6, <2>1, <2>2, <2>3
<1>18. CASE LaunchTick BY <1>1, <1>2, <1>18 DEF LaunchTick
<1> QED
  BY <1>7, <1>8, <1>9, <1>10, <1>11, <1>12, <1>13, <1>14, <1>15, <1>16, <1>17, <1>18
  DEF PresetNext, Step
-----------------------------------------------------------------------------
(* The inductive invariant, action by action *)

Books == BodyInv /\ CommitInv /\ PaneInv /\ OpenedInv /\ WaitInv /\ BoundInv

\* The types without the bounds, for the steps below.
LEMMA Shapes ==
  ASSUME LaunchTypeInv
  PROVE  /\ rows \in [Launches -> [Agents -> SpawnRow(Len(panes))]]
         /\ work \in [Launches -> [Agents -> SpawnRow(Len(panes))]]
         /\ body \in [Launches -> SUBSET Agents] /\ todo \in [Launches -> SUBSET Agents]
         /\ thread \in [Launches -> {"none", "spawn", "note", "look", "close"}]
         /\ waiting \in [Launches -> SUBSET (1..Len(panes))]
         /\ deadline \in [Launches -> Nat]
         /\ opened \in [Launches -> [agent : Agents \cup {0}, pane : 0..Len(panes)]]
         /\ \A n \in DOMAIN panes : panes[n].launch \in Launches /\ panes[n].agent \in Agents
         /\ DOMAIN panes = 1..Len(panes) /\ Len(panes) \in Nat
BY PaneDomain, LenProperties DEF LaunchTypeInv, PresetTypeOK, SpawnRow

\* A submission books rows for agents that had none.
LEMMA SubmitBooks ==
  ASSUME LaunchTypeInv, Books, NEW l \in Launches, NEW picked \in SUBSET Agents, Submit(l, picked)
  PROVE  Books'
<1> DEFINE new == NewRows(l, picked)
<1>0. DOMAIN panes = 1..Len(panes) BY Shapes
<1>1. body[l] = {} /\ new # {}
  BY <1>0, Shapes DEF Submit, NewRows, Books, BodyInv
<1>2. new = picked /\ \A i \in Agents : rows[l][i].status = "none"
  BY <1>1, Shapes DEF Books, BodyInv, NewRows
<1>3. /\ rows' = [rows EXCEPT ![l] = [i \in Agents |->
             IF i \in picked THEN [status |-> "launching", name |-> 0, session |-> 0] ELSE rows[l][i]]]
      /\ work' = [work EXCEPT ![l] = rows'[l]]
      /\ body' = [body EXCEPT ![l] = picked] /\ todo' = [todo EXCEPT ![l] = picked]
      /\ thread' = [thread EXCEPT ![l] = "spawn"]
      /\ UNCHANGED <<opened, waiting, panes>>
  BY <1>2, LaunchingRow, Shapes DEF Submit
<1>4. BodyInv' BY <1>2, <1>3, Shapes DEF Books, BodyInv
<1>5. CommitInv' BY <1>2, <1>3, Shapes DEF Books, CommitInv
<1>6. \A n \in DOMAIN panes : panes[n].launch # l BY <1>1, Shapes DEF Books, PaneInv
<1>7. PaneInv' BY <1>3, <1>6, Shapes DEF Books, PaneInv, SpawnOnce
<1>8. OpenedInv' BY <1>3, Shapes DEF Books, OpenedInv
<1>9. WaitInv' BY <1>3, <1>6, Shapes DEF Books, WaitInv
<1>10. BoundInv' BY <1>2, <1>3, Shapes DEF Books, BoundInv
<1> QED BY <1>4, <1>5, <1>7, <1>8, <1>9, <1>10 DEF Books

\* The pane that was opened is noted in the row of its agent.
LEMMA NoteBooks ==
  ASSUME LaunchTypeInv, Books, NEW l \in Launches, Note(l)
  PROVE  Books'
<1> DEFINE i == opened[l].agent
           n == opened[l].pane
<1>1. /\ thread[l] = "note" /\ thread' = [thread EXCEPT ![l] = "spawn"]
      /\ UNCHANGED <<rows, body, todo, panes>>
      /\ opened' = [opened EXCEPT ![l] = Nothing]
  BY DEF Note
<1>2. /\ i \in body[l] \ todo[l] /\ i \in Agents
      /\ n # NoPane => n \in DOMAIN panes /\ panes[n].launch = l /\ panes[n].agent = i
      /\ n = NoPane => \A m \in DOMAIN panes : panes[m].launch = l => panes[m].agent # i
  BY <1>1, Shapes DEF Books, OpenedInv
<1>3. n # NoPane => n \notin waiting[l] BY <1>1 DEF Books, OpenedInv
<1>4. \/ /\ n = NoPane /\ waiting' = waiting
         /\ work' = [work EXCEPT ![l][i] = [status |-> "retryable", name |-> NoPane, session |-> NoPane]]
      \/ /\ n # NoPane /\ waiting' = waiting
         /\ work' = [work EXCEPT ![l][i] = [status |-> "launched", name |-> NoPane, session |-> NoPane]]
      \/ /\ n # NoPane /\ waiting' = [waiting EXCEPT ![l] = @ \cup {n}]
         /\ work' = [work EXCEPT ![l][i] = [status |-> "launching", name |-> n, session |-> NoPane]]
  BY DEF Note, Update
<1> HIDE DEF i, n
<1>a. /\ \A k \in Launches, j \in Agents : k # l \/ j # i => work'[k][j] = work[k][j]
      /\ work'[l][i].status \in {"retryable", "launched", "launching"}
  <2>1. ASSUME NEW row, work' = [work EXCEPT ![l][i] = row]
        PROVE  /\ \A k \in Launches, j \in Agents : k # l \/ j # i => work'[k][j] = work[k][j]
               /\ work'[l][i] = row
    BY <1>2, <2>1, Shapes
  <2> QED BY <1>4, <2>1
<1>b. \A k \in Launches : k # l =>
        thread'[k] = thread[k] /\ opened'[k] = opened[k] /\ waiting'[k] = waiting[k]
  BY <1>1, <1>4, Shapes
<1>5. BodyInv' BY <1>1, <1>2, <1>a, Shapes DEF Books, BodyInv
<1>6. CommitInv' BY <1>1, <1>2, <1>4, Shapes DEF Books, CommitInv
<1>7. PaneInv' BY <1>1, Shapes DEF Books, PaneInv, SpawnOnce
<1>8. OpenedInv' BY <1>1, <1>b, Shapes DEF Books, OpenedInv
<1>9. WaitInv'
  <2> SUFFICES ASSUME NEW k \in Launches, NEW m \in waiting'[k]
               PROVE  /\ thread'[k] # "none" /\ m \in DOMAIN panes /\ panes[m].launch = k
                      /\ work'[k][panes[m].agent] = [status |-> "launching", name |-> m, session |-> NoPane]
    BY <1>1 DEF WaitInv
  <2>1. CASE k # l BY <1>1, <1>4, <2>1, Shapes DEF Books, WaitInv
  <2>2. CASE k = l /\ m = n /\ n # NoPane /\ m \notin waiting[l] BY <1>1, <1>2, <1>3, <1>4, <2>2, Shapes
  <2>3. CASE k = l /\ m \in waiting[l]
    <3>1. m \in DOMAIN panes /\ panes[m].launch = l BY <2>3 DEF Books, WaitInv
    <3>2. panes[m].agent # i BY <1>2, <1>3, <2>3, <3>1 DEF Books, PaneInv, SpawnOnce
    <3> QED BY <1>1, <1>2, <1>4, <2>3, <3>1, <3>2, Shapes DEF Books, WaitInv
  <2> QED BY <1>4, <2>1, <2>2, <2>3, Shapes
<1>10. BoundInv'
  <2> SUFFICES ASSUME NEW k \in Launches, NEW j \in Agents, work'[k][j].status = "bound"
               PROVE  work'[k][j] = work[k][j]
    BY <1>1 DEF Books, BoundInv
  <2> QED BY <1>a
<1> QED BY <1>5, <1>6, <1>7, <1>8, <1>9, <1>10 DEF Books

\* A launch opens the pane of an agent that has none.
LEMMA SpawnBooks ==
  ASSUME LaunchTypeInv, Books, NEW l \in Launches, Spawn(l)
  PROVE  Books'
<1> DEFINE i == Min(todo[l])
<1>1. /\ thread[l] = "spawn" /\ thread' = [thread EXCEPT ![l] = "note"]
      /\ UNCHANGED <<rows, work, body, waiting>>
      /\ todo' = [todo EXCEPT ![l] = @ \ {i}]
  BY DEF Spawn
<1>2. i \in todo[l] /\ i \in Agents /\ i \in body[l]
  BY MinIsAgent, Shapes DEF Spawn, Books, BodyInv
<1>3. \A m \in DOMAIN panes : panes[m].launch = l => panes[m].agent # i
  BY <1>2, Shapes DEF Books, PaneInv
<1>4. \/ /\ panes' = panes
         /\ opened' = [opened EXCEPT ![l] = [agent |-> i, pane |-> NoPane]]
      \/ /\ panes' = Append(panes, [launch |-> l, agent |-> i, at |-> Unregistered])
         /\ opened' = [opened EXCEPT ![l] = [agent |-> i, pane |-> Len(panes) + 1]]
  BY DEF Spawn
<1> HIDE DEF i
<1>5. BodyInv' BY <1>1, <1>2, Shapes DEF Books, BodyInv
<1>6. CommitInv' BY <1>1, Shapes DEF Books, CommitInv
<1>a. CASE /\ panes' = panes
           /\ opened' = [opened EXCEPT ![l] = [agent |-> i, pane |-> NoPane]]
  <2>1. PaneInv' BY <1>1, <1>a, Shapes DEF Books, PaneInv, SpawnOnce
  <2>2. OpenedInv'
    <3>1. opened'[l].agent = i /\ opened'[l].pane = NoPane /\ \A k \in Launches : k # l => opened'[k] = opened[k]
      BY <1>a, Shapes
    <3> QED BY <1>1, <1>2, <1>3, <1>a, <3>1, Shapes DEF Books, OpenedInv
  <2>3. WaitInv' BY <1>1, <1>a, Shapes DEF Books, WaitInv
  <2>4. BoundInv' BY <1>1, <1>a DEF Books, BoundInv
  <2> QED BY <1>5, <1>6, <2>1, <2>2, <2>3, <2>4 DEF Books
<1>b. CASE /\ panes' = Append(panes, [launch |-> l, agent |-> i, at |-> Unregistered])
           /\ opened' = [opened EXCEPT ![l] = [agent |-> i, pane |-> Len(panes) + 1]]
  <2> DEFINE n == Len(panes) + 1
  <2>0. [launch |-> l, agent |-> i, at |-> Unregistered] \in Pane BY <1>2 DEF Pane, Unregistered
  <2>1. /\ n \in Nat \ {0} /\ n \notin DOMAIN panes /\ DOMAIN panes' = DOMAIN panes \cup {n}
        /\ \A m \in DOMAIN panes : panes'[m] = panes[m]
        /\ panes'[n].launch = l /\ panes'[n].agent = i
    <3>1. /\ panes' \in Seq(Pane) /\ Len(panes') = Len(panes) + 1
          /\ \A m \in 1..Len(panes) : panes'[m] = panes[m]
          /\ panes'[Len(panes) + 1] = [launch |-> l, agent |-> i, at |-> Unregistered]
      BY <1>b, <2>0, AppendProperties DEF LaunchTypeInv
    <3>2. DOMAIN panes' = 1..(Len(panes) + 1) BY <3>1, LenProperties
    <3> QED BY <3>1, <3>2, Shapes
  <2>2. opened' = [opened EXCEPT ![l] = [agent |-> i, pane |-> n]] BY <1>b
  <2>3. n \notin waiting[l] BY <2>1, Shapes
  <2> HIDE DEF n
  <2>4. PaneInv' BY <1>1, <1>2, <1>3, <2>1, Shapes, ZenonT(60) DEF Books, PaneInv, SpawnOnce
  <2>5. OpenedInv'
    <3>1. opened'[l].agent = i /\ opened'[l].pane = n /\ \A k \in Launches : k # l => opened'[k] = opened[k]
      BY <2>2, Shapes
    <3>2. \A k \in Launches : k # l => thread'[k] = thread[k] /\ todo'[k] = todo[k]
      BY <1>1, Shapes
    <3>3. ASSUME NEW k \in Launches, thread'[k] = "note", k # l
          PROVE  /\ opened[k].agent \in body[k] \ todo[k]
                 /\ opened[k].pane # NoPane =>
                      /\ opened[k].pane \in DOMAIN panes' \ waiting[k]
                      /\ panes'[opened[k].pane].launch = k
                      /\ panes'[opened[k].pane].agent = opened[k].agent
                 /\ opened[k].pane = NoPane =>
                      \A m \in DOMAIN panes' : panes'[m].launch = k => panes'[m].agent # opened[k].agent
      BY <2>1, <3>2, <3>3 DEF Books, OpenedInv
    <3>4. /\ i \in body[l] \ todo'[l] /\ n # NoPane /\ n \in DOMAIN panes' \ waiting[l]
          /\ panes'[n].launch = l /\ panes'[n].agent = i
      BY <1>1, <1>2, <2>1, <2>3, Shapes DEF NoPane
    <3> QED BY <1>1, <3>1, <3>3, <3>4 DEF OpenedInv
  <2>6. WaitInv' BY <1>1, <2>1, Shapes DEF Books, WaitInv
  <2>7. BoundInv' BY <1>1, <2>1 DEF Books, BoundInv
  <2> QED BY <1>5, <1>6, <2>4, <2>5, <2>6, <2>7 DEF Books
<1> QED BY <1>4, <1>a, <1>b

\* After the last pane a launch waits for those it opened.
LEMMA OpenBooks ==
  ASSUME LaunchTypeInv, Books, NEW l \in Launches, OpenWindow(l)
  PROVE  Books'
<1>1. /\ thread[l] = "spawn" /\ thread'[l] \in {"look", "close"}
      /\ \A k \in Launches : k # l => thread'[k] = thread[k]
      /\ rows' = [rows EXCEPT ![l] = work[l]]
      /\ UNCHANGED <<work, body, todo, opened, waiting, panes>>
  BY Shapes DEF OpenWindow, Commit, AtHead
<1>2. BodyInv' BY <1>1, Shapes DEF Books, BodyInv
<1>3. CommitInv' BY <1>1, Shapes DEF Books, CommitInv
<1>4. PaneInv' BY <1>1 DEF Books, PaneInv, SpawnOnce
<1>5. OpenedInv' BY <1>1, Shapes DEF Books, OpenedInv
<1>6. WaitInv' BY <1>1, Shapes DEF Books, WaitInv
<1>7. BoundInv' BY <1>1 DEF Books, BoundInv
<1> QED BY <1>2, <1>3, <1>4, <1>5, <1>6, <1>7 DEF Books

\* What a lookup writes into the row of an agent: nothing, or the session found in pane n.
Untouched(l, i) == work'[l][i] = work[l][i] /\ \A n \in Found(l) : panes[n].agent # i
BoundTo(l, i, n) ==
  /\ panes[n].agent = i
  /\ work[l][i] = [status |-> "launching", name |-> n, session |-> NoPane]
  /\ work'[l][i] = [status |-> "bound", name |-> n, session |-> n]

\* What one lookup writes: the agents found are bound to the sessions in their own panes.
LEMMA BindWrites ==
  ASSUME LaunchTypeInv, Books, NEW l \in Launches, Bind(l)
  PROVE  /\ thread[l] = "look" /\ thread'[l] \in {"look", "close"}
         /\ \A k \in Launches : k # l => thread'[k] = thread[k]
         /\ rows' = [rows EXCEPT ![l] = work'[l]]
         /\ UNCHANGED <<body, todo, opened, panes, deadline, launchTime>>
         /\ waiting' = [waiting EXCEPT ![l] = @ \ Found(l)]
         /\ \A k \in Launches : k # l => work'[k] = work[k]
         /\ work' \in [Launches -> [Agents -> SpawnRow(Len(panes))]]
         /\ \A i \in Agents : Untouched(l, i) \/ \E n \in Found(l) : BoundTo(l, i, n)
<1> DEFINE Row(i) == IF \E n \in Found(l) : panes[n].agent = i
                     THEN LET n == CHOOSE m \in Found(l) : panes[m].agent = i
                          IN [status |-> "bound", name |-> work[l][i].name, session |-> n]
                     ELSE work[l][i]
<1>1. work' = [work EXCEPT ![l] = [i \in Agents |-> Row(i)]] BY DEF Bind
<1>2. ASSUME NEW i \in Agents
      PROVE  /\ Row(i) \in SpawnRow(Len(panes))
             /\ \/ Row(i) = work[l][i] /\ \A n \in Found(l) : panes[n].agent # i
                \/ \E n \in Found(l) :
                     /\ panes[n].agent = i
                     /\ work[l][i] = [status |-> "launching", name |-> n, session |-> NoPane]
                     /\ Row(i) = [status |-> "bound", name |-> n, session |-> n]
  <2>1. CASE ~ \E n \in Found(l) : panes[n].agent = i BY <2>1, Shapes
  <2>2. CASE \E n \in Found(l) : panes[n].agent = i
    <3> DEFINE n == CHOOSE m \in Found(l) : panes[m].agent = i
    <3>1. n \in Found(l) /\ panes[n].agent = i BY <2>2
    <3>2. Row(i) = [status |-> "bound", name |-> work[l][i].name, session |-> n] BY <2>2
    <3> HIDE DEF n, Row
    <3>3. n \in waiting[l] BY <3>1 DEF Found
    <3>4. work[l][i] = [status |-> "launching", name |-> n, session |-> NoPane]
      BY <3>1, <3>3 DEF Books, WaitInv
    <3>5. Row(i) = [status |-> "bound", name |-> n, session |-> n] BY <3>2, <3>4
    <3>6. n \in 0..Len(panes) BY <3>3, Shapes
    <3>7. Row(i) \in SpawnRow(Len(panes)) BY <3>5, <3>6 DEF SpawnRow, Statuses
    <3> QED BY <3>1, <3>4, <3>5, <3>7
  <2> QED BY <2>1, <2>2
<1> HIDE DEF Row
<1>3. /\ \A k \in Launches : k # l => work'[k] = work[k]
      /\ \A i \in Agents : work'[l][i] = Row(i)
      /\ work' \in [Launches -> [Agents -> SpawnRow(Len(panes))]]
  BY <1>1, <1>2, Shapes
<1>4. /\ thread[l] = "look" /\ thread'[l] \in {"look", "close"}
      /\ \A k \in Launches : k # l => thread'[k] = thread[k]
      /\ rows' = [rows EXCEPT ![l] = work'[l]]
      /\ UNCHANGED <<body, todo, opened, panes, deadline, launchTime>>
      /\ waiting' = [waiting EXCEPT ![l] = @ \ Found(l)]
  BY Shapes DEF Bind, AtHead
<1>5. ASSUME NEW i \in Agents PROVE Untouched(l, i) \/ \E n \in Found(l) : BoundTo(l, i, n)
  <2>1. work'[l][i] = Row(i) BY <1>3
  <2>2. ASSUME NEW n \in Found(l), panes[n].agent = i,
               work[l][i] = [status |-> "launching", name |-> n, session |-> NoPane],
               Row(i) = [status |-> "bound", name |-> n, session |-> n]
        PROVE  BoundTo(l, i, n)
    BY <2>1, <2>2 DEF BoundTo
  <2>3. CASE Row(i) = work[l][i] /\ \A n \in Found(l) : panes[n].agent # i
    BY <2>1, <2>3 DEF Untouched
  <2> QED BY <1>2, <2>2, <2>3, Zenon
<1> QED BY <1>3, <1>4, <1>5, Zenon

\* A row is bound to the pane that was opened for it.
LEMMA BindBooks ==
  ASSUME LaunchTypeInv, Books, NEW l \in Launches, Bind(l)
  PROVE  Books'
<1>1. /\ thread[l] = "look" /\ thread'[l] \in {"look", "close"}
      /\ \A k \in Launches : k # l => thread'[k] = thread[k] /\ waiting'[k] = waiting[k]
                                     /\ rows'[k] = rows[k] /\ work'[k] = work[k]
      /\ rows'[l] = work'[l]
      /\ UNCHANGED <<body, todo, opened, panes>>
      /\ waiting'[l] = waiting[l] \ Found(l)
  BY BindWrites, Shapes
<1>2. ASSUME NEW i \in Agents PROVE Untouched(l, i) \/ \E n \in Found(l) : BoundTo(l, i, n)
  BY BindWrites
<1>3. BodyInv'
  <2>1. ASSUME NEW i \in Agents
        PROVE  work[l][i].status = "none" <=> work'[l][i].status = "none"
    <3>1. ASSUME NEW n \in Found(l), BoundTo(l, i, n)
          PROVE  work[l][i].status = "launching" /\ work'[l][i].status = "bound"
      BY <3>1 DEF BoundTo
    <3>2. CASE Untouched(l, i) BY <3>2 DEF Untouched
    <3> QED BY <1>2, <3>1, <3>2
  <2>2. rows[l] = work[l] BY <1>1 DEF Books, CommitInv
  <2> QED BY <1>1, <2>1, <2>2, Shapes, SMTT(60) DEF Books, BodyInv
<1>4. CommitInv' BY <1>1, Shapes, ZenonT(60) DEF Books, CommitInv
<1>5. PaneInv' BY <1>1 DEF Books, PaneInv, SpawnOnce
<1>6. OpenedInv' BY <1>1, Shapes DEF Books, OpenedInv
<1>7. WaitInv'
  <2>1. ASSUME NEW m \in waiting[l] \ Found(l), NEW n \in Found(l)
        PROVE  panes[n].agent # panes[m].agent
    <3>1. n \in waiting[l] /\ n # m BY DEF Found
    <3>2. /\ n \in DOMAIN panes /\ m \in DOMAIN panes
          /\ panes[n].launch = l /\ panes[m].launch = l
      BY <3>1 DEF Books, WaitInv
    <3> QED BY <3>1, <3>2 DEF Books, PaneInv, SpawnOnce
  <2>2. \A m \in waiting[l] \ Found(l) : work'[l][panes[m].agent] = work[l][panes[m].agent]
    <3> TAKE m \in waiting[l] \ Found(l)
    <3>1. panes[m].agent \in Agents BY Shapes
    <3>2. \A n \in Found(l) : ~BoundTo(l, panes[m].agent, n) BY <2>1 DEF BoundTo
    <3>3. Untouched(l, panes[m].agent) BY <1>2, <3>1, <3>2
    <3> QED BY <3>3 DEF Untouched
  <2> QED BY <1>1, <2>2, Shapes DEF Books, WaitInv
<1>8. BoundInv'
  <2>1. ASSUME NEW i \in Agents, work'[l][i].status = "bound"
        PROVE  LET n == work'[l][i].session
               IN /\ n \in DOMAIN panes
                  /\ panes[n].launch = l /\ panes[n].agent = i /\ panes[n].at # Unregistered
                  /\ work'[l][i].name = n
    <3>1. CASE Untouched(l, i) BY <2>1, <3>1 DEF Books, BoundInv, Untouched
    <3>2. ASSUME NEW n \in Found(l), BoundTo(l, i, n)
          PROVE  /\ work'[l][i].session = n /\ work'[l][i].name = n /\ panes[n].agent = i
                 /\ n \in DOMAIN panes /\ panes[n].launch = l /\ panes[n].at # Unregistered
      <4>1. n \in waiting[l] /\ panes[n].at # Unregistered BY DEF Found
      <4>2. n \in DOMAIN panes /\ panes[n].launch = l BY <4>1 DEF Books, WaitInv
      <4>3. work'[l][i] = [status |-> "bound", name |-> n, session |-> n] /\ panes[n].agent = i
        BY <3>2 DEF BoundTo
      <4> QED BY <4>1, <4>2, <4>3
    <3> QED BY <1>2, <3>1, <3>2
  <2>2. ASSUME NEW k \in Launches, NEW i \in Agents, k # l PROVE work'[k][i] = work[k][i]
    BY <1>1, <2>2
  <2>3. panes' = panes BY <1>1
  <2>4. ASSUME NEW k \in Launches, NEW i \in Agents, work'[k][i].status = "bound"
        PROVE  LET n == work'[k][i].session
               IN /\ n \in DOMAIN panes'
                  /\ panes'[n].launch = k /\ panes'[n].agent = i /\ panes'[n].at # Unregistered
                  /\ work'[k][i].name = n
    <3>1. CASE k = l BY <2>1, <2>3, <2>4, <3>1
    <3>2. CASE k # l BY <2>2, <2>3, <2>4, <3>2 DEF Books, BoundInv
    <3> QED BY <3>1, <3>2
  <2> QED BY <2>4 DEF BoundInv
<1> QED BY <1>3, <1>4, <1>5, <1>6, <1>7, <1>8 DEF Books

\* What the end of the window writes: agents still missing are given up.
LEMMA CloseWrites ==
  ASSUME LaunchTypeInv, Books, NEW l \in Launches, CloseWindow(l)
  PROVE  /\ thread[l] = "close" /\ thread'[l] = "none"
         /\ \A k \in Launches : k # l => /\ thread'[k] = thread[k] /\ waiting'[k] = waiting[k]
                                        /\ rows'[k] = rows[k] /\ work'[k] = work[k]
         /\ UNCHANGED <<body, todo, opened, panes, deadline, launchTime>>
         /\ waiting'[l] = {} /\ rows'[l] = work'[l]
         /\ \A i \in Agents : IF i \in Missing(l) THEN work'[l][i].status = "retryable"
                                                 ELSE work'[l][i] = work[l][i]
<1> DEFINE Row(i) == IF i \in Missing(l) THEN [work[l][i] EXCEPT !.status = "retryable"]
                                        ELSE work[l][i]
<1>1. /\ thread[l] = "close" /\ thread'[l] = "none"
      /\ \A k \in Launches : k # l => thread'[k] = thread[k] /\ waiting'[k] = waiting[k]
      /\ UNCHANGED <<body, todo, opened, panes, deadline, launchTime>>
      /\ waiting'[l] = {} /\ rows' = [rows EXCEPT ![l] = work'[l]]
  BY Shapes DEF CloseWindow
<1>2. work' = [work EXCEPT ![l] = [i \in Agents |-> Row(i)]] BY DEF CloseWindow
<1>3. ASSUME NEW i \in Agents, i \in Missing(l) PROVE Row(i).status = "retryable"
  <2>1. work[l][i] \in SpawnRow(Len(panes)) BY Shapes
  <2> QED BY <1>3, <2>1, GivenUp
<1>4. ASSUME NEW i \in Agents, i \notin Missing(l) PROVE Row(i) = work[l][i] BY <1>4
<1> HIDE DEF Row
<1>5. /\ \A k \in Launches : k # l => work'[k] = work[k] /\ rows'[k] = rows[k]
      /\ rows'[l] = work'[l] /\ \A i \in Agents : work'[l][i] = Row(i)
  BY <1>1, <1>2, Shapes
<1> QED BY <1>1, <1>3, <1>4, <1>5

\* At the end of the window what is unbound is given up.
LEMMA CloseBooks ==
  ASSUME LaunchTypeInv, Books, NEW l \in Launches, CloseWindow(l)
  PROVE  Books'
<1>1. /\ thread[l] = "close" /\ thread'[l] = "none"
      /\ \A k \in Launches : k # l => /\ thread'[k] = thread[k] /\ waiting'[k] = waiting[k]
                                     /\ rows'[k] = rows[k] /\ work'[k] = work[k]
      /\ UNCHANGED <<body, todo, opened, panes, deadline, launchTime>>
      /\ waiting'[l] = {} /\ rows'[l] = work'[l]
      /\ \A i \in Agents : IF i \in Missing(l) THEN work'[l][i].status = "retryable"
                                              ELSE work'[l][i] = work[l][i]
  BY CloseWrites
<1>2. ASSUME NEW i \in Agents, i \in Missing(l) PROVE work[l][i].status = "launching"
  <2>1. PICK n \in waiting[l] : panes[n].agent = i BY <1>2 DEF Missing
  <2>2. work[l][i] = [status |-> "launching", name |-> n, session |-> NoPane]
    BY <2>1 DEF Books, WaitInv
  <2> QED BY <2>2
<1>3. BodyInv'
  <2>1. ASSUME NEW i \in Agents PROVE work[l][i].status = "none" <=> work'[l][i].status = "none"
    BY <1>1, <1>2
  <2>2. rows[l] = work[l] BY <1>1 DEF Books, CommitInv
  <2>3. ASSUME NEW k \in Launches, NEW i \in Agents
        PROVE  /\ work[k][i].status = "none" <=> work'[k][i].status = "none"
               /\ rows[k][i].status = "none" <=> rows'[k][i].status = "none"
    BY <1>1, <2>1, <2>2
  <2>4. \A k \in Launches : body[k] \subseteq Agents BY Shapes
  <2>5. body' = body /\ todo' = todo BY <1>1
  <2> QED BY <2>3, <2>4, <2>5 DEF Books, BodyInv
<1>4. CommitInv' BY <1>1, Shapes, ZenonT(60) DEF Books, CommitInv
<1>5. PaneInv' BY <1>1 DEF Books, PaneInv, SpawnOnce
<1>6. OpenedInv' BY <1>1, Shapes DEF Books, OpenedInv
<1>7. WaitInv'
  <2>1. ASSUME NEW k \in Launches, NEW m \in waiting'[k]
        PROVE  k # l /\ m \in waiting[k] /\ thread'[k] = thread[k] /\ work'[k] = work[k]
    BY <1>1, <2>1
  <2>2. panes' = panes BY <1>1
  <2> QED BY <2>1, <2>2 DEF Books, WaitInv
<1>8. BoundInv'
  <2>1. ASSUME NEW k \in Launches, NEW i \in Agents, work'[k][i].status = "bound"
        PROVE  work'[k][i] = work[k][i] /\ panes' = panes
    BY <1>1, <2>1
  <2> QED BY <2>1 DEF Books, BoundInv
<1> QED BY <1>3, <1>4, <1>5, <1>6, <1>7, <1>8 DEF Books

\* A launch that cannot take the lock ends, and leaves the rows as they are.
LEMMA LockedOutBooks ==
  ASSUME LaunchTypeInv, Books, NEW l \in Launches, LockedOut(l)
  PROVE  Books'
<1>1. /\ thread'[l] = "none" /\ todo'[l] = {} /\ waiting'[l] = {} /\ work'[l] = rows[l]
      /\ \A k \in Launches : k # l =>
           /\ thread'[k] = thread[k] /\ todo'[k] = todo[k] /\ waiting'[k] = waiting[k]
           /\ work'[k] = work[k] /\ opened'[k] = opened[k]
      /\ UNCHANGED <<rows, body, panes>>
  BY Shapes DEF LockedOut
<1>2. BodyInv' BY <1>1, Shapes, SMTT(60) DEF Books, BodyInv
<1>3. CommitInv' BY <1>1, Shapes DEF Books, CommitInv
<1>4. PaneInv' BY <1>1, Shapes DEF Books, PaneInv, SpawnOnce
<1>5. OpenedInv' BY <1>1, Shapes DEF Books, OpenedInv
<1>6. WaitInv'
  <2>1. ASSUME NEW k \in Launches, NEW m \in waiting'[k]
        PROVE  k # l /\ m \in waiting[k] /\ thread'[k] = thread[k] /\ work'[k] = work[k]
    BY <1>1, <2>1
  <2>2. panes' = panes BY <1>1
  <2> QED BY <2>1, <2>2 DEF Books, WaitInv
<1>7. BoundInv'
  <2>1. ASSUME NEW i \in Agents, rows[l][i].status = "bound" PROVE rows[l][i] = work[l][i]
    BY <2>1, Shapes DEF Books, BodyInv, CommitInv
  <2> QED BY <1>1, <2>1 DEF Books, BoundInv
<1> QED BY <1>2, <1>3, <1>4, <1>5, <1>6, <1>7 DEF Books

\* A crash forgets the threads and what they had not committed.
LEMMA CrashBooks ==
  ASSUME LaunchTypeInv, Books, Crash
  PROVE  Books'
<1>1. /\ \A k \in Launches : thread'[k] = "none" /\ todo'[k] = {} /\ waiting'[k] = {}
      /\ UNCHANGED <<rows, body, panes>> /\ work' = rows
  BY DEF Crash
<1>2. BodyInv' BY <1>1, Shapes DEF Books, BodyInv
<1>3. CommitInv' BY <1>1 DEF CommitInv
<1>4. PaneInv' BY <1>1, Shapes DEF Books, PaneInv, SpawnOnce
<1>5. OpenedInv' BY <1>1 DEF OpenedInv
<1>6. WaitInv' BY <1>1 DEF WaitInv
<1>7. BoundInv'
  <2>1. ASSUME NEW l \in Launches, NEW i \in Agents, rows[l][i].status = "bound"
        PROVE  rows[l][i] = work[l][i]
    BY <2>1, Shapes DEF Books, BodyInv, CommitInv
  <2> QED BY <1>1, <2>1 DEF Books, BoundInv
<1> QED BY <1>2, <1>3, <1>4, <1>5, <1>6, <1>7 DEF Books

\* A session that registers does so in its own pane.
LEMMA RegisterBooks ==
  ASSUME LaunchTypeInv, Books, NEW n \in DOMAIN panes, Register(n)
  PROVE  Books'
<1>0. launchTime \in Nat BY DEF LaunchTypeInv, PresetTypeOK
<1>1. /\ panes' = [panes EXCEPT ![n].at = launchTime]
      /\ UNCHANGED <<rows, work, body, thread, todo, opened, waiting, deadline>>
  BY DEF Register
<1>2. /\ DOMAIN panes' = DOMAIN panes
      /\ \A m \in DOMAIN panes : /\ panes'[m].launch = panes[m].launch
                                /\ panes'[m].agent = panes[m].agent
                                /\ panes[m].at # Unregistered => panes'[m].at # Unregistered
  <2>1. panes \in [1..Len(panes) -> Pane] /\ DOMAIN panes = 1..Len(panes) /\ panes[n] \in Pane
    BY LenProperties DEF LaunchTypeInv
  <2>2. PICK pane \in Pane : /\ pane = [panes[n] EXCEPT !.at = launchTime] /\ pane.at = launchTime
                             /\ pane.launch = panes[n].launch /\ pane.agent = panes[n].agent
    BY <1>0, <2>1, MarkedPane
  <2>3. panes' = [panes EXCEPT ![n] = pane] BY <1>1, <2>1, <2>2
  <2> QED BY <1>0, <2>1, <2>2, <2>3 DEF Unregistered
<1>3. BodyInv' BY <1>1 DEF Books, BodyInv
<1>4. CommitInv' BY <1>1 DEF Books, CommitInv
<1>5. PaneInv' BY <1>1, <1>2 DEF Books, PaneInv, SpawnOnce
<1>6. OpenedInv' BY <1>1, <1>2 DEF Books, OpenedInv
<1>7. WaitInv' BY <1>1, <1>2 DEF Books, WaitInv
<1>8. BoundInv' BY <1>1, <1>2 DEF Books, BoundInv
<1> QED BY <1>3, <1>4, <1>5, <1>6, <1>7, <1>8 DEF Books

\* The alert loop and the clock touch no row.
LEMMA QuietBooks ==
  ASSUME Books, AlertsLock \/ LaunchTick \/ UNCHANGED launchVars
  PROVE  Books'
<1>1. UNCHANGED <<rows, work, body, thread, todo, opened, waiting, panes>>
  BY DEF AlertsLock, LaunchTick, launchVars
<1> QED
  BY <1>1 DEF Books, BodyInv, CommitInv, PaneInv, SpawnOnce, OpenedInv, WaitInv, BoundInv

\* At first nothing is booked.
LEMMA BooksInit == PresetInit => Books
<1> SUFFICES ASSUME PresetInit PROVE Books OBVIOUS
<1>1. DOMAIN panes = {} BY EmptySeq, LenProperties DEF PresetInit
<1>2. \A l \in Launches : /\ body[l] = {} /\ todo[l] = {} /\ waiting[l] = {} /\ thread[l] = "none"
                          /\ rows[l] = work[l] /\ \A i \in Agents : work[l][i].status = "none"
  BY DEF PresetInit, NoRow
<1> QED
  BY <1>1, <1>2 DEF Books, BodyInv, CommitInv, PaneInv, SpawnOnce, OpenedInv, WaitInv, BoundInv

\* Every step keeps the types and the books.
LEMMA LaunchPreserved ==
  ASSUME LaunchIInv, [PresetNext]_launchVars
  PROVE  LaunchIInv'
<1>1. LaunchTypeInv /\ Books BY DEF LaunchIInv, Books
<1>2. LaunchTypeInv' BY <1>1, LaunchTypeStep
<1>3. Books'
  BY <1>1, SubmitBooks, SpawnBooks, NoteBooks, OpenBooks, BindBooks, CloseBooks, LockedOutBooks,
     CrashBooks, RegisterBooks, QuietBooks DEF PresetNext, Step
<1> QED BY <1>2, <1>3 DEF LaunchIInv, Books

\* The strengthened invariant of the launches, on which the theorems below rest.
THEOREM LaunchInvariance == PresetSpec => []LaunchIInv
<1>1. PresetInit => LaunchIInv BY LaunchTypeInit, BooksInit DEF LaunchIInv, LaunchTypeInv, Books
<1>2. LaunchIInv /\ [PresetNext]_launchVars => LaunchIInv' BY LaunchPreserved
<1> QED BY <1>1, <1>2, PTL DEF PresetSpec

\* Rows, panes and what the thread works on keep their types, whatever a crash leaves behind.
THEOREM LaunchTypes == PresetSpec => []PresetTypeOK
<1>1. LaunchIInv => PresetTypeOK BY DEF LaunchIInv, LaunchTypeInv
<1> QED BY <1>1, LaunchInvariance, PTL

\* No agent of a launch is given two panes, whatever crashes and resubmissions
\* happen (_run_launch_preset_async).
THEOREM OnePaneEach == PresetSpec => []SpawnOnce
<1>1. LaunchIInv => SpawnOnce BY DEF LaunchIInv, PaneInv
<1> QED BY <1>1, LaunchInvariance, PTL

\* A row that is bound names the session of the pane that was opened for it (_run_launch_preset_async).
THEOREM BindingsAreOwn == PresetSpec => []BoundToItsOwn
<1>1. ASSUME LaunchIInv, NEW l \in Launches, NEW i \in Agents, rows[l][i].status = "bound"
      PROVE  rows[l][i] = work[l][i]
  BY <1>1, Shapes DEF LaunchIInv, BodyInv, CommitInv
<1>2. LaunchIInv => BoundToItsOwn BY <1>1 DEF LaunchIInv, BoundInv, BoundToItsOwn
<1> QED BY <1>2, LaunchInvariance, PTL

\* A step changes no row that has settled.
LEMMA SettledStays ==
  ASSUME LaunchIInv, [PresetNext]_launchVars,
         NEW l \in Launches, NEW i \in Agents, rows[l][i].status \in Settled
  PROVE  rows'[l][i] = rows[l][i]
<1>0. LaunchTypeInv /\ Books BY DEF LaunchIInv, Books
<1>1. i \in body[l] /\ rows[l][i].status \notin {"none", "launching"}
  BY <1>0 DEF Settled, Books, BodyInv
<1>2. thread[l] \notin {"spawn", "note"} /\ rows[l] = work[l]
  BY <1>0, <1>1 DEF Books, CommitInv
<1>3. ASSUME NEW k \in Launches, NEW picked \in SUBSET Agents, Submit(k, picked)
      PROVE  rows'[l][i] = rows[l][i]
  BY <1>0, <1>1, <1>3, Shapes DEF Submit, NewRows
<1>4. ASSUME NEW k \in Launches, OpenWindow(k) PROVE rows'[l][i] = rows[l][i]
  BY <1>0, <1>2, <1>4, Shapes DEF OpenWindow, Commit
<1>5. ASSUME NEW k \in Launches, Bind(k) PROVE rows'[l][i] = rows[l][i]
  <2>1. ASSUME k = l, NEW n \in Found(l), BoundTo(l, i, n) PROVE FALSE
    BY <1>1, <1>2, <2>1 DEF BoundTo
  <2>2. k = l => Untouched(l, i) BY <1>0, <1>5, <2>1, BindWrites
  <2>3. rows' = [rows EXCEPT ![k] = work'[k]] BY <1>0, <1>5, BindWrites
  <2> QED BY <1>0, <1>2, <2>2, <2>3, Shapes DEF Untouched
<1>6. ASSUME NEW k \in Launches, CloseWindow(k) PROVE rows'[l][i] = rows[l][i]
  <2>1. ASSUME k = l, i \in Missing(l) PROVE FALSE
    <3>1. PICK n \in waiting[l] : panes[n].agent = i BY <2>1 DEF Missing
    <3>2. work[l][i] = [status |-> "launching", name |-> n, session |-> NoPane]
      BY <1>0, <3>1 DEF Books, WaitInv
    <3> QED BY <1>1, <1>2, <3>2
  <2> QED BY <1>0, <1>2, <1>6, <2>1, CloseWrites
<1>7. CASE rows' = rows BY <1>7
<1> QED
  BY <1>3, <1>4, <1>5, <1>6, <1>7 DEF PresetNext, Step, Spawn, Note, LockedOut, Register, AlertsLock,
     Crash, LaunchTick, launchVars

\* A row that is launched, bound or retryable is never changed again.
THEOREM SettledStaysSettled == PresetSpec => SettledIsFinal
<1>1. LaunchIInv /\ [PresetNext]_launchVars =>
        [\A l \in Launches, i \in Agents :
           rows[l][i].status \in Settled => rows'[l][i] = rows[l][i]]_launchVars
  BY SettledStays
<1> QED BY <1>1, LaunchInvariance, PTL DEF PresetSpec, SettledIsFinal
-----------------------------------------------------------------------------
(* The window *)

\* The steps that leave the panes, the clock and the ends of the windows alone.
LEMMA WindowKept ==
  ASSUME WindowInv, UNCHANGED <<panes, launchTime, deadline>>,
         \A l \in Launches : \A i \in todo'[l] : work'[l][i].status = "launching",
         \A l \in Launches, n \in DOMAIN panes : panes[n].launch = l =>
           /\ n \in waiting'[l] /\ thread'[l] = "close" =>
                Over(l, n) \/ (n \in waiting[l] /\ thread[l] = "close")
           /\ work'[l][panes[n].agent].status = "retryable" =>
                thread'[l] = "none" /\ (Over(l, n) \/ work[l][panes[n].agent].status = "retryable")
  PROVE  WindowInv'
BY DEF WindowInv, Over

\* A committed row says nothing the thread has not written.
LEMMA CommittedWas ==
  ASSUME LaunchTypeInv, Books, NEW l \in Launches, NEW i \in Agents, rows[l][i].status = "retryable"
  PROVE  work[l][i].status = "retryable"
BY Shapes DEF Books, BodyInv, CommitInv

\* While a launch waits, whoever registers in time is seen before it gives up.
LEMMA WindowStep ==
  ASSUME LaunchIInv, WindowInv, BindWindow > 0, [PresetNext]_launchVars
  PROVE  WindowInv'
<1>0. LaunchTypeInv /\ Books /\ launchTime \in Nat /\ BindWindow \in Nat
  BY LaunchAssumption DEF LaunchIInv, Books, LaunchTypeInv, PresetTypeOK
<1>1. ASSUME NEW l \in Launches, NEW picked \in SUBSET Agents, Submit(l, picked) PROVE WindowInv'
  <2>1. body[l] = {} /\ NewRows(l, picked) = picked
    <3>1. NewRows(l, picked) # {} /\ (body[l] = picked \/ body[l] = {}) BY <1>1 DEF Submit
    <3>2. body[l] = {} BY <1>0, <3>1, Shapes DEF NewRows, Books, BodyInv
    <3> QED BY <1>0, <3>2, Shapes DEF NewRows, Books, BodyInv
  <2>2. \A n \in DOMAIN panes : panes[n].launch # l BY <1>0, <2>1, Shapes DEF Books, PaneInv
  <2>3. /\ rows'[l] = [i \in Agents |->
             IF i \in picked THEN [status |-> "launching", name |-> 0, session |-> 0] ELSE rows[l][i]]
        /\ work'[l] = rows'[l] /\ todo'[l] = picked
        /\ \A k \in Launches : k # l => /\ work'[k] = work[k] /\ todo'[k] = todo[k]
                                       /\ thread'[k] = thread[k]
        /\ UNCHANGED <<waiting, panes, launchTime, deadline>>
    BY <1>0, <1>1, <2>1, LaunchingRow, Shapes DEF Submit
  <2>4. \A i \in picked : work'[l][i].status = "launching" BY <2>3
  <2>5. \A k \in Launches : \A i \in todo'[k] : work'[k][i].status = "launching"
    BY <2>3, <2>4 DEF WindowInv
  <2> QED BY <2>2, <2>3, <2>5 DEF WindowInv, Over
<1>2. ASSUME NEW l \in Launches, Spawn(l) PROVE WindowInv'
  <2> DEFINE i == Min(todo[l])
             n == Len(panes) + 1
  <2>1. i \in todo[l] /\ i \in Agents BY <1>0, <1>2, MinIsAgent, Shapes DEF Spawn
  <2>2. work[l][i].status = "launching" BY <2>1 DEF WindowInv
  <2>3. /\ todo' = [todo EXCEPT ![l] = @ \ {i}] /\ thread[l] = "spawn" /\ thread'[l] = "note"
        /\ \A k \in Launches : k # l => thread'[k] = thread[k]
        /\ UNCHANGED <<work, waiting, launchTime, deadline>>
    BY <1>0, <1>2, Shapes DEF Spawn
  <2>4. panes' = panes \/ panes' = Append(panes, [launch |-> l, agent |-> i, at |-> Unregistered])
    BY <1>2 DEF Spawn
  <2> HIDE DEF i
  <2>5. [launch |-> l, agent |-> i, at |-> Unregistered] \in Pane BY <2>1 DEF Pane, Unregistered
  <2>6. ASSUME NEW m \in DOMAIN panes'
        PROVE  \/ m \in DOMAIN panes /\ panes'[m] = panes[m]
               \/ panes'[m].launch = l /\ panes'[m].agent = i
    <3>1. CASE panes' = panes BY <3>1
    <3>2. CASE panes' = Append(panes, [launch |-> l, agent |-> i, at |-> Unregistered])
      <4>1. /\ panes' \in Seq(Pane) /\ Len(panes') = n
            /\ \A j \in 1..Len(panes) : panes'[j] = panes[j]
            /\ panes'[n] = [launch |-> l, agent |-> i, at |-> Unregistered]
        BY <1>0, <2>5, <3>2, AppendProperties DEF LaunchTypeInv
      <4>2. m \in 1..n BY <4>1, LenProperties
      <4>3. CASE m = n BY <4>1, <4>3
      <4>4. CASE m # n
        <5>1. m \in 1..Len(panes) BY <1>0, <4>2, <4>4, Shapes
        <5> QED BY <1>0, <4>1, <5>1, Shapes
      <4> QED BY <4>3, <4>4
    <3> QED BY <2>4, <3>1, <3>2
  <2>7. \A k \in Launches : \A j \in todo'[k] : work'[k][j].status = "launching"
    BY <1>0, <2>3, Shapes DEF WindowInv
  <2>8. ASSUME NEW k \in Launches, NEW m \in DOMAIN panes', panes'[m].launch = k
        PROVE  /\ m \in waiting'[k] /\ thread'[k] = "close" => Over(k, m)'
               /\ work'[k][panes'[m].agent].status = "retryable" => thread'[k] = "none" /\ Over(k, m)'
    <3>1. CASE m \in DOMAIN panes /\ panes'[m] = panes[m]
      <4>1. Over(k, m)' = Over(k, m) BY <2>3, <3>1 DEF Over
      <4> QED BY <2>3, <2>8, <3>1, <4>1 DEF WindowInv
    <3>2. CASE panes'[m].launch = l /\ panes'[m].agent = i BY <2>2, <2>3, <2>8, <3>2
    <3> QED BY <2>6, <3>1, <3>2
  <2> QED BY <2>7, <2>8 DEF WindowInv
<1>3. ASSUME NEW l \in Launches, Note(l) PROVE WindowInv'
  <2> DEFINE i == opened[l].agent
  <2>1. /\ thread[l] = "note" /\ thread'[l] = "spawn"
        /\ \A k \in Launches : k # l => thread'[k] = thread[k] /\ waiting'[k] = waiting[k]
        /\ UNCHANGED <<todo, panes, launchTime, deadline>>
    BY <1>0, <1>3, Shapes DEF Note, Update
  <2>2. /\ i \in body[l] \ todo[l] /\ i \in Agents
        /\ opened[l].pane = NoPane => \A m \in DOMAIN panes : panes[m].launch = l => panes[m].agent # i
    BY <1>0, <2>1, Shapes DEF Books, OpenedInv
  <2>3. \/ /\ opened[l].pane = NoPane
           /\ work' = [work EXCEPT ![l][i] = [status |-> "retryable", name |-> NoPane, session |-> NoPane]]
        \/ work' = [work EXCEPT ![l][i] = [status |-> "launched", name |-> NoPane, session |-> NoPane]]
        \/ work' = [work EXCEPT ![l][i] =
                       [status |-> "launching", name |-> opened[l].pane, session |-> NoPane]]
    BY <1>3 DEF Note, Update
  <2> HIDE DEF i
  <2>4. ASSUME NEW row, work' = [work EXCEPT ![l][i] = row]
        PROVE  /\ \A k \in Launches, j \in Agents : k # l \/ j # i => work'[k][j] = work[k][j]
               /\ work'[l][i] = row
    BY <1>0, <2>2, <2>4, Shapes
  <2>5. /\ \A k \in Launches, j \in Agents : k # l \/ j # i => work'[k][j] = work[k][j]
        /\ work'[l][i].status = "retryable" => opened[l].pane = NoPane
    BY <2>3, <2>4
  <2>6. ASSUME NEW k \in Launches, NEW j \in todo[k] PROVE work'[k][j].status = "launching"
    <3>1. j \in Agents /\ (k # l \/ j # i) BY <1>0, <2>2, Shapes
    <3> QED BY <2>5, <3>1 DEF WindowInv
  <2>7. ASSUME NEW k \in Launches, NEW n \in DOMAIN panes, panes[n].launch = k,
               work'[k][panes[n].agent].status = "retryable"
        PROVE  k # l /\ work[k][panes[n].agent].status = "retryable"
    <3>1. panes[n].agent \in Agents BY <1>0, Shapes
    <3>2. k # l \/ panes[n].agent # i BY <2>2, <2>5, <2>7
    <3>3. work[k][panes[n].agent].status = "retryable" BY <2>5, <2>7, <3>1, <3>2
    <3> QED BY <2>1, <2>7, <3>3 DEF WindowInv
  <2>8. ASSUME NEW k \in Launches, thread'[k] = "close" PROVE thread[k] = "close" /\ waiting'[k] = waiting[k]
    BY <2>1, <2>8
  <2>9. \A k \in Launches, n \in DOMAIN panes : panes[n].launch = k =>
          /\ n \in waiting'[k] /\ thread'[k] = "close" => Over(k, n)
          /\ work'[k][panes[n].agent].status = "retryable" => thread'[k] = "none" /\ Over(k, n)
    BY <2>1, <2>7, <2>8 DEF WindowInv
  <2> QED BY <2>1, <2>6, <2>9, WindowKept
<1>4. ASSUME NEW l \in Launches, OpenWindow(l) PROVE WindowInv'
  <2>1. /\ thread[l] = "spawn"
        /\ thread'[l] = IF waiting[l] # {} /\ launchTime < launchTime + BindWindow THEN "look" ELSE "close"
        /\ \A k \in Launches : k # l => thread'[k] = thread[k] /\ deadline'[k] = deadline[k]
        /\ UNCHANGED <<work, todo, waiting, panes, launchTime>>
    BY <1>0, <1>4, Shapes DEF OpenWindow, AtHead, KeepsWaiting
  <2>2. thread'[l] = "close" => waiting'[l] = {} BY <1>0, <2>1
  <2>3. \A n \in DOMAIN panes : panes[n].launch = l => work[l][panes[n].agent].status # "retryable"
    BY <2>1 DEF WindowInv
  <2> QED BY <2>1, <2>2, <2>3 DEF WindowInv, Over
<1>5. ASSUME NEW l \in Launches, Bind(l) PROVE WindowInv'
  <2>1. /\ thread[l] = "look" /\ waiting'[l] = waiting[l] \ Found(l)
        /\ \A k \in Launches : k # l => /\ thread'[k] = thread[k] /\ waiting'[k] = waiting[k]
                                       /\ work'[k] = work[k]
        /\ UNCHANGED <<todo, panes, launchTime, deadline>>
    BY <1>0, <1>5, BindWrites, Shapes
  <2>2. thread'[l] = "close" => waiting'[l] = {} \/ launchTime >= deadline[l]
    BY <1>0, <1>5, Shapes DEF Bind, AtHead, KeepsWaiting
  <2>3. \A n \in waiting'[l] : panes[n].at = Unregistered BY <2>1 DEF Found
  <2>4. ASSUME NEW i \in Agents
        PROVE  /\ work'[l][i].status = "retryable" => work[l][i].status = "retryable"
               /\ work[l][i].status = "launching" /\ (\A n \in Found(l) : panes[n].agent # i) =>
                    work'[l][i].status = "launching"
    <3>1. CASE Untouched(l, i) BY <3>1 DEF Untouched
    <3>2. ASSUME NEW n \in Found(l), BoundTo(l, i, n)
          PROVE  work'[l][i].status = "bound" /\ panes[n].agent = i
      BY <3>2 DEF BoundTo
    <3> QED BY <1>0, <1>5, <3>1, <3>2, BindWrites
  <2>5. ASSUME NEW i \in todo[l], NEW n \in Found(l) PROVE panes[n].agent # i
    <3>1. n \in DOMAIN panes /\ panes[n].launch = l BY <1>0 DEF Found, Books, WaitInv
    <3> QED BY <1>0, <3>1 DEF Books, PaneInv
  <2>6. \A k \in Launches : \A i \in todo[k] : work'[k][i].status = "launching"
    <3>1. ASSUME NEW i \in todo[l] PROVE work'[l][i].status = "launching"
      <4>1. i \in Agents BY <1>0, Shapes
      <4>2. work[l][i].status = "launching" BY DEF WindowInv
      <4> QED BY <2>4, <2>5, <4>1, <4>2
    <3> QED BY <2>1, <3>1 DEF WindowInv
  <2>7. ASSUME NEW n \in DOMAIN panes, panes[n].launch = l
        PROVE  work'[l][panes[n].agent].status # "retryable"
    <3>1. panes[n].agent \in Agents BY <1>0, Shapes
    <3>2. work[l][panes[n].agent].status # "retryable" BY <2>1, <2>7 DEF WindowInv
    <3> QED BY <2>4, <3>1, <3>2
  <2>8. \A n \in DOMAIN panes : n \in waiting'[l] /\ thread'[l] = "close" => Over(l, n)
    BY <2>2, <2>3 DEF Over
  <2>9. \A k \in Launches, n \in DOMAIN panes : panes[n].launch = k =>
          /\ n \in waiting'[k] /\ thread'[k] = "close" =>
               Over(k, n) \/ (n \in waiting[k] /\ thread[k] = "close")
          /\ work'[k][panes[n].agent].status = "retryable" =>
               thread'[k] = "none" /\ (Over(k, n) \/ work[k][panes[n].agent].status = "retryable")
    BY <2>1, <2>7, <2>8 DEF WindowInv
  <2> QED BY <2>1, <2>6, <2>9, WindowKept
<1>6. ASSUME NEW l \in Launches, CloseWindow(l) PROVE WindowInv'
  <2>1. /\ thread[l] = "close" /\ thread'[l] = "none" /\ waiting'[l] = {}
        /\ \A k \in Launches : k # l => /\ thread'[k] = thread[k] /\ waiting'[k] = waiting[k]
                                       /\ work'[k] = work[k]
        /\ UNCHANGED <<todo, panes, deadline, launchTime>>
        /\ \A i \in Agents : i \notin Missing(l) => work'[l][i] = work[l][i]
    BY <1>0, <1>6, CloseWrites
  <2>2. ASSUME NEW n \in DOMAIN panes, panes[n].launch = l, panes[n].agent \in Missing(l)
        PROVE  Over(l, n)
    <3>1. PICK m \in waiting[l] : panes[m].agent = panes[n].agent BY <2>2 DEF Missing
    <3>2. m \in DOMAIN panes /\ panes[m].launch = l BY <1>0, <3>1 DEF Books, WaitInv
    <3>3. m = n BY <1>0, <2>2, <3>1, <3>2 DEF Books, PaneInv, SpawnOnce
    <3> QED BY <2>1, <2>2, <3>1, <3>3 DEF WindowInv
  <2>3. ASSUME NEW i \in todo[l] PROVE i \in Agents /\ i \notin Missing(l)
    <3>1. \A n \in waiting[l] : n \in DOMAIN panes /\ panes[n].launch = l
      BY <1>0 DEF Books, WaitInv
    <3>2. \A n \in waiting[l] : panes[n].agent # i BY <1>0, <3>1 DEF Books, PaneInv
    <3> QED BY <1>0, <3>2, Shapes DEF Missing
  <2>4. \A k \in Launches : \A i \in todo[k] : work'[k][i].status = "launching"
    BY <2>1, <2>3 DEF WindowInv
  <2>5. ASSUME NEW n \in DOMAIN panes, panes[n].launch = l,
               work'[l][panes[n].agent].status = "retryable"
        PROVE  Over(l, n)
    <3>1. panes[n].agent \in Agents BY <1>0, Shapes
    <3>2. CASE panes[n].agent \in Missing(l) BY <2>2, <2>5, <3>2
    <3>3. CASE panes[n].agent \notin Missing(l) BY <2>1, <2>5, <3>1, <3>3 DEF WindowInv
    <3> QED BY <3>2, <3>3
  <2>6. \A k \in Launches, n \in DOMAIN panes : panes[n].launch = k =>
          /\ n \in waiting'[k] /\ thread'[k] = "close" => n \in waiting[k] /\ thread[k] = "close"
          /\ work'[k][panes[n].agent].status = "retryable" =>
               thread'[k] = "none" /\ (Over(k, n) \/ work[k][panes[n].agent].status = "retryable")
    BY <2>1, <2>5 DEF WindowInv
  <2> QED BY <2>1, <2>4, <2>6, WindowKept
<1>7. ASSUME NEW l \in Launches, LockedOut(l) PROVE WindowInv'
  <2>1. /\ thread'[l] = "none" /\ todo'[l] = {} /\ waiting'[l] = {} /\ work'[l] = rows[l]
        /\ \A k \in Launches : k # l =>
             /\ thread'[k] = thread[k] /\ todo'[k] = todo[k] /\ waiting'[k] = waiting[k]
             /\ work'[k] = work[k]
        /\ UNCHANGED <<panes, launchTime, deadline>>
    BY <1>0, <1>7, Shapes DEF LockedOut
  <2>2. \A i \in Agents : rows[l][i].status = "retryable" => work[l][i].status = "retryable"
    BY <1>0, CommittedWas
  <2>3. \A k \in Launches : \A i \in todo'[k] : work'[k][i].status = "launching"
    BY <2>1 DEF WindowInv
  <2>4. \A k \in Launches, n \in DOMAIN panes : panes[n].launch = k =>
          /\ n \in waiting'[k] /\ thread'[k] = "close" => n \in waiting[k] /\ thread[k] = "close"
          /\ work'[k][panes[n].agent].status = "retryable" =>
               thread'[k] = "none" /\ work[k][panes[n].agent].status = "retryable"
    BY <1>0, <2>1, <2>2, Shapes DEF WindowInv
  <2> QED BY <2>1, <2>3, <2>4, WindowKept
<1>8. ASSUME NEW n \in DOMAIN panes, Register(n) PROVE WindowInv'
  <2>1. /\ panes' = [panes EXCEPT ![n].at = launchTime]
        /\ UNCHANGED <<work, thread, todo, waiting, deadline, launchTime>>
    BY <1>8 DEF Register
  <2>2. panes \in [1..Len(panes) -> Pane] /\ DOMAIN panes = 1..Len(panes) /\ panes[n] \in Pane
    BY <1>0, LenProperties DEF LaunchTypeInv
  <2>3. PICK pane \in Pane : /\ pane = [panes[n] EXCEPT !.at = launchTime] /\ pane.at = launchTime
                             /\ pane.launch = panes[n].launch /\ pane.agent = panes[n].agent
    BY <1>0, <2>2, MarkedPane
  <2>4. panes' = [panes EXCEPT ![n] = pane] BY <2>1, <2>2, <2>3
  <2>5. /\ DOMAIN panes' = DOMAIN panes
        /\ \A m \in DOMAIN panes : /\ panes'[m].launch = panes[m].launch
                                  /\ panes'[m].agent = panes[m].agent
                                  /\ panes'[m].at \in {panes[m].at, launchTime}
    BY <2>2, <2>3, <2>4
  <2>6. \A l \in Launches, m \in DOMAIN panes : Over(l, m) => Over(l, m)'
    BY <2>1, <2>5 DEF Over
  <2> QED BY <2>1, <2>5, <2>6 DEF WindowInv
<1>9. CASE AlertsLock BY <1>9 DEF AlertsLock, WindowInv, Over
<1>10. CASE Crash
  <2>1. /\ \A k \in Launches : thread'[k] = "none" /\ todo'[k] = {} /\ waiting'[k] = {}
        /\ UNCHANGED <<panes, launchTime, deadline>> /\ work' = rows
    BY <1>10 DEF Crash
  <2>2. ASSUME NEW k \in Launches, NEW n \in DOMAIN panes,
               rows[k][panes[n].agent].status = "retryable"
        PROVE  work[k][panes[n].agent].status = "retryable"
    BY <1>0, <2>2, CommittedWas, Shapes
  <2> QED BY <2>1, <2>2, WindowKept
<1>11. CASE LaunchTick
  <2>1. launchTime' = launchTime + 1 /\ UNCHANGED <<work, todo, thread, waiting, deadline, panes>>
    BY <1>11 DEF LaunchTick
  <2>2. deadline \in [Launches -> Nat] BY <1>0, Shapes
  <2>3. \A l \in Launches, n \in DOMAIN panes : Over(l, n) => Over(l, n)'
    BY <1>0, <2>1, <2>2 DEF Over
  <2> QED BY <2>1, <2>3 DEF WindowInv
<1>12. CASE UNCHANGED launchVars BY <1>12 DEF launchVars, WindowInv, Over
<1> QED
  BY <1>1, <1>2, <1>3, <1>4, <1>5, <1>6, <1>7, <1>8, <1>9, <1>10, <1>11, <1>12
  DEF PresetNext, Step

\* At first no launch waits.
LEMMA WindowInit == PresetInit => WindowInv
<1> SUFFICES ASSUME PresetInit PROVE WindowInv OBVIOUS
<1>1. DOMAIN panes = {} BY EmptySeq, LenProperties DEF PresetInit
<1> QED BY <1>1 DEF PresetInit, WindowInv

\* With a window to wait in, only a session that did not show up is given up for a retry.
THEOREM NothingSeenIsGivenUp ==
  ASSUME BindWindow > 0
  PROVE  PresetSpec => []RetryableWasMissing
<1>1. PresetInit => WindowInv BY WindowInit
<1>2. LaunchIInv /\ WindowInv /\ [PresetNext]_launchVars => WindowInv' BY WindowStep
<1>3. LaunchIInv /\ WindowInv => RetryableWasMissing
  BY CommittedWas, Shapes DEF LaunchIInv, Books, WindowInv, Over, RetryableWasMissing
<1> QED BY <1>1, <1>2, <1>3, LaunchInvariance, PTL DEF PresetSpec

-----------------------------------------------------------------------------
(* The Telegram poll *)

\* A set of natural numbers that is not empty has a least element, and Min is it.
LEMMA MinIsLeast ==
  ASSUME NEW S, S \subseteq Nat, S # {}
  PROVE  Min(S) \in S /\ \A x \in S : Min(S) <= x
<1>1. PICK m \in S : \A x \in S : ~(<<x, m>> \in OpToRel(<, Nat))
  BY NatLessThanWellFounded, WFMin
<1>2. \A x \in S : m <= x
  <2> SUFFICES ASSUME NEW x \in S PROVE m <= x OBVIOUS
  <2>1. x \in Nat /\ m \in Nat OBVIOUS
  <2>2. ~(x < m) BY <1>1, <2>1 DEF OpToRel
  <2> QED BY <2>1, <2>2
<1> QED BY <1>2 DEF Min

-----------------------------------------------------------------------------
(* Types *)

\* Initial states are well typed.
LEMMA TypeInit == TgInit => TgTypeOK
<1> SUFFICES ASSUME TgInit PROVE TgTypeOK OBVIOUS
<1>1. inbox \in Seq(Kinds) /\ Len(inbox) = 0 BY EmptySeq DEF TgInit
<1>2. fired \in Seq(Nat) /\ Len(fired) = 0 BY EmptySeq DEF TgInit
<1>3. answers \in Seq(Answers) /\ Len(answers) = 0 BY EmptySeq DEF TgInit
<1>4. /\ Len(inbox) <= MaxUpdates /\ Len(answers) <= Enough
      /\ confirmed \in 0..Len(inbox)
      /\ saved \in 0..(Len(inbox) + 1) /\ offset \in 0..(Len(inbox) + 1)
      /\ conflicts \in 0..Enough /\ faults \in 0..MaxFaults /\ overlaps \in 0..MaxOverlaps
  <2>1. Len(inbox) = 0 /\ Len(answers) = 0 BY <1>1, <1>3
  <2> QED BY <2>1, TgAssumption DEF TgInit, Enough
<1>5. place \in Places /\ (place = "demoted" <=> conflicts = Enough)
  BY DEF TgInit, Places, Enough
<1>6. batch \subseteq Updates /\ rival \in BOOLEAN BY DEF TgInit
<1> QED BY <1>1, <1>2, <1>3, <1>4, <1>5, <1>6 DEF TgTypeOK

\* The last answers are kept, at most three.
LEMMA RememberTyped ==
  ASSUME TgTypeOK, NEW a \in Answers, Remember(a)
  PROVE  /\ answers' \in Seq(Answers) /\ Len(answers') <= Enough
         /\ Len(answers') = (IF Len(answers) < Enough THEN Len(answers) + 1 ELSE Enough)
         /\ answers'[Len(answers')] = a
         /\ \A i \in 1..(Len(answers') - 1) :
              answers'[i] = answers[IF Len(answers) < Enough THEN i ELSE i + 1]
<1> DEFINE len == Len(answers)
           all == Append(answers, a)
           from == IF len < 3 THEN 1 ELSE 2
           n == len + 1
<1>1. answers \in Seq(Answers) BY DEF TgTypeOK
<1>2. len \in 0..3
  <2>1. len \in Nat BY <1>1, LenProperties
  <2>2. len <= 3 BY DEF TgTypeOK, Enough
  <2> HIDE DEF len
  <2> QED BY <2>1, <2>2
<1>3. /\ all \in Seq(Answers) /\ Len(all) = n
      /\ \A i \in 1..len : all[i] = answers[i]
      /\ all[n] = a
  BY <1>1
<1>4. answers' = SubSeq(all, from, n) BY DEF Remember, Enough
<1> HIDE DEF len, all
<1>5. /\ from \in 1..2 /\ n \in 1..4 /\ from <= n /\ n - from + 1 \in 1..3
      /\ n - from + 1 = (IF len < 3 THEN n ELSE 3)
  BY <1>2
<1> HIDE DEF from, n
<1>6. \A i \in from..n : all[i] \in Answers
  <2> SUFFICES ASSUME NEW i \in from..n PROVE all[i] \in Answers OBVIOUS
  <2>1. i \in 1..Len(all) BY <1>3, <1>5
  <2> QED BY <1>3, <2>1, ElementOfSeq
<1>7. /\ answers' \in Seq(Answers) /\ Len(answers') = n - from + 1
      /\ \A i \in 1..(n - from + 1) : answers'[i] = all[from + i - 1]
  BY <1>4, <1>5, <1>6, SubSeqProperties
<1>8. Len(answers') \in 1..3 /\ Len(answers') = (IF len < 3 THEN n ELSE 3) BY <1>5, <1>7
<1>9. answers'[Len(answers')] = a
  <2>1. answers'[Len(answers')] = all[from + (n - from + 1) - 1] BY <1>5, <1>7
  <2>2. from + (n - from + 1) - 1 = n BY <1>5
  <2> QED BY <1>3, <2>1, <2>2
<1>10. ASSUME NEW i \in 1..(Len(answers') - 1)
       PROVE  answers'[i] = answers[IF len < 3 THEN i ELSE i + 1]
  <2>1. i \in 1..(n - from + 1) /\ from + i - 1 = (IF len < 3 THEN i ELSE i + 1)
    BY <1>2, <1>5, <1>8 DEF from, n
  <2>2. from + i - 1 \in 1..len BY <1>2, <1>5, <1>8, <2>1 DEF from, n
  <2> QED BY <1>3, <1>7, <2>1, <2>2
<1>11. /\ Len(answers') <= Enough
       /\ Len(answers') = (IF len < Enough THEN len + 1 ELSE Enough)
       /\ \A i \in 1..(Len(answers') - 1) :
            answers'[i] = answers[IF len < Enough THEN i ELSE i + 1]
  <2> HIDE DEF len
  <2>1. Len(answers') <= 3 BY <1>8
  <2> QED BY <1>8, <1>10, <2>1 DEF Enough, n
<1> QED BY <1>7, <1>9, <1>11, Zenon DEF len

\* What the types say of the numbers of the poll thread.
LEMMA TypeFacts ==
  ASSUME TgTypeOK
  PROVE  /\ Len(inbox) \in Nat /\ Updates = 1..Len(inbox) /\ Updates \subseteq Nat
         /\ fired \in [Updates -> Nat]
         /\ confirmed \in Nat /\ saved \in Nat /\ offset \in Nat /\ faults \in Nat
         /\ batch \subseteq Updates /\ batch \subseteq Nat
<1>1. inbox \in Seq(Kinds) /\ fired \in Seq(Nat) BY DEF TgTypeOK
<1>2. Len(inbox) \in Nat /\ Updates = 1..Len(inbox) BY <1>1, LenProperties DEF Updates
<1>3. fired \in [1..Len(fired) -> Nat] BY <1>1, LenProperties
<1>4. fired \in [Updates -> Nat] BY <1>2, <1>3 DEF TgTypeOK
<1> QED BY <1>2, <1>4, TgAssumption DEF TgTypeOK

\* What the owner's updates were counted to stays a sequence of counts.
LEMMA CountTyped ==
  ASSUME TgTypeOK, NEW u \in Updates
  PROVE  /\ [fired EXCEPT ![u] = @ + 1] \in Seq(Nat)
         /\ Len([fired EXCEPT ![u] = @ + 1]) = Len(inbox)
<1>1. fired \in Seq(Nat) /\ Len(fired) = Len(inbox) BY DEF TgTypeOK
<1>2. u \in 1..Len(fired) /\ fired[u] + 1 \in Nat BY <1>1, TypeFacts
<1> QED BY <1>1, <1>2, ExceptSeq

\* Every step keeps the types.
LEMMA TypeStep == ASSUME TgTypeOK, [TgNext]_tgVars PROVE TgTypeOK'
<1> USE TypeFacts
<1>1. ASSUME NEW kind \in Kinds, Arrive(kind) PROVE TgTypeOK'
  <2>1. /\ inbox' \in Seq(Kinds) /\ Len(inbox') = Len(inbox) + 1
        /\ fired' \in Seq(Nat) /\ Len(fired') = Len(inbox')
    BY <1>1 DEF Arrive, TgTypeOK
  <2>2. Updates' = 1..(Len(inbox) + 1) BY <2>1, LenProperties DEF Updates
  <2>3. Len(inbox') <= MaxUpdates BY <1>1, <2>1, TgAssumption DEF Arrive
  <2>4. /\ confirmed' \in 0..Len(inbox') /\ saved' \in 0..(Len(inbox') + 1)
        /\ offset' \in 0..(Len(inbox') + 1) /\ batch' \subseteq Updates'
    BY <1>1, <2>1, <2>2 DEF Arrive, TgTypeOK
  <2> QED BY <1>1, <2>1, <2>3, <2>4 DEF Arrive, TgTypeOK
<1>2. CASE Overlap BY <1>2, TgAssumption DEF Overlap, TgTypeOK, Updates
<1>3. CASE Load BY <1>3 DEF Load, TgTypeOK, Updates, Places
<1>4. CASE PollAnswered
  <2>1. answers' \in Seq(Answers) /\ Len(answers') <= Enough
    BY <1>4, RememberTyped DEF PollAnswered, Answers
  <2>2. confirmed' \in 0..Len(inbox) BY <1>4 DEF PollAnswered, TgTypeOK
  <2>3. conflicts' \in 0..Enough BY <1>4 DEF PollAnswered, ConflictsAfter, Enough
  <2>4. batch' \subseteq Updates' /\ place' \in Places
    BY <1>4 DEF PollAnswered, Updates, Places
  <2>5. place' # "demoted" /\ conflicts' # Enough BY <1>4 DEF PollAnswered, ConflictsAfter, Enough
  <2> QED BY <1>4, <2>1, <2>2, <2>3, <2>4, <2>5 DEF PollAnswered, TgTypeOK
<1>5. CASE PollRefused
  <2>1. answers' \in Seq(Answers) /\ Len(answers') <= Enough
    BY <1>5, RememberTyped DEF PollRefused, Answers
  <2>2. conflicts' \in 0..Enough BY <1>5 DEF PollRefused, ConflictsAfter, Enough, TgTypeOK
  <2>3. place' \in Places /\ (place' = "demoted" <=> conflicts' = Enough)
    BY <1>5, <2>2 DEF PollRefused, Places, Enough
  <2> QED BY <1>5, <2>1, <2>2, <2>3 DEF PollRefused, TgTypeOK, Updates
<1>6. CASE PollFailed
  <2>1. answers' \in Seq(Answers) /\ Len(answers') <= Enough
    BY <1>6, RememberTyped DEF PollFailed, Answers
  <2>2. confirmed' \in 0..Len(inbox) BY <1>6 DEF PollFailed, TgTypeOK
  <2>3. conflicts' \in 0..Enough BY <1>6 DEF PollFailed, ConflictsAfter, Enough
  <2>4. faults' \in 0..MaxFaults /\ place' \in Places
    BY <1>6, TgAssumption DEF PollFailed, Places, TgTypeOK
  <2>5. place' # "demoted" /\ conflicts' # Enough BY <1>6 DEF PollFailed, ConflictsAfter, Enough
  <2> QED BY <1>6, <2>1, <2>2, <2>3, <2>4, <2>5 DEF PollFailed, TgTypeOK, Updates
<1>7. CASE Handle \/ Raise
  <2>1. First \in batch BY <1>7, MinIsLeast DEF First, Handle, Raise
  <2>2. offset' \in 0..(Len(inbox) + 1)
    <3>1. First \in 1..Len(inbox) /\ offset \in 0..(Len(inbox) + 1) BY <2>1 DEF TgTypeOK
    <3>2. offset' = NextId(First) BY <1>7 DEF Handle, Raise
    <3> QED BY <3>1, <3>2 DEF NextId
  <2>3. fired' \in Seq(Nat) /\ Len(fired') = Len(inbox)
    <3>1. \/ fired' = fired
          \/ fired' = [fired EXCEPT ![First] = @ + 1]
      BY <1>7 DEF Handle, Raise
    <3>2. fired \in Seq(Nat) /\ Len(fired) = Len(inbox) BY DEF TgTypeOK
    <3>3. First \in Updates BY <2>1
    <3> QED BY <3>1, <3>2, <3>3, CountTyped
  <2>4. batch' \subseteq Updates' BY <1>7 DEF Handle, Raise, Updates
  <2>5. faults' \in 0..MaxFaults
    <3>1. faults \in 0..MaxFaults BY DEF TgTypeOK
    <3>2. faults' = faults \/ (faults < MaxFaults /\ faults' = faults + 1)
      BY <1>7 DEF Handle, Raise
    <3> QED BY <3>1, <3>2, TgAssumption
  <2>6. place' \in Places /\ place' # "demoted" /\ conflicts' # Enough /\ conflicts' \in 0..Enough
    BY <1>7 DEF Handle, Raise, TgTypeOK, Places
  <2>7. UNCHANGED <<inbox, confirmed, saved, rival, overlaps, answers>>
    BY <1>7 DEF Handle, Raise, SavedOnRaise
  <2> QED BY <2>2, <2>3, <2>4, <2>5, <2>6, <2>7 DEF TgTypeOK
<1>8. CASE Save BY <1>8, TgAssumption DEF Save, TgTypeOK, Updates, Places
<1>9. CASE TgCrash
  <2>1. answers' \in Seq(Answers) /\ Len(answers') <= Enough
    BY <1>9, EmptySeq DEF TgCrash, Enough
  <2>2. offset' \in 0..(Len(inbox) + 1) /\ conflicts' \in 0..Enough BY <1>9 DEF TgCrash, Enough
  <2>3. faults' \in 0..MaxFaults /\ place' \in Places /\ batch' \subseteq Updates'
    BY <1>9, TgAssumption DEF TgCrash, Places
  <2> QED BY <1>9, <2>1, <2>2, <2>3 DEF TgCrash, TgTypeOK, Updates, Enough
<1>10. CASE UNCHANGED tgVars BY <1>10 DEF tgVars, TgTypeOK, Updates
<1> QED BY <1>1, <1>2, <1>3, <1>4, <1>5, <1>6, <1>7, <1>8, <1>9, <1>10 DEF TgNext, Round

-----------------------------------------------------------------------------
(* Nothing is lost, and repeats are paid for *)

\* Where the thread is in the updates: between two rounds it has none at hand and starts
\* from the file; in a round it has passed what is below its offset, and what it still
\* has to handle leaves no gap above it.
InRound ==
  /\ place # "handle" => batch = {}
  /\ place = "poll" => offset = saved
  /\ place = "handle" => saved <= offset
  /\ \A u \in batch : offset <= u
  /\ \A u \in Updates, v \in batch : offset <= u /\ confirmed < u /\ u < v => u \in batch

\* NoUpdateLost with the offset the thread has in memory beside the one in the file.
PassedIsCarriedOut ==
  \A u \in Updates :
    inbox[u] # "stranger"
      /\ (u <= confirmed \/ u < saved \/ (place \in {"poll", "handle"} /\ u < offset))
    => fired[u] > 0

\* RepeatsArePaidFor, one sharper for what may be carried out again: only the updates
\* of the round that the thread has passed are one ahead of the faults.
AheadOnlyInRound ==
  \A u \in Updates :
    /\ fired[u] <= 1 + faults
    /\ saved <= u /\ (place # "handle" \/ offset <= u) => fired[u] <= faults

PollInv == InRound /\ PassedIsCarriedOut /\ AheadOnlyInRound

\* At first nothing was received.
LEMMA PollInit == TgInit => PollInv
<1> SUFFICES ASSUME TgInit PROVE PollInv OBVIOUS
<1>1. Updates = {} BY TypeInit, TypeFacts DEF TgInit
<1> QED BY <1>1 DEF TgInit, PollInv, InRound, PassedIsCarriedOut, AheadOnlyInRound

\* Every step keeps the invariant.
LEMMA PollInvStep == ASSUME TgTypeOK, PollInv, [TgNext]_tgVars PROVE PollInv'
<1> USE TypeFacts DEF PollInv
<1>1. ASSUME NEW kind \in Kinds, Arrive(kind) PROVE PollInv'
  <2> DEFINE new == Len(inbox) + 1
  <2>1. inbox \in Seq(Kinds) /\ fired \in Seq(Nat) /\ Len(fired) = Len(inbox) BY DEF TgTypeOK
  <2>2. /\ Len(inbox') = new /\ inbox' \in Seq(Kinds)
        /\ \A u \in Updates : inbox'[u] = inbox[u] /\ fired'[u] = fired[u]
        /\ fired'[new] = 0
    BY <1>1, <2>1 DEF Arrive
  <2>3. Updates' = 1..new BY <2>2, LenProperties DEF Updates
  <2>4. Updates' = Updates \cup {new} /\ new \notin Updates /\ new \in Nat BY <2>3
  <2>5. \A v \in batch : v < new OBVIOUS
  <2>6. confirmed < new /\ saved <= new /\ offset <= new BY DEF TgTypeOK
  <2> HIDE DEF new
  <2>7. InRound' BY <1>1, <2>4, <2>5 DEF Arrive, InRound
  <2>8. PassedIsCarriedOut' BY <1>1, <2>2, <2>4, <2>6 DEF Arrive, PassedIsCarriedOut
  <2>9. AheadOnlyInRound' BY <1>1, <2>2, <2>4 DEF Arrive, AheadOnlyInRound
  <2> QED BY <2>7, <2>8, <2>9
<1> USE DEF Updates, InRound, PassedIsCarriedOut, AheadOnlyInRound
<1>2. CASE Overlap BY <1>2 DEF Overlap
<1>3. CASE Load BY <1>3 DEF Load
<1>4. CASE PollAnswered
  <2>1. offset = saved /\ confirmed' \in Nat /\ confirmed <= confirmed'
        /\ (confirmed' = confirmed \/ confirmed' = offset - 1)
    BY <1>4 DEF PollAnswered
  <2>2. InRound' BY <1>4, <2>1 DEF PollAnswered
  <2>3. PassedIsCarriedOut' BY <1>4, <2>1 DEF PollAnswered
  <2>4. AheadOnlyInRound' BY <1>4, <2>1 DEF PollAnswered
  <2> QED BY <2>2, <2>3, <2>4
<1>5. CASE PollRefused BY <1>5, Zenon DEF PollRefused
<1>6. CASE PollFailed
  <2>1. offset = saved /\ batch = {} /\ (confirmed' = confirmed \/ confirmed' = offset - 1)
    BY <1>6 DEF PollFailed
  <2> QED BY <1>6, <2>1 DEF PollFailed
<1>7. CASE Handle \/ Raise
  <2>1. First \in batch /\ \A u \in batch : First <= u
    BY <1>7, MinIsLeast DEF First, Handle, Raise
  <2>2. offset' = First + 1 BY <1>7, <2>1 DEF Handle, Raise, NextId
  <2>3. First \in Updates /\ First \in Nat /\ offset <= First BY <2>1
  <2>4. \A u \in Updates :
           /\ fired[u] \in Nat /\ fired'[u] \in Nat
           /\ fired[u] <= fired'[u] /\ fired'[u] <= fired[u] + 1
           /\ u # First => fired'[u] = fired[u]
    <3>1. \/ fired' = fired
          \/ fired' = [fired EXCEPT ![First] = @ + 1]
      BY <1>7 DEF Handle, Raise
    <3> QED BY <2>3, <3>1
  <2>5. CASE Handle
    <3>1. InRound' BY <2>1, <2>2, <2>5, SMTT(60) DEF Handle
    <3>2. ASSUME NEW u \in Updates, inbox[u] # "stranger",
                 u <= confirmed \/ u < saved \/ u < First + 1
          PROVE  fired'[u] > 0
      <4>1. CASE u = First BY <2>3, <2>4, <2>5, <3>2, <4>1 DEF Handle
      <4>2. CASE u # First
        <5>1. u <= confirmed \/ u < saved \/ u < offset
          BY <2>1, <2>3, <2>5, <3>2, <4>2 DEF Handle
        <5>2. fired[u] > 0 BY <2>5, <3>2, <5>1 DEF Handle
        <5> QED BY <2>4, <4>2, <5>2
      <4> QED BY <4>1, <4>2
    <3>3. PassedIsCarriedOut' BY <2>2, <2>5, <3>2 DEF Handle
    <3>4. ASSUME NEW u \in Updates
          PROVE  /\ fired'[u] <= 1 + faults
                 /\ saved <= u /\ First + 1 <= u => fired'[u] <= faults
      <4>1. saved <= First /\ fired[First] <= faults BY <2>3, <2>5 DEF Handle
      <4>2. u # First => fired'[u] <= 1 + faults BY <2>4
      <4>3. u = First => fired'[u] <= 1 + faults BY <2>4, <4>1
      <4>4. saved <= u /\ First + 1 <= u => fired[u] <= faults /\ u # First
        BY <2>3, <2>5 DEF Handle
      <4> QED BY <2>4, <4>2, <4>3, <4>4
    <3>5. AheadOnlyInRound' BY <2>2, <2>5, <3>4 DEF Handle
    <3> QED BY <3>1, <3>3, <3>5
  <2>6. CASE Raise
    <3>1. InRound' BY <2>6 DEF Raise
    <3>2. \A u \in Updates : inbox[u] # "stranger" /\ (u <= confirmed \/ u < saved) => fired'[u] > 0
      BY <2>4
    <3>3. PassedIsCarriedOut' BY <2>6, <3>2 DEF Raise, SavedOnRaise
    <3>4. saved <= First /\ fired[First] <= faults BY <2>3, <2>6 DEF Raise
    <3>5. \A u \in Updates : fired'[u] <= 1 + faults
      <4> SUFFICES ASSUME NEW u \in Updates PROVE fired'[u] <= 1 + faults OBVIOUS
      <4>1. CASE u = First BY <2>3, <2>4, <3>4, <4>1
      <4>2. CASE u # First BY <2>4, <4>2
      <4> QED BY <4>1, <4>2
    <3>6. faults' = faults + 1 BY <2>6 DEF Raise
    <3>7. \A u \in Updates : fired'[u] <= faults' /\ fired'[u] <= 1 + faults'
      BY <2>4, <3>5, <3>6
    <3>8. AheadOnlyInRound' BY <2>6, <3>7 DEF Raise
    <3> QED BY <3>1, <3>3, <3>8
  <2> QED BY <1>7, <2>5, <2>6
<1>8. CASE Save BY <1>8 DEF Save
<1>9. CASE TgCrash BY <1>9 DEF TgCrash
<1>10. CASE UNCHANGED tgVars BY <1>10 DEF tgVars
<1> QED BY <1>1, <1>2, <1>3, <1>4, <1>5, <1>6, <1>7, <1>8, <1>9, <1>10 DEF TgNext, Round

\* The parameters of the run aside, the types hold of every reachable state.
THEOREM TypesHold == TgSafety => []TgTypeOK
<1>1. TgTypeOK /\ [TgNext]_tgVars => TgTypeOK' BY TypeStep
<1> QED BY TypeInit, <1>1, PTL DEF TgSafety

\* The invariant of the poll thread holds throughout.
LEMMA PollInvHolds == TgSafety => []PollInv
<1>1. TgTypeOK /\ PollInv /\ [TgNext]_tgVars => PollInv' BY PollInvStep
<1> QED BY PollInit, TypesHold, <1>1, PTL DEF TgSafety

\* Telegram forgets, and the file passes, only what was carried out, whatever number of
\* updates and faults there is: the order handle, then save, then confirm is enough.
THEOREM NothingIsLost == TgSafety => []NoUpdateLost
<1>1. PollInv => NoUpdateLost BY DEF PollInv, PassedIsCarriedOut, NoUpdateLost
<1> QED BY PollInvHolds, <1>1, PTL

\* An update is carried out at most once more than there were faults.
THEOREM RepeatsPaid == TgSafety => []RepeatsArePaidFor
<1>1. PollInv => RepeatsArePaidFor BY DEF PollInv, AheadOnlyInRound, RepeatsArePaidFor
<1> QED BY PollInvHolds, <1>1, PTL

-----------------------------------------------------------------------------
(* Demotion *)

\* The count of refusals is a count of the last answers.
Streak ==
  /\ conflicts <= Len(answers)
  /\ \A i \in 1..Len(answers) : Len(answers) - conflicts < i => answers[i] = "conflict"

\* Three answers, and three conflicts, are remembered at most.
LEMMA AnswersCounted == ASSUME TgTypeOK PROVE Len(answers) \in 0..3 /\ conflicts \in 0..3
<1> DEFINE len == Len(answers)
<1>1. len \in Nat BY LenProperties DEF TgTypeOK
<1>2. len <= 3 /\ conflicts \in 0..3 BY DEF TgTypeOK, Enough
<1>3. len \in 0..3
  <2> HIDE DEF len
  <2> QED BY <1>1, <1>2
<1> QED BY <1>2, <1>3

\* Every step keeps the count.
LEMMA StreakStep == ASSUME TgTypeOK, Streak, [TgNext]_tgVars PROVE Streak'
<1> DEFINE len == Len(answers)
<1>0. len \in 0..3 /\ conflicts \in 0..3 BY AnswersCounted
<1>1. ASSUME NEW a \in {"ok", "failed"}, Remember(a), conflicts' = 0 PROVE Streak'
  <2>1. Len(answers') \in Nat
    BY <1>0, <1>1, RememberTyped DEF Answers, Enough
  <2> QED BY <1>1, <2>1 DEF Streak
<1>2. CASE PollAnswered BY <1>1, <1>2 DEF PollAnswered, ConflictsAfter
<1>3. CASE PollFailed BY <1>1, <1>3 DEF PollFailed, ConflictsAfter
<1>4. CASE PollRefused
  <2>1. Remember("conflict") /\ conflicts' = conflicts + 1 /\ conflicts < 3
    BY <1>0, <1>4 DEF PollRefused, ConflictsAfter, TgTypeOK, Enough
  <2>2. /\ Len(answers') = (IF len < 3 THEN len + 1 ELSE 3)
        /\ answers'[Len(answers')] = "conflict"
        /\ \A i \in 1..(Len(answers') - 1) : answers'[i] = answers[IF len < 3 THEN i ELSE i + 1]
    BY <2>1, RememberTyped DEF Answers, Enough
  <2>3. /\ conflicts <= len
        /\ \A i \in 1..len : len - conflicts < i => answers[i] = "conflict"
    BY DEF Streak
  <2> DEFINE new == Len(answers')
  <2> HIDE DEF len, new
  <2>4. new = (IF len < 3 THEN len + 1 ELSE 3) BY <2>2 DEF new
  <2>5. ASSUME NEW i \in 1..new, new - (conflicts + 1) < i PROVE answers'[i] = "conflict"
    <3>1. CASE i = new BY <2>2, <3>1 DEF new
    <3>2. CASE i # new
      <4>1. i \in 1..(new - 1) BY <1>0, <2>4, <3>2
      <4>2. answers'[i] = answers[IF len < 3 THEN i ELSE i + 1] BY <2>2, <4>1 DEF new
      <4>3. (IF len < 3 THEN i ELSE i + 1) \in 1..len
            /\ len - conflicts < (IF len < 3 THEN i ELSE i + 1)
        BY <1>0, <2>4, <2>5, <4>1
      <4> QED BY <2>3, <4>2, <4>3
    <3> QED BY <3>1, <3>2
  <2>6. conflicts + 1 <= new BY <1>0, <2>1, <2>3, <2>4
  <2> QED BY <2>1, <2>5, <2>6 DEF Streak, new
<1>5. CASE TgCrash
  <2>1. Len(answers') = 0 BY <1>5, EmptySeq DEF TgCrash
  <2> QED BY <1>5, <2>1 DEF TgCrash, Streak
<1>6. CASE UNCHANGED <<conflicts, answers>> BY <1>6 DEF Streak
<1>7. \/ UNCHANGED <<conflicts, answers>>
      \/ PollAnswered \/ PollFailed \/ PollRefused \/ TgCrash
  BY DEF TgNext, Round, tgVars, Arrive, Overlap, Load, Handle, Raise, Save
<1> QED BY <1>2, <1>3, <1>4, <1>5, <1>6, <1>7

\* A thread that stepped down was refused three times in a row: no restart, no answer and
\* no failed request counts towards it.
THEOREM DemotionEarned == TgSafety => []DemotedByRivals
<1>1. TgInit => Streak
  <2> SUFFICES ASSUME TgInit PROVE Streak OBVIOUS
  <2>1. Len(answers) = 0 /\ conflicts = 0 BY EmptySeq DEF TgInit
  <2> QED BY <2>1 DEF Streak
<1>2. TgTypeOK /\ Streak /\ [TgNext]_tgVars => Streak' BY StreakStep
<1>3. ASSUME TgTypeOK, Streak, place = "demoted" PROVE answers = [i \in 1..Enough |-> "conflict"]
  <2>1. conflicts = 3 BY <1>3 DEF TgTypeOK, Enough
  <2>2. Len(answers) = 3 BY <1>3, <2>1, AnswersCounted DEF Streak
  <2>3. answers \in [1..3 -> Answers] BY <1>3, <2>2, LenProperties DEF TgTypeOK
  <2>4. \A i \in 1..3 : answers[i] = "conflict" BY <1>3, <2>1, <2>2 DEF Streak
  <2> QED BY <2>3, <2>4 DEF Enough
<1>4. TgTypeOK /\ Streak => DemotedByRivals BY <1>3 DEF DemotedByRivals
<1> QED BY <1>1, <1>2, <1>4, TypesHold, PTL DEF TgSafety

-----------------------------------------------------------------------------
(* The office relay *)

\* A message was on the topic before now, and a snapshot was no older than the window when it landed.
RelayIInv ==
  /\ RelayTypeOK
  /\ \A x \in relay : x.arrived <= relayTime
  /\ \A m \in Machines : \A f \in relayFile[m] :
       f.arrived <= f.mtime /\ f.mtime <= relayTime /\ f.mtime - f.arrived <= TopicWindow

\* What a poll takes is one of the messages in the window, newer than the file, and lands as it is.
LEMMA PullWrites ==
  ASSUME RelayIInv, NEW done \in SUBSET Machines, Pull(done), NEW m \in Machines
  PROVE  \/ relayFile'[m] = relayFile[m]
         \/ \E x \in Fetched(m) : Takes(x, m) /\ relayFile'[m] = Landed(x) /\ x \in Messages
<1>1. CASE m \in done /\ \E x \in relay : Takes(x, m)
  <2> DEFINE x == CHOOSE y \in relay : Takes(y, m)
  <2>1. x \in relay /\ Takes(x, m) BY <1>1
  <2>2. relayFile'[m] = Landed(x) BY <1>1 DEF Pull
  <2> HIDE DEF x
  <2>3. x \in Fetched(m) /\ x \in Messages BY <2>1 DEF Takes, IsBest, RelayIInv, RelayTypeOK
  <2> QED BY <2>1, <2>2, <2>3
<1>2. CASE ~(m \in done /\ \E x \in relay : Takes(x, m)) BY <1>2 DEF Pull
<1> QED BY <1>1, <1>2

\* What lands is a snapshot of the message that was fetched.
LEMMA LandedTyped ==
  ASSUME RelayIInv, NEW m \in Machines, NEW x \in Fetched(m), x \in Messages
  PROVE  /\ Landed(x) \subseteq Snapshots
         /\ \A f \in Landed(x) :
              /\ f.seq = x.seq /\ f.arrived = x.arrived /\ f.mtime = relayTime
              /\ f.arrived <= f.mtime /\ f.mtime - f.arrived <= TopicWindow
<1>1. relayTime \in Nat /\ x.arrived \in Nat /\ x.arrived <= relayTime
  BY RelayAssumption DEF RelayIInv, RelayTypeOK, Messages, Fetched
<1>2. relayTime - x.arrived <= TopicWindow BY DEF Fetched
<1> QED BY <1>1, <1>2 DEF Landed, Snapshots, Messages

\* The relay's types and times hold at every step.
LEMMA RelayStepInv == ASSUME RelayIInv, [RelayNext]_relayVars PROVE RelayIInv'
<1> USE DEF RelayIInv, RelayTypeOK
<1>0. /\ relayTime \in Nat /\ MaxRelayTime \in Nat /\ TopicWindow \in Nat
      /\ repeats \in Nat /\ MaxRepeats \in Nat /\ setbacks \in Nat /\ MaxSetbacks \in Nat
  BY RelayAssumption
<1>1. CASE RelayTick
  BY <1>0, <1>1 DEF RelayTick, Messages, Snapshots
<1>2. ASSUME NEW m \in Machines, NEW s \in SeatStatuses, Push(m, s) PROVE RelayIInv'
  <2> DEFINE x == [machine |-> m, seq |-> relayTime - lag[m], status |-> s,
                   pushed |-> relayTime, arrived |-> relayTime]
  <2>1. x \in Messages /\ x.arrived = relayTime BY <1>0 DEF Messages
  <2>2. relay' = relay \cup {x} BY <1>2 DEF Push
  <2> HIDE DEF x
  <2> QED BY <1>0, <1>2, <2>1, <2>2 DEF Push
<1>3. ASSUME NEW m \in Machines, SetBack(m) PROVE RelayIInv'
  <2>1. lag' \in [Machines -> Nat] BY <1>3 DEF SetBack
  <2>2. setbacks' \in 0..MaxSetbacks BY <1>0, <1>3 DEF SetBack
  <2> QED BY <1>3, <2>1, <2>2 DEF SetBack
<1>4. ASSUME NEW x \in relay, Lose(x) PROVE RelayIInv' BY <1>4 DEF Lose
<1>5. ASSUME NEW x \in relay, Repeat(x) PROVE RelayIInv'
  <2>1. x \in Messages OBVIOUS
  <2>2. [x EXCEPT !.arrived = relayTime] \in Messages /\ [x EXCEPT !.arrived = relayTime].arrived = relayTime
    BY <1>0, <2>1 DEF Messages
  <2> DEFINE y == [x EXCEPT !.arrived = relayTime]
  <2>3. relay' = relay \cup {y} BY <1>5 DEF Repeat
  <2> HIDE DEF y
  <2>4. y \in Messages /\ y.arrived = relayTime BY <2>2 DEF y
  <2>5. repeats' \in 0..MaxRepeats BY <1>0, <1>5 DEF Repeat
  <2> QED BY <1>0, <1>5, <2>3, <2>4, <2>5 DEF Repeat
<1>6. ASSUME NEW done \in SUBSET Machines, Pull(done) PROVE RelayIInv'
  <2>1. ASSUME NEW m \in Machines
        PROVE  /\ relayFile'[m] \subseteq Snapshots
               /\ \A f, g \in relayFile'[m] : f = g
               /\ \A f \in relayFile'[m] :
                    f.arrived <= f.mtime /\ f.mtime <= relayTime /\ f.mtime - f.arrived <= TopicWindow
    <3>1. CASE relayFile'[m] = relayFile[m] BY <3>1
    <3>2. ASSUME NEW x \in Fetched(m), relayFile'[m] = Landed(x), x \in Messages
          PROVE  /\ relayFile'[m] \subseteq Snapshots /\ \A f, g \in relayFile'[m] : f = g
                 /\ \A f \in relayFile'[m] :
                      f.arrived <= f.mtime /\ f.mtime <= relayTime /\ f.mtime - f.arrived <= TopicWindow
      <4>1. \A f, g \in Landed(x) : f = g BY DEF Landed
      <4> QED BY <1>0, <3>2, <4>1, LandedTyped
    <3> QED BY <1>6, <3>1, <3>2, PullWrites
  <2>2. relayFile' \in [Machines -> SUBSET Snapshots] BY <1>6, <2>1 DEF Pull
  <2> QED BY <1>6, <2>1, <2>2 DEF Pull
<1>7. CASE UNCHANGED relayVars BY <1>7 DEF relayVars
<1> QED BY <1>1, <1>2, <1>3, <1>4, <1>5, <1>6, <1>7 DEF RelayNext

\* A step replaces a machine's snapshot by a newer one only, the newest the poll saw.
LEMMA FilesMoveForward ==
  ASSUME RelayIInv, [RelayNext]_relayVars, NEW m \in Machines
  PROVE  /\ \A f \in relayFile[m], g \in relayFile'[m] : f # g => g.seq > f.seq
         /\ relayFile'[m] # relayFile[m] =>
              \E g \in relayFile'[m] : \A x \in Fetched(m) : x.seq <= g.seq
<1>1. CASE relayFile' = relayFile BY <1>1 DEF RelayIInv, RelayTypeOK
<1>2. ASSUME NEW done \in SUBSET Machines, Pull(done),
             NEW x \in Fetched(m), Takes(x, m), relayFile'[m] = Landed(x), x \in Messages
      PROVE  /\ \A f \in relayFile[m], g \in relayFile'[m] : g.seq > f.seq
             /\ \E g \in relayFile'[m] : \A y \in Fetched(m) : y.seq <= g.seq
  <2>1. \A g \in relayFile'[m] : g.seq = x.seq BY <1>2, LandedTyped
  <2>2. relayFile'[m] # {} BY <1>2 DEF Landed
  <2>3. \A f \in relayFile[m] : x.seq > f.seq BY <1>2 DEF Takes, Newer
  <2>4. \A y \in Fetched(m) : y.seq <= x.seq
    BY <1>2 DEF Takes, IsBest, Fetched, RelayIInv, RelayTypeOK, Messages
  <2> QED BY <2>1, <2>2, <2>3, <2>4
<1>3. ASSUME NEW done \in SUBSET Machines, Pull(done)
      PROVE  \/ relayFile'[m] = relayFile[m]
             \/ /\ \A f \in relayFile[m], g \in relayFile'[m] : g.seq > f.seq
                /\ \E g \in relayFile'[m] : \A y \in Fetched(m) : y.seq <= g.seq
  BY <1>2, <1>3, PullWrites
<1> QED
  BY <1>1, <1>3 DEF RelayNext, RelayTick, Push, SetBack, Lose, Repeat, relayVars, RelayIInv, RelayTypeOK

\* An empty topic and no file: nothing can be too old.
LEMMA RelayBegins == RelayInit => RelayIInv
  BY RelayAssumption DEF RelayInit, RelayIInv, RelayTypeOK, Messages, Snapshots

\* The times and types of the relay hold throughout.
THEOREM RelayInvariance == RelaySpec => []RelayIInv
<1>1. RelayInit => RelayIInv BY RelayBegins
<1>2. RelayIInv /\ [RelayNext]_relayVars => RelayIInv' BY RelayStepInv
<1> QED BY <1>1, <1>2, PTL DEF RelaySpec

\* office.py's stale override bounds how late a machine is shown as running: what the file says was
\* on the topic at most a window before it landed, and it landed at most a stale time ago.
THEOREM FalseRunningEnds == RelaySpec => []FalseRunningIsBounded
<1>1. RelayIInv => FalseRunningIsBounded
  <2> SUFFICES ASSUME RelayIInv, NEW m \in Machines, NEW f \in relayFile[m], ~IsStale(f)
               PROVE  relayTime - f.arrived <= TopicWindow + Stale
    BY DEF FalseRunningIsBounded
  <2>1. f \in Snapshots BY DEF RelayIInv, RelayTypeOK
  <2>2. f.arrived \in Nat /\ f.mtime \in Nat /\ relayTime \in Nat /\ f.mtime - f.arrived <= TopicWindow
    BY <2>1 DEF RelayIInv, RelayTypeOK, Snapshots
  <2>3. relayTime - f.mtime <= Stale BY <2>2, RelayAssumption DEF IsStale
  <2> QED BY <2>2, <2>3, RelayAssumption
<1> QED BY <1>1, RelayInvariance, PTL

\* _office_pull_once and the replay baseline: what replaces a snapshot has a higher number, and is
\* the newest of what the poll was given.
THEOREM SnapshotsAdvance == RelaySpec => ReplayChangesNothing /\ PollTakesTheNewest
<1> DEFINE Advance == \A m \in Machines : \A f \in relayFile[m], g \in relayFile'[m] : f # g => g.seq > f.seq
           Newest == \A m \in Machines : relayFile'[m] # relayFile[m] =>
                       \E g \in relayFile'[m] : \A x \in Fetched(m) : x.seq <= g.seq
<1>1. RelayIInv /\ [RelayNext]_relayVars => [Advance]_relayVars BY FilesMoveForward
<1>2. RelayIInv /\ [RelayNext]_relayVars => [Newest]_relayVars BY FilesMoveForward
<1> QED BY <1>1, <1>2, RelayInvariance, PTL DEF RelaySpec, ReplayChangesNothing, PollTakesTheNewest

-----------------------------------------------------------------------------
(* The server: what each thread sees of its steps *)

\* To each thread a step of the server is a step of its own or none: they share no state.
LEMMA StepsAreOfOne ==
  [ThreadsNext]_serverVars => [TgNext]_tgVars /\ [RelayNext]_relayVars /\ [PresetNext]_launchVars
BY DEF ThreadsNext, PollStep, RelayStep, LaunchStep, serverVars

\* So the server behaves, to each of the three, as that thread's own specification says.
THEOREM ThreadsAreThemselves == ThreadsSpec => TgSafety /\ RelaySpec /\ PresetSpec
<1>1. ThreadsInit => TgInit /\ RelayInit /\ PresetInit BY DEF ThreadsInit
<1>2. [ThreadsNext]_serverVars => [TgNext]_tgVars BY StepsAreOfOne
<1>3. [ThreadsNext]_serverVars => [RelayNext]_relayVars BY StepsAreOfOne
<1>4. [ThreadsNext]_serverVars => [PresetNext]_launchVars BY StepsAreOfOne
<1> QED BY <1>1, <1>2, <1>3, <1>4, PTL DEF ThreadsSpec, TgSafety, RelaySpec, PresetSpec

\* The types of the poll, the relay and the launches; among them that the poll steps down after three
\* refusals in a row and no sooner, and that a launch keeps the write lock to the end of its spawns.
THEOREM ServerTypes == ThreadsSpec => []ThreadTypes
<1>1. RelaySpec => []RelayTypeOK BY RelayInvariance, PTL DEF RelayIInv
<1> QED BY <1>1, ThreadsAreThemselves, TypesHold, LaunchTypes, PTL DEF ThreadTypes

\* telegram_control.py's offset in the server: no tap or text of the owner is skipped.
THEOREM NoUpdateIsLost == ThreadsSpec => []NoUpdateLost
BY ThreadsAreThemselves, NothingIsLost, PTL

\* In the server too a tap is handled twice only when its offset could not be saved.
THEOREM RepeatsPaidInServer == ThreadsSpec => []RepeatsArePaidFor
BY ThreadsAreThemselves, RepeatsPaid, PTL

\* In the server too the poll steps down only for a rival, three times in a row.
THEOREM DemotedInServer == ThreadsSpec => []DemotedByRivals
BY ThreadsAreThemselves, DemotionEarned, PTL

\* The snapshots of the relay in the server: replays change nothing, polls take the newest, and a
\* false "running" ends.
THEOREM SnapshotsInServer == ThreadsSpec => SnapshotsMoveForward
BY ThreadsAreThemselves, FalseRunningEnds, SnapshotsAdvance, PTL DEF SnapshotsMoveForward

\* monitor.py's launches in the server, for a bind window that is not zero: one pane to an agent, its
\* own session bound, "retryable" only of a session nobody could see, and settled rows final.
THEOREM LaunchesInServer == ASSUME BindWindow > 0 PROVE ThreadsSpec => LaunchesAreSound
<1>1. PresetSpec => []RetryableWasMissing BY NothingSeenIsGivenUp
<1> QED BY <1>1, ThreadsAreThemselves, OnePaneEach, BindingsAreOwn, SettledStaysSettled, PTL
        DEF LaunchesAreSound
=============================================================================
