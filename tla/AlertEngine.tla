---------------------------- MODULE AlertEngine ----------------------------
(***************************************************************************)
(* The alert loop of the dashboard server (alert_loop): every cycle it     *)
(* looks at the sessions, compares what it sees with what it stored in     *)
(* SQLite the cycle before, pushes a message to the phone for what changed *)
(* and stores what it saw.  Four stages run one after the other, each in a *)
(* transaction of its own: local sessions, permission-mode flips, handoff  *)
(* offers, relayed sessions.                                               *)
(*                                                                         *)
(* A message leaves inside the open transaction, before the row that       *)
(* remembers it is committed.  A stage that raises (the database is locked *)
(* by another thread, the process stops) loses its rows but not what it    *)
(* has sent.  Messages are therefore kept in three sets: of the open       *)
(* transaction, of committed ones, of those that were rolled back.         *)
(***************************************************************************)
EXTENDS Integers, Sequences, FiniteSets

CONSTANTS
  Local,    \* sessions of this machine
  Relayed,  \* sessions shown by the office relay
  Sights,   \* what there is to see of a session: its status, its permission mode ("" when
            \* unknown), whether its context fill is over the handoff threshold
  Cooldown, \* quiet_realert_hours
  MaxTime,  \* bound on the clock
  MaxFails  \* bound on stages that raise

Sessions == Local \cup Relayed
Statuses == {"running", "idle", "stopped", "stale", "waiting:question", "waiting:plan"}

ASSUME AlertAssumption ==
  /\ Local \cap Relayed = {}
  /\ Sights \subseteq [status : Statuses, pmode : STRING, hot : BOOLEAN]
  /\ Cooldown \in Nat \ {0} /\ MaxTime \in Nat /\ MaxFails \in Nat

VARIABLES
  now,       \* the server's clock
  live,      \* what there is to see of each session that exists
  stage,     \* where the loop is, "asleep" between cycles
  lastCycle, \* when the last cycle began
  rows,      \* the rows of the current stage, as they were collected
  todo,      \* the sessions the stage still has to look at
  db,        \* the committed tables
  work,      \* the tables as the open transaction sees them
  sent,      \* messages sent by the open transaction
  kept,      \* messages of committed transactions
  stray,     \* messages of transactions that were rolled back
  log,       \* the rows each committed stage saw (history)
  fails      \* how many stages have raised

vars == <<now, live, stage, lastCycle, rows, todo, db, work, sent, kept, stray, log, fails>>

Waits  == {"waiting:question", "waiting:plan"}
Stages == {"local", "flips", "offers", "relayed"}
Kinds  == {"quiet", "waiting:question", "waiting:plan", "flip", "offer"}
Never  == -1

\* The tables sessions, mode_flips and handoff_offers; a missing row is the empty set.
SessionRows == [state : Statuses, alerted : BOOLEAN, quiet : Int]
FlipRows    == [pmode : STRING, notified : BOOLEAN]
Tables == [sessions : [Sessions -> SUBSET SessionRows],
           flips    : [Sessions -> SUBSET FlipRows],
           offered  : [Sessions -> BOOLEAN]]
Messages == [session : Sessions, kind : Kinds, at : Nat]

TypeOK ==
  /\ now \in 0..MaxTime /\ lastCycle \in -1..MaxTime /\ fails \in 0..MaxFails
  /\ \A s \in DOMAIN live : live[s] \in Sights
  /\ DOMAIN live \subseteq Sessions
  /\ stage \in Stages \cup {"asleep"}
  /\ DOMAIN rows \subseteq Sessions /\ \A s \in DOMAIN rows : rows[s] \in Sights
  /\ todo \subseteq DOMAIN rows
  /\ db \in Tables /\ work \in Tables
  /\ \A t \in {db, work} : \A s \in Sessions :
        /\ \A x, y \in t.sessions[s] : x = y
        /\ \A x, y \in t.flips[s] : x = y
  /\ sent \subseteq Messages /\ kept \subseteq Messages /\ stray \subseteq Messages
  /\ \A g \in Stages, s \in Sessions :
        \A i \in 1..Len(log[g][s]) : log[g][s][i] \in [at : Nat, saw : Sights]

Nothing == [s \in {} |-> {}]

Init ==
  /\ now = 0 /\ lastCycle = -1 /\ fails = 0
  /\ live = Nothing /\ stage = "asleep" /\ rows = Nothing /\ todo = {}
  /\ db = [sessions |-> [s \in Sessions |-> {}], flips |-> [s \in Sessions |-> {}],
           offered |-> [s \in Sessions |-> FALSE]]
  /\ work = db
  /\ sent = {} /\ kept = {} /\ stray = {}
  /\ log = [g \in Stages |-> [s \in Sessions |-> <<>>]]

\* A session starts, changes, or is no longer listed.
Change(s) ==
  /\ \/ \E v \in Sights : live' = [r \in DOMAIN live \cup {s} |-> IF r = s THEN v ELSE live[r]]
     \/ live' = [r \in DOMAIN live \ {s} |-> live[r]]
  /\ UNCHANGED <<now, stage, lastCycle, rows, todo, db, work, sent, kept, stray, log, fails>>

\* A cycle takes no time on the scale of the cooldown.
Tick ==
  /\ now < MaxTime /\ now' = now + 1 /\ stage = "asleep"
  /\ UNCHANGED <<live, stage, lastCycle, rows, todo, db, work, sent, kept, stray, log, fails>>

-----------------------------------------------------------------------------
(* What the stages send *)

\* The wait reason is part of the stored state, so a new reason is a change.  Faulty
\* variant: the state before is not looked at.
WaitAgain(row, state) == state \in Waits
WaitIsNews(row, state) == state \in Waits /\ state # row.state

QuietIsNews(row, state) ==
  /\ state = "stopped" /\ ~row.alerted /\ row.state \in {"running", "idle"}
  /\ row.quiet = Never \/ now - row.quiet >= Cooldown

\* detect_and_notify_flips: the mode a session is first seen in is no flip.
FlipIsNews(s, pmode) ==
  /\ pmode = "acceptEdits"
  /\ \E r \in work.flips[s] : r.pmode # "acceptEdits" /\ ~r.notified

\* detect_and_offer_handoff.
IsHot(v) == v.hot /\ v.status \in {"stopped", "waiting:question", "waiting:plan"}

\* The kind of message the current stage sends for a row, at most one.
News(s, v) ==
  CASE stage = "flips"  -> {k \in {"flip"} : FlipIsNews(s, v.pmode)}
    [] stage = "offers" -> {k \in {"offer"} : IsHot(v) /\ ~work.offered[s]}
    [] OTHER -> {k \in Waits : k = v.status /\ \E r \in work.sessions[s] : WaitIsNews(r, k)}
                  \cup {k \in {"quiet"} : \E r \in work.sessions[s] : QuietIsNews(r, v.status)}

-----------------------------------------------------------------------------
(* What the stages store *)

\* A session first seen stopped is marked as alerted, and none is announced.
FirstRow(state) == [state |-> state, alerted |-> state = "stopped", quiet |-> Never]

\* Faulty variant: the time of the last quiet alert is forgotten when the session runs.
NextRowFresh(row, state) ==
  [state |-> state,
   alerted |-> state # "running" /\ (row.alerted \/ QuietIsNews(row, state)),
   quiet |-> IF QuietIsNews(row, state) THEN now ELSE IF state = "running" THEN Never ELSE row.quiet]
NextRow(row, state) ==
  [state |-> state,
   alerted |-> state # "running" /\ (row.alerted \/ QuietIsNews(row, state)),
   quiet |-> IF QuietIsNews(row, state) THEN now ELSE row.quiet]

\* INSERT for a session that has no row, UPDATE otherwise.
SessionsAfter(s, state) ==
  {r \in {FirstRow(state)} : work.sessions[s] = {}} \cup {NextRow(r, state) : r \in work.sessions[s]}

FlipsAfter(s, pmode) ==
  {[pmode |-> pmode,
    notified |-> pmode = "acceptEdits"
                   /\ (FlipIsNews(s, pmode) \/ \E r \in work.flips[s] : r.notified)]}

\* The offer is armed again whenever the session is not hot.
OfferedAfter(s, v) == IsHot(v)

\* A row of unknown mode is skipped by the flip stage.
Stored(s, v) ==
  CASE stage = "flips"  -> IF v.pmode = "" THEN work
                           ELSE [work EXCEPT !.flips[s] = FlipsAfter(s, v.pmode)]
    [] stage = "offers" -> [work EXCEPT !.offered[s] = OfferedAfter(s, v)]
    [] OTHER -> [work EXCEPT !.sessions[s] = SessionsAfter(s, v.status)]

-----------------------------------------------------------------------------
(* The cycle *)

Seen(who) == [s \in DOMAIN live \cap who |-> live[s]]

\* A stage begins with its rows: the flip and offer stages work on the rows the
\* local stage collected, the relayed stage collects its own.
Enter(g) ==
  LET view == CASE g = "local" -> Seen(Local)
                [] g = "relayed" -> Seen(Relayed)
                [] g = "asleep" -> Nothing
                [] OTHER -> rows
  IN /\ stage' = g /\ rows' = view /\ todo' = DOMAIN view

After == [local |-> "flips", flips |-> "offers", offers |-> "relayed", relayed |-> "asleep"]

\* Faulty variant: an exception ends the loop.
StartUnlessFailed ==
  /\ stage = "asleep" /\ lastCycle < now /\ fails = 0
  /\ lastCycle' = now
  /\ Enter("local")
  /\ UNCHANGED <<now, live, db, work, sent, kept, stray, log, fails>>
StartCycle ==
  /\ stage = "asleep" /\ lastCycle < now
  /\ lastCycle' = now
  /\ Enter("local")
  /\ UNCHANGED <<now, live, db, work, sent, kept, stray, log, fails>>

Out(s) == {[session |-> s, kind |-> k, at |-> now] : k \in News(s, rows[s])}

\* One row: the message leaves first, then the row is written.
Handle(s) ==
  /\ s \in todo
  /\ sent' = sent \cup Out(s)
  /\ work' = Stored(s, rows[s])
  /\ todo' = todo \ {s}
  /\ UNCHANGED <<now, live, stage, lastCycle, rows, db, kept, stray, log, fails>>

Committed == work

Commit ==
  /\ stage # "asleep" /\ todo = {}
  /\ db' = Committed /\ work' = Committed
  /\ kept' = kept \cup sent /\ sent' = {}
  /\ log' = [log EXCEPT ![stage] = [s \in Sessions |->
                IF s \in DOMAIN rows THEN Append(@[s], [at |-> now, saw |-> rows[s]]) ELSE @[s]]]
  /\ Enter(After[stage])
  /\ UNCHANGED <<now, live, lastCycle, stray, fails>>

\* A write or the commit raises, or the server is restarted: the transaction is
\* rolled back, what was sent stays sent, possibly a message for the row at hand.  The
\* flip and offer stages catch their errors; elsewhere the cycle ends.
Raise ==
  /\ stage # "asleep" /\ fails < MaxFails /\ fails' = fails + 1
  /\ \E out \in {{}} \cup {Out(s) : s \in todo} : stray' = stray \cup sent \cup out
  /\ sent' = {} /\ work' = db
  /\ \/ Enter("asleep")
     \/ stage \in {"flips", "offers"} /\ Enter(After[stage])
  /\ UNCHANGED <<now, live, lastCycle, db, kept, log>>

Step == StartCycle \/ (\E s \in todo : Handle(s)) \/ Commit

Next == Step \/ Raise \/ Tick \/ \E s \in Sessions : Change(s)

Spec == Init /\ [][Next]_vars

\* The loop never dies and its clock goes on; a unit of time is no shorter than
\* poll_seconds, so each has its cycle.
FairNext == Next /\ (now' # now => lastCycle = now)
FairSpec == Init /\ [][FairNext]_vars /\ WF_vars(Step) /\ WF_vars(Tick)

-----------------------------------------------------------------------------
(* The messages a history of looks calls for.  Cycles that fail leave no    *)
(* trace in it: the next cycle compares with the last one that committed.   *)

Of(messages, s, k) == {m.at : m \in {x \in messages : x.session = s /\ x.kind = k}}
Rows(s) == log[IF s \in Local THEN "local" ELSE "relayed"][s]
Status(s, i) == Rows(s)[i].saw.status
Steps(s) == 2..Len(Rows(s))

\* Of the committed cycles, exactly those in which a session was found waiting for a
\* reason that was not the reason before have announced that reason.
WaitsAnnounced ==
  \A s \in Sessions, k \in Waits :
    Of(kept, s, k) = {Rows(s)[i].at : i \in {j \in Steps(s) : Status(s, j) = k /\ Status(s, j - 1) # k}}

\* A quiet alert is about a session found stopped that was running or idle at the
\* look before; two of one session are the cooldown apart, with a run in between.
QuietPaced ==
  \A s \in Sessions :
    /\ \A t \in Of(kept, s, "quiet") : \E i \in Steps(s) :
         Rows(s)[i].at = t /\ Status(s, i) = "stopped" /\ Status(s, i - 1) \in {"running", "idle"}
    /\ \A t, u \in Of(kept, s, "quiet") : t < u =>
         /\ u - t >= Cooldown
         /\ \E i \in Steps(s) : t < Rows(s)[i].at /\ Rows(s)[i].at < u /\ Status(s, i) = "running"

\* A session found stopped after it was found running has been reported, now or less
\* than the cooldown ago.
StopsAreReported ==
  \A s \in Sessions : \A i \in Steps(s) :
    Status(s, i) = "stopped" /\ Status(s, i - 1) = "running" =>
      \E t \in Of(kept, s, "quiet") : t <= Rows(s)[i].at /\ Rows(s)[i].at - t < Cooldown

\* A flip is announced exactly when a known mode other than acceptEdits became it; a look that did
\* not find the mode is passed over.
Mode(s, i) == log["flips"][s][i].saw.pmode
BecameAcceptEdits(s, j) ==
  /\ Mode(s, j) = "acceptEdits"
  /\ \E i \in 1..(j - 1) : /\ Mode(s, i) \notin {"", "acceptEdits"}
                           /\ \A m \in (i + 1)..(j - 1) : Mode(s, m) = ""
FlipsAnnounced ==
  \A s \in Local :
    Of(kept, s, "flip") =
      {log["flips"][s][j].at : j \in {i \in 1..Len(log["flips"][s]) : BecameAcceptEdits(s, i)}}

\* A handoff is offered exactly when a session became hot: full and halted.
OffersMade ==
  \A s \in Local : LET l == log["offers"][s] IN
    Of(kept, s, "offer") =
      {l[i].at : i \in {j \in 1..Len(l) : IsHot(l[j].saw) /\ (j = 1 \/ ~IsHot(l[j - 1].saw))}}

\* Each kind of change the loop announces is announced exactly when it happened between two
\* committed cycles: waits, flips of the permission mode, and sessions to hand over.
ChangesAreAnnounced == WaitsAnnounced /\ FlipsAnnounced /\ OffersMade

\* The cooldown of the quiet alert thins the alerts of a session that comes and goes and
\* swallows none for longer.
QuietIsPacedNotLost == QuietPaced /\ StopsAreReported

\* A wait that the table does not show yet gets into it, by a cycle that announces it
\* (WaitsAnnounced), unless the session moves on first: a cycle that fails delays an
\* announcement and never swallows it.
StandingWaitIsAnnounced ==
  \A s \in Sessions, k \in Waits :
    (/\ s \in DOMAIN live /\ live[s].status = k /\ now + MaxFails < MaxTime
     /\ \E r \in db.sessions[s] : r.state # k)
      ~> (\/ s \notin DOMAIN live \/ live[s].status # k
          \/ \E r \in db.sessions[s] : r.state = k)

-----------------------------------------------------------------------------
(* What the comments say *)

Sent == sent \cup kept \cup stray

\* update_and_alert: "fire ONE ntfy alert on a running/idle -> stopped transition".
OneAlertPerStop ==
  \A s \in Sessions : \A t, u \in Of(Sent, s, "quiet") : t < u => u - t >= Cooldown
=============================================================================
