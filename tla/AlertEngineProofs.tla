------------------------- MODULE AlertEngineProofs -------------------------
(***************************************************************************)
(* What AlertEngine announces, for every set of sessions, every cooldown   *)
(* and any number of cycles that fail: each change between two looks that  *)
(* were committed, once, and no quiet alert sooner than the cooldown.  The *)
(* tables hold what the last committed look of their stage saw, and what   *)
(* the open transaction has sent is what it will have stored.              *)
(***************************************************************************)
EXTENDS AlertEngine, TLAPS

-----------------------------------------------------------------------------
(* The invariant *)

Looks == [at : Nat, saw : Sights]

AlertTypes ==
  /\ TypeOK
  /\ now \in Nat /\ lastCycle \in Int /\ lastCycle <= now
  /\ rows = [s \in DOMAIN rows |-> rows[s]] /\ live = [s \in DOMAIN live |-> live[s]]
  /\ log \in [Stages -> [Sessions -> Seq(Looks)]]
  /\ \A m \in kept : m.at <= now

\* The stages that are yet to run in this cycle, the current one among them.
Ahead(g) ==
  \/ stage = "local"
  \/ stage = "flips" /\ g # "local"
  \/ stage = "offers" /\ g \in {"offers", "relayed"}
  \/ stage = "relayed" /\ g = "relayed"

\* A cycle looks at sessions of one kind at a time, and each stage once: its looks are in order.
StageOK ==
  /\ stage = "asleep" => DOMAIN rows = {}
  /\ stage \in {"local", "flips", "offers"} => DOMAIN rows \subseteq Local
  /\ stage = "relayed" => DOMAIN rows \subseteq Relayed
  /\ stage # "asleep" => lastCycle = now
  /\ \A g \in Stages, s \in Sessions : \A i \in 1..Len(log[g][s]) :
       /\ log[g][s][i].at <= lastCycle
       /\ Ahead(g) => log[g][s][i].at < now
       /\ \A j \in 1..(i - 1) : log[g][s][j].at < log[g][s][i].at

\* What a stage is to send and to store for a session, by the committed tables.
NewsOf(s) ==
  CASE stage = "flips"  -> {k \in {"flip"} : rows[s].pmode = "acceptEdits"
                              /\ \E r \in db.flips[s] : r.pmode # "acceptEdits" /\ ~r.notified}
    [] stage = "offers" -> {k \in {"offer"} : IsHot(rows[s]) /\ ~db.offered[s]}
    [] OTHER -> {k \in Waits : k = rows[s].status /\ \E r \in db.sessions[s] : WaitIsNews(r, k)}
                  \cup {k \in {"quiet"} : \E r \in db.sessions[s] : QuietIsNews(r, rows[s].status)}

Done == DOMAIN rows \ todo

SessionsNext(s) ==
  {r \in {FirstRow(rows[s].status)} : db.sessions[s] = {}}
    \cup {NextRow(r, rows[s].status) : r \in db.sessions[s]}

FlipsNext(s) ==
  IF rows[s].pmode = "" THEN db.flips[s]
  ELSE {[pmode |-> rows[s].pmode,
         notified |-> rows[s].pmode = "acceptEdits"
                        /\ \/ \E r \in db.flips[s] : r.pmode # "acceptEdits" /\ ~r.notified
                           \/ \E r \in db.flips[s] : r.notified]}

\* The open transaction has sent and stored what it was to for the rows it is done with, and nothing
\* for the others.
OpenOK ==
  /\ sent = {m \in Messages : m.session \in Done /\ m.kind \in NewsOf(m.session) /\ m.at = now}
  /\ stage = "asleep" => work = db
  /\ \A s \in Sessions :
       /\ work.sessions[s] = IF stage \in {"local", "relayed"} /\ s \in Done THEN SessionsNext(s) ELSE db.sessions[s]
       /\ work.flips[s] = IF stage = "flips" /\ s \in Done THEN FlipsNext(s) ELSE db.flips[s]
       /\ work.offered[s] = IF stage = "offers" /\ s \in Done THEN IsHot(rows[s]) ELSE db.offered[s]

\* The row of a session holds its last look, and when it was last alerted.
RowOK(s, r) ==
  /\ db.sessions[s] = {r} /\ Len(Rows(s)) > 0 /\ r.state = Status(s, Len(Rows(s)))
  /\ r.state = "running" => ~r.alerted
  /\ r.quiet = Never => Of(kept, s, "quiet") = {}
  /\ r.quiet # Never => r.quiet \in Of(kept, s, "quiet") /\ \A t \in Of(kept, s, "quiet") : t <= r.quiet
  /\ ~r.alerted /\ r.quiet # Never => \E i \in Steps(s) : r.quiet < Rows(s)[i].at /\ Status(s, i) = "running"

SessionsOK ==
  \A s \in Sessions : /\ db.sessions[s] = {} => Len(Rows(s)) = 0
                      /\ \A r \in db.sessions[s] : RowOK(s, r)

\* The row of the flips holds the last mode that was known.
NoneKnown(s) == \A i \in 1..Len(log["flips"][s]) : Mode(s, i) = ""
LastKnown(s, pmode) ==
  \E i \in 1..Len(log["flips"][s]) :
    Mode(s, i) = pmode /\ \A m \in (i + 1)..Len(log["flips"][s]) : Mode(s, m) = ""
FlipsOK ==
  \A s \in Sessions :
    /\ db.flips[s] = {} => NoneKnown(s)
    /\ \A r \in db.flips[s] : /\ db.flips[s] = {r} /\ r.pmode # "" /\ (r.notified => r.pmode = "acceptEdits")
                              /\ LastKnown(s, r.pmode)

OffersOK ==
  \A s \in Sessions : LET l == log["offers"][s] IN
    db.offered[s] <=> Len(l) > 0 /\ IsHot(l[Len(l)].saw)

AlertIInv ==
  /\ AlertTypes /\ StageOK /\ OpenOK /\ SessionsOK /\ FlipsOK /\ OffersOK
  /\ ChangesAreAnnounced /\ QuietIsPacedNotLost

\* The engine starts asleep, with nothing sent, noted or kept.
LEMMA AlertBegins == Init => AlertIInv
<1> SUFFICES ASSUME Init PROVE AlertIInv OBVIOUS
<1>0. DOMAIN live = {} /\ DOMAIN rows = {} /\ \A g \in Stages, s \in Sessions : log[g][s] = <<>> /\ Len(log[g][s]) = 0
  BY DEF Init, Nothing
<1>1. /\ db \in Tables /\ work = db /\ stage = "asleep" /\ sent = {} /\ kept = {} /\ stray = {}
      /\ \A s \in Sessions : db.sessions[s] = {} /\ db.flips[s] = {} /\ ~db.offered[s]
  BY DEF Init, Tables
<1>2. TypeOK
  <2>1. now \in 0..MaxTime /\ lastCycle \in -1..MaxTime /\ fails \in 0..MaxFails /\ todo = {}
    BY AlertAssumption DEF Init
  <2> QED BY <1>0, <1>1, <2>1 DEF TypeOK
<1>3. AlertTypes
  <2>1. rows = [s \in DOMAIN rows |-> rows[s]] /\ live = [s \in DOMAIN live |-> live[s]] BY DEF Init, Nothing
  <2>2. log \in [Stages -> [Sessions -> Seq(Looks)]] BY DEF Init
  <2> QED BY <1>1, <1>2, <2>1, <2>2 DEF AlertTypes, Init
<1>4. StageOK BY <1>0, <1>1 DEF StageOK, Stages
<1>5. OpenOK BY <1>0, <1>1 DEF OpenOK, Done, Messages
<1>6. \A s \in Sessions : Rows(s) = <<>> /\ Len(Rows(s)) = 0 /\ Steps(s) = {}
  <2>1. \A s \in Sessions : Rows(s) = <<>> BY <1>0 DEF Rows, Stages
  <2> QED BY <2>1 DEF Steps
<1>7. SessionsOK BY <1>1, <1>6 DEF SessionsOK
<1>8. FlipsOK /\ OffersOK
  <2>1. \A s \in Sessions : Len(log["flips"][s]) = 0 /\ Len(log["offers"][s]) = 0 BY <1>0 DEF Stages
  <2>2. FlipsOK
    <3>1. \A s \in Sessions : 1..Len(log["flips"][s]) = {} BY <2>1
    <3> QED BY <1>1, <3>1 DEF FlipsOK, NoneKnown
  <2>3. OffersOK BY <1>1, <2>1 DEF OffersOK
  <2> QED BY <2>2, <2>3
<1>9. \A s, k : Of(kept, s, k) = {} BY <1>1 DEF Of
<1>10. ChangesAreAnnounced
  <2>1. WaitsAnnounced BY <1>6, <1>9 DEF WaitsAnnounced
  <2>2. Local \subseteq Sessions BY DEF Sessions
  <2>3. FlipsAnnounced BY <1>0, <1>9, <2>2 DEF FlipsAnnounced, Stages
  <2>4. OffersMade BY <1>0, <1>9, <2>2 DEF OffersMade, Stages
  <2> QED BY <2>1, <2>3, <2>4 DEF ChangesAreAnnounced
<1>11. QuietIsPacedNotLost BY <1>6, <1>9 DEF QuietIsPacedNotLost, QuietPaced, StopsAreReported
<1> QED BY <1>3, <1>4, <1>5, <1>7, <1>8, <1>10, <1>11 DEF AlertIInv

\* What the tables hold and what was announced is about committed looks and messages only.
Committed0 == SessionsOK /\ FlipsOK /\ OffersOK /\ ChangesAreAnnounced /\ QuietIsPacedNotLost

\* What is kept of finished cycles stands while the database, the alerts kept and the log do.
LEMMA CommittedStays ==
  ASSUME Committed0, UNCHANGED <<db, kept, log>>
  PROVE  Committed0'
<1>1. SessionsOK' BY ZenonT(60) DEF Committed0, SessionsOK, RowOK, Rows, Status, Steps, Of
<1>2. FlipsOK'
  <2>1. FlipsOK BY DEF Committed0
  <2>2. \A s, m : (NoneKnown(s)' <=> NoneKnown(s)) /\ (LastKnown(s, m)' <=> LastKnown(s, m))
    BY DEF NoneKnown, LastKnown, Mode
  <2> QED BY <2>1, <2>2 DEF FlipsOK
<1>3. OffersOK' BY DEF Committed0, OffersOK
<1>5. WaitsAnnounced'
  <2>1. WaitsAnnounced BY DEF Committed0, ChangesAreAnnounced
  <2>2. \A s, k : Of(kept, s, k)' = Of(kept, s, k) BY DEF Of
  <2>3. \A s : Rows(s)' = Rows(s) BY DEF Rows
  <2>4. \A s, i : Status(s, i)' = Status(s, i) BY <2>3 DEF Status
  <2> QED BY <2>1, <2>2, <2>3, <2>4 DEF WaitsAnnounced, Steps
<1>6. FlipsAnnounced'
  <2>1. FlipsAnnounced BY DEF Committed0, ChangesAreAnnounced
  <2>2. \A s, j : BecameAcceptEdits(s, j)' <=> BecameAcceptEdits(s, j) BY DEF BecameAcceptEdits, Mode
  <2>3. \A s : Of(kept, s, "flip")' = Of(kept, s, "flip") BY DEF Of
  <2> QED BY <2>1, <2>2, <2>3 DEF FlipsAnnounced
<1>7. OffersMade' BY ZenonT(60) DEF Committed0, ChangesAreAnnounced, OffersMade, Of
<1>4. QuietIsPacedNotLost'
  BY DEF Committed0, QuietIsPacedNotLost, QuietPaced, StopsAreReported, Rows, Status, Steps, Of
<1> QED BY <1>1, <1>2, <1>3, <1>4, <1>5, <1>6, <1>7 DEF Committed0, ChangesAreAnnounced

\* A stage is entered with its rows before it, all of them still to be looked at.
LEMMA EnterStage ==
  ASSUME AlertTypes, NEW g \in Stages \cup {"asleep"}, Enter(g),
         g \in {"flips", "offers"} => DOMAIN rows \subseteq Local
  PROVE  /\ stage' = g /\ todo' = DOMAIN rows' /\ Done' = {}
         /\ rows' = [s \in DOMAIN rows' |-> rows'[s]]
         /\ DOMAIN rows' \subseteq Sessions /\ \A s \in DOMAIN rows' : rows'[s] \in Sights
         /\ g = "asleep" => DOMAIN rows' = {}
         /\ g \in {"local", "flips", "offers"} => DOMAIN rows' \subseteq Local
         /\ g = "relayed" => DOMAIN rows' \subseteq Relayed
<1>1. stage' = g /\ todo' = DOMAIN rows' /\ Done' = {} BY DEF Enter, Done
<1>2. CASE g = "local"
  <2>1. rows' = Seen(Local) BY <1>2 DEF Enter
  <2> QED BY <1>1, <1>2, <2>1 DEF Seen, AlertTypes, TypeOK
<1>3. CASE g = "relayed"
  <2>1. rows' = Seen(Relayed) BY <1>3 DEF Enter
  <2> QED BY <1>1, <1>3, <2>1 DEF Seen, AlertTypes, TypeOK
<1>4. CASE g = "asleep"
  <2>1. rows' = Nothing BY <1>4 DEF Enter
  <2> QED BY <1>1, <1>4, <2>1 DEF Nothing
<1>5. CASE g \in {"flips", "offers"}
  <2>1. rows' = rows BY <1>5 DEF Enter
  <2> QED BY <1>1, <1>5, <2>1 DEF AlertTypes, TypeOK
<1> QED BY <1>2, <1>3, <1>4, <1>5 DEF Stages

\* With nothing done and nothing sent, a stage that is entered has an open transaction like the tables.
LEMMA OpenAgain ==
  ASSUME AlertTypes, Done' = {}, work' = db', sent' = {}
  PROVE  OpenOK'
BY DEF OpenOK

\* Sessions that change and time that passes touch no table; time passes between the cycles.
LEMMA OutsideStep ==
  ASSUME AlertIInv, Tick \/ \E s \in Sessions : Change(s)
  PROVE  AlertIInv'
<1>0. AlertTypes /\ StageOK /\ OpenOK /\ Committed0 /\ UNCHANGED <<stage, lastCycle, rows, todo, db, work, sent, kept, log>>
  BY DEF AlertIInv, Committed0, Tick, Change
<1>1. Committed0' BY <1>0, CommittedStays
<1>2. CASE \E s \in Sessions : Change(s)
  <2>1. PICK s \in Sessions : Change(s) BY <1>2
  <2>2. /\ DOMAIN live' \subseteq Sessions /\ live' = [r \in DOMAIN live' |-> live'[r]]
        /\ \A r \in DOMAIN live' : live'[r] \in Sights
        /\ UNCHANGED <<now, stray, fails>>
    <3>1. CASE \E v \in Sights : live' = [r \in DOMAIN live \cup {s} |-> IF r = s THEN v ELSE live[r]]
      BY <1>0, <2>1, <3>1 DEF Change, AlertTypes, TypeOK
    <3>2. CASE live' = [r \in DOMAIN live \ {s} |-> live[r]]
      BY <1>0, <2>1, <3>2 DEF Change, AlertTypes, TypeOK
    <3> QED BY <2>1, <3>1, <3>2 DEF Change
  <2>3. TypeOK' BY <1>0, <2>2 DEF AlertTypes, TypeOK
  <2>4. AlertTypes' BY <1>0, <2>2, <2>3 DEF AlertTypes
  <2>5. StageOK' BY <1>0, <2>2 DEF StageOK, Ahead
  <2>6. OpenOK'
    <3>1. Done' = Done BY <1>0 DEF Done
    <3>2. \A s0 : NewsOf(s0)' = NewsOf(s0) BY <1>0, <2>2 DEF NewsOf, QuietIsNews, WaitIsNews
    <3>3. \A s0 : SessionsNext(s0)' = SessionsNext(s0) /\ FlipsNext(s0)' = FlipsNext(s0)
      BY <1>0, <2>2 DEF SessionsNext, FlipsNext, NextRow, QuietIsNews
    <3> QED BY <1>0, <2>2, <3>1, <3>2, <3>3 DEF OpenOK
  <2> QED BY <1>1, <2>4, <2>5, <2>6 DEF AlertIInv, Committed0
<1>3. CASE Tick
  <2>1. now' = now + 1 /\ now < MaxTime /\ stage = "asleep" /\ UNCHANGED <<live, stray, fails>> BY <1>3 DEF Tick
  <2>2. now' \in 0..MaxTime /\ now' \in Nat /\ lastCycle <= now' /\ \A t \in Int : t <= now => t <= now'
    BY <1>0, <2>1, AlertAssumption DEF AlertTypes
  <2>3. TypeOK' BY <1>0, <2>1, <2>2 DEF AlertTypes, TypeOK
  <2>4. \A m \in kept : m.at \in Int BY <1>0 DEF AlertTypes, TypeOK, Messages
  <2>5. AlertTypes' BY <1>0, <2>1, <2>2, <2>3, <2>4 DEF AlertTypes
  <2>6. StageOK' BY <1>0, <2>1 DEF StageOK, Ahead
  <2>7. Done' = {} /\ sent' = {} /\ work' = db'
    BY <1>0, <2>1 DEF StageOK, Done, OpenOK
  <2>8. OpenOK' BY <1>0, <2>7, OpenAgain
  <2> QED BY <1>1, <2>5, <2>6, <2>8 DEF AlertIInv, Committed0
<1> QED BY <1>2, <1>3

\* What a stage looked at has a time and a sight.
LEMMA LookIsTyped ==
  ASSUME NEW l \in Seq(Looks), NEW i \in 1..Len(l)
  PROVE  l[i].at \in Nat /\ l[i].saw \in Sights
<1>1. l[i] \in Looks OBVIOUS
<1> QED BY <1>1 DEF Looks

\* A stage that is entered has all its looks before it in time.
LEMMA EnteredInOrder ==
  ASSUME StageOK, NEW g \in Stages \cup {"asleep"}, stage' = g, UNCHANGED <<now, log>>,
         lastCycle' = now, lastCycle \in Int, lastCycle <= now, now \in Nat,
         log \in [Stages -> [Sessions -> Seq(Looks)]],
         DOMAIN rows' = {} \/ g # "asleep", g \in {"local", "flips", "offers"} => DOMAIN rows' \subseteq Local,
         g = "relayed" => DOMAIN rows' \subseteq Relayed,
         \A h \in Stages, s \in Sessions : \A i \in 1..Len(log[h][s]) : Ahead(h)' => log[h][s][i].at < now
  PROVE  StageOK'
<1>1. \A h \in Stages, s \in Sessions : \A i \in 1..Len(log[h][s]) :
        /\ log[h][s][i].at <= now
        /\ \A j \in 1..(i - 1) : log[h][s][j].at < log[h][s][i].at
  <2> SUFFICES ASSUME NEW h \in Stages, NEW s \in Sessions, NEW i \in 1..Len(log[h][s])
               PROVE  /\ log[h][s][i].at <= now
                      /\ \A j \in 1..(i - 1) : log[h][s][j].at < log[h][s][i].at
    OBVIOUS
  <2>1. log[h][s] \in Seq(Looks) OBVIOUS
  <2>2. log[h][s][i].at \in Nat BY <2>1, LookIsTyped
  <2>3. log[h][s][i].at <= lastCycle BY DEF StageOK
  <2> QED BY <2>2, <2>3 DEF StageOK
<1> QED BY <1>1 DEF StageOK

\* A cycle starts with a look at the local sessions (alert_loop).
LEMMA StartStep == ASSUME AlertIInv, StartCycle PROVE AlertIInv'
<1>0. /\ AlertTypes /\ StageOK /\ OpenOK /\ Committed0 /\ stage = "asleep" /\ lastCycle < now /\ lastCycle' = now
      /\ Enter("local") /\ UNCHANGED <<now, live, db, work, sent, kept, stray, log, fails>>
  BY DEF AlertIInv, Committed0, StartCycle
<1>1. Committed0' BY <1>0, CommittedStays
<1>2. /\ stage' = "local" /\ todo' = DOMAIN rows' /\ Done' = {} /\ rows' = [s \in DOMAIN rows' |-> rows'[s]]
      /\ DOMAIN rows' \subseteq Sessions /\ (\A s \in DOMAIN rows' : rows'[s] \in Sights)
      /\ DOMAIN rows' \subseteq Local
  BY <1>0, EnterStage DEF Stages
<1>3. /\ now \in Nat /\ lastCycle \in Int /\ lastCycle' \in -1..MaxTime /\ lastCycle' \in Int /\ lastCycle' <= now
      /\ log \in [Stages -> [Sessions -> Seq(Looks)]]
  BY <1>0, AlertAssumption DEF AlertTypes, TypeOK
<1>4. TypeOK' BY <1>0, <1>2, <1>3 DEF AlertTypes, TypeOK, Stages
<1>5. AlertTypes' BY <1>0, <1>2, <1>3, <1>4 DEF AlertTypes
<1>6. ASSUME NEW h \in Stages, NEW s \in Sessions, NEW i \in 1..Len(log[h][s])
      PROVE  log[h][s][i].at < now
  <2>1. log[h][s] \in Seq(Looks) BY <1>3
  <2>2. log[h][s][i].at \in Nat BY <2>1, LookIsTyped
  <2>3. log[h][s][i].at <= lastCycle BY <1>0 DEF StageOK
  <2> QED BY <1>0, <1>3, <2>2, <2>3
<1>7. StageOK' BY <1>0, <1>2, <1>3, <1>6, EnteredInOrder DEF Stages
<1>8. Done' = {} /\ sent' = {} /\ work' = db'
  BY <1>0, <1>2 DEF StageOK, Done, OpenOK
<1>9. OpenOK' BY <1>0, <1>8, OpenAgain
<1> QED BY <1>1, <1>5, <1>7, <1>9 DEF AlertIInv, Committed0

\* A stage that raises leaves the tables and what was announced as they were.
LEMMA RaiseStep == ASSUME AlertIInv, Raise PROVE AlertIInv'
<1>0. /\ AlertTypes /\ StageOK /\ OpenOK /\ Committed0 /\ stage # "asleep" /\ lastCycle = now
      /\ sent' = {} /\ work' = db /\ UNCHANGED <<now, live, lastCycle, db, kept, log>>
  BY DEF AlertIInv, Committed0, Raise, StageOK
<1>1. Committed0' BY <1>0, CommittedStays
<1>2. fails' \in 0..MaxFails
  <2>1. fails \in 0..MaxFails /\ fails' = fails + 1 /\ fails < MaxFails BY <1>0 DEF Raise, AlertTypes, TypeOK
  <2> QED BY <2>1, AlertAssumption
<1>3. stray' \subseteq Messages
  <2>1. PICK out \in {{}} \cup {Out(s) : s \in todo} : stray' = stray \cup sent \cup out BY DEF Raise
  <2>2. stray \subseteq Messages /\ sent \subseteq Messages BY <1>0 DEF AlertTypes, TypeOK
  <2>3. \A s \in todo : Out(s) \subseteq Messages
    <3>1. \A s \in todo : s \in Sessions BY <1>0 DEF AlertTypes, TypeOK
    <3>2. \A s : News(s, rows[s]) \subseteq Kinds BY DEF News, Kinds, Waits
    <3> QED BY <1>0, <3>1, <3>2 DEF Out, Messages, AlertTypes
  <2> QED BY <2>1, <2>2, <2>3
<1>4. PICK g \in Stages \cup {"asleep"} :
        /\ Enter(g) /\ (g \in {"flips", "offers"} => DOMAIN rows \subseteq Local)
        /\ g # "asleep" => \A h \in Stages : Ahead(h)' => Ahead(h)
  <2>1. CASE Enter("asleep") BY <2>1
  <2>2. CASE stage = "flips" /\ Enter("offers")
    <3>1. stage' = "offers" BY <2>2 DEF Enter
    <3> QED BY <1>0, <2>2, <3>1 DEF Stages, StageOK, Ahead
  <2>3. CASE stage = "offers" /\ Enter("relayed")
    <3>1. stage' = "relayed" BY <2>3 DEF Enter
    <3> QED BY <1>0, <2>3, <3>1 DEF Stages, StageOK, Ahead
  <2>4. After["flips"] = "offers" /\ After["offers"] = "relayed" BY DEF After
  <2> QED BY <2>1, <2>2, <2>3, <2>4 DEF Raise
<1>5. /\ stage' = g /\ todo' = DOMAIN rows' /\ Done' = {} /\ rows' = [s \in DOMAIN rows' |-> rows'[s]]
      /\ DOMAIN rows' \subseteq Sessions /\ (\A s \in DOMAIN rows' : rows'[s] \in Sights)
      /\ (g = "asleep" => DOMAIN rows' = {})
      /\ (g \in {"local", "flips", "offers"} => DOMAIN rows' \subseteq Local)
      /\ (g = "relayed" => DOMAIN rows' \subseteq Relayed)
  BY <1>0, <1>4, EnterStage
<1>6. TypeOK' BY <1>0, <1>2, <1>3, <1>5 DEF AlertTypes, TypeOK
<1>7. AlertTypes' BY <1>0, <1>5, <1>6 DEF AlertTypes
<1>8. \A h \in Stages, s \in Sessions : \A i \in 1..Len(log[h][s]) : Ahead(h)' => log[h][s][i].at < now
  <2>1. CASE g = "asleep" BY <1>5, <2>1 DEF Ahead
  <2>2. CASE g # "asleep" BY <1>0, <1>4, <2>2 DEF StageOK
  <2> QED BY <2>1, <2>2
<1>9. StageOK' BY <1>0, <1>5, <1>8, EnteredInOrder DEF AlertTypes
<1>10. OpenOK' BY <1>0, <1>5, OpenAgain
<1> QED BY <1>1, <1>7, <1>9, <1>10 DEF AlertIInv, Committed0

\* Of a row that is still to be looked at the open transaction knows what the tables hold.
LEMMA NewsIsOfTheTables ==
  ASSUME AlertTypes, OpenOK, NEW s \in todo
  PROVE  /\ s \in Sessions /\ s \notin Done /\ News(s, rows[s]) = NewsOf(s)
         /\ work.sessions[s] = db.sessions[s] /\ work.flips[s] = db.flips[s] /\ work.offered[s] = db.offered[s]
<1>1. s \in Sessions /\ s \notin Done BY DEF AlertTypes, TypeOK, Done
<1>2. /\ work.sessions[s] = db.sessions[s] /\ work.flips[s] = db.flips[s] /\ work.offered[s] = db.offered[s]
  BY <1>1 DEF OpenOK
<1>3. News(s, rows[s]) = NewsOf(s)
  <2>1. CASE stage = "flips" BY <1>2, <2>1 DEF News, NewsOf, FlipIsNews
  <2>2. CASE stage = "offers" BY <1>2, <2>2 DEF News, NewsOf
  <2>3. CASE stage \notin {"flips", "offers"} BY <1>2, <2>3 DEF News, NewsOf
  <2> QED BY <2>1, <2>2, <2>3
<1> QED BY <1>1, <1>2, <1>3

\* Writing one row of one table.
LEMMA OneRowWritten ==
  ASSUME NEW t \in Tables, NEW s \in Sessions
  PROVE  /\ \A x \in SUBSET SessionRows : LET u == [t EXCEPT !.sessions[s] = x] IN
              /\ u \in Tables /\ u.sessions[s] = x /\ u.flips = t.flips /\ u.offered = t.offered
              /\ \A r \in Sessions : r # s => u.sessions[r] = t.sessions[r]
         /\ \A x \in SUBSET FlipRows : LET u == [t EXCEPT !.flips[s] = x] IN
              /\ u \in Tables /\ u.flips[s] = x /\ u.sessions = t.sessions /\ u.offered = t.offered
              /\ \A r \in Sessions : r # s => u.flips[r] = t.flips[r]
         /\ \A x \in BOOLEAN : LET u == [t EXCEPT !.offered[s] = x] IN
              /\ u \in Tables /\ u.offered[s] = x /\ u.sessions = t.sessions /\ u.flips = t.flips
              /\ \A r \in Sessions : r # s => u.offered[r] = t.offered[r]
<1>2. ASSUME NEW x \in SUBSET SessionRows
      PROVE  LET u == [t EXCEPT !.sessions[s] = x] IN
              /\ u \in Tables /\ u.sessions[s] = x /\ u.flips = t.flips /\ u.offered = t.offered
              /\ \A r \in Sessions : r # s => u.sessions[r] = t.sessions[r]
  BY DEF Tables
<1>3. ASSUME NEW x \in SUBSET FlipRows
      PROVE  LET u == [t EXCEPT !.flips[s] = x] IN
              /\ u \in Tables /\ u.flips[s] = x /\ u.sessions = t.sessions /\ u.offered = t.offered
              /\ \A r \in Sessions : r # s => u.flips[r] = t.flips[r]
  BY DEF Tables
<1>4. ASSUME NEW x \in BOOLEAN
      PROVE  LET u == [t EXCEPT !.offered[s] = x] IN
              /\ u \in Tables /\ u.offered[s] = x /\ u.sessions = t.sessions /\ u.flips = t.flips
              /\ \A r \in Sessions : r # s => u.offered[r] = t.offered[r]
  BY DEF Tables
<1> QED BY <1>2, <1>3, <1>4

\* What a row of a session becomes is a row again, and there is no more than one.
LEMMA NextRowsAreRows ==
  ASSUME AlertTypes, NEW s \in DOMAIN rows
  PROVE  /\ SessionsNext(s) \in SUBSET SessionRows /\ FlipsNext(s) \in SUBSET FlipRows
         /\ \A x, y \in SessionsNext(s) : x = y
         /\ \A x, y \in FlipsNext(s) : x = y
         /\ IsHot(rows[s]) \in BOOLEAN
<1>1. /\ s \in Sessions /\ rows[s] \in Sights /\ rows[s].status \in Statuses /\ rows[s].pmode \in STRING
  BY AlertAssumption DEF AlertTypes, TypeOK
<1>2. /\ now \in Int /\ db.sessions[s] \in SUBSET SessionRows /\ db.flips[s] \in SUBSET FlipRows
      /\ (\A x, y \in db.sessions[s] : x = y) /\ (\A x, y \in db.flips[s] : x = y)
  BY <1>1 DEF AlertTypes, TypeOK, Tables
<1>3. FirstRow(rows[s].status) \in SessionRows BY <1>1 DEF FirstRow, SessionRows, Never
<1>4. \A r \in db.sessions[s] : NextRow(r, rows[s].status) \in SessionRows
  <2> SUFFICES ASSUME NEW r \in SessionRows PROVE NextRow(r, rows[s].status) \in SessionRows BY <1>2
  <2>1. QuietIsNews(r, rows[s].status) \in BOOLEAN BY DEF QuietIsNews
  <2> QED BY <1>1, <1>2, <2>1 DEF NextRow, SessionRows
<1>5. SessionsNext(s) \in SUBSET SessionRows BY <1>3, <1>4 DEF SessionsNext
<1>6. \A x, y \in SessionsNext(s) : x = y BY <1>2 DEF SessionsNext
<1>7. FlipsNext(s) \in SUBSET FlipRows
  <2> DEFINE was == \/ \E r \in db.flips[s] : r.pmode # "acceptEdits" /\ ~r.notified
                    \/ \E r \in db.flips[s] : r.notified
             now0 == rows[s].pmode = "acceptEdits" /\ was
  <2>1. now0 \in BOOLEAN OBVIOUS
  <2>2. FlipsNext(s) = IF rows[s].pmode = "" THEN db.flips[s] ELSE {[pmode |-> rows[s].pmode, notified |-> now0]}
    BY DEF FlipsNext
  <2> HIDE DEF now0
  <2>3. [pmode |-> rows[s].pmode, notified |-> now0] \in FlipRows BY <1>1, <2>1 DEF FlipRows
  <2> QED BY <1>2, <2>2, <2>3
<1>8. \A x, y \in FlipsNext(s) : x = y BY <1>2 DEF FlipsNext
<1> QED BY <1>5, <1>6, <1>7, <1>8 DEF IsHot

\* The row at hand is written as the tables call for, and no other row.
LEMMA RowIsStored ==
  ASSUME AlertTypes, OpenOK, NEW s \in todo, stage # "asleep", work' = Stored(s, rows[s])
  PROVE  /\ work' \in Tables
         /\ \A r \in Sessions : r # s => /\ work'.sessions[r] = work.sessions[r]
                                         /\ work'.flips[r] = work.flips[r]
                                         /\ work'.offered[r] = work.offered[r]
         /\ work'.sessions[s] = IF stage \in {"local", "relayed"} THEN SessionsNext(s) ELSE db.sessions[s]
         /\ work'.flips[s] = IF stage = "flips" THEN FlipsNext(s) ELSE db.flips[s]
         /\ work'.offered[s] = IF stage = "offers" THEN IsHot(rows[s]) ELSE db.offered[s]
<1>0. /\ s \in Sessions /\ work \in Tables /\ s \in DOMAIN rows /\ stage \in Stages
      /\ work.sessions[s] = db.sessions[s] /\ work.flips[s] = db.flips[s] /\ work.offered[s] = db.offered[s]
  BY NewsIsOfTheTables DEF AlertTypes, TypeOK
<1>1. SessionsNext(s) \in SUBSET SessionRows /\ FlipsNext(s) \in SUBSET FlipRows /\ IsHot(rows[s]) \in BOOLEAN
  BY <1>0, NextRowsAreRows
<1>2. CASE stage \in {"local", "relayed"}
  <2>1. work' = [work EXCEPT !.sessions[s] = SessionsNext(s)]
    <3>1. SessionsAfter(s, rows[s].status) = SessionsNext(s) BY <1>0 DEF SessionsAfter, SessionsNext
    <3> QED BY <1>2, <3>1 DEF Stored
  <2>2. PICK x \in SUBSET SessionRows : x = SessionsNext(s) BY <1>1
  <2>3. work' = [work EXCEPT !.sessions[s] = x] BY <2>1, <2>2
  <2>4. /\ work' \in Tables /\ work'.sessions[s] = x /\ work'.flips = work.flips /\ work'.offered = work.offered
        /\ \A r \in Sessions : r # s => work'.sessions[r] = work.sessions[r]
    BY <1>0, <2>3, OneRowWritten
  <2> QED BY <1>0, <1>2, <2>2, <2>4
<1>3. CASE stage = "offers"
  <2>1. work' = [work EXCEPT !.offered[s] = IsHot(rows[s])] BY <1>3 DEF Stored, OfferedAfter
  <2> QED BY <1>0, <1>1, <1>3, <2>1, OneRowWritten
<1>4. CASE stage = "flips" /\ rows[s].pmode = ""
  <2>1. work' = work BY <1>4 DEF Stored
  <2>2. FlipsNext(s) = db.flips[s] BY <1>4 DEF FlipsNext
  <2> QED BY <1>0, <1>4, <2>1, <2>2
<1>5. CASE stage = "flips" /\ rows[s].pmode # ""
  <2>1. FlipsAfter(s, rows[s].pmode) = FlipsNext(s)
    <3>1. rows[s].pmode = "acceptEdits" /\ FlipIsNews(s, rows[s].pmode)
            <=> rows[s].pmode = "acceptEdits" /\ \E r \in db.flips[s] : r.pmode # "acceptEdits" /\ ~r.notified
      BY <1>0 DEF FlipIsNews
    <3>2. FlipIsNews(s, rows[s].pmode) \in BOOLEAN BY DEF FlipIsNews
    <3> QED BY <1>0, <1>5, <3>1, <3>2 DEF FlipsAfter, FlipsNext
  <2>2. work' = [work EXCEPT !.flips[s] = FlipsNext(s)] BY <1>5, <2>1 DEF Stored
  <2>3. PICK x \in SUBSET FlipRows : x = FlipsNext(s) BY <1>1
  <2>4. work' = [work EXCEPT !.flips[s] = x] BY <2>2, <2>3
  <2>5. /\ work' \in Tables /\ work'.flips[s] = x /\ work'.sessions = work.sessions /\ work'.offered = work.offered
        /\ \A r \in Sessions : r # s => work'.flips[r] = work.flips[r]
    <3>1. LET u == [work EXCEPT !.flips[s] = x] IN
            /\ u \in Tables /\ u.flips[s] = x /\ u.sessions = work.sessions /\ u.offered = work.offered
            /\ \A r \in Sessions : r # s => u.flips[r] = work.flips[r]
      BY <1>0, OneRowWritten
    <3> QED BY <2>4, <3>1
  <2> QED BY <1>0, <1>5, <2>3, <2>5
<1> QED BY <1>0, <1>2, <1>3, <1>4, <1>5 DEF Stages

\* What is done about one row keeps what a cycle in progress owes.
LEMMA HandleStep == ASSUME AlertIInv, NEW s \in todo, Handle(s) PROVE AlertIInv'
<1>0. /\ AlertTypes /\ StageOK /\ OpenOK /\ Committed0 /\ s \in Sessions /\ s \in DOMAIN rows /\ todo \subseteq DOMAIN rows
      /\ sent' = sent \cup Out(s) /\ work' = Stored(s, rows[s]) /\ todo' = todo \ {s}
      /\ UNCHANGED <<now, live, stage, lastCycle, rows, db, kept, stray, log, fails>>
  BY DEF AlertIInv, Committed0, Handle, AlertTypes, TypeOK
<1>1. Committed0' BY <1>0, CommittedStays
<1>2. stage # "asleep" BY <1>0 DEF StageOK
<1>3. Done' = Done \cup {s} /\ s \notin Done BY <1>0 DEF Done
<1>4. \A r : NewsOf(r)' = NewsOf(r) BY <1>0 DEF NewsOf, QuietIsNews, WaitIsNews
<1>5. \A r : SessionsNext(r)' = SessionsNext(r) /\ FlipsNext(r)' = FlipsNext(r)
  BY <1>0 DEF SessionsNext, FlipsNext, NextRow, QuietIsNews
<1>6. NewsOf(s) \subseteq Kinds BY DEF NewsOf, Kinds, Waits
<1>7. sent' = {m \in Messages : m.session \in Done' /\ m.kind \in NewsOf(m.session) /\ m.at = now}
  <2>1. Out(s) = {[session |-> s, kind |-> k, at |-> now] : k \in NewsOf(s)}
    BY <1>0, NewsIsOfTheTables DEF Out
  <2>2. Out(s) = {m \in Messages : m.session = s /\ m.kind \in NewsOf(s) /\ m.at = now}
    BY <1>0, <1>6, <2>1 DEF Messages, AlertTypes
  <2>3. sent = {m \in Messages : m.session \in Done /\ m.kind \in NewsOf(m.session) /\ m.at = now}
    BY <1>0 DEF OpenOK
  <2> QED BY <1>0, <1>3, <2>2, <2>3
<1>8. /\ work' \in Tables
      /\ \A r \in Sessions : r # s => /\ work'.sessions[r] = work.sessions[r]
                                      /\ work'.flips[r] = work.flips[r]
                                      /\ work'.offered[r] = work.offered[r]
      /\ work'.sessions[s] = IF stage \in {"local", "relayed"} THEN SessionsNext(s) ELSE db.sessions[s]
      /\ work'.flips[s] = IF stage = "flips" THEN FlipsNext(s) ELSE db.flips[s]
      /\ work'.offered[s] = IF stage = "offers" THEN IsHot(rows[s]) ELSE db.offered[s]
  BY <1>0, <1>2, RowIsStored
<1>9. OpenOK'
  <2>1. ASSUME NEW r \in Sessions
        PROVE  /\ work'.sessions[r] = IF stage \in {"local", "relayed"} /\ r \in Done' THEN SessionsNext(r) ELSE db.sessions[r]
               /\ work'.flips[r] = IF stage = "flips" /\ r \in Done' THEN FlipsNext(r) ELSE db.flips[r]
               /\ work'.offered[r] = IF stage = "offers" /\ r \in Done' THEN IsHot(rows[r]) ELSE db.offered[r]
    <3>1. CASE r = s BY <1>3, <1>8, <3>1
    <3>2. CASE r # s BY <1>0, <1>3, <1>8, <3>2 DEF OpenOK
    <3> QED BY <3>1, <3>2
  <2>2. \A r : IsHot(rows[r])' = IsHot(rows[r]) BY <1>0 DEF IsHot
  <2> QED BY <1>0, <1>2, <1>4, <1>5, <1>7, <2>1, <2>2 DEF OpenOK
<1>10. TypeOK'
  <2>1. \A r \in Sessions : (\A x, y \in work'.sessions[r] : x = y) /\ (\A x, y \in work'.flips[r] : x = y)
    <3> SUFFICES ASSUME NEW r \in Sessions
                 PROVE  (\A x, y \in work'.sessions[r] : x = y) /\ (\A x, y \in work'.flips[r] : x = y)
      OBVIOUS
    <3>1. CASE r = s BY <1>0, <1>8, <3>1, NextRowsAreRows DEF AlertTypes, TypeOK
    <3>2. CASE r # s
      <4>1. work'.sessions[r] = work.sessions[r] /\ work'.flips[r] = work.flips[r] BY <1>8, <3>2
      <4>2. (\A x, y \in work.sessions[r] : x = y) /\ (\A x, y \in work.flips[r] : x = y)
        BY <1>0 DEF AlertTypes, TypeOK
      <4> QED BY <4>1, <4>2
    <3> QED BY <3>1, <3>2
  <2>2. sent' \subseteq Messages BY <1>7
  <2>3. \A r \in Sessions : (\A x, y \in db.sessions[r] : x = y) /\ (\A x, y \in db.flips[r] : x = y)
    BY <1>0 DEF AlertTypes, TypeOK
  <2> QED BY <1>0, <1>8, <2>1, <2>2, <2>3 DEF AlertTypes, TypeOK
<1>11. AlertTypes' BY <1>0, <1>10 DEF AlertTypes
<1>12. StageOK' BY <1>0 DEF StageOK, Ahead
<1> QED BY <1>1, <1>9, <1>11, <1>12 DEF AlertIInv, Committed0

\* One more look: the looks before it stay where they are.
LEMMA OneMoreLook ==
  ASSUME NEW l \in Seq(Looks), NEW e \in Looks
  PROVE  /\ Append(l, e) \in Seq(Looks) /\ Len(l) \in Nat /\ Len(Append(l, e)) = Len(l) + 1
         /\ Append(l, e)[Len(l) + 1] = e
         /\ \A i \in 1..Len(l) : Append(l, e)[i] = l[i]
         /\ 1..(Len(l) + 1) = (1..Len(l)) \cup {Len(l) + 1}
         /\ Len(l) = 0 => 2..(Len(l) + 1) = {} /\ 2..Len(l) = {} /\ 1..Len(l) = {}
         /\ Len(l) > 0 => 2..(Len(l) + 1) = (2..Len(l)) \cup {Len(l) + 1}
         /\ \A i \in 2..Len(l) : i \in 1..Len(l) /\ i - 1 \in 1..Len(l)
         /\ Len(l) > 0 => Len(l) \in 1..Len(l)
<1>1. Append(l, e) \in Seq(Looks) /\ Len(l) \in Nat /\ Len(Append(l, e)) = Len(l) + 1 OBVIOUS
<1>2. Append(l, e)[Len(l) + 1] = e /\ \A i \in 1..Len(l) : Append(l, e)[i] = l[i] OBVIOUS
<1> DEFINE n == Len(l)
<1>3. n \in Nat OBVIOUS
<1> HIDE DEF n
<1>4. 1..(n + 1) = (1..n) \cup {n + 1} BY <1>3
<1>5. n = 0 => 2..(n + 1) = {} /\ 2..n = {} /\ 1..n = {} OBVIOUS
<1>6. n > 0 => 2..(n + 1) = (2..n) \cup {n + 1} BY <1>3
<1>7. \A i \in 2..n : i \in 1..n /\ i - 1 \in 1..n BY <1>3
<1>8. n > 0 => n \in 1..n BY <1>3
<1> USE DEF n
<1> QED BY <1>1, <1>2, <1>4, <1>5, <1>6, <1>7, <1>8

\* What a commit writes, remembers and keeps.
LEMMA CommitWrites ==
  ASSUME AlertIInv, Commit
  PROVE  /\ stage \in Stages /\ Done = DOMAIN rows /\ DOMAIN rows \subseteq Sessions /\ now \in Nat
         /\ \A s \in DOMAIN rows : [at |-> now, saw |-> rows[s]] \in Looks /\ rows[s] \in Sights
         /\ \A h \in Stages, s \in Sessions :
              log'[h][s] = IF h = stage /\ s \in DOMAIN rows THEN Append(log[h][s], [at |-> now, saw |-> rows[s]])
                           ELSE log[h][s]
         /\ log' \in [Stages -> [Sessions -> Seq(Looks)]]
         /\ \A s \in Sessions, k \in Kinds :
              Of(kept', s, k) = Of(kept, s, k) \cup {t \in {now} : s \in DOMAIN rows /\ k \in NewsOf(s)}
         /\ \A s \in Sessions :
              /\ db'.sessions[s] = IF stage \in {"local", "relayed"} /\ s \in DOMAIN rows THEN SessionsNext(s)
                                   ELSE db.sessions[s]
              /\ db'.flips[s] = IF stage = "flips" /\ s \in DOMAIN rows THEN FlipsNext(s) ELSE db.flips[s]
              /\ db'.offered[s] = IF stage = "offers" /\ s \in DOMAIN rows THEN IsHot(rows[s]) ELSE db.offered[s]
<1>0. /\ AlertTypes /\ OpenOK /\ stage # "asleep" /\ todo = {} /\ db' = work /\ kept' = kept \cup sent
      /\ log \in [Stages -> [Sessions -> Seq(Looks)]]
      /\ log' = [log EXCEPT ![stage] = [s \in Sessions |->
                  IF s \in DOMAIN rows THEN Append(@[s], [at |-> now, saw |-> rows[s]]) ELSE @[s]]]
  BY DEF AlertIInv, Commit, Committed, AlertTypes
<1>1. stage \in Stages /\ Done = DOMAIN rows /\ DOMAIN rows \subseteq Sessions /\ now \in Nat
  BY <1>0 DEF AlertTypes, TypeOK, Done
<1>2. \A s \in DOMAIN rows : [at |-> now, saw |-> rows[s]] \in Looks /\ rows[s] \in Sights
  BY <1>0 DEF AlertTypes, TypeOK, Looks
<1>3. /\ log'[stage] = [s \in Sessions |->
            IF s \in DOMAIN rows THEN Append(log[stage][s], [at |-> now, saw |-> rows[s]]) ELSE log[stage][s]]
      /\ \A h \in Stages : h # stage => log'[h] = log[h]
      /\ log' = [h \in Stages |-> log'[h]]
  BY <1>0, <1>1
<1>4. \A h \in Stages, s \in Sessions :
        log'[h][s] = IF h = stage /\ s \in DOMAIN rows THEN Append(log[h][s], [at |-> now, saw |-> rows[s]])
                     ELSE log[h][s]
  BY <1>3
<1>5. log' \in [Stages -> [Sessions -> Seq(Looks)]]
  <2>1. \A s \in Sessions : log[stage][s] \in Seq(Looks) BY <1>0, <1>1
  <2>2. log'[stage] \in [Sessions -> Seq(Looks)]
    <3>1. \A s \in Sessions : (IF s \in DOMAIN rows THEN Append(log[stage][s], [at |-> now, saw |-> rows[s]])
                               ELSE log[stage][s]) \in Seq(Looks)
      BY <1>2, <2>1, OneMoreLook
    <3> QED BY <1>3, <3>1
  <2>3. \A h \in Stages : log'[h] \in [Sessions -> Seq(Looks)] BY <1>0, <1>3, <2>2
  <2> QED BY <1>3, <2>3
<1>6. ASSUME NEW s \in Sessions, NEW k \in Kinds
      PROVE  Of(kept', s, k) = Of(kept, s, k) \cup {t \in {now} : s \in DOMAIN rows /\ k \in NewsOf(s)}
  <2>1. sent = {m \in Messages : m.session \in DOMAIN rows /\ m.kind \in NewsOf(m.session) /\ m.at = now}
    BY <1>0, <1>1 DEF OpenOK
  <2>2. s \in DOMAIN rows /\ k \in NewsOf(s) =>
          \E m \in sent : m.session = s /\ m.kind = k /\ m.at = now
    <3>1. \E m \in Messages : m.session = s /\ m.kind = k /\ m.at = now
      <4>1. [session |-> s, kind |-> k, at |-> now] \in Messages BY <1>1 DEF Messages
      <4> QED BY <4>1
    <3> QED BY <2>1, <3>1
  <2>3. \A m \in sent : m.session = s /\ m.kind = k => m.at = now /\ s \in DOMAIN rows /\ k \in NewsOf(s) BY <2>1
  <2> QED BY <1>0, <2>2, <2>3 DEF Of
<1>7. \A s \in Sessions :
        /\ db'.sessions[s] = IF stage \in {"local", "relayed"} /\ s \in DOMAIN rows THEN SessionsNext(s)
                             ELSE db.sessions[s]
        /\ db'.flips[s] = IF stage = "flips" /\ s \in DOMAIN rows THEN FlipsNext(s) ELSE db.flips[s]
        /\ db'.offered[s] = IF stage = "offers" /\ s \in DOMAIN rows THEN IsHot(rows[s]) ELSE db.offered[s]
  BY <1>0, <1>1 DEF OpenOK
<1> QED BY <1>1, <1>2, <1>4, <1>5, <1>6, <1>7

\* A session whose rows the stage has looked at has one look more.
LEMMA LookedAt ==
  ASSUME AlertIInv, Commit, stage \in {"local", "relayed"}, NEW s \in DOMAIN rows, NEW n \in Nat, n = Len(Rows(s))
  PROVE  /\ s \in Sessions /\ Rows(s) \in Seq(Looks) /\ Rows(s)' \in Seq(Looks) /\ Len(Rows(s))' = n + 1
         /\ \A i \in 1..n : /\ Rows(s)'[i] = Rows(s)[i] /\ Status(s, i)' = Status(s, i)
                            /\ Rows(s)[i].at \in Nat /\ Rows(s)[i].at < now
         /\ Rows(s)'[n + 1].at = now /\ Status(s, n + 1)' = rows[s].status
         /\ Steps(s) = 2..n /\ Steps(s)' = IF n = 0 THEN {} ELSE (2..n) \cup {n + 1}
         /\ \A i \in 2..n : i \in 1..n /\ i - 1 \in 1..n
         /\ n > 0 => n \in 1..n /\ (n + 1) - 1 = n
<1>1. stage \in Stages /\ DOMAIN rows \subseteq Sessions /\ s \in Sessions
  BY CommitWrites
<1>2. Rows(s) = log[stage][s] /\ Rows(s)' = log'[stage][s]
  <2>1. stage = "local" => s \in Local BY DEF AlertIInv, StageOK
  <2>2. stage = "relayed" => s \notin Local BY AlertAssumption DEF AlertIInv, StageOK
  <2> QED BY <2>1, <2>2 DEF Rows
<1> DEFINE e == [at |-> now, saw |-> rows[s]]
<1>3. e \in Looks /\ e.at = now /\ e.saw = rows[s] BY CommitWrites
<1>4. Rows(s) \in Seq(Looks) /\ Rows(s)' = Append(Rows(s), e)
  <2>1. log[stage][s] \in Seq(Looks) BY <1>1 DEF AlertIInv, AlertTypes
  <2>2. \A h \in Stages, r \in Sessions :
          log'[h][r] = IF h = stage /\ r \in DOMAIN rows THEN Append(log[h][r], [at |-> now, saw |-> rows[r]])
                       ELSE log[h][r]
    BY CommitWrites
  <2>3. log'[stage][s] = Append(log[stage][s], [at |-> now, saw |-> rows[s]]) BY <1>1, <2>2
  <2> QED BY <1>2, <2>1, <2>3
<1> HIDE DEF e
<1>5. /\ Rows(s)' \in Seq(Looks) /\ Len(Rows(s)') = n + 1 /\ Rows(s)'[n + 1] = e
      /\ \A i \in 1..n : Rows(s)'[i] = Rows(s)[i]
      /\ n = 0 => 2..(n + 1) = {}
      /\ n > 0 => 2..(n + 1) = (2..n) \cup {n + 1}
      /\ \A i \in 2..n : i \in 1..n /\ i - 1 \in 1..n
      /\ n > 0 => n \in 1..n
  <2>1. n = Len(Rows(s)) OBVIOUS
  <2> QED BY <1>3, <1>4, <2>1, OneMoreLook
<1>6. \A i \in 1..n : Rows(s)[i].at \in Nat /\ Rows(s)[i].at < now
  <2>1. \A i \in 1..n : Rows(s)[i].at \in Nat BY <1>4, LookIsTyped
  <2>2. Ahead(stage) BY DEF Ahead
  <2>3. \A i \in 1..n : Rows(s)[i].at < now BY <1>1, <1>2, <2>2 DEF AlertIInv, StageOK
  <2> QED BY <2>1, <2>3
<1>7. /\ \A i \in 1..n : Status(s, i)' = Status(s, i)
      /\ Status(s, n + 1)' = rows[s].status
  BY <1>3, <1>5 DEF Status
<1>8. Steps(s) = 2..n /\ Steps(s)' = IF n = 0 THEN {} ELSE (2..n) \cup {n + 1}
  <2>1. n = 0 \/ n > 0 OBVIOUS
  <2> QED BY <1>5, <2>1 DEF Steps
<1>9. (n + 1) - 1 = n OBVIOUS
<1> QED BY <1>1, <1>3, <1>4, <1>5, <1>6, <1>7, <1>8, <1>9

\* Of the other sessions nothing is added that is about what they do.
LEMMA NotLookedAt ==
  ASSUME AlertIInv, Commit, NEW s \in Sessions, ~(stage \in {"local", "relayed"} /\ s \in DOMAIN rows)
  PROVE  /\ Rows(s)' = Rows(s) /\ db'.sessions[s] = db.sessions[s]
         /\ \A i : Status(s, i)' = Status(s, i)
         /\ Steps(s)' = Steps(s)
         /\ \A k \in Waits \cup {"quiet"} : Of(kept', s, k) = Of(kept, s, k)
<1>1. Rows(s)' = Rows(s) BY CommitWrites DEF Rows, Stages
<1>2. db'.sessions[s] = db.sessions[s] BY CommitWrites
<1>3. ASSUME NEW k \in Waits \cup {"quiet"} PROVE Of(kept', s, k) = Of(kept, s, k)
  <2>1. k \in Kinds /\ k \notin {"flip", "offer"} BY DEF Kinds, Waits
  <2>2. ~(s \in DOMAIN rows /\ k \in NewsOf(s))
    <3>1. CASE s \notin DOMAIN rows BY <3>1
    <3>2. CASE stage \in {"flips", "offers"} BY <2>1, <3>2 DEF NewsOf
    <3>3. stage \in Stages BY CommitWrites
    <3> QED BY <3>1, <3>2, <3>3 DEF Stages
  <2>3. Of(kept', s, k) = Of(kept, s, k) \cup {t \in {now} : s \in DOMAIN rows /\ k \in NewsOf(s)}
    BY <2>1, CommitWrites
  <2> QED BY <2>2, <2>3
<1> QED BY <1>1, <1>2, <1>3 DEF Status, Steps

\* A session that was looked at before has one row, with what was seen then; one that was not has none.
LEMMA RowOfLastLook ==
  ASSUME SessionsOK, NEW s \in Sessions
  PROVE  /\ Len(Rows(s)) = 0 => db.sessions[s] = {}
         /\ Len(Rows(s)) # 0 => \E r : db.sessions[s] = {r} /\ RowOK(s, r)
<1>1. CASE db.sessions[s] = {} BY <1>1 DEF SessionsOK
<1>2. CASE db.sessions[s] # {}
  <2>1. PICK r \in db.sessions[s] : RowOK(s, r) BY <1>2 DEF SessionsOK
  <2> QED BY <1>2, <2>1 DEF RowOK
<1> QED BY <1>1, <1>2

\* What is sent for a look, by the row of the look before.
LEMMA NewsByRow ==
  ASSUME AlertIInv, Commit, stage \in {"local", "relayed"}, NEW s \in DOMAIN rows
  PROVE  /\ db.sessions[s] = {} =>
              /\ SessionsNext(s) = {FirstRow(rows[s].status)}
              /\ \A k \in Waits \cup {"quiet"} : k \notin NewsOf(s)
         /\ \A r : db.sessions[s] = {r} =>
              /\ SessionsNext(s) = {NextRow(r, rows[s].status)}
              /\ \A k \in Waits : k \in NewsOf(s) <=> k = rows[s].status /\ k # r.state
              /\ "quiet" \in NewsOf(s) <=> QuietIsNews(r, rows[s].status)
<1>1. NewsOf(s) = {k \in Waits : k = rows[s].status /\ \E r \in db.sessions[s] : WaitIsNews(r, k)}
                    \cup {k \in {"quiet"} : \E r \in db.sessions[s] : QuietIsNews(r, rows[s].status)}
  BY DEF NewsOf
<1>2. "quiet" \notin Waits BY DEF Waits
<1>3. \A r, k : k \in Waits => (WaitIsNews(r, k) <=> k # r.state) BY DEF WaitIsNews
<1>4. db.sessions[s] = {} => /\ SessionsNext(s) = {FirstRow(rows[s].status)}
                             /\ \A k \in Waits \cup {"quiet"} : k \notin NewsOf(s)
  BY <1>1 DEF SessionsNext
<1>5. ASSUME NEW r, db.sessions[s] = {r}
      PROVE  /\ SessionsNext(s) = {NextRow(r, rows[s].status)}
             /\ \A k \in Waits : k \in NewsOf(s) <=> k = rows[s].status /\ k # r.state
             /\ "quiet" \in NewsOf(s) <=> QuietIsNews(r, rows[s].status)
  BY <1>1, <1>2, <1>3, <1>5 DEF SessionsNext
<1> QED BY <1>4, <1>5

\* A wait is announced by the commit whose look found it, if the look before did not.
LEMMA WaitsStep == ASSUME AlertIInv, Commit PROVE WaitsAnnounced'
<1> SUFFICES ASSUME NEW s \in Sessions, NEW k \in Waits
             PROVE  Of(kept', s, k) = {Rows(s)'[i].at : i \in {j \in Steps(s)' :
                                         Status(s, j)' = k /\ Status(s, j - 1)' # k}}
  BY DEF WaitsAnnounced
<1>0. Of(kept, s, k) = {Rows(s)[i].at : i \in {j \in Steps(s) : Status(s, j) = k /\ Status(s, j - 1) # k}}
  BY DEF AlertIInv, ChangesAreAnnounced, WaitsAnnounced
<1>1. CASE ~(stage \in {"local", "relayed"} /\ s \in DOMAIN rows)
  BY <1>0, <1>1, NotLookedAt
<1>2. CASE stage \in {"local", "relayed"} /\ s \in DOMAIN rows
  <2>1. PICK n \in Nat : n = Len(Rows(s))
    <3>1. Rows(s) \in Seq(Looks) BY DEF AlertIInv, AlertTypes, Rows, Stages
    <3> QED BY <3>1
  <2>2. /\ \A i \in 1..n : /\ Rows(s)'[i] = Rows(s)[i] /\ Status(s, i)' = Status(s, i)
        /\ Rows(s)'[n + 1].at = now /\ Status(s, n + 1)' = rows[s].status
        /\ Steps(s) = 2..n /\ Steps(s)' = IF n = 0 THEN {} ELSE (2..n) \cup {n + 1}
        /\ \A i \in 2..n : i \in 1..n /\ i - 1 \in 1..n
        /\ n > 0 => n \in 1..n /\ (n + 1) - 1 = n
    BY <1>2, <2>1, LookedAt
  <2>3. Of(kept', s, k) = Of(kept, s, k) \cup {t \in {now} : k \in NewsOf(s)}
    <3>1. k \in Kinds BY DEF Kinds, Waits
    <3> QED BY <1>2, <3>1, CommitWrites
  <2>4. CASE n = 0
    <3>1. k \notin NewsOf(s) BY <1>2, <2>1, <2>4, RowOfLastLook, NewsByRow DEF AlertIInv
    <3>2. Steps(s) = {} /\ Steps(s)' = {} BY <2>2, <2>4
    <3> QED BY <1>0, <2>3, <3>1, <3>2
  <2>5. CASE n # 0
    <3>1. PICK r : db.sessions[s] = {r} /\ RowOK(s, r) BY <2>1, <2>5, RowOfLastLook DEF AlertIInv
    <3>2. r.state = Status(s, n) BY <2>1, <3>1 DEF RowOK
    <3>3. n > 0 BY <2>5
    <3>4. k \in NewsOf(s) <=> Status(s, n + 1)' = k /\ Status(s, n)' # k
      BY <1>2, <2>2, <3>1, <3>2, <3>3, NewsByRow
    <3> DEFINE P(j) == Status(s, j)' = k /\ Status(s, j - 1)' # k
    <3>5. \A j \in 2..n : P(j) <=> Status(s, j) = k /\ Status(s, j - 1) # k BY <2>2
    <3>6. P(n + 1) <=> k \in NewsOf(s) BY <2>2, <3>3, <3>4
    <3>7. {j \in Steps(s)' : P(j)} = {j \in 2..n : Status(s, j) = k /\ Status(s, j - 1) # k}
                                       \cup {j \in {n + 1} : k \in NewsOf(s)}
      BY <2>2, <2>5, <3>5, <3>6
    <3> HIDE DEF P
    <3>8. {Rows(s)'[i].at : i \in {j \in Steps(s)' : P(j)}} = Of(kept, s, k) \cup {t \in {now} : k \in NewsOf(s)}
      BY <1>0, <2>2, <3>7
    <3> QED BY <2>3, <3>8 DEF P
  <2> QED BY <2>4, <2>5
<1> QED BY <1>1, <1>2

\* The quiet alerts of a session that was looked at: the row holds the last one, which is the cooldown
\* and a run before the next.
LEMMA QuietOfOne ==
  ASSUME AlertIInv, Commit, stage \in {"local", "relayed"}, NEW s \in DOMAIN rows
  PROVE  /\ db'.sessions[s] # {}
         /\ \A r \in db'.sessions[s] : RowOK(s, r)'
         /\ \A t \in Of(kept', s, "quiet") : \E i \in Steps(s)' :
              Rows(s)'[i].at = t /\ Status(s, i)' = "stopped" /\ Status(s, i - 1)' \in {"running", "idle"}
         /\ \A t, u \in Of(kept', s, "quiet") : t < u =>
              /\ u - t >= Cooldown
              /\ \E i \in Steps(s)' : t < Rows(s)'[i].at /\ Rows(s)'[i].at < u /\ Status(s, i)' = "running"
         /\ \A i \in Steps(s)' : Status(s, i)' = "stopped" /\ Status(s, i - 1)' = "running" =>
              \E t \in Of(kept', s, "quiet") : t <= Rows(s)'[i].at /\ Rows(s)'[i].at - t < Cooldown
<1> DEFINE alerts == Of(kept, s, "quiet")
           status == rows[s].status
<1>0. /\ SessionsOK /\ s \in Sessions /\ now \in Nat /\ Cooldown \in Nat /\ Cooldown > 0 /\ status \in Statuses
      /\ Rows(s) \in Seq(Looks) /\ db'.sessions[s] = SessionsNext(s)
  <2>1. SessionsOK /\ s \in Sessions /\ now \in Nat /\ rows[s] \in Sights /\ db'.sessions[s] = SessionsNext(s)
    BY CommitWrites DEF AlertIInv
  <2>2. status \in Statuses /\ Cooldown \in Nat /\ Cooldown > 0 BY <2>1, AlertAssumption
  <2>3. Rows(s) \in Seq(Looks) BY <2>1 DEF AlertIInv, AlertTypes, Rows, Stages
  <2> QED BY <2>1, <2>2, <2>3
<1>1. PICK n \in Nat : n = Len(Rows(s)) BY <1>0
<1>2. /\ Len(Rows(s)') = n + 1
      /\ \A i \in 1..n : /\ Rows(s)'[i] = Rows(s)[i] /\ Status(s, i)' = Status(s, i)
                         /\ Rows(s)[i].at \in Nat /\ Rows(s)[i].at < now
      /\ Rows(s)'[n + 1].at = now /\ Status(s, n + 1)' = status
      /\ Steps(s) = 2..n /\ Steps(s)' = IF n = 0 THEN {} ELSE (2..n) \cup {n + 1}
      /\ \A i \in 2..n : i \in 1..n /\ i - 1 \in 1..n
      /\ n > 0 => n \in 1..n /\ (n + 1) - 1 = n
  BY <1>1, LookedAt
<1>3. /\ \A t \in alerts : \E i \in Steps(s) :
           Rows(s)[i].at = t /\ Status(s, i) = "stopped" /\ Status(s, i - 1) \in {"running", "idle"}
      /\ \A t, u \in alerts : t < u =>
           /\ u - t >= Cooldown
           /\ \E i \in Steps(s) : t < Rows(s)[i].at /\ Rows(s)[i].at < u /\ Status(s, i) = "running"
      /\ \A i \in Steps(s) : Status(s, i) = "stopped" /\ Status(s, i - 1) = "running" =>
           \E t \in alerts : t <= Rows(s)[i].at /\ Rows(s)[i].at - t < Cooldown
  BY <1>0 DEF AlertIInv, QuietIsPacedNotLost, QuietPaced, StopsAreReported
<1>4. \A t \in alerts : t \in Nat /\ t < now BY <1>2, <1>3
<1>5. Of(kept', s, "quiet") = alerts \cup {t \in {now} : "quiet" \in NewsOf(s)}
  BY <1>0, CommitWrites DEF Kinds
<1> HIDE DEF alerts
<1>6. CASE n = 0
  <2>1. db.sessions[s] = {} BY <1>0, <1>1, <1>6, RowOfLastLook
  <2>2. SessionsNext(s) = {FirstRow(status)} /\ "quiet" \notin NewsOf(s) BY <2>1, NewsByRow
  <2>3. alerts = {} /\ Of(kept', s, "quiet") = {} /\ Steps(s)' = {}
    <3>1. Steps(s) = {} /\ Steps(s)' = {} BY <1>2, <1>6
    <3> QED BY <1>3, <1>5, <2>2, <3>1
  <2>4. PICK r : r = FirstRow(status) OBVIOUS
  <2>5. RowOK(s, r)'
    <3>1. Len(Rows(s)') > 0 /\ Len(Rows(s)') = 1 /\ Status(s, 1)' = status BY <1>2, <1>6
    <3>2. r.state = status /\ r.quiet = Never /\ (status = "running" => ~r.alerted) BY <2>4 DEF FirstRow
    <3>3. db'.sessions[s] = {r} BY <1>0, <2>2, <2>4
    <3> QED BY <2>3, <3>1, <3>2, <3>3 DEF RowOK
  <2>6. db'.sessions[s] = {r} BY <1>0, <2>2, <2>4
  <2> QED BY <2>3, <2>5, <2>6
<1>7. CASE n # 0
  <2>0. n > 0 /\ Steps(s)' = (2..n) \cup {n + 1} /\ Status(s, n)' = Status(s, n) BY <1>2, <1>7
  <2>1. PICK r : db.sessions[s] = {r} /\ RowOK(s, r) BY <1>0, <1>1, <1>7, RowOfLastLook
  <2>2. /\ r.state = Status(s, n) /\ (r.state = "running" => ~r.alerted)
        /\ r.quiet = Never => alerts = {}
        /\ r.quiet # Never => r.quiet \in alerts /\ \A t \in alerts : t <= r.quiet
        /\ ~r.alerted /\ r.quiet # Never =>
             \E i \in 2..n : r.quiet < Rows(s)[i].at /\ Status(s, i) = "running"
    BY <1>1, <1>2, <2>1 DEF RowOK, alerts
  <2> DEFINE q == QuietIsNews(r, status)
  <2>row. PICK r2 : r2 = NextRow(r, status) OBVIOUS
  <2>3. SessionsNext(s) = {r2} /\ ("quiet" \in NewsOf(s) <=> q) BY <2>1, <2>row, NewsByRow
  <2>4. Of(kept', s, "quiet") = alerts \cup {t \in {now} : q} BY <1>5, <2>3
  <2>5. /\ q => status = "stopped" /\ ~r.alerted /\ r.state \in {"running", "idle"}
                /\ (r.quiet = Never \/ now - r.quiet >= Cooldown)
        /\ status = "stopped" /\ ~r.alerted /\ r.state \in {"running", "idle"}
             /\ (r.quiet = Never \/ now - r.quiet >= Cooldown) => q
        /\ q \in BOOLEAN
    BY DEF QuietIsNews
  <2>6. /\ r2.state = status /\ (r2.alerted <=> status # "running" /\ (r.alerted \/ q))
        /\ r2.quiet = IF q THEN now ELSE r.quiet
    BY <2>row DEF NextRow
  <2> HIDE DEF q
  <2>7. \A i \in 2..n : /\ i \in Steps(s)' /\ Rows(s)'[i] = Rows(s)[i] /\ Status(s, i)' = Status(s, i)
                        /\ Status(s, i - 1)' = Status(s, i - 1)
                        /\ Rows(s)[i].at \in Nat /\ Rows(s)[i].at < now
    BY <1>2, <2>0
  <2>8. n + 1 \in Steps(s)' /\ Rows(s)'[n + 1].at = now /\ Status(s, n + 1)' = status
        /\ Status(s, (n + 1) - 1)' = r.state
    BY <1>2, <2>0, <2>2
  <2>9. now # Never BY <1>0 DEF Never
  <2>10. RowOK(s, r2)'
    <3>1. db'.sessions[s] = {r2} /\ Len(Rows(s)') > 0 /\ r2.state = Status(s, Len(Rows(s)))'
      <4>1. Len(Rows(s)') = n + 1 /\ n + 1 > 0 BY <1>2
      <4> QED BY <1>0, <2>3, <2>6, <2>8, <4>1
    <3>2. r2.state = "running" => ~r2.alerted BY <2>6
    <3>3. r2.quiet = Never => Of(kept', s, "quiet") = {} BY <2>2, <2>4, <2>6, <2>9
    <3>4. r2.quiet # Never => r2.quiet \in Of(kept', s, "quiet")
                              /\ \A t \in Of(kept', s, "quiet") : t <= r2.quiet
      <4>1. CASE q BY <1>0, <1>4, <2>4, <2>6, <4>1
      <4>2. CASE ~q BY <2>2, <2>4, <2>6, <4>2
      <4> QED BY <4>1, <4>2
    <3>5. ASSUME ~r2.alerted, r2.quiet # Never
          PROVE  \E i \in Steps(s)' : r2.quiet < Rows(s)'[i].at /\ Status(s, i)' = "running"
      <4>1. CASE status = "running"
        <5>1. r2.quiet \in alerts BY <2>2, <2>5, <2>6, <3>5, <4>1
        <5> QED BY <1>4, <2>8, <4>1, <5>1
      <4>2. CASE status # "running"
        <5>1. ~r.alerted /\ ~q /\ r2.quiet = r.quiet BY <2>6, <3>5, <4>2
        <5>2. PICK i \in 2..n : r.quiet < Rows(s)[i].at /\ Status(s, i) = "running" BY <2>2, <3>5, <5>1
        <5> QED BY <2>7, <5>1, <5>2
      <4> QED BY <4>1, <4>2
    <3> QED BY <3>1, <3>2, <3>3, <3>4, <3>5 DEF RowOK
  <2>11. ASSUME NEW t \in Of(kept', s, "quiet")
         PROVE  \E i \in Steps(s)' : /\ Rows(s)'[i].at = t /\ Status(s, i)' = "stopped"
                                     /\ Status(s, i - 1)' \in {"running", "idle"}
    <3>1. CASE t \in alerts
      <4>1. PICK i \in 2..n : /\ Rows(s)[i].at = t /\ Status(s, i) = "stopped"
                              /\ Status(s, i - 1) \in {"running", "idle"}
        BY <1>2, <1>3, <3>1
      <4> QED BY <2>7, <4>1
    <3>2. CASE t = now /\ q BY <2>5, <2>8, <3>2
    <3> QED BY <2>4, <2>11, <3>1, <3>2
  <2>12. ASSUME NEW t \in Of(kept', s, "quiet"), NEW u \in Of(kept', s, "quiet"), t < u
         PROVE  /\ u - t >= Cooldown
                /\ \E i \in Steps(s)' : t < Rows(s)'[i].at /\ Rows(s)'[i].at < u /\ Status(s, i)' = "running"
    <3>1. CASE u \in alerts
      <4>1. t \in alerts BY <1>0, <1>4, <2>4, <2>12, <3>1
      <4>2. PICK i \in 2..n : t < Rows(s)[i].at /\ Rows(s)[i].at < u /\ Status(s, i) = "running"
        BY <1>2, <1>3, <2>12, <3>1, <4>1, SMTT(60)
      <4>3. u - t >= Cooldown BY <1>3, <2>12, <3>1, <4>1
      <4> QED BY <2>7, <4>2, <4>3
    <3>2. CASE u = now /\ q
      <4>1. t \in alerts BY <1>0, <2>4, <2>12, <3>2
      <4>2. r.quiet # Never /\ r.quiet \in alerts /\ t <= r.quiet BY <2>2, <4>1
      <4>3. now - r.quiet >= Cooldown /\ ~r.alerted BY <2>5, <3>2, <4>2
      <4>4. PICK i \in 2..n : r.quiet < Rows(s)[i].at /\ Status(s, i) = "running" BY <2>2, <4>2, <4>3
      <4>5. t \in Nat /\ r.quiet \in Nat BY <1>4, <4>1, <4>2
      <4>6. u - t >= Cooldown BY <1>0, <3>2, <4>2, <4>3, <4>5
      <4>7. t < Rows(s)[i].at /\ Rows(s)[i].at < u BY <1>0, <2>7, <3>2, <4>2, <4>4, <4>5
      <4> QED BY <2>7, <4>4, <4>6, <4>7
    <3> QED BY <2>4, <3>1, <3>2
  <2>13. ASSUME NEW i \in Steps(s)', Status(s, i)' = "stopped", Status(s, i - 1)' = "running"
         PROVE  \E t \in Of(kept', s, "quiet") : t <= Rows(s)'[i].at /\ Rows(s)'[i].at - t < Cooldown
    <3>1. CASE i \in 2..n
      <4>1. PICK t \in alerts : t <= Rows(s)[i].at /\ Rows(s)[i].at - t < Cooldown
        BY <1>2, <1>3, <2>7, <2>13, <3>1
      <4> QED BY <2>4, <2>7, <3>1, <4>1
    <3>2. CASE i = n + 1
      <4>1. status = "stopped" /\ r.state = "running" /\ ~r.alerted BY <2>2, <2>8, <2>13, <3>2
      <4>2. CASE q
        <5>1. now \in Of(kept', s, "quiet") /\ Rows(s)'[i].at = now BY <2>4, <2>8, <3>2, <4>2
        <5>2. now <= now /\ now - now < Cooldown BY <1>0
        <5> QED BY <5>1, <5>2
      <4>3. CASE ~q
        <5>1. r.quiet # Never /\ ~(now - r.quiet >= Cooldown) BY <2>5, <4>1, <4>3
        <5>2. r.quiet \in alerts /\ r.quiet \in Nat /\ r.quiet < now BY <1>4, <2>2, <5>1
        <5> QED BY <1>0, <2>4, <2>8, <3>2, <5>1, <5>2
      <4> QED BY <4>2, <4>3
    <3> QED BY <2>0, <3>1, <3>2
  <2>14. db'.sessions[s] = {r2} BY <1>0, <2>3
  <2> QED BY <2>10, <2>11, <2>12, <2>13, <2>14
<1> QED BY <1>6, <1>7

\* One look more of the stages that send flips and offers.
LEMMA OneMoreOf ==
  ASSUME AlertIInv, Commit, stage \in {"flips", "offers"}, NEW s \in DOMAIN rows, NEW n \in Nat,
         n = Len(log[stage][s])
  PROVE  /\ s \in Sessions /\ log[stage][s] \in Seq(Looks)
         /\ Len(log'[stage][s]) = n + 1
         /\ \A i \in 1..n : log'[stage][s][i] = log[stage][s][i]
         /\ log'[stage][s][n + 1].at = now /\ log'[stage][s][n + 1].saw = rows[s]
         /\ 1..(n + 1) = (1..n) \cup {n + 1}
         /\ n > 0 => n \in 1..n /\ (n + 1) - 1 = n
<1> DEFINE e == [at |-> now, saw |-> rows[s]]
<1>1. /\ s \in Sessions /\ stage \in Stages /\ e \in Looks /\ e.at = now /\ e.saw = rows[s]
      /\ \A h \in Stages, r \in Sessions :
           log'[h][r] = IF h = stage /\ r \in DOMAIN rows THEN Append(log[h][r], [at |-> now, saw |-> rows[r]])
                        ELSE log[h][r]
  BY CommitWrites
<1>2. log'[stage][s] = Append(log[stage][s], e) BY <1>1
<1>3. log[stage][s] \in Seq(Looks) BY <1>1 DEF AlertIInv, AlertTypes
<1> HIDE DEF e
<1>4. /\ Len(log'[stage][s]) = n + 1 /\ log'[stage][s][n + 1] = e
      /\ \A i \in 1..n : log'[stage][s][i] = log[stage][s][i]
      /\ 1..(n + 1) = (1..n) \cup {n + 1} /\ n > 0 => n \in 1..n
  <2>1. n = Len(log[stage][s]) OBVIOUS
  <2> QED BY <1>1, <1>2, <1>3, <2>1, OneMoreLook
<1>5. (n + 1) - 1 = n OBVIOUS
<1> QED BY <1>1, <1>3, <1>4, <1>5

\* A stage that is not about flips, or not about this session, adds none.
LEMMA NoneOf ==
  ASSUME AlertIInv, Commit, NEW s \in Sessions
  PROVE  /\ ~(stage = "flips" /\ s \in DOMAIN rows) =>
              /\ log'["flips"][s] = log["flips"][s] /\ db'.flips[s] = db.flips[s]
              /\ Of(kept', s, "flip") = Of(kept, s, "flip")
         /\ ~(stage = "offers" /\ s \in DOMAIN rows) =>
              /\ log'["offers"][s] = log["offers"][s] /\ db'.offered[s] = db.offered[s]
              /\ Of(kept', s, "offer") = Of(kept, s, "offer")
<1>1. /\ \A h \in Stages, r \in Sessions :
           log'[h][r] = IF h = stage /\ r \in DOMAIN rows THEN Append(log[h][r], [at |-> now, saw |-> rows[r]])
                        ELSE log[h][r]
      /\ \A k \in Kinds :
           Of(kept', s, k) = Of(kept, s, k) \cup {t \in {now} : s \in DOMAIN rows /\ k \in NewsOf(s)}
      /\ db'.flips[s] = IF stage = "flips" /\ s \in DOMAIN rows THEN FlipsNext(s) ELSE db.flips[s]
      /\ db'.offered[s] = IF stage = "offers" /\ s \in DOMAIN rows THEN IsHot(rows[s]) ELSE db.offered[s]
  BY CommitWrites
<1>2. "flip" \in Kinds /\ "offer" \in Kinds /\ "flips" \in Stages /\ "offers" \in Stages BY DEF Kinds, Stages
<1>3. stage # "flips" => "flip" \notin NewsOf(s) BY DEF NewsOf, Waits
<1>4. stage # "offers" => "offer" \notin NewsOf(s) BY DEF NewsOf, Waits
<1> QED BY <1>1, <1>2, <1>3, <1>4

\* Of the places in a sequence: which lie between two of them.
LEMMA Between ==
  ASSUME NEW n \in Nat, NEW i \in 1..n
  PROVE  /\ i \in Int /\ i \in 1..(n + 1)
         /\ \A m \in (i + 1)..n : m \in 1..n
         /\ \A m \in (i + 1)..(n + 1) : m = n + 1 \/ (m \in (i + 1)..n /\ m \in 1..n)
         /\ \A m \in 1..(i - 1) : m \in 1..n /\ \A k \in (m + 1)..(i - 1) : k \in 1..n
         /\ \A j \in 1..n : i = j \/ j \in (i + 1)..n \/ i \in (j + 1)..n
OBVIOUS

\* A flip is announced by the commit whose look found acceptEdits after another known mode.
LEMMA FlipsStep == ASSUME AlertIInv, Commit PROVE FlipsOK' /\ FlipsAnnounced'
<1> SUFFICES ASSUME NEW s \in Sessions
             PROVE  /\ db'.flips[s] = {} => NoneKnown(s)'
                    /\ \A r \in db'.flips[s] : /\ db'.flips[s] = {r} /\ r.pmode # ""
                                               /\ (r.notified => r.pmode = "acceptEdits")
                                               /\ LastKnown(s, r.pmode)'
                    /\ s \in Local =>
                         Of(kept', s, "flip") =
                           {log'["flips"][s][j].at : j \in {i \in 1..Len(log'["flips"][s]) : BecameAcceptEdits(s, i)'}}
  BY DEF FlipsOK, FlipsAnnounced, Sessions, NoneKnown, LastKnown, BecameAcceptEdits, Mode
<1>0. /\ db.flips[s] = {} => NoneKnown(s)
      /\ \A r \in db.flips[s] : /\ db.flips[s] = {r} /\ r.pmode # "" /\ (r.notified => r.pmode = "acceptEdits")
                                /\ LastKnown(s, r.pmode)
      /\ s \in Local =>
           Of(kept, s, "flip") =
             {log["flips"][s][j].at : j \in {i \in 1..Len(log["flips"][s]) : BecameAcceptEdits(s, i)}}
  BY DEF AlertIInv, FlipsOK, ChangesAreAnnounced, FlipsAnnounced
<1>1. CASE ~(stage = "flips" /\ s \in DOMAIN rows)
  <2>1. /\ log'["flips"][s] = log["flips"][s] /\ db'.flips[s] = db.flips[s]
        /\ Of(kept', s, "flip") = Of(kept, s, "flip")
    BY <1>1, NoneOf
  <2>2. \A i : Mode(s, i)' = Mode(s, i) BY <2>1 DEF Mode
  <2>3. /\ NoneKnown(s)' <=> NoneKnown(s)
        /\ \A p : LastKnown(s, p)' <=> LastKnown(s, p)
        /\ \A i : BecameAcceptEdits(s, i)' <=> BecameAcceptEdits(s, i)
    BY <2>1, <2>2 DEF NoneKnown, LastKnown, BecameAcceptEdits
  <2>4. db'.flips[s] = {} => NoneKnown(s)' BY <1>0, <2>1, <2>3
  <2>5. \A r \in db'.flips[s] : /\ db'.flips[s] = {r} /\ r.pmode # "" /\ (r.notified => r.pmode = "acceptEdits")
                                /\ LastKnown(s, r.pmode)'
    <3> SUFFICES ASSUME NEW r \in db.flips[s]
                 PROVE  /\ db'.flips[s] = {r} /\ r.pmode # "" /\ (r.notified => r.pmode = "acceptEdits")
                        /\ LastKnown(s, r.pmode)'
      BY <2>1
    <3> QED BY <1>0, <2>1, <2>3
  <2>6. s \in Local =>
          Of(kept', s, "flip") =
            {log'["flips"][s][j].at : j \in {i \in 1..Len(log'["flips"][s]) : BecameAcceptEdits(s, i)'}}
    <3> DEFINE B(i) == BecameAcceptEdits(s, i)'
    <3>1. \A i : B(i) <=> BecameAcceptEdits(s, i) BY <2>3
    <3> HIDE DEF B
    <3>2. \A N : {i \in N : B(i)} = {i \in N : BecameAcceptEdits(s, i)} BY <3>1
    <3>3. s \in Local => Of(kept', s, "flip") =
            {log'["flips"][s][j].at : j \in {i \in 1..Len(log'["flips"][s]) : BecameAcceptEdits(s, i)}}
      <4>1. s \in Local => Of(kept, s, "flip") =
              {log["flips"][s][j].at : j \in {i \in 1..Len(log["flips"][s]) : BecameAcceptEdits(s, i)}}
        BY <1>0
      <4> QED BY <2>1, <4>1, Zenon
    <3>4. s \in Local => Of(kept', s, "flip") =
            {log'["flips"][s][j].at : j \in {i \in 1..Len(log'["flips"][s]) : B(i)}}
      BY <3>2, <3>3
    <3> QED BY <3>4 DEF B
  <2> QED BY <2>4, <2>5, <2>6
<1>2. CASE stage = "flips" /\ s \in DOMAIN rows
  <2>1. PICK n \in Nat : n = Len(log["flips"][s])
    <3>1. log["flips"][s] \in Seq(Looks) BY DEF AlertIInv, AlertTypes, Stages
    <3> QED BY <3>1
  <2>2. PICK p : p = rows[s].pmode OBVIOUS
  <2>3. /\ Len(log'["flips"][s]) = n + 1
        /\ \A i \in 1..n : log'["flips"][s][i] = log["flips"][s][i]
        /\ log'["flips"][s][n + 1].at = now /\ Mode(s, n + 1)' = p
        /\ 1..(n + 1) = (1..n) \cup {n + 1}
    BY <1>2, <2>1, <2>2, OneMoreOf DEF Mode
  <2>4. \A i \in 1..n : Mode(s, i)' = Mode(s, i) BY <2>3 DEF Mode
  <2>5. NoneKnown(s) <=> \A i \in 1..n : Mode(s, i) = "" BY <2>1 DEF NoneKnown
  <2>6. \A x : LastKnown(s, x) <=> \E i \in 1..n : Mode(s, i) = x /\ \A m \in (i + 1)..n : Mode(s, m) = ""
    BY <2>1 DEF LastKnown
  <2>7. p = "" => (NoneKnown(s) => NoneKnown(s)') /\ \A x : LastKnown(s, x) => LastKnown(s, x)'
    <3> SUFFICES ASSUME p = ""
                 PROVE  (NoneKnown(s) => NoneKnown(s)') /\ \A x : LastKnown(s, x) => LastKnown(s, x)'
      OBVIOUS
    <3>1. NoneKnown(s)' <=> \A i \in 1..(n + 1) : Mode(s, i)' = "" BY <2>3 DEF NoneKnown
    <3>2. ASSUME NEW x, LastKnown(s, x) PROVE LastKnown(s, x)'
      <4>1. PICK i \in 1..n : Mode(s, i) = x /\ \A m \in (i + 1)..n : Mode(s, m) = "" BY <2>6, <3>2
      <4>2. i \in 1..(n + 1) /\ Mode(s, i)' = x BY <2>4, <4>1, Between
      <4>3. \A m \in (i + 1)..(n + 1) : m = n + 1 \/ (m \in (i + 1)..n /\ m \in 1..n) BY Between
      <4>4. \A m \in (i + 1)..(n + 1) : Mode(s, m)' = "" BY <2>3, <2>4, <4>1, <4>3
      <4> QED BY <2>3, <4>2, <4>4 DEF LastKnown
    <3> QED BY <2>3, <2>4, <2>5, <3>1, <3>2
  <2>8. LastKnown(s, p)'
    <3>1. n + 1 \in 1..(n + 1) /\ (n + 1 + 1)..(n + 1) = {} OBVIOUS
    <3> QED BY <2>3, <3>1 DEF LastKnown
  <2>9. ASSUME NEW j \in 1..n PROVE BecameAcceptEdits(s, j)' <=> BecameAcceptEdits(s, j)
    <3>1. \A i \in 1..(j - 1) : i \in 1..n /\ \A m \in (i + 1)..(j - 1) : m \in 1..n BY Between
    <3> QED BY <2>4, <3>1 DEF BecameAcceptEdits
  <2>10. BecameAcceptEdits(s, n + 1)' <=>
           /\ p = "acceptEdits"
           /\ \E i \in 1..n : Mode(s, i) \notin {"", "acceptEdits"} /\ \A m \in (i + 1)..n : Mode(s, m) = ""
    <3>1. (n + 1) - 1 = n /\ \A i \in 1..n : \A m \in (i + 1)..n : m \in 1..n BY Between
    <3>2. BecameAcceptEdits(s, n + 1)' <=>
            /\ Mode(s, n + 1)' = "acceptEdits"
            /\ \E i \in 1..n : Mode(s, i)' \notin {"", "acceptEdits"} /\ \A m \in (i + 1)..n : Mode(s, m)' = ""
      BY <3>1 DEF BecameAcceptEdits
    <3> QED BY <2>3, <2>4, <3>1, <3>2
  <2>11. "flip" \in NewsOf(s) <=>
           p = "acceptEdits" /\ \E r \in db.flips[s] : r.pmode # "acceptEdits" /\ ~r.notified
    BY <1>2, <2>2 DEF NewsOf
  <2>12. "flip" \in NewsOf(s) <=> BecameAcceptEdits(s, n + 1)'
    <3>1. CASE db.flips[s] = {}
      <4>1. \A i \in 1..n : Mode(s, i) = "" BY <1>0, <2>5, <3>1
      <4> QED BY <2>10, <2>11, <3>1, <4>1
    <3>2. CASE db.flips[s] # {}
      <4>1. PICK r : /\ db.flips[s] = {r} /\ r.pmode # "" /\ (r.notified => r.pmode = "acceptEdits")
                     /\ LastKnown(s, r.pmode)
        BY <1>0, <3>2
      <4>2. PICK i0 \in 1..n : Mode(s, i0) = r.pmode /\ \A m \in (i0 + 1)..n : Mode(s, m) = "" BY <2>6, <4>1
      <4>3. "flip" \in NewsOf(s) <=> p = "acceptEdits" /\ r.pmode # "acceptEdits" BY <2>11, <4>1
      <4>4. \A i \in 1..n : Mode(s, i) # "" /\ (\A m \in (i + 1)..n : Mode(s, m) = "") => i = i0
        <5> SUFFICES ASSUME NEW i \in 1..n, Mode(s, i) # "", \A m \in (i + 1)..n : Mode(s, m) = ""
                     PROVE  i = i0
          OBVIOUS
        <5>1. i = i0 \/ i0 \in (i + 1)..n \/ i \in (i0 + 1)..n BY Between
        <5>2. i0 \notin (i + 1)..n BY <4>1, <4>2
        <5>3. i \notin (i0 + 1)..n BY <4>2
        <5> QED BY <5>1, <5>2, <5>3
      <4>5. (\E i \in 1..n : Mode(s, i) \notin {"", "acceptEdits"} /\ \A m \in (i + 1)..n : Mode(s, m) = "")
              <=> r.pmode # "acceptEdits"
        BY <4>1, <4>2, <4>4
      <4> QED BY <2>10, <4>3, <4>5
    <3> QED BY <3>1, <3>2
  <2>13. s \in Local =>
           Of(kept', s, "flip") =
             {log'["flips"][s][j].at : j \in {i \in 1..Len(log'["flips"][s]) : BecameAcceptEdits(s, i)'}}
    <3> SUFFICES ASSUME s \in Local
                 PROVE  Of(kept', s, "flip") =
                          {log'["flips"][s][j].at : j \in {i \in 1..Len(log'["flips"][s]) : BecameAcceptEdits(s, i)'}}
      OBVIOUS
    <3>1. Of(kept', s, "flip") = Of(kept, s, "flip") \cup {t \in {now} : "flip" \in NewsOf(s)}
      <4>1. "flip" \in Kinds BY DEF Kinds
      <4> QED BY <1>2, <4>1, CommitWrites
    <3>2. Of(kept, s, "flip") = {log["flips"][s][j].at : j \in {i \in 1..n : BecameAcceptEdits(s, i)}}
      BY <1>0, <2>1
    <3> DEFINE B(i) == BecameAcceptEdits(s, i)'
    <3>3. \A i \in 1..n : B(i) <=> BecameAcceptEdits(s, i) BY <2>9
    <3>4. B(n + 1) <=> "flip" \in NewsOf(s) BY <2>12
    <3> HIDE DEF B
    <3>5. {i \in 1..(n + 1) : B(i)} = {i \in 1..n : BecameAcceptEdits(s, i)} \cup {i \in {n + 1} : "flip" \in NewsOf(s)}
      BY <2>3, <3>3, <3>4
    <3>6. {log'["flips"][s][j].at : j \in {i \in 1..(n + 1) : B(i)}}
            = Of(kept, s, "flip") \cup {t \in {now} : "flip" \in NewsOf(s)}
      BY <2>3, <3>2, <3>5
    <3> QED BY <2>3, <3>1, <3>6 DEF B
  <2>14. db'.flips[s] = FlipsNext(s) BY <1>2, CommitWrites
  <2>15. CASE p = ""
    <3>1. db'.flips[s] = db.flips[s] BY <2>2, <2>14, <2>15 DEF FlipsNext
    <3> QED BY <1>0, <2>7, <2>13, <2>15, <3>1
  <2>16. CASE p # ""
    <3>1. \E b \in BOOLEAN : db'.flips[s] = {[pmode |-> p, notified |-> p = "acceptEdits" /\ b]}
      <4> DEFINE b == \/ \E r \in db.flips[s] : r.pmode # "acceptEdits" /\ ~r.notified
                      \/ \E r \in db.flips[s] : r.notified
      <4>1. db'.flips[s] = {[pmode |-> p, notified |-> p = "acceptEdits" /\ b]}
        BY <2>2, <2>14, <2>16 DEF FlipsNext
      <4>2. b \in BOOLEAN OBVIOUS
      <4> HIDE DEF b
      <4> QED BY <4>1, <4>2
    <3>2. PICK b \in BOOLEAN : db'.flips[s] = {[pmode |-> p, notified |-> p = "acceptEdits" /\ b]} BY <3>1
    <3>3. PICK r : r = [pmode |-> p, notified |-> p = "acceptEdits" /\ b] OBVIOUS
    <3>4. r.pmode = p /\ (r.notified => p = "acceptEdits") BY <3>3
    <3>5. db'.flips[s] = {r} BY <3>2, <3>3
    <3>6. LastKnown(s, r.pmode)' BY <2>8, <3>4
    <3>7. \A x \in db'.flips[s] : /\ db'.flips[s] = {x} /\ x.pmode # "" /\ (x.notified => x.pmode = "acceptEdits")
                                  /\ LastKnown(s, x.pmode)'
      <4> SUFFICES ASSUME NEW x, x = r
                   PROVE  /\ db'.flips[s] = {x} /\ x.pmode # "" /\ (x.notified => x.pmode = "acceptEdits")
                          /\ LastKnown(s, x.pmode)'
        BY <3>5
      <4> QED BY <2>16, <3>4, <3>5, <3>6
    <3> QED BY <2>13, <3>5, <3>7
  <2> QED BY <2>15, <2>16
<1> QED BY <1>1, <1>2

\* A handoff is offered by the commit whose look found the session hot, if the look before did not.
LEMMA OffersStep == ASSUME AlertIInv, Commit PROVE OffersOK' /\ OffersMade'
<1> DEFINE l(s) == log["offers"][s]
           Became(x, j) == IsHot(x[j].saw) /\ (j = 1 \/ ~IsHot(x[j - 1].saw))
<1> SUFFICES ASSUME NEW s \in Sessions
             PROVE  /\ db'.offered[s] <=> Len(l(s)') > 0 /\ IsHot(l(s)'[Len(l(s)')].saw)
                    /\ s \in Local =>
                         Of(kept', s, "offer") = {l(s)'[i].at : i \in {j \in 1..Len(l(s)') : Became(l(s)', j)}}
  BY DEF OffersOK, OffersMade, Sessions, IsHot
<1>0. /\ db.offered[s] <=> Len(l(s)) > 0 /\ IsHot(l(s)[Len(l(s))].saw)
      /\ s \in Local =>
           Of(kept, s, "offer") = {l(s)[i].at : i \in {j \in 1..Len(l(s)) : Became(l(s), j)}}
  BY DEF AlertIInv, OffersOK, ChangesAreAnnounced, OffersMade
<1>1. CASE ~(stage = "offers" /\ s \in DOMAIN rows)
  <2>1. /\ log'["offers"][s] = log["offers"][s] /\ db'.offered[s] = db.offered[s]
        /\ Of(kept', s, "offer") = Of(kept, s, "offer")
    BY <1>1, NoneOf
  <2> QED BY <1>0, <2>1
<1>2. CASE stage = "offers" /\ s \in DOMAIN rows
  <2>1. PICK n \in Nat : n = Len(log["offers"][s])
    <3>1. log["offers"][s] \in Seq(Looks) BY DEF AlertIInv, AlertTypes, Stages
    <3> QED BY <3>1
  <2>2. PICK x : x = log["offers"][s] OBVIOUS
  <2>3. PICK y : y = log'["offers"][s] OBVIOUS
  <2>4. /\ Len(x) = n /\ Len(y) = n + 1 /\ \A i \in 1..n : y[i] = x[i]
        /\ y[n + 1].at = now /\ y[n + 1].saw = rows[s]
        /\ 1..(n + 1) = (1..n) \cup {n + 1}
        /\ n > 0 => n \in 1..n /\ (n + 1) - 1 = n
    BY <1>2, <2>1, <2>2, <2>3, OneMoreOf
  <2>5. db.offered[s] <=> n > 0 /\ IsHot(x[n].saw) BY <1>0, <2>1, <2>2
  <2>6. "offer" \in NewsOf(s) <=> IsHot(rows[s]) /\ ~db.offered[s] BY <1>2 DEF NewsOf
  <2>7. Became(y, n + 1) <=> "offer" \in NewsOf(s)
    <3>1. CASE n = 0 BY <2>4, <2>5, <2>6, <3>1
    <3>2. CASE n # 0
      <4>1. n > 0 /\ n + 1 # 1 /\ (n + 1) - 1 = n /\ y[n] = x[n] BY <2>4, <3>2
      <4> QED BY <2>4, <2>5, <2>6, <4>1
    <3> QED BY <3>1, <3>2
  <2>8. \A j \in 1..n : Became(y, j) <=> Became(x, j)
    <3>1. \A j \in 1..n : j = 1 \/ j - 1 \in 1..n OBVIOUS
    <3> QED BY <2>4, <3>1
  <2>9. db'.offered[s] <=> n + 1 > 0 /\ IsHot(y[n + 1].saw)
    <3>1. db'.offered[s] = IsHot(rows[s]) BY <1>2, CommitWrites
    <3>2. n + 1 > 0 OBVIOUS
    <3> QED BY <2>4, <3>1, <3>2
  <2>10. ASSUME s \in Local
         PROVE  Of(kept', s, "offer") = {y[i].at : i \in {j \in 1..(n + 1) : Became(y, j)}}
    <3>1. Of(kept', s, "offer") = Of(kept, s, "offer") \cup {t \in {now} : "offer" \in NewsOf(s)}
      <4>1. "offer" \in Kinds BY DEF Kinds
      <4> QED BY <1>2, <4>1, CommitWrites
    <3>2. Of(kept, s, "offer") = {x[i].at : i \in {j \in 1..n : Became(x, j)}} BY <1>0, <2>1, <2>2, <2>10
    <3> HIDE DEF Became
    <3>3. {j \in 1..(n + 1) : Became(y, j)} = {j \in 1..n : Became(x, j)} \cup {j \in {n + 1} : "offer" \in NewsOf(s)}
      BY <2>4, <2>7, <2>8
    <3>4. {y[i].at : i \in {j \in 1..(n + 1) : Became(y, j)}}
            = Of(kept, s, "offer") \cup {t \in {now} : "offer" \in NewsOf(s)}
      BY <2>4, <3>2, <3>3
    <3> QED BY <3>1, <3>4
  <2> QED BY <2>3, <2>4, <2>9, <2>10
<1> QED BY <1>1, <1>2

\* The rows hold the last look at every session again, whichever of them were looked at.
LEMMA RowsStep == ASSUME AlertIInv, Commit PROVE SessionsOK'
<1> SUFFICES ASSUME NEW s \in Sessions
             PROVE  /\ db'.sessions[s] = {} => Len(Rows(s)') = 0
                    /\ \A r \in db'.sessions[s] : RowOK(s, r)'
  BY DEF SessionsOK, RowOK
<1>1. CASE stage \in {"local", "relayed"} /\ s \in DOMAIN rows
  BY <1>1, QuietOfOne
<1>2. CASE ~(stage \in {"local", "relayed"} /\ s \in DOMAIN rows)
  <2>1. /\ Rows(s)' = Rows(s) /\ db'.sessions[s] = db.sessions[s]
        /\ \A i : Status(s, i)' = Status(s, i)
        /\ Steps(s)' = Steps(s)
        /\ Of(kept', s, "quiet") = Of(kept, s, "quiet")
    BY <1>2, NotLookedAt
  <2>2. /\ db.sessions[s] = {} => Len(Rows(s)) = 0
        /\ \A r \in db.sessions[s] : RowOK(s, r)
    BY DEF AlertIInv, SessionsOK
  <2>3. ASSUME NEW r \in db'.sessions[s] PROVE RowOK(s, r)'
    <3>1. RowOK(s, r) BY <2>1, <2>2, <2>3
    <3>2. RowOK(s, r)' <=> RowOK(s, r) BY <2>1 DEF RowOK
    <3> QED BY <3>1, <3>2
  <2> QED BY <2>1, <2>2, <2>3
<1> QED BY <1>1, <1>2

\* The quiet alerts of every session are paced, and no stop is left unreported for longer.
LEMMA QuietStep == ASSUME AlertIInv, Commit PROVE QuietIsPacedNotLost'
<1> SUFFICES ASSUME NEW s \in Sessions
             PROVE  /\ \A t \in Of(kept', s, "quiet") : \E i \in Steps(s)' :
                         Rows(s)'[i].at = t /\ Status(s, i)' = "stopped" /\ Status(s, i - 1)' \in {"running", "idle"}
                    /\ \A t, u \in Of(kept', s, "quiet") : t < u =>
                         /\ u - t >= Cooldown
                         /\ \E i \in Steps(s)' : t < Rows(s)'[i].at /\ Rows(s)'[i].at < u /\ Status(s, i)' = "running"
                    /\ \A i \in Steps(s)' : Status(s, i)' = "stopped" /\ Status(s, i - 1)' = "running" =>
                         \E t \in Of(kept', s, "quiet") : t <= Rows(s)'[i].at /\ Rows(s)'[i].at - t < Cooldown
  BY DEF QuietIsPacedNotLost, QuietPaced, StopsAreReported
<1>1. CASE stage \in {"local", "relayed"} /\ s \in DOMAIN rows
  BY <1>1, QuietOfOne
<1>2. CASE ~(stage \in {"local", "relayed"} /\ s \in DOMAIN rows)
  <2>1. /\ Rows(s)' = Rows(s) /\ \A i : Status(s, i)' = Status(s, i)
        /\ Steps(s)' = Steps(s) /\ Of(kept', s, "quiet") = Of(kept, s, "quiet")
    BY <1>2, NotLookedAt
  <2>2. /\ \A t \in Of(kept, s, "quiet") : \E i \in Steps(s) :
             Rows(s)[i].at = t /\ Status(s, i) = "stopped" /\ Status(s, i - 1) \in {"running", "idle"}
        /\ \A t, u \in Of(kept, s, "quiet") : t < u =>
             /\ u - t >= Cooldown
             /\ \E i \in Steps(s) : t < Rows(s)[i].at /\ Rows(s)[i].at < u /\ Status(s, i) = "running"
        /\ \A i \in Steps(s) : Status(s, i) = "stopped" /\ Status(s, i - 1) = "running" =>
             \E t \in Of(kept, s, "quiet") : t <= Rows(s)[i].at /\ Rows(s)[i].at - t < Cooldown
    BY DEF AlertIInv, QuietIsPacedNotLost, QuietPaced, StopsAreReported
  <2> QED BY <2>1, <2>2
<1> QED BY <1>1, <1>2

\* A commit enters the looks of its stage at the end, and the stages that follow have none of this cycle.
LEMMA CommitInOrder ==
  ASSUME AlertIInv, Commit
  PROVE  AlertTypes' /\ StageOK' /\ OpenOK'
<1>0. /\ AlertTypes /\ StageOK /\ OpenOK /\ stage \in Stages /\ Enter(After[stage]) /\ db' = work /\ work' = work
      /\ kept' = kept \cup sent /\ sent' = {} /\ lastCycle = now
      /\ UNCHANGED <<now, live, lastCycle, stray, fails>>
  BY DEF AlertIInv, Commit, Committed, AlertTypes, TypeOK, StageOK
<1>1. PICK g \in Stages \cup {"asleep"} :
        /\ g = After[stage] /\ Enter(g) /\ (g \in {"flips", "offers"} => DOMAIN rows \subseteq Local)
        /\ stage' = g => \A h \in Stages : Ahead(h)' => Ahead(h) /\ h # stage
  <2>1. CASE stage = "local"
    <3>1. After[stage] = "flips" BY <2>1 DEF After
    <3> QED BY <1>0, <2>1, <3>1 DEF StageOK, Stages, Ahead
  <2>2. CASE stage = "flips"
    <3>1. After[stage] = "offers" BY <2>2 DEF After
    <3> QED BY <1>0, <2>2, <3>1 DEF StageOK, Stages, Ahead
  <2>3. CASE stage = "offers"
    <3>1. After[stage] = "relayed" BY <2>3 DEF After
    <3> QED BY <1>0, <2>3, <3>1 DEF StageOK, Stages, Ahead
  <2>4. CASE stage = "relayed"
    <3>1. After[stage] = "asleep" BY <2>4 DEF After
    <3> QED BY <1>0, <2>4, <3>1 DEF StageOK, Stages, Ahead
  <2> QED BY <1>0, <2>1, <2>2, <2>3, <2>4 DEF Stages
<1>2. /\ stage' = g /\ todo' = DOMAIN rows' /\ Done' = {} /\ rows' = [s \in DOMAIN rows' |-> rows'[s]]
      /\ DOMAIN rows' \subseteq Sessions /\ (\A s \in DOMAIN rows' : rows'[s] \in Sights)
      /\ (g = "asleep" => DOMAIN rows' = {})
      /\ (g \in {"local", "flips", "offers"} => DOMAIN rows' \subseteq Local)
      /\ (g = "relayed" => DOMAIN rows' \subseteq Relayed)
  BY <1>0, <1>1, EnterStage
<1>3. log' \in [Stages -> [Sessions -> Seq(Looks)]] BY CommitWrites
<1>4. \A m \in sent : m \in Messages /\ m.at = now BY <1>0 DEF OpenOK
<1>5. now \in Nat /\ now <= now BY <1>0 DEF AlertTypes
<1>6. TypeOK'
  <2>1. kept' \subseteq Messages BY <1>0, <1>4 DEF AlertTypes, TypeOK
  <2>2. \A h \in Stages, s \in Sessions : \A i \in 1..Len(log'[h][s]) : log'[h][s][i] \in [at : Nat, saw : Sights]
    <3> SUFFICES ASSUME NEW h \in Stages, NEW s \in Sessions, NEW i \in 1..Len(log'[h][s])
                 PROVE  log'[h][s][i] \in Looks
      BY DEF Looks
    <3>1. log'[h][s] \in Seq(Looks) BY <1>3
    <3> QED BY <3>1
  <2> QED BY <1>0, <1>2, <2>1, <2>2 DEF AlertTypes, TypeOK
<1>7. AlertTypes'
  <2>1. \A m \in kept' : m.at <= now BY <1>0, <1>4, <1>5 DEF AlertTypes
  <2> QED BY <1>0, <1>2, <1>3, <1>6, <2>1 DEF AlertTypes
<1>8. OpenOK' BY <1>0, <1>2, OpenAgain
<1>9. ASSUME NEW h \in Stages, NEW s \in Sessions, NEW i \in 1..Len(log'[h][s])
      PROVE  /\ log'[h][s][i].at <= now
             /\ Ahead(h)' => log'[h][s][i].at < now
             /\ \A j \in 1..(i - 1) : log'[h][s][j].at < log'[h][s][i].at
  <2>1. log[h][s] \in Seq(Looks) BY <1>0 DEF AlertTypes
  <2>2. PICK n \in Nat : n = Len(log[h][s]) BY <2>1
  <2>3. \A k \in 1..n : /\ log[h][s][k].at \in Nat /\ log[h][s][k].at <= now
                        /\ Ahead(h) => log[h][s][k].at < now
                        /\ \A j \in 1..(k - 1) : log[h][s][j].at < log[h][s][k].at
    BY <1>0, <2>1, <2>2, LookIsTyped DEF StageOK
  <2>4. CASE h = stage /\ s \in DOMAIN rows
    <3> DEFINE e == [at |-> now, saw |-> rows[s]]
    <3>1. e \in Looks /\ e.at = now BY <2>4, CommitWrites
    <3>2. log'[h][s] = Append(log[h][s], e) BY <2>4, CommitWrites
    <3> HIDE DEF e
    <3>3. /\ Len(log'[h][s]) = n + 1 /\ log'[h][s][n + 1] = e /\ \A k \in 1..n : log'[h][s][k] = log[h][s][k]
          /\ 1..(n + 1) = (1..n) \cup {n + 1}
      BY <2>1, <2>2, <3>1, <3>2, OneMoreLook
    <3>4. ~Ahead(h)' BY <1>1, <1>2, <2>4
    <3>5. Ahead(h) BY <2>4 DEF Ahead, Stages
    <3>6. CASE i \in 1..n
      <4>1. \A j \in 1..(i - 1) : j \in 1..n BY <3>6, Between
      <4> QED BY <2>3, <3>3, <3>4, <3>6, <4>1
    <3>7. CASE i = n + 1
      <4>1. \A j \in 1..(i - 1) : j \in 1..n BY <3>7
      <4> QED BY <1>5, <2>3, <3>1, <3>3, <3>4, <3>5, <3>7, <4>1
    <3> QED BY <3>3, <3>6, <3>7
  <2>5. CASE ~(h = stage /\ s \in DOMAIN rows)
    <3>1. log'[h][s] = log[h][s] BY <2>5, CommitWrites
    <3>2. Ahead(h)' => Ahead(h) BY <1>1, <1>2
    <3> QED BY <2>2, <2>3, <3>1, <3>2
  <2> QED BY <2>4, <2>5
<1>10. StageOK' BY <1>0, <1>2, <1>9 DEF StageOK
<1> QED BY <1>7, <1>8, <1>10

\* A cycle that commits leaves every change announced and every quiet alert paced.
LEMMA CommitStep == ASSUME AlertIInv, Commit PROVE AlertIInv'
BY CommitInOrder, RowsStep, FlipsStep, OffersStep, WaitsStep, QuietStep DEF AlertIInv, ChangesAreAnnounced

-----------------------------------------------------------------------------
(* The theorems *)

\* What the loop holds between and within its cycles, for any sessions, any cooldown and any failures.
THEOREM AlertInvariance == Spec => []AlertIInv
<1>1. AlertIInv /\ [Next]_vars => AlertIInv'
  <2> SUFFICES ASSUME AlertIInv, [Next]_vars PROVE AlertIInv' OBVIOUS
  <2>1. CASE StartCycle BY <2>1, StartStep
  <2>2. ASSUME NEW s \in todo, Handle(s) PROVE AlertIInv' BY <2>2, HandleStep
  <2>3. CASE Commit BY <2>3, CommitStep
  <2>4. CASE Raise BY <2>4, RaiseStep
  <2>5. CASE Tick \/ \E s \in Sessions : Change(s) BY <2>5, OutsideStep
  <2>6. CASE UNCHANGED vars
    <3>1. Committed0' BY <2>6, CommittedStays DEF AlertIInv, Committed0, vars
    <3>2. AlertTypes' BY <2>6 DEF AlertIInv, AlertTypes, TypeOK, vars
    <3>3. StageOK' BY <2>6 DEF AlertIInv, StageOK, Ahead, vars
    <3>4. OpenOK'
      <4>1. OpenOK /\ Done' = Done /\ UNCHANGED <<now, stage, rows, db, work, sent>>
        BY <2>6 DEF AlertIInv, Done, vars
      <4>2. \A r : NewsOf(r)' = NewsOf(r) BY <4>1 DEF NewsOf, QuietIsNews, WaitIsNews
      <4>3. \A r : SessionsNext(r)' = SessionsNext(r) /\ FlipsNext(r)' = FlipsNext(r)
        BY <4>1 DEF SessionsNext, FlipsNext, NextRow, QuietIsNews
      <4>4. \A r : IsHot(rows[r])' = IsHot(rows[r]) BY <4>1 DEF IsHot
      <4> QED BY <4>1, <4>2, <4>3, <4>4 DEF OpenOK
    <3> QED BY <3>1, <3>2, <3>3, <3>4 DEF AlertIInv, Committed0
  <2> QED BY <2>1, <2>2, <2>3, <2>4, <2>5, <2>6 DEF Next, Step
<1> QED BY <1>1, AlertBegins, PTL DEF Spec

\* Every variable keeps its type, and no table holds two rows of one session.
THEOREM AlertTypesHold == Spec => []TypeOK
<1>1. AlertIInv => TypeOK BY DEF AlertIInv, AlertTypes
<1> QED BY <1>1, AlertInvariance, PTL

\* update_and_alert, detect_and_notify_flips and detect_and_offer_handoff: of the cycles that commit,
\* exactly those that found a change announce it, whatever was rolled back in between.
THEOREM EveryChangeIsAnnounced == Spec => []ChangesAreAnnounced
<1>1. AlertIInv => ChangesAreAnnounced BY DEF AlertIInv
<1> QED BY <1>1, AlertInvariance, PTL

\* update_and_alert: the cooldown thins the quiet alerts of a session that comes and goes, and lets no
\* stop after a run go unreported for longer.
THEOREM QuietAlertsArePaced == Spec => []QuietIsPacedNotLost
<1>1. AlertIInv => QuietIsPacedNotLost BY DEF AlertIInv
<1> QED BY <1>1, AlertInvariance, PTL

\* The loop that never dies is the loop of which all this holds.
LEMMA FairIsSpec == FairSpec => Spec
<1>1. [FairNext]_vars => [Next]_vars BY DEF FairNext
<1> QED BY <1>1, PTL DEF FairSpec, Spec
=============================================================================
