----------------------------- MODULE OfficeRelay -----------------------------
(***************************************************************************)
(* The office relay: every remote machine pushes signed snapshots of its   *)
(* session states to one ntfy topic (office_push.py); the home dashboard   *)
(* polls the topic, keeps the newest snapshot of each machine in a file    *)
(* (_office_pull_once) and shows it until the file is stale                *)
(* (load_office_snapshot, collect_office).                                 *)
(*                                                                         *)
(* The file is the replay baseline and its mtime is the freshness: a       *)
(* message is taken by its sequence number, which the sender reads off its *)
(* own clock, and is aged on the home clock from the moment it landed.     *)
(* The topic delays, loses and repeats messages and keeps them for a       *)
(* window; a poll that fails half way leaves some machines unwritten.      *)
(***************************************************************************)
EXTENDS Integers, FiniteSets

CONSTANTS
  Machines,     \* the relayed machines, by their file names
  TopicWindow,  \* age up to which the topic returns a message (since=10m)
  Stale,        \* office_stale_secs
  MaxRelayTime, \* bound on the clock
  MaxRepeats,   \* bound on repeated messages
  MaxSetbacks   \* bound on sender clocks set back by one unit

ASSUME RelayAssumption ==
  /\ TopicWindow \in Nat /\ Stale \in Nat \ {0} /\ MaxRelayTime \in Nat
  /\ MaxRepeats \in Nat /\ MaxSetbacks \in Nat

VARIABLES
  relayTime, \* the home clock
  lag,       \* how far each sender's clock is behind
  lastPush,  \* when each machine pushed last, -1 before the first time
  relay,     \* the messages the topic holds
  relayFile, \* _state/office/<machine>.json, at most one per machine
  repeats, setbacks

relayVars == <<relayTime, lag, lastPush, relay, relayFile, repeats, setbacks>>

SeatStatuses == {"running", "quiet"}
Messages == [machine : Machines, seq : Int, status : SeatStatuses, pushed : Nat, arrived : Nat]
Snapshots == [machine : Machines, seq : Int, status : SeatStatuses, pushed : Nat, arrived : Nat,
              mtime : Nat]

RelayTypeOK ==
  /\ relayTime \in 0..MaxRelayTime
  /\ lag \in [Machines -> Nat]
  /\ lastPush \in [Machines -> Int]
  /\ relay \subseteq Messages
  /\ relayFile \in [Machines -> SUBSET Snapshots]
  /\ \A m \in Machines : \A f, g \in relayFile[m] : f = g
  /\ repeats \in 0..MaxRepeats /\ setbacks \in 0..MaxSetbacks

RelayInit ==
  /\ relayTime = 0
  /\ lag = [m \in Machines |-> 0]
  /\ lastPush = [m \in Machines |-> -1]
  /\ relay = {}
  /\ relayFile = [m \in Machines |-> {}]
  /\ repeats = 0 /\ setbacks = 0

\* build_snapshot and push_once: the sequence number is the sender's clock, and
\* two pushes of one machine are at least 30 seconds apart.
Push(m, status) ==
  /\ lastPush[m] < relayTime
  /\ lastPush' = [lastPush EXCEPT ![m] = relayTime]
  /\ relay' = relay \cup {[machine |-> m, seq |-> relayTime - lag[m], status |-> status,
                           pushed |-> relayTime, arrived |-> relayTime]}
  /\ UNCHANGED <<relayTime, lag, relayFile, repeats, setbacks>>

\* A push that fails (push_once swallows it), or a message the topic drops.
Lose(x) ==
  /\ relay' = relay \ {x}
  /\ UNCHANGED <<relayTime, lag, lastPush, relayFile, repeats, setbacks>>

\* The same signed bytes appear on the topic again.
Repeat(x) ==
  /\ repeats < MaxRepeats /\ repeats' = repeats + 1
  /\ relay' = relay \cup {[x EXCEPT !.arrived = relayTime]}
  /\ UNCHANGED <<relayTime, lag, lastPush, relayFile, setbacks>>

\* The sender's clock is set back.
SetBack(m) ==
  /\ setbacks < MaxSetbacks /\ setbacks' = setbacks + 1
  /\ lag' = [lag EXCEPT ![m] = @ + 1]
  /\ UNCHANGED <<relayTime, lastPush, relay, relayFile, repeats>>

-----------------------------------------------------------------------------
(* The home poll *)

Fetched(m) == {x \in relay : x.machine = m /\ relayTime - x.arrived <= TopicWindow}

\* The newest of a machine's messages, of equal ones the first.  Faulty variant:
\* the first message whatever its number.
IsFirst(x, m) == x \in Fetched(m) /\ \A y \in Fetched(m) : x.arrived <= y.arrived
IsBest(x, m) ==
  /\ x \in Fetched(m)
  /\ \A y \in Fetched(m) : y.seq < x.seq \/ (y.seq = x.seq /\ x.arrived <= y.arrived)

\* The file's own sequence number is the baseline a message has to exceed.
\* Faulty variant: an equal number passes.
NewerOrSame(x, m) == \A f \in relayFile[m] : x.seq >= f.seq
Newer(x, m) == \A f \in relayFile[m] : x.seq > f.seq

Takes(x, m) == IsBest(x, m) /\ Newer(x, m)

\* os.replace: the message becomes the file, which is as old as this moment.
Landed(x) == {[machine |-> x.machine, seq |-> x.seq, status |-> x.status,
               pushed |-> x.pushed, arrived |-> x.arrived, mtime |-> relayTime]}

\* _office_pull_once; done is all machines unless a failing write ends the poll.
Pull(done) ==
  /\ relayFile' = [m \in Machines |->
                 IF m \in done /\ \E x \in relay : Takes(x, m)
                   THEN Landed(CHOOSE x \in relay : Takes(x, m)) ELSE relayFile[m]]
  /\ UNCHANGED <<relayTime, lag, lastPush, relay, repeats, setbacks>>

RelayTick ==
  /\ relayTime < MaxRelayTime /\ relayTime' = relayTime + 1
  /\ UNCHANGED <<lag, lastPush, relay, relayFile, repeats, setbacks>>

RelayNext ==
  \/ RelayTick
  \/ \E m \in Machines, s \in SeatStatuses : Push(m, s)
  \/ \E m \in Machines : SetBack(m)
  \/ \E x \in relay : Lose(x) \/ Repeat(x)
  \/ \E done \in SUBSET Machines : Pull(done)

RelaySpec == RelayInit /\ [][RelayNext]_relayVars

\* office_pull_loop never dies and most polls run to their end.
RelayFairSpec == RelaySpec /\ WF_relayVars(Pull(Machines))

-----------------------------------------------------------------------------
(* What the dashboard shows of a machine *)

\* load_office_snapshot: the stale override.
IsStale(f) == relayTime - f.mtime > Stale

ShownRunning(m) == \E f \in relayFile[m] : ~IsStale(f) /\ f.status = "running"

\* A machine shown as running was heard of at most a window and a stale time ago:
\* what the stale override bounds when the poller itself has been away.
FalseRunningIsBounded ==
  \A m \in Machines : \A f \in relayFile[m] : ~IsStale(f) => relayTime - f.arrived <= TopicWindow + Stale

\* A replayed, duplicated or overtaken message neither replaces a snapshot nor makes
\* it look younger: the file changes, mtime included, only for a newer number.
ReplayChangesNothing ==
  [][\A m \in Machines : \A f \in relayFile[m], g \in relayFile'[m] :
       f # g => g.seq > f.seq]_relayVars

\* A machine's file is never taken away, and a change of it leaves no message of
\* the poll's window that is newer than the snapshot taken.
PollTakesTheNewest ==
  [][\A m \in Machines : relayFile'[m] # relayFile[m] =>
       \E g \in relayFile'[m] : \A x \in Fetched(m) : x.seq <= g.seq]_relayVars

\* While polls keep completing, the files catch up with the window of the topic again and again:
\* it has no message that is newer than its machine's snapshot.
NewsArrives ==
  []<>(\A m \in Machines : \A x \in Fetched(m) : \E f \in relayFile[m] : f.seq >= x.seq)

\* office.py: the stale override exists "so a frozen/offline company machine can
\* never show a false 'running'" - running is shown only of a machine that pushed
\* within the stale time.
NeverFalseRunning ==
  \A m \in Machines : ShownRunning(m) => \E f \in relayFile[m] : relayTime - f.pushed <= Stale
=============================================================================
