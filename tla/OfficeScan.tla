----------------------------- MODULE OfficeScan -----------------------------
(***************************************************************************)
(* What a remote machine pushes (office_push.py): its sessions are read    *)
(* one after another, each with its mtime, the end of its transcript and   *)
(* its marker, while they go on writing; names are replaced by aliases and *)
(* sessions by tokens that change with the day; the rows are cut, signed   *)
(* and sent.  A loop and a scheduled one-shot may push at the same time.   *)
(* The topic holds what anybody wrote to it, and home takes what is signed *)
(* (office.py); which of it becomes the file is OfficeRelay's.             *)
(***************************************************************************)
EXTENDS Integers, FiniteSets

CONSTANTS
  Seats,    \* the sessions of the machine
  Senders,  \* the processes that push
  RowLimit, \* max_rows_per_source
  Vivid,    \* running_secs: seconds since its last write a session is running
  Span,     \* max_age_hours
  MaxBell,  \* bound on the clock
  MaxSends  \* bound on the pushes

ASSUME OfficeScanAssumption == {RowLimit, Vivid, Span, MaxSends} \subseteq Nat /\ MaxBell \in Nat \ {0}

VARIABLES
  bellTime,    \* the clock: moves with every write
  date,        \* the day
  seat,        \* for every session, its last write and whether that is a question to the user
  buzz,        \* ts of its notification marker, 0 without one
  sender,      \* the processes
  officeTopic, \* the envelopes on the topic
  believed,    \* those home took
  seatPast,    \* every session at every time (history)
  sends

officeScanVars == <<bellTime, date, seat, buzz, sender, officeTopic, believed, seatPast, sends>>

Secret == "ours"
Resting == [at |-> "rest"]
OfficeDays == 0..1

OfficeScanTypeOK ==
  /\ bellTime \in 1..MaxBell /\ date \in OfficeDays /\ believed \subseteq officeTopic
  /\ seat \in [Seats -> [at : 0..MaxBell, asks : BOOLEAN]] /\ buzz \in [Seats -> 0..MaxBell]
  /\ \A p \in Senders : sender[p].at \in {"rest", "stat", "pending", "marker", "send"}

Seat(s, doc, ring) == [at |-> doc[s].at, waits |-> doc[s].asks \/ ring[s] >= doc[s].at]

OfficeScanInit ==
  /\ bellTime = 1 /\ date = 0 /\ seat = [s \in Seats |-> [at |-> 1, asks |-> FALSE]]
  /\ buzz = [s \in Seats |-> 0] /\ sender = [p \in Senders |-> Resting] /\ officeTopic = {} /\ believed = {}
  /\ seatPast = [s \in Seats |-> {[t |-> 1, seat |-> Seat(s, seat, buzz)]}] /\ sends = 0

-----------------------------------------------------------------------------
(* The sessions, the day and the topic *)

BellPasses ==
  /\ bellTime < MaxBell /\ bellTime' = bellTime + 1
  /\ seatPast' = [s \in Seats |-> seatPast[s] \union {[t |-> bellTime', seat |-> Seat(s, seat', buzz')]}]
  /\ UNCHANGED <<date, sender, officeTopic, believed, sends>>

SeatWrites(s, blocked) ==
  seat' = [seat EXCEPT ![s] = [at |-> bellTime + 1, asks |-> blocked]] /\ UNCHANGED buzz /\ BellPasses
SeatBuzzes(s) ==
  buzz' = [buzz EXCEPT ![s] = bellTime + 1] /\ UNCHANGED seat /\ BellPasses

Midnight ==
  /\ date = 0 /\ date' = 1
  /\ UNCHANGED <<bellTime, seat, buzz, sender, officeTopic, believed, seatPast, sends>>

Forge ==
  /\ officeTopic' = officeTopic \union {[key |-> "theirs", pushed |-> bellTime, till |-> bellTime, rows |-> {}]}
  /\ officeTopic = {} /\ UNCHANGED <<bellTime, date, seat, buzz, sender, believed, seatPast, sends>>

-----------------------------------------------------------------------------
(* A push *)

Set(p, state) == sender' = [sender EXCEPT ![p] = state]

Stamp(p) == sender[p].now

BeginPush(p) ==
  /\ sender[p].at = "rest" /\ sends < MaxSends /\ sends' = sends + 1
  /\ Set(p, [at |-> "stat", now |-> bellTime, todo |-> Seats, rows |-> {}])
  /\ UNCHANGED <<bellTime, date, seat, buzz, officeTopic, believed, seatPast>>

\* A session out of the window is passed over.
StatSeat(p, s) ==
  /\ sender[p].at = "stat" /\ s \in sender[p].todo
  /\ Set(p, IF sender[p].now - seat[s].at > Span THEN [sender[p] EXCEPT !.todo = @ \ {s}]
            ELSE [at |-> "pending", now |-> sender[p].now, todo |-> sender[p].todo \ {s}, rows |-> sender[p].rows,
                  of |-> s, ts |-> seat[s].at, asks |-> FALSE])
  /\ UNCHANGED <<bellTime, date, seat, buzz, officeTopic, believed, seatPast, sends>>

\* _pending.
AskSeat(p) ==
  /\ sender[p].at = "pending" /\ Set(p, [sender[p] EXCEPT !.at = "marker", !.asks = seat[sender[p].of].asks])
  /\ UNCHANGED <<bellTime, date, seat, buzz, officeTopic, believed, seatPast, sends>>

\* A question beats the marker, and the marker the age.  The token is of the day it is made.
StatusOfSeat(ts, blocked, mark, now) ==
  IF blocked \/ mark >= ts THEN "waiting" ELSE IF now - ts < Vivid THEN "running" ELSE "quiet"

MakeSeatRow(p) ==
  LET x == sender[p]
      row == [of |-> x.of, token |-> <<x.of, date>>, ts |-> x.ts,
              status |-> StatusOfSeat(x.ts, x.asks, buzz[x.of], x.now)] IN
  /\ x.at = "marker"
  /\ Set(p, [at |-> "stat", now |-> x.now, todo |-> x.todo, rows |-> x.rows \union {row}])
  /\ UNCHANGED <<bellTime, date, seat, buzz, officeTopic, believed, seatPast, sends>>

\* The newest, as many as are allowed; any of two of one age.
Cuts(rows) ==
  {S \in SUBSET rows : /\ Cardinality(S) = IF Cardinality(rows) < RowLimit THEN Cardinality(rows) ELSE RowLimit
                       /\ \A r \in rows \ S : \A k \in S : k.ts >= r.ts}

\* A push that fails is swallowed.
SendPush(p) ==
  /\ sender[p].at = "stat" /\ sender[p].todo = {} /\ Set(p, Resting)
  /\ \/ UNCHANGED officeTopic
     \/ \E rows \in Cuts(sender[p].rows) :
          officeTopic' = officeTopic \union {[key |-> Secret, pushed |-> Stamp(p), till |-> bellTime, rows |-> rows]}
  /\ UNCHANGED <<bellTime, date, seat, buzz, believed, seatPast, sends>>

\* office.verify: what is signed with the secret and of this schema.
Believe(envelope) ==
  /\ envelope \notin believed /\ envelope.key = Secret /\ believed' = believed \union {envelope}
  /\ UNCHANGED <<bellTime, date, seat, buzz, sender, officeTopic, seatPast, sends>>

OfficeScanNext ==
  \/ \E s \in Seats : (\E blocked \in BOOLEAN : SeatWrites(s, blocked)) \/ SeatBuzzes(s)
  \/ Midnight \/ Forge
  \/ \E p \in Senders : BeginPush(p) \/ (\E s \in Seats : StatSeat(p, s))
                      \/ AskSeat(p) \/ MakeSeatRow(p) \/ SendPush(p)
  \/ \E envelope \in officeTopic : Believe(envelope)

OfficeScanSpec == OfficeScanInit /\ [][OfficeScanNext]_officeScanVars

-----------------------------------------------------------------------------
(* Properties *)

\* What home takes was so at the far machine: a row's time was the session's, and it waited or did
\* not, at some instants between the time the envelope names and its sending, though the session
\* wrote meanwhile and another process pushed; no two rows are of one session or have one token; and
\* a session of the window that is not among the rows is older than as many as are allowed.
RowsWereSo ==
  \A e \in believed :
    LET then(s) == {v.seat : v \in {w \in seatPast[s] : e.pushed <= w.t /\ w.t <= e.till}} IN
    /\ \A r \in e.rows : /\ \E v \in then(r.of) : v.at = r.ts
                         /\ \E v \in then(r.of) : v.waits = (r.status = "waiting")
                         /\ \A q \in e.rows : q.of = r.of \/ q.token = r.token => q = r
    /\ \A s \in Seats \ {r.of : r \in e.rows} : \E v \in then(s) :
         e.pushed - v.at > Span \/ Cardinality({r \in e.rows : r.ts >= v.at}) = RowLimit
=============================================================================
