------------------------------- MODULE Cockpit -------------------------------
(***************************************************************************)
(* The cards of the sessions that are not stopped (cockpit_cards), and the *)
(* page of one of them (session_detail), asked for every few seconds.  A   *)
(* request lists the transcripts by their mtime, reads the newest of them  *)
(* one after another, each twice, then the database of another vendor with *)
(* a query at a time, and sorts and cuts what it has.  The sessions write  *)
(* meanwhile.                                                              *)
(***************************************************************************)
EXTENDS Integers, FiniteSets

CONSTANTS
  Chats,      \* the Claude sessions
  Cap,        \* cockpit_max
  Headroom,   \* how many times as many are read: 3
  Lively,     \* seconds since its last write a session is not stopped
  Horizon,    \* max_age_hours
  MaxPulse,   \* bound on the clock
  MaxCockpits \* bound on the requests

ASSUME CockpitAssumption ==
  /\ {Cap, Headroom, Lively, Horizon, MaxCockpits} \subseteq Nat /\ MaxPulse \in Nat \ {0}
  /\ IsFiniteSet(Chats) /\ Chats \cap {"vendor", "ide"} = {}

VARIABLES
  pulse,  \* the clock: moves with every write
  chat,   \* for every session, its last write and whether that is a question to the user
  bell,   \* ts of its notification marker, 0 without one
  vendor, \* of another vendor's session: its last message, and the user's last
  ide,    \* the file that shows another vendor is alive: its mtime, Away when it is not there
  glance, \* the request
  views,  \* every session as it was during the request (history)
  cockpits

cockpitVars == <<pulse, chat, bell, vendor, ide, glance, views, cockpits>>

Away == 0
NoGlance == [at |-> "none", cards |-> {}]

CockpitTypeOK ==
  /\ pulse \in 0..MaxPulse /\ chat \in [Chats -> [at : 0..MaxPulse, asks : BOOLEAN]]
  /\ bell \in [Chats -> 0..MaxPulse] /\ vendor \in [at : 0..MaxPulse, user : 0..MaxPulse]
  /\ ide \in 0..MaxPulse
  /\ glance.at \in {"none", "pending", "marker", "vendor", "task", "ide", "look", "cut", "done",
                   "failed"}

CockpitInit ==
  /\ pulse = 1 /\ chat = [c \in Chats |-> [at |-> 1, asks |-> FALSE]] /\ bell = [c \in Chats |-> 0]
  /\ vendor = [at |-> 0, user |-> 0] /\ ide \in {Away, 1} /\ glance = NoGlance
  /\ views = [c \in Chats |-> {}] /\ cockpits = 0

-----------------------------------------------------------------------------
(* What is going on *)

Waits(c, doc, ring) == doc[c].asks \/ ring[c] >= doc[c].at
View(c, doc, ring) == [at |-> doc[c].at, waits |-> Waits(c, doc, ring)]
\* While a request runs, everything it could have seen.
Witness == views' = [c \in Chats |-> views[c] \union {View(c, chat', bell')}]

Tock == pulse < MaxPulse /\ pulse' = pulse + 1 /\ UNCHANGED <<glance, cockpits>>

ChatWrites(c, blocked) ==
  /\ Tock /\ chat' = [chat EXCEPT ![c] = [at |-> pulse', asks |-> blocked]]
  /\ UNCHANGED <<bell, vendor, ide>> /\ Witness

BellRings(c) ==
  /\ Tock /\ bell' = [bell EXCEPT ![c] = pulse'] /\ UNCHANGED <<chat, vendor, ide>> /\ Witness

VendorWrites(user) ==
  /\ Tock /\ vendor' = [at |-> pulse', user |-> IF user THEN pulse' ELSE vendor.user]
  /\ UNCHANGED <<chat, bell, ide, views>>

IdeWrites ==
  /\ Tock /\ ide' \in {Away, pulse'} /\ UNCHANGED <<chat, bell, vendor, views>>

-----------------------------------------------------------------------------
(* A request *)

IsStopped(ts, now) == now - ts >= Lively

\* The first n of a list that is sorted by time, the newest first.
NewestOf(S, n) ==
  {T \in SUBSET S : /\ Cardinality(T) = IF Cardinality(S) < n THEN Cardinality(S) ELSE n
                    /\ \A a \in T, b \in S \ T : a.ts >= b.ts}
NextChat(todo) == CHOOSE d \in todo : \A e \in todo : d.ts >= e.ts

\* A session that waits is not stopped, however old.  Faulty variant: the stopped ones are left out
\* first.
StatusBeforeWait(ts, waits, now) ==
  IF IsStopped(ts, now) THEN "stopped" ELSE IF waits THEN "waiting" ELSE "active"
CardStatus(ts, waits, now) == IF waits THEN "waiting" ELSE IF IsStopped(ts, now) THEN "stopped" ELSE "active"

AskFor(kind, todo) ==
  /\ cockpits < MaxCockpits /\ cockpits' = cockpits + 1 /\ glance.at \in {"none", "done", "failed"}
  /\ glance' = [at |-> IF todo = {} THEN "vendor" ELSE "pending", kind |-> kind, now |-> pulse, todo |-> todo,
                asks |-> FALSE, ts |-> 0, cards |-> {}]
  /\ views' = [c \in Chats |-> {View(c, chat, bell)}]
  /\ UNCHANGED <<pulse, chat, bell, vendor, ide>>

\* Those of the window, the newest first; some more than there is room for are read.
ChatLists ==
  NewestOf({[of |-> c, ts |-> chat[c].at] : c \in {d \in Chats : pulse - chat[d].at <= Horizon}},
           Cap * Headroom)

AskCards == \E todo \in ChatLists : AskFor("cards", todo)

\* The id may be the beginning of several: the newest is meant.
AskDetail(c) == AskFor("detail", {[of |-> c, ts |-> chat[c].at]})

\* pending_user_action, then notify_marker_ts.
ReadPending ==
  /\ glance.at = "pending"
  /\ glance' = [glance EXCEPT !.at = "marker", !.asks = chat[NextChat(glance.todo).of].asks]
  /\ UNCHANGED <<pulse, chat, bell, vendor, ide, views, cockpits>>

ReadBell ==
  LET next == NextChat(glance.todo)
      status == CardStatus(next.ts, glance.asks \/ bell[next.of] >= next.ts, glance.now)
      card == [of |-> next.of, ts |-> next.ts, status |-> status] IN
  /\ glance.at = "marker"
  /\ glance' = [glance EXCEPT !.todo = @ \ {next},
       !.at = IF glance.todo # {next} THEN "pending" ELSE IF glance.kind = "detail" THEN "done" ELSE "vendor",
       !.cards = IF glance.kind = "cards" /\ status = "stopped" THEN @ ELSE @ \union {card}]
  /\ UNCHANGED <<pulse, chat, bell, vendor, ide, views, cockpits>>

\* collect_hermes and collect_copilot: the last message, or the time of the row, and then the user's
\* last are asked for one by one; a database that cannot be read gives no rows.
ReadVendor ==
  /\ glance.at = "vendor"
  /\ \/ glance' = [glance EXCEPT !.at = "task", !.ts = vendor.at]
     \/ glance' = [glance EXCEPT !.at = "ide"]
  /\ UNCHANGED <<pulse, chat, bell, vendor, ide, views, cockpits>>

ReadTask ==
  LET now == glance.now
      inSight == glance.ts > 0 /\ now - glance.ts <= Horizon /\ ~IsStopped(glance.ts, now) IN
  /\ glance.at = "task"
  /\ glance' = [glance EXCEPT !.at = "ide", !.cards = IF ~inSight THEN @ ELSE @ \union
                  {[of |-> "vendor", ts |-> glance.ts, status |-> "active", task |-> vendor.user]}]
  /\ UNCHANGED <<pulse, chat, bell, vendor, ide, views, cockpits>>

\* collect_antigravity: the file is looked for, and then its mtime is asked for; when it goes away in
\* between the request ends without an answer.
FindIde ==
  /\ glance.at = "ide"
  /\ glance' = [glance EXCEPT !.at = IF ide = Away THEN "cut" ELSE "look"]
  /\ UNCHANGED <<pulse, chat, bell, vendor, ide, views, cockpits>>

LookIde ==
  LET card == [of |-> "ide", ts |-> ide, status |-> "active"] IN
  /\ glance.at = "look"
  /\ glance' = [glance EXCEPT !.at = IF ide = Away THEN "failed" ELSE "cut",
                   !.cards = IF ide = Away \/ IsStopped(ide, glance.now) THEN @ ELSE @ \union {card}]
  /\ UNCHANGED <<pulse, chat, bell, vendor, ide, views, cockpits>>

\* The newest, as many as there is room for.
CutCards ==
  /\ glance.at = "cut"
  /\ \E kept \in NewestOf(glance.cards, Cap) : glance' = [glance EXCEPT !.at = "done", !.cards = kept]
  /\ UNCHANGED <<pulse, chat, bell, vendor, ide, views, cockpits>>

CockpitNext ==
  \/ \E c \in Chats : (\E blocked \in BOOLEAN : ChatWrites(c, blocked)) \/ BellRings(c) \/ AskDetail(c)
  \/ \E user \in BOOLEAN : VendorWrites(user)
  \/ IdeWrites \/ AskCards \/ ReadPending \/ ReadBell \/ ReadVendor \/ ReadTask
  \/ FindIde \/ LookIde \/ CutCards

CockpitSpec == CockpitInit /\ [][CockpitNext]_cockpitVars

-----------------------------------------------------------------------------
(* Properties *)

\* "every ACTIVE (non-stopped) ... session, newest first, capped": a card is of a session that had
\* that time, and waited or did not, at some instant of the request; a session without a card did not
\* wait at some instant and had not written for long at some, perhaps another, or it is older than as
\* many others as there is room for, or than as many as are read.
CardsWereSo ==
  glance.at = "done" =>
    /\ \A k \in glance.cards : k.of \in Chats =>
         /\ \E v \in views[k.of] : v.at = k.ts
         /\ \E v \in views[k.of] : v.waits = (k.status = "waiting")
    /\ glance.kind = "cards" => \A c \in Chats \ {k.of : k \in glance.cards} :
         \/ (\E v \in views[c] : ~v.waits) /\ \E v \in views[c] : IsStopped(v.at, glance.now)
         \/ \E v \in views[c] : Cardinality({k \in glance.cards : k.ts >= v.at}) >= Cap
         \/ \E v \in views[c] :
              \/ glance.now - v.at > Horizon
              \/ Cardinality({d \in Chats \ {c} : \E w \in views[d] : w.at >= v.at}) >= Cap * Headroom
=============================================================================
