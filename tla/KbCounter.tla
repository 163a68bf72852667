----------------------------- MODULE KbCounter -----------------------------
(***************************************************************************)
(* What the knowledge base gained today (collect_kb_today): git lists the  *)
(* files added since midnight, the ticket cards say how many of them moved *)
(* today, and the answer is kept for some minutes.  Request threads share  *)
(* the kept answer without a lock: its time is set first, then the answer. *)
(***************************************************************************)
EXTENDS Integers, FiniteSets

CONSTANTS
  KbTtl,     \* _KB_CACHE_TTL
  Files,     \* the files git may list, sources and cards
  KbTickets, \* the ticket cards there may be, by type, status and whether updated today
  Askers,    \* the request threads
  MaxMinute  \* bound on the clock

ASSUME KbAssumption ==
  /\ KbTtl \in Nat \ {0} /\ MaxMinute \in Nat
  /\ \A f \in Files : f.kind \in {"source", "card"}

VARIABLES
  minute,
  kbAdded, \* the files added to the knowledge base today
  tickets, \* its ticket cards
  kbCache, \* _KB_CACHE
  asker,   \* where each thread is, with the answer it has counted
  kbShown, \* the last answer given, when, and whether a thread was between its two writes
  past     \* what was added before each minute (history)

kbVars == <<minute, kbAdded, tickets, kbCache, asker, kbShown, past>>

NoAnswer == [available |-> FALSE]

KbTypeOK ==
  /\ minute \in 0..MaxMinute /\ kbAdded \subseteq Files /\ tickets \subseteq KbTickets
  /\ kbCache.ts \in 0..minute /\ kbCache.filled \in BOOLEAN
  /\ \A a \in Askers : asker[a].at \in {"idle", "counted", "stamped"}
  /\ kbShown.at \in 0..minute /\ past \in [0..minute -> SUBSET kbAdded]

KbInit ==
  /\ minute = 0 /\ kbAdded = {} /\ tickets = {} /\ past = [m \in {0} |-> {}]
  /\ kbCache = [ts |-> 0, data |-> NoAnswer, filled |-> FALSE]
  /\ asker = [a \in Askers |-> [at |-> "idle", data |-> NoAnswer]]
  /\ kbShown = [at |-> 0, data |-> NoAnswer, torn |-> FALSE]

\* A count takes no time on the scale of the minutes an answer is kept.
KbTick ==
  /\ minute < MaxMinute /\ minute' = minute + 1
  /\ \A a \in Askers : asker[a].at = "idle"
  /\ past' = [m \in 0..minute' |-> IF m = minute' THEN kbAdded ELSE past[m]]
  /\ UNCHANGED <<kbAdded, tickets, kbCache, asker, kbShown>>

AddFile(f) ==
  /\ kbAdded' = kbAdded \union {f} /\ UNCHANGED <<minute, tickets, kbCache, asker, kbShown, past>>

WriteTicket(t) ==
  /\ tickets' = tickets \union {t} /\ UNCHANGED <<minute, kbAdded, kbCache, asker, kbShown, past>>

\* Closed today is not the same as touched today; an open ticket counts whenever it was written.  A
\* card that cannot be read ends the count, which keeps what it has.
KbTicketCounts(readable) ==
  LET today(type) == {t \in readable : t.today /\ t.type = type} IN
  [bugs_done |-> Cardinality({t \in today("bug") : t.status = "done"}),
   handoffs |-> Cardinality(today("handoff")), plans |-> Cardinality(today("plan")),
   tickets_open |-> Cardinality({t \in readable : t.status = "open"})]

\* What git exits with is not looked at: one that fails has listed nothing.  Only one that takes
\* too long, or cannot be started, is an error.
Counted(git, readable) ==
  LET names == IF git = "done" THEN kbAdded ELSE {} IN
  IF git = "error" THEN NoAnswer
  ELSE [available |-> TRUE, listed |-> git = "done", tickets |-> KbTicketCounts(readable),
        sources |-> Cardinality({f \in names : f.kind = "source"}),
        cards   |-> Cardinality({f \in names : f.kind = "card"})]

Torn == \E a \in Askers : asker[a].at = "stamped"
ShowKb(data, torn) == kbShown' = [at |-> minute, data |-> data, torn |-> torn]

\* Faulty variant: an answer is kept until the server is restarted.
StillKept(c) == c.filled
StillFresh(c) == c.filled /\ minute - c.ts < KbTtl

\* collect_kb_today, up to the count.
CollectKbToday(a) ==
  /\ asker[a].at = "idle"
  /\ \/ StillFresh(kbCache) /\ ShowKb(kbCache.data, Torn) /\ UNCHANGED asker
     \/ /\ ~StillFresh(kbCache) /\ UNCHANGED kbShown
        /\ \E git \in {"done", "failed", "error"}, readable \in SUBSET tickets :
             asker' = [asker EXCEPT ![a] = [at |-> "counted", data |-> Counted(git, readable)]]
  /\ UNCHANGED <<minute, kbAdded, tickets, kbCache, past>>

StampKb(a) ==
  /\ asker[a].at = "counted" /\ asker' = [asker EXCEPT ![a].at = "stamped"]
  /\ kbCache' = [kbCache EXCEPT !.ts = minute] /\ UNCHANGED <<minute, kbAdded, tickets, kbShown, past>>

KeepKb(a) ==
  /\ asker[a].at = "stamped" /\ asker' = [asker EXCEPT ![a] = [at |-> "idle", data |-> NoAnswer]]
  /\ kbCache' = [kbCache EXCEPT !.data = asker[a].data, !.filled = TRUE]
  /\ ShowKb(asker[a].data, FALSE) /\ UNCHANGED <<minute, kbAdded, tickets, past>>

KbNext ==
  \/ KbTick
  \/ \E f \in Files : AddFile(f)
  \/ \E t \in KbTickets : WriteTicket(t)
  \/ \E a \in Askers : CollectKbToday(a) \/ StampKb(a) \/ KeepKb(a)

KbSpec == KbInit /\ [][KbNext]_kbVars

-----------------------------------------------------------------------------
(* Properties *)

\* An answer git did list the files for counts everything that was there the time to live ago, and
\* nothing that is not there: whichever thread counted it, unless it was taken from between the two
\* writes of another thread.
ShownIsRecent ==
  LET n == kbShown.data.sources + kbShown.data.cards
      least == IF kbShown.at < KbTtl THEN 0 ELSE kbShown.at - KbTtl + 1
  IN  kbShown.data.available /\ ~kbShown.torn =>
        (kbShown.data.listed => Cardinality(past[least]) <= n /\ n <= Cardinality(kbAdded))
=============================================================================
