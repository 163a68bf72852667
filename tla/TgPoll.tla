------------------------------- MODULE TgPoll -------------------------------
(***************************************************************************)
(* Control from the phone: one thread long-polls Telegram for button taps  *)
(* and text commands and runs what they ask for (tg_poll_loop).  Telegram  *)
(* hands out every update from the offset of the request on, again and     *)
(* again, until a request comes with a higher offset.  The thread reads    *)
(* the offset from a file at the head of each round, handles the updates   *)
(* one by one and writes the file after the last one.                      *)
(*                                                                         *)
(* Telegram serves one poller per bot.  A thread that is told three times  *)
(* in a row that another one polls steps down for good.                    *)
(***************************************************************************)
EXTENDS Integers, Sequences, FiniteSetsExt

CONSTANTS
  MaxUpdates, \* bound on the updates that arrive
  MaxFaults,  \* bound on restarts, handlers that raise and saves that fail
  MaxOverlaps \* bound on the times another poller appears

ASSUME TgAssumption == MaxUpdates \in Nat /\ MaxFaults \in Nat /\ MaxOverlaps \in Nat

VARIABLES
  inbox,     \* kinds of the updates sent so far; the position is the update_id
  confirmed, \* Telegram has forgotten the updates up to here
  saved,     \* the offset in tg_offset.json
  offset,    \* the thread's copy
  batch,     \* updates of this round still to be handled
  place,     \* where the thread is
  conflicts, \* 409 answers in a row
  rival,     \* another poller is there
  overlaps,
  fired,     \* how often what an update asks for was carried out
  faults,    \* (history)
  answers    \* the answers to the last polls (history)

tgVars == <<inbox, confirmed, saved, offset, batch, place, conflicts, rival, overlaps, fired,
            faults, answers>>

\* A tap and a text by the owner, and an update by anybody else.
Kinds == {"tap", "text", "stranger"}
Places == {"load", "poll", "handle", "demoted"}
Answers == {"ok", "conflict", "failed"}
Enough == 3
Updates == DOMAIN inbox

\* Types, and: the thread that was refused often enough in a row has stepped down.
TgTypeOK ==
  /\ inbox \in Seq(Kinds) /\ Len(inbox) <= MaxUpdates
  /\ confirmed \in 0..Len(inbox)
  /\ saved \in 0..(Len(inbox) + 1) /\ offset \in 0..(Len(inbox) + 1)
  /\ batch \subseteq Updates
  /\ place \in Places /\ conflicts \in 0..Enough /\ rival \in BOOLEAN
  /\ place = "demoted" <=> conflicts = Enough
  /\ fired \in Seq(Nat) /\ Len(fired) = Len(inbox)
  /\ faults \in 0..MaxFaults /\ overlaps \in 0..MaxOverlaps
  /\ answers \in Seq(Answers) /\ Len(answers) <= Enough

TgInit ==
  /\ inbox = <<>> /\ confirmed = 0 /\ saved = 0 /\ offset = 0 /\ batch = {}
  /\ place = "load" /\ conflicts = 0 /\ rival = FALSE /\ overlaps = 0
  /\ fired = <<>> /\ faults = 0 /\ answers = <<>>

Arrive(kind) ==
  /\ Len(inbox) < MaxUpdates
  /\ inbox' = Append(inbox, kind) /\ fired' = Append(fired, 0)
  /\ UNCHANGED <<confirmed, saved, offset, batch, place, conflicts, rival, overlaps,
                 faults, answers>>

\* A restarted server meets its own old poll, or a second machine polls the bot.
Overlap ==
  /\ rival \/ overlaps < MaxOverlaps
  /\ rival' = ~rival /\ overlaps' = IF rival THEN overlaps ELSE overlaps + 1
  /\ UNCHANGED <<inbox, confirmed, saved, offset, batch, place, conflicts, fired, faults,
                 answers>>

-----------------------------------------------------------------------------
(* The thread *)

\* _tg_load_offset.
Load ==
  /\ place = "load" /\ place' = "poll" /\ offset' = saved
  /\ UNCHANGED <<inbox, confirmed, saved, batch, conflicts, rival, overlaps, fired,
                 faults, answers>>

Remember(answer) ==
  answers' = SubSeq(Append(answers, answer),
                    IF Len(answers) < Enough THEN 1 ELSE 2, Len(answers) + 1)

\* The count of 409 answers in a row.  Faulty variant: an answer does not reset it.
ConflictsSoFar(answer) == IF answer = "conflict" THEN conflicts + 1 ELSE conflicts
ConflictsAfter(answer) == IF answer = "conflict" THEN conflicts + 1 ELSE 0

\* getUpdates was answered.  Long polling: with nothing to tell, Telegram keeps the request.
PollAnswered ==
  /\ place = "poll"
  /\ confirmed' = IF offset > confirmed + 1 THEN offset - 1 ELSE confirmed
  /\ batch' = {u \in Updates : u >= offset /\ u > confirmed'}
  /\ place' = "handle" /\ conflicts' = ConflictsAfter("ok") /\ Remember("ok")
  /\ UNCHANGED <<inbox, saved, offset, rival, overlaps, fired, faults>>

\* 409: another poller is there.
PollRefused ==
  /\ place = "poll" /\ rival
  /\ conflicts' = ConflictsAfter("conflict") /\ Remember("conflict")
  /\ place' = IF conflicts' >= Enough THEN "demoted" ELSE "load"
  /\ UNCHANGED <<inbox, confirmed, saved, offset, batch, rival, overlaps, fired, faults>>

\* No network, no JSON, not ok.  Telegram may have seen the request and its offset.
PollFailed ==
  /\ place = "poll" /\ faults < MaxFaults /\ faults' = faults + 1
  /\ confirmed' \in {confirmed, IF offset > confirmed + 1 THEN offset - 1 ELSE confirmed}
  /\ place' = "load" /\ conflicts' = ConflictsAfter("failed") /\ Remember("failed")
  /\ UNCHANGED <<inbox, saved, offset, batch, rival, overlaps, fired>>

\* The update handled next, and the offset after it.  Faulty variants: the offset is the id
\* of the update, which Telegram then hands out again; the one after is skipped.
First == Min(batch)
SameId(u) == IF u > offset THEN u ELSE offset
SkipId(u) == IF u + 2 > offset THEN u + 2 ELSE offset
NextId(u) == IF u + 1 > offset THEN u + 1 ELSE offset

\* _tg_handle_callback and _tg_handle_message.  A stranger's update is looked at and left;
\* the buttons of a tapped message are taken away before the tap is carried out.
Handle ==
  /\ place = "handle" /\ batch # {}
  /\ offset' = NextId(First)
  /\ batch' = batch \ {First}
  /\ fired' = IF inbox[First] = "stranger" THEN fired ELSE [fired EXCEPT ![First] = @ + 1]
  /\ UNCHANGED <<inbox, confirmed, saved, place, conflicts, rival, overlaps, faults, answers>>

\* What the file holds after a round that raised.  Faulty variant: the save is in a finally
\* clause.
SavedInFinally(u) == NextId(u)
SavedOnRaise(u) == saved

\* A handler raises, before or after it did its work: the rest of the round is dropped and
\* nothing is saved.
Raise ==
  /\ place = "handle" /\ batch # {} /\ faults < MaxFaults /\ faults' = faults + 1
  /\ \/ UNCHANGED fired
     \/ inbox[First] # "stranger" /\ fired' = [fired EXCEPT ![First] = @ + 1]
  /\ offset' = NextId(First) /\ batch' = {} /\ place' = "load"
  /\ saved' = SavedOnRaise(First)
  /\ UNCHANGED <<inbox, confirmed, conflicts, rival, overlaps, answers>>

\* _tg_save_offset; an error is swallowed and the file keeps what it had.
Save ==
  /\ place = "handle" /\ batch = {} /\ place' = "load"
  /\ \/ saved' = offset /\ UNCHANGED faults
     \/ faults < MaxFaults /\ faults' = faults + 1 /\ UNCHANGED saved
  /\ UNCHANGED <<inbox, confirmed, offset, batch, conflicts, rival, overlaps, fired,
                 answers>>

\* The server is restarted; a thread that stepped down starts over as well.
TgCrash ==
  /\ faults < MaxFaults /\ faults' = faults + 1
  /\ place' = "load" /\ batch' = {} /\ offset' = 0 /\ conflicts' = 0 /\ answers' = <<>>
  /\ UNCHANGED <<inbox, confirmed, saved, rival, overlaps, fired>>

Round == Load \/ PollAnswered \/ PollRefused \/ Handle \/ Save

TgNext ==
  \/ \E kind \in Kinds : Arrive(kind)
  \/ Overlap \/ Round \/ PollFailed \/ Raise \/ TgCrash

\* The thread goes on, whatever the answers are.
TgSafety == TgInit /\ [][TgNext]_tgVars
TgSpec == TgSafety /\ WF_tgVars(Round)

-----------------------------------------------------------------------------
(* Properties *)

\* Nothing the owner sent is lost: Telegram forgets an update, and the file passes it, only
\* after it was carried out, whatever is restarted, raised or not saved in between.
NoUpdateLost ==
  \A u \in Updates :
    inbox[u] # "stranger" /\ (u <= confirmed \/ u < saved) => fired[u] > 0

\* The price: an update is carried out again, but only once per restart, handler that raised
\* or save that failed; each of these may repeat every update of its round, the ones that
\* were carried out included.
RepeatsArePaidFor == \A u \in Updates : fired[u] <= 1 + faults

\* "A few consecutive 409s are required so a brief restart-overlap ... self-heals": a thread
\* that steps down was refused three times with nothing else in between.
DemotedByRivals == place = "demoted" => answers = [i \in 1..Enough |-> "conflict"]

\* The thread catches up: again and again all that the owner has sent is carried out, unless the
\* thread has stepped down.
UpdateIsHandled ==
  []<>(place = "demoted" \/ \A u \in Updates : inbox[u] # "stranger" => fired[u] > 0)
=============================================================================
