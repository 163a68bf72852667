----------------------------- MODULE AlertMarks -----------------------------
(***************************************************************************)
(* The two alerts of the alert loop about rows of the hooks' log: a delete *)
(* that was executed (alert_executed_deletes) and a gate that waits to be  *)
(* authorized (alert_authz_pending).  Each keeps a file with the keys of   *)
(* the rows it announced, so that a restart announces none again.  A round *)
(* reads the file, posts every row that is not in it and writes the file.  *)
(***************************************************************************)
EXTENDS Integers, Sequences, SequencesExt

CONSTANTS
  MaxEvents, \* bound on the rows that are written
  MarksKept, \* _DELETE_WM_MAX, _AUTHZ_WM_MAX
  MaxLapses  \* bound on posts that fail, saves that fail and restarts

ASSUME MarksAssumption == {MaxEvents, MarksKept} \subseteq Nat \ {0} /\ MaxLapses \in Nat

VARIABLES
  markEvents, \* the stream of each row; the position is its key
  over,       \* rows that left their window: too old, or authorized meanwhile
  marks,      \* the two watermark files
  round,      \* the round: its stream, what it read and what it has to post
  delivered,  \* how often a row reached the phone (history)
  refused,    \* how often a post of a row failed (history)
  lapses      \* what could make a row be announced again (history)

marksVars == <<markEvents, over, marks, round, delivered, refused, lapses>>

Streams == {"delete", "authz"}
NextStream == [delete |-> "authz", authz |-> "delete"]
Load(s) == [place |-> "load", stream |-> s, seen |-> <<>>, fresh |-> {}, attempt |-> 1]

MarksTypeOK ==
  /\ markEvents \in Seq(Streams) /\ over \subseteq DOMAIN markEvents /\ lapses \in 0..MaxLapses
  /\ \A s \in Streams : marks[s] \in Seq(DOMAIN markEvents) /\ Len(marks[s]) <= MarksKept
  /\ round.place \in {"load", "post", "save"} /\ round.attempt \in 1..2

MarksInit ==
  /\ markEvents = <<>> /\ over = {} /\ marks = [s \in Streams |-> <<>>] /\ round = Load("delete")
  /\ delivered = <<>> /\ refused = <<>> /\ lapses = 0

NewEvent(s) ==
  /\ Len(markEvents) < MaxEvents /\ markEvents' = Append(markEvents, s)
  /\ delivered' = Append(delivered, 0) /\ refused' = Append(refused, 0)
  /\ UNCHANGED <<over, marks, round, lapses>>

LeaveWindow(k) ==
  /\ over' = over \cup {k} /\ over' # over
  /\ UNCHANGED <<markEvents, marks, round, delivered, refused, lapses>>

\* The rows of the window that are not marked; without any the round is over.
LoadMarks ==
  /\ round.place = "load"
  /\ LET known == marks[round.stream]
         new == {k \in DOMAIN markEvents \ over : markEvents[k] = round.stream /\ ~Contains(known, k)}
     IN  round' = IF new = {} THEN Load(NextStream[round.stream])
                  ELSE [round EXCEPT !.place = "post", !.seen = known, !.fresh = new]
  /\ UNCHANGED <<markEvents, over, marks, delivered, refused, lapses>>

\* The rows are posted in line order.  _http_post: one retry after an error.  An answer that comes
\* too late is an error as well, although the message arrived.
Post(answer) ==
  /\ round.place = "post"
  /\ LET k == Min(round.fresh)
         rest == round.fresh \ {k}
         done == answer = "ok" \/ round.attempt = 2
     IN  /\ delivered' = [delivered EXCEPT ![k] = IF answer = "lost" THEN @ ELSE @ + 1]
         /\ refused' = [refused EXCEPT ![k] = IF answer = "lost" THEN @ + 1 ELSE @]
         /\ lapses' = IF answer = "ok" THEN lapses ELSE lapses + 1
         /\ round' = [round EXCEPT !.attempt = IF done THEN 1 ELSE 2,
                        !.seen = IF done THEN Append(@, k) ELSE @,
                        !.fresh = IF done THEN rest ELSE @,
                        !.place = IF done /\ rest = {} THEN "save" ELSE @]
  /\ lapses' <= MaxLapses
  /\ UNCHANGED <<markEvents, over, marks>>

Newest(known) == SubSeq(known, IF Len(known) > MarksKept THEN Len(known) - MarksKept + 1 ELSE 1, Len(known))

\* Faulty variant: only the marks of this round are kept.
MarksOfRound == Newest(SelectSeq(round.seen, LAMBDA k : ~Contains(marks[round.stream], k)))
SavedMarks == Newest(round.seen)

\* os.replace: the file changes as a whole or not at all.  A mark that is cut off while its row
\* is still in the window counts as a lapse: the row will be announced again.
SaveMarks ==
  /\ round.place = "save"
  /\ LET cut == {k \in ToSet(round.seen) \ ToSet(Newest(round.seen)) : k \notin over}
     IN  \/ marks' = [marks EXCEPT ![round.stream] = SavedMarks] /\ lapses' = lapses + Cardinality(cut)
         \/ UNCHANGED marks /\ lapses' = lapses + 1
  /\ lapses' <= MaxLapses /\ round' = Load(NextStream[round.stream])
  /\ UNCHANGED <<markEvents, over, delivered, refused>>

AlerterRestarts ==
  /\ lapses < MaxLapses /\ lapses' = lapses + 1 /\ round' = Load("delete")
  /\ round # round'
  /\ UNCHANGED <<markEvents, over, marks, delivered, refused>>

MarksNext ==
  \/ \E s \in Streams : NewEvent(s)
  \/ \E k \in DOMAIN markEvents : LeaveWindow(k)
  \/ LoadMarks \/ SaveMarks \/ AlerterRestarts
  \/ \E answer \in {"ok", "late", "lost"} : Post(answer)

MarksSpec == MarksInit /\ [][MarksNext]_marksVars

-----------------------------------------------------------------------------
(* Properties *)

\* A row is announced again only for a lapse: a post whose answer came too late or got lost, a
\* save that failed, a restart before the save, or a mark that had to go for newer ones; and a
\* row that is marked reached the phone, unless both posts of a round failed.
AnnouncedOnce ==
  /\ \A k \in DOMAIN markEvents : delivered[k] <= 1 + lapses
  /\ \A s \in Streams : \A k \in ToSet(marks[s]) : delivered[k] > 0 \/ refused[k] >= 2
=============================================================================
