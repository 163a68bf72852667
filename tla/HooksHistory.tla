---------------------------- MODULE HooksHistory ----------------------------
(***************************************************************************)
(* The two curves of the hooks' page.  That of the source is computed from *)
(* git: a day's point is the tree of the last mainline commit before noon  *)
(* (backfill_source); what was computed is kept on disk while neither the  *)
(* branch nor the date changes, and only the snapshot thread writes it.    *)
(* That of the deployment cannot be computed afterwards: the thread takes  *)
(* one snapshot a day (snapshot_if_due), and old ones are pruned.          *)
(***************************************************************************)
EXTENDS Integers, Sequences, SequencesExt

CONSTANTS
  Walkers,    \* who computes the curve: request threads and the snapshot thread
  Snapper,    \* the walker that is the snapshot thread
  MaxHalf,    \* bound on the clock, in half days
  MaxLanding, \* bound on the commits that land on the mainline
  Backfill    \* hooks_backfill_days

ASSUME HistoryAssumption == Snapper \in Walkers /\ {MaxHalf, MaxLanding, Backfill} \subseteq Nat

VARIABLES
  half,       \* the half day it is; a day is its morning and its afternoon
  mainline,   \* the commits of the mainline, by their dates
  sideBranch, \* when a commit was made on a branch that is not merged yet, NotYet without one
  sideways,   \* the commits that were merged in, by their dates
  settled,    \* the mainline's last commit at every noon, 0 without one (history)
  history,    \* source-history.json
  walkers,    \* where each walker is, what it keyed and what it has
  snapshots   \* the deployed-<day>.json there are

historyVars == <<half, mainline, sideBranch, sideways, settled, history, walkers, snapshots>>

NotYet == -1
Day(h) == h \div 2
Noon(d) == 2 * d
HistoryDays == 0..Day(MaxHalf)
Ended(place, points) == [place |-> place, head |-> 0, date |-> 0, began |-> 0, points |-> points]
NoHistory == [head |-> NotYet, date |-> NotYet, points |-> {}]

HistoryTypeOK ==
  /\ half \in 0..MaxHalf /\ mainline \in Seq(0..MaxHalf) /\ sideways \subseteq 0..MaxHalf
  /\ \A p \in history.points : p.date \in HistoryDays /\ p.commit <= MaxHalf
  /\ snapshots \subseteq HistoryDays
  /\ \A w \in Walkers : walkers[w].place \in {"rest", "cache", "days", "due"}

HistoryInit ==
  /\ half = 0 /\ mainline = <<0>> /\ sideBranch = NotYet /\ sideways = {} /\ settled = <<>>
  /\ history = NoHistory /\ snapshots = {}
  /\ walkers = [w \in Walkers |-> Ended("rest", {})]

-----------------------------------------------------------------------------
(* The clock and the source repository *)

\* At noon the day's point is settled.
HalfDayPasses ==
  /\ half < MaxHalf /\ half' = half + 1
  /\ settled' = IF half % 2 = 0 THEN Append(settled, Last(mainline)) ELSE settled
  /\ UNCHANGED <<mainline, sideBranch, sideways, history, walkers, snapshots>>

\* A commit lands with the date of its landing; one is enough in half a day.
Land ==
  /\ Len(mainline) < MaxLanding /\ Last(mainline) < half /\ mainline' = Append(mainline, half)
  /\ UNCHANGED <<half, sideBranch, sideways, settled, history, walkers, snapshots>>

CommitAside ==
  /\ sideBranch = NotYet /\ sideBranch' = half
  /\ UNCHANGED <<half, mainline, sideways, settled, history, walkers, snapshots>>

\* The merge is a commit of the mainline; what it merges keeps its older date.
MergeTopic ==
  /\ sideBranch # NotYet /\ Len(mainline) < MaxLanding /\ Last(mainline) < half
  /\ mainline' = Append(mainline, half) /\ sideways' = sideways \union {sideBranch} /\ sideBranch' = NotYet
  /\ UNCHANGED <<half, settled, history, walkers, snapshots>>

-----------------------------------------------------------------------------
(* backfill_source, behind _backfill_cached *)

BeginWalk(w) ==
  /\ walkers[w].place = "rest"
  /\ walkers' = [walkers EXCEPT ![w] = [place |-> "cache", head |-> Len(mainline), date |-> Day(half),
                                  began |-> half, points |-> {}]]
  /\ UNCHANGED <<half, mainline, sideBranch, sideways, settled, history, snapshots>>

\* The snapshot thread drops what it got and goes on to its snapshot.
EndWalk(w, points) ==
  walkers' = [walkers EXCEPT ![w] = IF w = Snapper THEN Ended("due", {}) ELSE Ended("rest", points)]

\* Faulty variant: only the date is compared.
KeptOfDate(w) == history.date = walkers[w].date
KeptFor(w) == history.head = walkers[w].head /\ history.date = walkers[w].date

\* What is kept is for the same branch and the same date, and as good as if it were made
\* when the branch was looked up.
LookUp(w) ==
  /\ walkers[w].place = "cache"
  /\ IF KeptFor(w)
     THEN EndWalk(w, {[p EXCEPT !.made = walkers[w].began] : p \in history.points})
     ELSE walkers' = [walkers EXCEPT ![w].place = "days"]
  /\ UNCHANGED <<half, mainline, sideBranch, sideways, settled, history, snapshots>>

\* rev-list -1 --first-parent --before: the last mainline commit by then.
PointOf(day) == mainline[SelectLastInSeq(mainline, LAMBDA c : c <= Noon(day))]
Window(w) == {d \in HistoryDays : d <= walkers[w].date /\ d > walkers[w].date - Backfill}

\* A day whose call fails is left out.
Backfilled(w, lost) ==
  {[date |-> d, commit |-> PointOf(d), made |-> half] : d \in Window(w) \ lost}

\* Only the snapshot thread keeps what it computed.
Walk(w, lost) ==
  /\ walkers[w].place = "days"
  /\ EndWalk(w, Backfilled(w, lost))
  /\ history' = IF w = Snapper
                THEN [head |-> walkers[w].head, date |-> walkers[w].date, points |-> Backfilled(w, lost)]
                ELSE history
  /\ UNCHANGED <<half, mainline, sideBranch, sideways, settled, snapshots>>

\* The call for a tree or for the contents fails: nothing is kept, and the page says so.
AbandonWalk(w) ==
  /\ walkers[w].place = "days"
  /\ EndWalk(w, {})
  /\ UNCHANGED <<half, mainline, sideBranch, sideways, settled, history, snapshots>>

-----------------------------------------------------------------------------
(* snapshot_if_due *)

Prunable(day) == day < Day(half) - 2 * Backfill

\* A scan or a write that raises leaves the day to the next round.
SnapshotIfDue(raises) ==
  /\ walkers[Snapper].place = "due" /\ walkers' = [walkers EXCEPT ![Snapper].place = "rest"]
  /\ snapshots' = IF raises \/ Day(half) \in snapshots THEN snapshots
                  ELSE {d \in snapshots \union {Day(half)} : ~Prunable(d)}
  /\ UNCHANGED <<half, mainline, sideBranch, sideways, settled, history>>

HistoryNext ==
  \/ HalfDayPasses \/ Land \/ CommitAside \/ MergeTopic
  \/ \E w \in Walkers : BeginWalk(w) \/ LookUp(w) \/ AbandonWalk(w)
                     \/ \E lost \in SUBSET Window(w) : Walk(w, lost)
  \/ \E raises \in BOOLEAN : SnapshotIfDue(raises)

HistorySpec == HistoryInit /\ [][HistoryNext]_historyVars

-----------------------------------------------------------------------------
(* Properties *)

\* "a past day's line count would silently rewrite itself": a point of a day whose noon has passed is
\* the mainline's last commit at that noon, be it computed since or taken from the disk by a walk that began
\* since, whatever was merged meanwhile and whoever computed it.
PastPointsStay ==
  \A P \in {history.points} \union {walkers[w].points : w \in Walkers} :
    \A p \in P : p.made > Noon(p.date) => p.commit = settled[p.date + 1]
=============================================================================
