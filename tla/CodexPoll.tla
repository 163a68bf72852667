----------------------------- MODULE CodexPoll -----------------------------
(***************************************************************************)
(* The sweep of the ledger of what was dispatched to Codex                 *)
(* (codex_poll_loop).  Every interval a script that is not of this         *)
(* repository judges the dispatches and appends its verdicts to the        *)
(* ledger; the sweep reads the ledger back and writes a record, which the  *)
(* page shows while the configuration asks for it.  A failing sweep must   *)
(* not look like a quiet day.  A second server sweeps the same ledger into *)
(* a record of its own.                                                    *)
(***************************************************************************)
EXTENDS Integers, Sequences, SequencesExt

CONSTANTS
  Dispatches, \* the correlation keys
  Interval,   \* _codex_poll_interval
  Slack,      \* what the card allows beyond two intervals
  MaxBeat,    \* bound on the clock
  MaxRows     \* bound on the rows of the ledger

ASSUME PollAssumption == {Interval, Slack, MaxBeat, MaxRows} \subseteq Nat

VARIABLES
  beat,     \* the clock
  finished, \* what Codex has done
  ledger,   \* its rows: dispatches, some without a key, and verdicts
  setup,    \* whether the sweep is configured, and its script and repository are there
  sweep,    \* where the sweep is
  record    \* codex_poll.json

pollVars == <<beat, finished, ledger, setup, sweep, record>>

NoKey == "no key"
Rows == [kind : {"dispatch"}, key : Dispatches \union {NoKey}]
          \union [kind : {"poll"}, key : Dispatches, state : {"pending", "done"}]
\* known: what was dispatched when its sweep began (history).
NoRecord == [ok |-> FALSE, ts |-> -1, summary |-> {}, unkeyed |-> 0, known |-> {}]

PollTypeOK ==
  /\ beat \in 0..MaxBeat /\ finished \subseteq Dispatches /\ ledger \in Seq(Rows)
  /\ setup \in [enabled : BOOLEAN, present : BOOLEAN]
  /\ sweep.place \in {"due", "run", "read", "write", "asleep"}

PollInit ==
  /\ beat = 0 /\ finished = {} /\ ledger = <<>> /\ record = NoRecord
  /\ setup \in [enabled : {TRUE}, present : BOOLEAN]
  /\ sweep = [place |-> "due", ts |-> 0, next |-> NoRecord]

-----------------------------------------------------------------------------
(* Codex and who dispatches to it; the script, here and of the second server *)

Dispatched == {ledger[i].key : i \in {j \in DOMAIN ledger : ledger[j].kind = "dispatch"}} \ {NoKey}

Dispatch(k) ==
  /\ Len(ledger) < MaxRows /\ ledger' = Append(ledger, [kind |-> "dispatch", key |-> k])
  /\ k \notin Dispatched /\ UNCHANGED <<beat, finished, setup, sweep, record>>

FinishScript(k) ==
  /\ k \in Dispatched \ finished /\ finished' = finished \union {k}
  /\ UNCHANGED <<beat, ledger, setup, sweep, record>>

\* The last verdict on a dispatch.
Verdict(k) ==
  LET i == SelectLastInSeq(ledger, LAMBDA row : row.kind = "poll" /\ row.key = k)
  IN  IF i = 0 THEN "none" ELSE ledger[i].state

\* It appends only a change, a row at a time, whichever server started it.
Judge(k) ==
  LET state == IF k \in finished THEN "done" ELSE "pending"
  IN  /\ k \in Dispatched /\ Verdict(k) # state /\ Len(ledger) < MaxRows
      /\ ledger' = Append(ledger, [kind |-> "poll", key |-> k, state |-> state])
      /\ UNCHANGED <<beat, finished, setup, sweep, record>>

-----------------------------------------------------------------------------
(* The sweep *)

\* Time does not run past the next sweep of a loop that sleeps; a run or a write takes less than the slack.
BeatPasses ==
  /\ beat < MaxBeat /\ beat' = beat + 1
  /\ sweep' = IF sweep.place = "asleep" /\ beat' >= sweep.ts + Interval
              THEN [sweep EXCEPT !.place = "due"] ELSE sweep
  /\ UNCHANGED <<finished, ledger, setup, record>>

\* The owner edits the configuration, or the script moves away.
Reconfigure(new) ==
  /\ setup' = new /\ setup' # setup /\ UNCHANGED <<beat, finished, ledger, sweep, record>>

PollFailedRow == [NoRecord EXCEPT !.ts = beat, !.known = Dispatched]

\* Without a configuration nothing is swept; without the script that is the record.
BeginSweep ==
  /\ sweep.place = "due"
  /\ sweep' = CASE ~setup.enabled -> [sweep EXCEPT !.place = "asleep", !.ts = beat]
                [] setup.enabled /\ ~setup.present ->
                     [place |-> "write", ts |-> beat, next |-> PollFailedRow]
                [] OTHER -> [place |-> "run", ts |-> beat, next |-> PollFailedRow]
  /\ UNCHANGED <<beat, finished, ledger, setup, record>>

\* The script is through with every dispatch, refuses, or is not done in time.
ScriptEnds(rc) ==
  /\ sweep.place = "run"
  /\ rc = "ok" => \A k \in Dispatched : Verdict(k) # "none"
  /\ sweep' = [sweep EXCEPT !.place = IF rc = "late" THEN "write" ELSE "read", !.next.ok = rc = "ok"]
  /\ UNCHANGED <<beat, finished, ledger, setup, record>>

\* Faulty variant: what has no verdict is pending.
PendingByDefault(k) == IF Verdict(k) = "done" THEN "done" ELSE "pending"
State(k) == IF Verdict(k) = "none" THEN "un-judged" ELSE Verdict(k)

\* _codex_ledger_summary: read back after the script, at the end of what is written by then.
ReadBack ==
  /\ sweep.place = "read"
  /\ sweep' = [sweep EXCEPT !.place = "write",
       !.next.summary = {[key |-> k, state |-> State(k)] : k \in Dispatched},
       !.next.unkeyed = Cardinality({i \in DOMAIN ledger : ledger[i].key = NoKey})]
  /\ UNCHANGED <<beat, finished, ledger, setup, record>>

\* A write that fails leaves the record that stands.
WriteRecord(written) ==
  /\ sweep.place = "write"
  /\ record' = IF written THEN sweep.next ELSE record
  /\ sweep' = [sweep EXCEPT !.place = "asleep", !.next = NoRecord]
  /\ UNCHANGED <<beat, finished, ledger, setup>>

\* The server ends within a sweep; the next one sweeps at once.
RestartSweep ==
  /\ sweep.place # "due" /\ sweep' = [place |-> "due", ts |-> beat, next |-> NoRecord]
  /\ UNCHANGED <<beat, finished, ledger, setup, record>>

PollNext ==
  \/ BeatPasses \/ BeginSweep \/ ReadBack \/ RestartSweep
  \/ \E k \in Dispatches \union {NoKey} : Dispatch(k)
  \/ \E k \in Dispatches : FinishScript(k) \/ Judge(k)
  \/ \E new \in [enabled : BOOLEAN, present : BOOLEAN] : Reconfigure(new)
  \/ \E rc \in {"ok", "refused", "late"} : ScriptEnds(rc)
  \/ \E written \in BOOLEAN : WriteRecord(written)

PollSpec == PollInit /\ [][PollNext]_pollVars

-----------------------------------------------------------------------------
(* The card *)

\* Shown without a warning: a success, no older than two intervals and the slack.
Calm == setup.enabled /\ record.ok /\ beat - record.ts <= 2 * Interval + Slack

\* A calm card stands on what the script said: it has every dispatch that the ledger held when its sweep
\* began, as pending or done only if the script has looked and found so, and without a verdict only if
\* it came later; so a sweep that judges nothing, or stops, is not taken for a quiet day.
CardIsHonest ==
  Calm =>
    /\ record.known \subseteq {row.key : row \in record.summary}
    /\ \A row \in record.summary :
         IF row.state = "un-judged" THEN row.key \notin record.known
         ELSE /\ \E i \in DOMAIN ledger : /\ ledger[i].kind = "poll" /\ ledger[i].key = row.key
                                          /\ ledger[i].state = row.state
              /\ row.state = "done" => row.key \in finished
=============================================================================
