----------------------------- MODULE BridgeLog -----------------------------
(***************************************************************************)
(* What the dispatcher of other agents' command lines is doing and has     *)
(* done (collect_cli_bridge).  Its logs are written once: created empty    *)
(* under a fresh name, then filled, later pruned.  A reader lists the      *)
(* newest of them, screens each on what the listing said of it, and takes  *)
(* the extract of the file from a cache keyed by path, time and size, or   *)
(* else parses it.  The readers are request threads that share the cache.  *)
(***************************************************************************)
EXTENDS Integers, Sequences, FiniteSets, Functions

CONSTANTS
  BridgeLogs,    \* the logs, numbered in the order of their times
  BridgeRecords, \* what a log may hold
  MaxFinite,     \* the largest number that is finite
  CandidateCap,  \* _CLI_LOG_CANDIDATE_CAP
  RecentCap,     \* _CLI_RECENT_CAP
  ParseCap,      \* _CLI_PARSE_CACHE_CAP
  MaxReads,      \* bound on reads
  MaxSwaps,      \* bound on logs replaced by links
  BridgeReaders  \* the threads that read

ASSUME BridgeAssumption ==
  /\ {MaxFinite, CandidateCap, RecentCap, ParseCap, MaxReads, MaxSwaps} \subseteq Nat /\ RecentCap # 0
  /\ BridgeLogs \subseteq 0..MaxFinite \* a time is a finite number
  /\ BridgeRecords \subseteq [well : BOOLEAN, big : BOOLEAN, lock : Int, claim : Nat, took : Nat, began : Nat]

VARIABLES
  bridgeRecord, \* what the writer of each log puts in it
  grown,        \* how far each log is written, and whether a link took its place
  parsed,       \* _cli_recent_cache
  reads,        \* the reads so far
  looker        \* what each thread is at; listed and linked are the logs it listed and the links
                \* there were then (history)

bridgeVars == <<bridgeRecord, grown, parsed, reads, looker>>

Phases == {"absent", "partial", "whole", "pruned"}
NotReading == [at |-> "idle", todo |-> {}, recent |-> <<>>, touched |-> {}, kept |-> <<>>,
         listed |-> {}, linked |-> {},
         skipped |-> [scanned |-> 0, oversize |-> 0, unreadable |-> 0, invalid |-> 0]]

BridgeTypeOK ==
  /\ bridgeRecord \in [BridgeLogs -> BridgeRecords]
  /\ grown \in [BridgeLogs -> [phase : Phases, link : BOOLEAN]]
  /\ \A r \in BridgeReaders : looker[r].at \in {"idle", "screen", "parse", "trim", "answered", "failed"}
  /\ \A r \in BridgeReaders : Len(looker[r].recent) <= RecentCap

BridgeInit ==
  /\ bridgeRecord \in [BridgeLogs -> BridgeRecords]
  /\ grown = [f \in BridgeLogs |-> [phase |-> "absent", link |-> FALSE]]
  /\ parsed = <<>> /\ reads = 0 /\ looker = [r \in BridgeReaders |-> NotReading]

-----------------------------------------------------------------------------
(* The dispatcher, and whoever else changes its directory *)

WriteLog(f, from, to) ==
  /\ grown[f].phase = from /\ grown' = [grown EXCEPT ![f].phase = to]
  /\ UNCHANGED <<bridgeRecord, parsed, reads, looker>>

\* A link takes the place of a log, with a target of the same time and size.
SwapForLink(f) ==
  /\ grown[f].phase = "whole" /\ ~grown[f].link
  /\ Cardinality({g \in BridgeLogs : grown[g].link}) < MaxSwaps /\ grown' = [grown EXCEPT ![f].link = TRUE]
  /\ UNCHANGED <<bridgeRecord, parsed, reads, looker>>

-----------------------------------------------------------------------------
(* One read *)

SizeOf(f) ==
  IF grown[f].phase = "partial" THEN "some" ELSE IF bridgeRecord[f].big THEN "huge" ELSE "all"

\* The newest files, with what the listing itself says of them: it does not follow a link.
\* Faulty variant: it follows it.
NewestLogs(listed) == {f \in listed : Cardinality({g \in listed : g > f}) < CandidateCap}
ListedLogs == {f \in BridgeLogs : grown[f].phase \in {"partial", "whole"}}
CandidatesFollowed == {[log |-> f, size |-> SizeOf(f), link |-> FALSE] : f \in NewestLogs(ListedLogs)}
Candidates == {[log |-> f, size |-> SizeOf(f), link |-> grown[f].link] : f \in NewestLogs(ListedLogs)}
NextLog(todo) == CHOOSE e \in todo : \A d \in todo : e.log >= d.log

Key(entry) == <<entry.log, entry.size>>

\* The extract of a log as it is now.  Two finite waits need not have a finite sum.
RecentEntry(f) ==
  LET r == bridgeRecord[f] IN
  IF grown[f].phase # "whole" \/ grown[f].link \/ r.big THEN [status |-> "unreadable"]
  ELSE IF ~r.well \/ (r.lock >= 0 /\ r.lock + r.claim > MaxFinite) THEN [status |-> "invalid"]
  ELSE [status |-> "ok", log |-> f,
        wait |-> IF r.lock >= 0 THEN r.lock + r.claim
                 ELSE IF f - r.took - r.began > 0 THEN f - r.took - r.began ELSE 0,
        source |-> IF r.lock >= 0 THEN "measured" ELSE "estimated"]

Begin(r) ==
  /\ looker[r].at = "idle" /\ reads < MaxReads /\ reads' = reads + 1
  /\ looker' = [looker EXCEPT ![r] = [NotReading EXCEPT !.at = "screen", !.todo = Candidates,
         !.listed = {entry.log : entry \in Candidates},
         !.linked = {f \in BridgeLogs : grown[f].link}]]
  /\ UNCHANGED <<bridgeRecord, grown, parsed>>

Skip(state, why) ==
  [state EXCEPT !.at = "screen", !.todo = @ \ {NextLog(@)},
                !.skipped.scanned = @ + 1, !.skipped[why] = @ + 1]

\* The entry is shown, or counted as what it was skipped for; enough shown ends the loop.
Took(state, entry) ==
  LET begun == [state EXCEPT !.at = "screen", !.todo = @ \ {NextLog(@)}, !.skipped.scanned = @ + 1,
                             !.recent = Append(@, entry)]
      with  == IF entry.status = "ok" THEN begun ELSE Skip(state, entry.status)
  IN  [with EXCEPT !.touched = @ \union {Key(NextLog(state.todo))},
                   !.todo = IF Len(with.recent) >= RecentCap THEN {} ELSE @]

\* Both screens come before the cache: a hit is not looked at again.
Screened(entry) == IF entry.link THEN "unreadable" ELSE IF entry.size = "huge" THEN "oversize" ELSE "none"

Screen(r) ==
  LET state == looker[r]
      entry == NextLog(state.todo)
  IN  /\ state.at = "screen" /\ state.todo # {}
      /\ looker' = [looker EXCEPT ![r] =
           IF Screened(entry) # "none" THEN Skip(state, Screened(entry))
           ELSE IF Key(entry) \in DOMAIN parsed THEN Took(state, parsed[Key(entry)])
           ELSE [state EXCEPT !.at = "parse"]]
      /\ UNCHANGED <<bridgeRecord, grown, parsed, reads>>

Parse(r) ==
  LET entry == NextLog(looker[r].todo)
      found == RecentEntry(entry.log)
  IN  /\ looker[r].at = "parse"
      /\ parsed' = [k \in DOMAIN parsed \union {Key(entry)} |-> IF k = Key(entry) THEN found ELSE parsed[k]]
      /\ looker' = [looker EXCEPT ![r] = Took(@, found)]
      /\ UNCHANGED <<bridgeRecord, grown, reads>>

\* A cache that is too large is emptied and given back what this read touched.  Another thread
\* may have emptied it of some of that, which ends the request.
FinishRead(r) ==
  LET state == looker[r]
      large == Cardinality(DOMAIN parsed) > ParseCap
  IN  /\ state.at = "screen" /\ state.todo = {}
      /\ looker' = [looker EXCEPT ![r] =
           IF ~large THEN [@ EXCEPT !.at = "answered"]
           ELSE IF state.touched \subseteq DOMAIN parsed
           THEN [@ EXCEPT !.at = "trim", !.kept = Restrict(parsed, state.touched)]
           ELSE [@ EXCEPT !.at = "failed"]]
      /\ parsed' = IF looker'[r].at = "trim" THEN <<>> ELSE parsed
      /\ UNCHANGED <<bridgeRecord, grown, reads>>

GiveBack(r) ==
  /\ looker[r].at = "trim" /\ looker' = [looker EXCEPT ![r].at = "answered", ![r].kept = <<>>]
  /\ parsed' = [k \in DOMAIN parsed \union DOMAIN looker[r].kept |->
                  IF k \in DOMAIN looker[r].kept THEN looker[r].kept[k] ELSE parsed[k]]
  /\ UNCHANGED <<bridgeRecord, grown, reads>>

LeaveBridge(r) ==
  /\ looker[r].at \in {"answered", "failed"} /\ looker' = [looker EXCEPT ![r] = NotReading]
  /\ UNCHANGED <<bridgeRecord, grown, parsed, reads>>

BridgeNext ==
  \/ \E f \in BridgeLogs : WriteLog(f, "absent", "partial")
  \/ \E f \in BridgeLogs : WriteLog(f, "partial", "whole")
  \/ \E f \in BridgeLogs : WriteLog(f, "whole", "pruned")
  \/ \E f \in BridgeLogs : SwapForLink(f)
  \/ \E r \in BridgeReaders :
       Begin(r) \/ Screen(r) \/ Parse(r) \/ FinishRead(r) \/ GiveBack(r) \/ LeaveBridge(r)

BridgeSpec == BridgeInit /\ [][BridgeNext]_bridgeVars

-----------------------------------------------------------------------------
(* Properties *)

\* Nothing is dropped silently, and what is shown was in a whole log that was no link when it
\* was listed: every log listed is shown or counted for what it was dropped for, and a cached
\* extract is the extract of its log, whatever became of the log since.
RowsAreAccountedFor ==
  \A r \in BridgeReaders :
    LET state == looker[r] IN
    /\ state.skipped.scanned = Len(state.recent) + state.skipped.oversize
                                 + state.skipped.unreadable + state.skipped.invalid
    /\ state.at = "answered" => state.skipped.scanned = Cardinality(state.listed)
         \/ Len(state.recent) = RecentCap
    /\ \A i \in 1..Len(state.recent) :
         LET f == state.recent[i].log IN
         /\ f \in state.listed \ state.linked
         /\ bridgeRecord[f].well /\ ~bridgeRecord[f].big
         /\ state.recent[i].wait <= MaxFinite
    /\ \A i, j \in 1..Len(state.recent) : i < j => state.recent[i].log > state.recent[j].log
=============================================================================
