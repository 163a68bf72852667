---------------------------- MODULE SessionScan ----------------------------
(***************************************************************************)
(* The collector of Claude sessions (collect_claude).  It reads what the   *)
(* session writes while the session goes on writing: the transcript, to    *)
(* which records are appended, the marker of the notification hook and the *)
(* transcripts of subagents.  One pass stats the transcript, reads the     *)
(* marker, scans tails of the transcript several times and, for the task   *)
(* list, parses all of it, unless the parse of the last pass was of a file *)
(* with the same mtime.                                                    *)
(***************************************************************************)
EXTENDS Integers, Sequences, SequencesExt

CONSTANTS
  MaxRecords, \* bound on the records of the transcript
  MaxClock,   \* bound on the clock
  TailLength, \* records in the tail that is scanned; the code's 16 to 512 KB
  RunningSecs, IdleSecs

ASSUME ScanAssumption == {MaxRecords, MaxClock, TailLength, RunningSecs, IdleSecs} \subseteq Nat \ {0}

VARIABLES
  clock,      \* moves with every write, so that no two writes share an mtime
  transcript, \* the records, each with the time it was written
  marker,     \* ts of <session>.notify.json, 0 if there is none
  agent,      \* mtime of a subagent's transcript, 0 if there is none
  pass,       \* the collector's pass: where it is and what it has read
  taskCache,  \* the session's entry of _TASK_STATE_CACHE
  lastRow,    \* the row of the last pass
  waited      \* the session waited for its user during this pass (history)

scanVars == <<clock, transcript, marker, agent, pass, taskCache, lastRow, waited>>

TaskRow == 1..2
Statuses == {"in_progress", "completed", "deleted"}
\* An answer of the task tool that names the new task is a tool's result like any other.
TranscriptLines ==
  {<<k>> : k \in {"prompt", "text", "ask", "plan", "tool", "result"}}
    \cup {<<"mode", m>> : m \in {"plan", "default"}}
    \cup {<<"hook", h>> : h \in {"success", "cancelled", "error"}}
    \cup {<<"created", t>> : t \in TaskRow} \cup {<<"update", 1, s>> : s \in Statuses}
NoEntry == [mtime |-> 0, tasks |-> <<>>]
Places == {"stat", "marker", "tail", "tasks", "parse", "keep"}

ScanTypeOK ==
  /\ clock \in 1..MaxClock /\ transcript \in Seq([what : TranscriptLines, at : 1..MaxClock])
  /\ marker \in 0..MaxClock /\ agent \in 0..MaxClock /\ waited \in BOOLEAN
  /\ pass.place \in Places /\ taskCache.mtime \in 0..MaxClock

-----------------------------------------------------------------------------
(* What the helpers make of a file *)

StatusFromEpoch(ts, now) ==
  IF now - ts < RunningSecs THEN "running" ELSE IF now - ts < IdleSecs THEN "idle" ELSE "stopped"

ModTime == IF transcript = <<>> THEN 0 ELSE Last(transcript).at
TailOf(s) == SubSeq(s, IF Len(s) > TailLength THEN Len(s) - TailLength + 1 ELSE 1, Len(s))
LastIn(s, kinds) == SelectLastInSeq(s, LAMBDA r : r.what[1] \in kinds)

\* The last word of the tools in the tail: a call that nothing answered yet is the question.
PendingUserAction(s) ==
  LET i == LastIn(s, {"ask", "plan", "tool", "update", "result", "created"})
  IN  IF i = 0 THEN "none"
      ELSE CASE s[i].what[1] = "ask" -> "question"
             [] s[i].what[1] = "plan" -> "plan_review"
             [] OTHER -> "none"

\* The tokens of the last turn of the assistant, for which its time stands.
ContextOf(s) ==
  LET i == LastIn(s, {"text", "ask", "plan", "tool", "update"})
  IN  IF i = 0 THEN "none" ELSE s[i].at

LastPermissionMode(s) == LET i == LastIn(s, {"mode"}) IN IF i = 0 THEN "none" ELSE s[i].what[2]

\* Over all of the file: how often a hook fired, was cancelled or broke.
HookCount(s) ==
  LET count(H) == Cardinality({i \in DOMAIN s : s[i].what[1] = "hook" /\ s[i].what[2] \in H})
  IN  [hits |-> count({"success", "cancelled", "error"}), cancelled |-> count({"cancelled"}),
       errors |-> count({"error"})]

TurnStart(s) == LET i == LastIn(s, {"prompt"}) IN IF i = 0 THEN 0 ELSE s[i].at

\* What is known of each task: that it was created, the last status, the first time it was
\* in progress and the last time it was completed.
TaskParse(s) ==
  LET Of(t, i) == s[i].what[1] = "update" /\ s[i].what[2] = t
      LastUpdate(t) == SelectLastInSeq(s, LAMBDA r : r.what[1] = "update" /\ r.what[2] = t)
      When(i) == IF i = 0 THEN 0 ELSE s[i].at
  IN  [t \in TaskRow |->
        [subject |-> \E i \in DOMAIN s : s[i].what = <<"created", t>>,
         status |-> IF LastUpdate(t) = 0 THEN "open" ELSE s[LastUpdate(t)].what[3],
         start |-> When(SelectInSeq(s, LAMBDA r : r.what = <<"update", t, "in_progress">>)),
         done |-> When(SelectLastInSeq(s, LAMBDA r : r.what = <<"update", t, "completed">>))]]

\* The longest that "finishes within" names, in the clock's units: 0 when nothing is shown.
TaskEta(tasks, current, now) ==
  LET timed == {t \in TaskRow : tasks[t].start > 0 /\ tasks[t].done >= tasks[t].start}
      slow == CHOOSE d \in 0..MaxClock :
                /\ \E t \in timed : d = tasks[t].done - tasks[t].start
                /\ \A t \in timed : d >= tasks[t].done - tasks[t].start
      elapsed == now - tasks[current].start
  IN  IF timed = {} \/ tasks[current].start = 0 THEN "none"
      ELSE IF elapsed >= slow THEN "beyond the longest" ELSE <<"within", slow - elapsed>>

\* None for a session that never used tasks.
TaskState(tasks, now) ==
  LET known == {t \in TaskRow : tasks[t].subject}
      having(S) == Cardinality({t \in known : tasks[t].status \in S})
      current == {t \in known : tasks[t].status = "in_progress"}
      cur == CHOOSE t \in current : TRUE
  IN  IF known = {} THEN "none"
      ELSE [open |-> having({"open", "in_progress"}), done |-> having({"completed"}),
            total |-> having({"open", "in_progress", "completed"}),
            index |-> IF current = {} THEN 0 ELSE having({"completed"}) + 1,
            eta |-> IF current = {} THEN "none" ELSE TaskEta(tasks, cur, now)]

SubagentCount(now) == IF agent > 0 /\ now - agent <= IdleSecs THEN 1 ELSE 0

-----------------------------------------------------------------------------
(* The session, its hook and its subagents *)

\* It waits when its last tool call is a question to the user, or when it has been idle long
\* enough for the hook to fire and nothing was written since.
WaitingState(held, mark) ==
  \/ PendingUserAction(held) # "none"
  \/ held # <<>> /\ mark >= Last(held).at

Pass(held, mark) == waited' = (waited \/ WaitingState(held, mark))

AppendRecord(what) ==
  /\ Len(transcript) < MaxRecords /\ clock < MaxClock
  /\ clock' = clock + 1 /\ transcript' = Append(transcript, [what |-> what, at |-> clock'])
  /\ Pass(transcript', marker)
  /\ UNCHANGED <<marker, agent, pass, taskCache, lastRow>>

\* notify_hook.py: the marker holds the time of writing; one that cannot be written is dropped.
Notify ==
  /\ transcript # <<>> /\ clock < MaxClock
  /\ clock' = clock + 1 /\ marker' = clock' /\ Pass(transcript, marker')
  /\ UNCHANGED <<transcript, agent, pass, taskCache, lastRow>>

AgentWrites ==
  /\ clock < MaxClock /\ clock' = clock + 1 /\ agent' = clock'
  /\ UNCHANGED <<transcript, marker, pass, taskCache, lastRow, waited>>

-----------------------------------------------------------------------------
(* One pass of collect_claude over the session; it computes with the time it was called at *)

Stat ==
  /\ pass.place = "stat" /\ transcript # <<>>
  /\ pass' = [place |-> "marker", now |-> clock, ts |-> ModTime, wait |-> "none",
              mtime |-> 0, tasks |-> <<>>]
  /\ waited' = WaitingState(transcript, marker)
  /\ UNCHANGED <<clock, transcript, marker, agent, taskCache, lastRow>>

\* A marker no older than the last activity: Claude stopped and waits.
ReadMarker ==
  /\ pass.place = "marker"
  /\ pass' = [pass EXCEPT !.place = "tail",
                          !.wait = IF marker > 0 /\ marker >= pass.ts THEN "idle" ELSE "none"]
  /\ UNCHANGED <<clock, transcript, marker, agent, taskCache, lastRow, waited>>

\* The question in the transcript beats the marker.
ScanTail ==
  /\ pass.place = "tail"
  /\ LET pending == PendingUserAction(TailOf(transcript))
     IN  pass' = [pass EXCEPT !.place = "tasks",
                              !.wait = IF pending = "none" THEN pass.wait ELSE pending]
  /\ UNCHANGED <<clock, transcript, marker, agent, taskCache, lastRow, waited>>

Detail(s) == IF s = <<>> THEN "none" ELSE Last(s).what[1]

MakeRow(tasks) ==
  LET tail == TailOf(transcript)
      status == IF pass.wait # "none" THEN "waiting" ELSE StatusFromEpoch(pass.ts, pass.now)
  IN  [status |-> status, wait |-> pass.wait, tasks |-> TaskState(tasks, pass.now),
       detail |-> IF status = "running" THEN Detail(tail) ELSE "none",
       context |-> ContextOf(tail), mode |-> LastPermissionMode(tail),
       hooks |-> HookCount(transcript),
       since |-> IF status \in {"running", "waiting"} THEN TurnStart(tail) ELSE 0,
       subagents |-> IF status # "stopped" THEN SubagentCount(pass.now) ELSE 0]

\* _task_parse stats the file first: the same mtime means the same parse.
StatTasks ==
  /\ pass.place = "tasks"
  /\ IF taskCache.mtime = ModTime
     THEN lastRow' = MakeRow(taskCache.tasks) /\ pass' = [pass EXCEPT !.place = "stat"]
     ELSE pass' = [pass EXCEPT !.place = "parse", !.mtime = ModTime] /\ UNCHANGED lastRow
  /\ UNCHANGED <<clock, transcript, marker, agent, taskCache, waited>>

\* What the parse is kept under.
\* Faulty variant: the file is read before it is statted.
CacheKeyReadAfter == ModTime
CacheKey == pass.mtime

ParseTasks ==
  /\ pass.place = "parse"
  /\ pass' = [pass EXCEPT !.place = "keep", !.tasks = TaskParse(transcript)]
  /\ UNCHANGED <<clock, transcript, marker, agent, taskCache, lastRow, waited>>

KeepParse ==
  /\ pass.place = "keep"
  /\ taskCache' = [mtime |-> CacheKey, tasks |-> pass.tasks]
  /\ lastRow' = MakeRow(pass.tasks) /\ pass' = [pass EXCEPT !.place = "stat"]
  /\ UNCHANGED <<clock, transcript, marker, agent, waited>>

ScanInit ==
  /\ clock = 1 /\ transcript = <<>> /\ marker = 0 /\ agent = 0 /\ waited = FALSE
  /\ pass = [place |-> "stat", now |-> 0, ts |-> 0, wait |-> "none", mtime |-> 0, tasks |-> <<>>]
  /\ taskCache = NoEntry /\ lastRow = [status |-> "none", wait |-> "none"]

ScanNext ==
  \/ \E what \in TranscriptLines : AppendRecord(what)
  \/ Notify \/ AgentWrites
  \/ Stat \/ ReadMarker \/ ScanTail \/ StatTasks \/ ParseTasks \/ KeepParse

ScanSpec == ScanInit /\ [][ScanNext]_scanVars

-----------------------------------------------------------------------------
(* Properties *)

\* A parse that a later pass will take from the cache is the parse of the file as it is: "the
\* transcript is append-only so mtime bumps on every new line".  It needs the stat to come
\* before the read, since the session writes between the two.
TaskCacheIsTrue ==
  taskCache.mtime > 0 /\ taskCache.mtime = ModTime => taskCache.tasks = TaskParse(transcript)

\* A row that says the session waits for its user is right about some instant of its pass,
\* although the marker and the transcript are read one after the other, the latter only in part.
WaitWasReal == pass.place = "stat" /\ lastRow.wait # "none" => waited

\* What a pass shows of a session that goes on writing is the session's, kept or read anew.
RowsAreOfTheSession == TaskCacheIsTrue /\ WaitWasReal
=============================================================================
