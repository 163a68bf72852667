-------------------------- MODULE CollectorsProofs --------------------------
(***************************************************************************)
(* What the collectors of the pages and their caches guarantee: the rows   *)
(* of the sessions and of Codex, the cockpit's cards, the office's         *)
(* figures, the hooks that are deployed, the curve of the source, what a   *)
(* far machine pushes, the pull requests, the sweep of the dispatch        *)
(* ledger, the counter of the knowledge base and the marks of the alerts,  *)
(* for every number of threads and every bound.                            *)
(***************************************************************************)
EXTENDS SessionScan, CodexSource, Cockpit, OfficeFloor, HooksScan, HooksHistory, OfficeScan,
        PrCache, CodexPoll, KbCounter, AlertMarks, SequenceTheorems, FiniteSetTheorems,
        WellFoundedInduction, TLAPS

\* A set of positions that is not empty has a last one.
LEMMA LastPosition ==
  ASSUME NEW n \in Nat, NEW S \in SUBSET (1..n), S # {}
  PROVE  Max(S) \in S /\ \A i \in S : i <= Max(S)
<1> DEFINE T == {n - i : i \in S}
<1>1. T \subseteq Nat /\ T # {}
  <2>1. \A i \in S : n - i \in Nat OBVIOUS
  <2> QED BY <2>1
<1> HIDE DEF T
<1>2. PICK m \in T : \A x \in T : ~(<<x, m>> \in OpToRel(<, Nat)) BY <1>1, NatLessThanWellFounded, WFMin
<1>3. PICK j \in S : m = n - j BY <1>2 DEF T
<1>4. ASSUME NEW i \in S PROVE i <= j
  <2>1. n - i \in T /\ n - i \in Nat /\ m \in Nat BY <1>1, <1>2 DEF T
  <2>2. ~(n - i < m) BY <1>2, <2>1 DEF OpToRel
  <2> QED BY <1>3, <2>1, <2>2
<1>5. \A i \in S : j >= i BY <1>4
<1> QED BY <1>5 DEF Max

-----------------------------------------------------------------------------
(* The rows of a session *)

\* A record is written at the clock of its writing, and no two at the same one.
TranscriptRecords == [what : TranscriptLines, at : 1..MaxClock]
PassRows ==
  [place : Places, now : Nat, ts : Nat, wait : {"none", "idle", "question", "plan_review"},
   mtime : Nat, tasks : {<<>>} \union {TaskParse(s) : s \in Seq(TranscriptRecords)}]

\* What the pass has taken from the transcript and the marker was so since it began.
ReadIsReal ==
  pass.place # "stat" => /\ transcript # <<>>
                         /\ WaitingState(transcript, marker) => waited
                         /\ marker > 0 /\ marker >= pass.ts => waited
                         /\ pass.wait # "none" => waited

\* A parse that is about to be kept is of the file as it was at the mtime it is kept under, or
\* later; a file with that mtime is that file.
ParseIsReal ==
  /\ pass.place \in {"parse", "keep"} => pass.mtime <= clock
  /\ pass.place = "keep" /\ pass.mtime = ModTime => pass.tasks = TaskParse(transcript)

ScanIInv ==
  /\ ScanTypeOK /\ pass \in PassRows /\ marker <= clock /\ taskCache.mtime <= clock
  /\ \A i \in DOMAIN transcript : transcript[i].at <= clock
  /\ ReadIsReal /\ ParseIsReal /\ TaskCacheIsTrue /\ WaitWasReal

\* The last record is of the time the file was written.
LEMMA FilesHaveTimes ==
  ASSUME ScanIInv
  PROVE  /\ ModTime \in Nat /\ ModTime <= clock /\ clock \in 1..MaxClock /\ MaxClock \in Nat
         /\ transcript # <<>> => ModTime = Last(transcript).at /\ Last(transcript).at > 0
<1>1. clock \in 1..MaxClock /\ MaxClock \in Nat /\ transcript \in Seq(TranscriptRecords)
  BY ScanAssumption DEF ScanIInv, ScanTypeOK, TranscriptRecords
<1>2. CASE transcript = <<>> BY <1>1, <1>2 DEF ModTime
<1>3. CASE transcript # <<>>
  <2>1. Len(transcript) \in DOMAIN transcript /\ Len(transcript) \in 1..Len(transcript)
    BY <1>1, <1>3, LenProperties, EmptySeq
  <2>2. transcript[Len(transcript)] \in TranscriptRecords BY <1>1, <2>1, ElementOfSeq
  <2>3. ModTime = transcript[Len(transcript)].at BY <1>3 DEF ModTime, Last
  <2>4. transcript[Len(transcript)].at \in 1..MaxClock BY <2>2 DEF TranscriptRecords
  <2>5. transcript[Len(transcript)].at <= clock BY <2>1 DEF ScanIInv
  <2> QED BY <1>1, <1>3, <2>3, <2>4, <2>5 DEF Last
<1> QED BY <1>2, <1>3

\* What the last tool call of a tail says, the last of the whole says.
LEMMA TailKnowsTheEnd ==
  ASSUME NEW s \in Seq(TranscriptRecords), PendingUserAction(TailOf(s)) # "none"
  PROVE  PendingUserAction(s) = PendingUserAction(TailOf(s))
<1> DEFINE n == Len(s)
           m == IF n > TailLength THEN n - TailLength + 1 ELSE 1
           t == SubSeq(s, m, n)
           K == {"ask", "plan", "tool", "update", "result", "created"}
           IS == {i \in 1..n : s[i].what[1] \in K}
           IT == {i \in 1..Len(t) : t[i].what[1] \in K}
<1>1. n \in Nat /\ DOMAIN s = 1..n /\ TailLength \in Nat /\ TailLength > 0
  BY LenProperties, ScanAssumption
<1>2. m \in Nat /\ m >= 1 /\ m <= n + 1 BY <1>1
<1>3. TailOf(s) = t BY DEF TailOf
<1> HIDE DEF m
<1>4. \A i \in m..n : s[i] \in TranscriptRecords
  <2> SUFFICES ASSUME NEW i \in m..n PROVE s[i] \in TranscriptRecords OBVIOUS
  <2>1. i \in 1..n BY <1>1, <1>2
  <2> QED BY <2>1, ElementOfSeq
<1>5. Len(t) = n - m + 1 /\ \A i \in 1..(n - m + 1) : t[i] = s[m + i - 1]
  BY <1>1, <1>2, <1>4, SubSeqProperties
<1> HIDE DEF n, t
<1>6. LastIn(s, K) = IF IS # {} THEN Max(IS) ELSE 0 BY DEF LastIn, SelectLastInSeq, n
<1>7. LastIn(t, K) = IF IT # {} THEN Max(IT) ELSE 0 BY DEF LastIn, SelectLastInSeq
<1> HIDE DEF K
<1>8. IT # {} BY <1>3, <1>7 DEF PendingUserAction, K
<1>9. PICK i \in IT : i = Max(IT) /\ \A j \in IT : j <= i
  <2>1. Len(t) \in Nat /\ IT \in SUBSET (1..Len(t)) BY <1>1, <1>2, <1>5
  <2> HIDE DEF IT
  <2> QED BY <1>8, <2>1, LastPosition
<1>10. i \in 1..(n - m + 1) /\ m + i - 1 \in 1..n /\ t[i] = s[m + i - 1]
  BY <1>1, <1>2, <1>5
<1>11. m + i - 1 \in IS BY <1>10
<1>12. \A j \in IS : j <= m + i - 1
  <2> SUFFICES ASSUME NEW j \in IS, j > m + i - 1 PROVE FALSE BY <1>1, <1>2, <1>10
  <2>1. j - m + 1 \in 1..(n - m + 1) BY <1>1, <1>2, <1>10
  <2>2. t[j - m + 1] = s[m + (j - m + 1) - 1] BY <1>5, <2>1
  <2>3. m + (j - m + 1) - 1 = j BY <1>1, <1>2
  <2>4. j - m + 1 \in IT BY <1>5, <2>1, <2>2, <2>3
  <2>5. j - m + 1 <= i BY <1>9, <2>4
  <2> QED BY <1>1, <1>2, <1>10, <2>1, <2>5
<1>13. Max(IS) = m + i - 1
  <2>1. IS \in SUBSET (1..n) /\ IS # {} BY <1>11
  <2>2. Max(IS) \in IS /\ \A j \in IS : j <= Max(IS)
    <3> HIDE DEF IS
    <3> QED BY <1>1, <2>1, LastPosition
  <2>3. Max(IS) <= m + i - 1 /\ m + i - 1 <= Max(IS) /\ Max(IS) \in 1..n BY <1>11, <1>12, <2>2, SMTT(60)
  <2> QED BY <1>1, <1>2, <1>10, <2>3
<1>14. LastIn(s, K) = m + i - 1 /\ LastIn(t, K) = i /\ i # 0 /\ m + i - 1 # 0
  BY <1>1, <1>2, <1>6, <1>7, <1>8, <1>9, <1>10, <1>11, <1>13, SMTT(60)
<1>15. s[LastIn(s, K)] = t[LastIn(t, K)] BY <1>10, <1>14
<1> QED BY <1>3, <1>14, <1>15 DEF PendingUserAction, K

\* At first nothing was written or read.
LEMMA ScanBegins == ScanInit => ScanIInv
<1> SUFFICES ASSUME ScanInit PROVE ScanIInv OBVIOUS
<1>1. /\ clock = 1 /\ transcript = <<>> /\ marker = 0 /\ agent = 0 /\ waited = FALSE
      /\ pass = [place |-> "stat", now |-> 0, ts |-> 0, wait |-> "none", mtime |-> 0, tasks |-> <<>>]
      /\ taskCache.mtime = 0 /\ lastRow.wait = "none"
  BY DEF ScanInit, NoEntry
<1>2. MaxClock \in Nat /\ MaxClock >= 1 BY ScanAssumption
<1>3. transcript \in Seq(TranscriptRecords) BY <1>1
<1>4. ScanTypeOK
  <2>1. clock \in 1..MaxClock /\ marker \in 0..MaxClock /\ agent \in 0..MaxClock
    <3>1. clock = 1 /\ marker = 0 /\ agent = 0 BY <1>1
    <3> QED BY <1>2, <3>1
  <2>3. waited \in BOOLEAN BY <1>1
  <2>2. pass.place \in Places /\ taskCache.mtime \in 0..MaxClock BY <1>1, <1>2 DEF Places
  <2> QED BY <1>3, <2>1, <2>2, <2>3 DEF ScanTypeOK, TranscriptRecords
<1>5. pass \in PassRows BY <1>1 DEF PassRows, Places
<1>6. ReadIsReal /\ ParseIsReal /\ TaskCacheIsTrue /\ WaitWasReal
  BY <1>1 DEF ReadIsReal, ParseIsReal, TaskCacheIsTrue, WaitWasReal
<1>7. DOMAIN transcript = {} BY <1>1
<1> QED BY <1>1, <1>4, <1>5, <1>6, <1>7 DEF ScanIInv

\* The session goes on writing: nothing was read or kept at the new time.
LEMMA RecordsAppended ==
  ASSUME ScanIInv, NEW what \in TranscriptLines, AppendRecord(what)
  PROVE  ScanIInv'
<1> DEFINE r == [what |-> what, at |-> clock + 1]
           n == Len(transcript)
<1>1. /\ clock < MaxClock /\ clock' = clock + 1 /\ transcript' = Append(transcript, r)
      /\ waited' = (waited \/ WaitingState(transcript', marker))
      /\ UNCHANGED <<marker, agent, pass, taskCache, lastRow>>
  BY DEF AppendRecord, Pass
<1>2. /\ clock \in 1..MaxClock /\ MaxClock \in Nat /\ transcript \in Seq(TranscriptRecords)
      /\ marker \in 0..MaxClock /\ agent \in 0..MaxClock /\ waited \in BOOLEAN
      /\ taskCache.mtime \in 0..MaxClock /\ taskCache.mtime <= clock /\ marker <= clock
  BY ScanAssumption DEF ScanIInv, ScanTypeOK, TranscriptRecords
<1>3. r \in TranscriptRecords BY <1>1, <1>2 DEF TranscriptRecords
<1> HIDE DEF r
<1>4. /\ transcript' \in Seq(TranscriptRecords) /\ Len(transcript') = n + 1 /\ n \in Nat
      /\ transcript'[n + 1] = r /\ \A i \in 1..n : transcript'[i] = transcript[i]
      /\ DOMAIN transcript = 1..n /\ DOMAIN transcript' = 1..(n + 1)
  BY <1>1, <1>2, <1>3, AppendProperties, LenProperties
<1>5. transcript' # <<>> /\ Last(transcript') = r /\ r.at = clock'
  BY <1>1, <1>4 DEF Last, r
<1>6. ModTime' = clock' BY <1>5 DEF ModTime
<1>7. waited' \in BOOLEAN BY <1>1, <1>2 DEF WaitingState
<1>8. ScanTypeOK' BY <1>1, <1>2, <1>4, <1>7 DEF ScanIInv, ScanTypeOK, TranscriptRecords
<1>9. \A i \in DOMAIN transcript' : transcript'[i].at <= clock'
  <2> SUFFICES ASSUME NEW i \in DOMAIN transcript' PROVE transcript'[i].at <= clock' OBVIOUS
  <2>1. CASE i = n + 1 BY <1>1, <1>2, <1>4, <1>5, <2>1
  <2>2. CASE i # n + 1
    <3>1. i \in DOMAIN transcript /\ transcript'[i] = transcript[i] BY <1>4, <2>2
    <3>2. transcript[i].at \in 1..MaxClock
      <4>1. transcript[i] \in TranscriptRecords BY <1>2, <1>4, <3>1, ElementOfSeq
      <4> QED BY <4>1 DEF TranscriptRecords
    <3>3. transcript[i].at <= clock BY <3>1 DEF ScanIInv
    <3> QED BY <1>1, <1>2, <3>1, <3>2, <3>3
  <2> QED BY <2>1, <2>2
<1>10. ReadIsReal' BY <1>1, <1>5 DEF ScanIInv, ReadIsReal
<1>11. ParseIsReal'
  <2>1. pass.mtime \in Nat BY DEF ScanIInv, PassRows
  <2>2. pass.place \in {"parse", "keep"} => pass.mtime <= clock BY DEF ScanIInv, ParseIsReal
  <2> QED BY <1>1, <1>2, <1>6, <2>1, <2>2 DEF ParseIsReal
<1>12. TaskCacheIsTrue' BY <1>1, <1>2, <1>6 DEF TaskCacheIsTrue
<1>13. WaitWasReal' BY <1>1 DEF ScanIInv, WaitWasReal
<1>14. pass' \in PassRows BY <1>1 DEF ScanIInv
<1> QED BY <1>1, <1>2, <1>8, <1>9, <1>10, <1>11, <1>12, <1>13, <1>14 DEF ScanIInv

\* The hook and the subagents write at new times.
LEMMA OthersWrite == ASSUME ScanIInv, Notify \/ AgentWrites PROVE ScanIInv'
<1>1. /\ clock < MaxClock /\ clock' = clock + 1 /\ UNCHANGED <<transcript, pass, taskCache, lastRow>>
      /\ \/ agent' = clock' /\ UNCHANGED <<marker, waited>>
         \/ /\ transcript # <<>> /\ marker' = clock' /\ UNCHANGED agent
            /\ waited' = (waited \/ WaitingState(transcript, marker'))
  BY DEF Notify, AgentWrites, Pass
<1>2. /\ clock \in 1..MaxClock /\ MaxClock \in Nat /\ clock + 1 \in 1..MaxClock
      /\ marker \in 0..MaxClock /\ agent \in 0..MaxClock /\ waited \in BOOLEAN
      /\ taskCache.mtime \in 0..MaxClock /\ taskCache.mtime <= clock /\ marker <= clock
  BY <1>1, ScanAssumption DEF ScanIInv, ScanTypeOK
<1>3. ModTime' = ModTime /\ ModTime \in Nat /\ ModTime <= clock BY <1>1, FilesHaveTimes DEF ModTime
<1>4. waited' \in BOOLEAN BY <1>1, <1>2
<1>5. ScanTypeOK' BY <1>1, <1>2, <1>4 DEF ScanIInv, ScanTypeOK
<1>6. \A i \in DOMAIN transcript' : transcript'[i].at <= clock'
  <2> SUFFICES ASSUME NEW i \in DOMAIN transcript PROVE transcript[i].at <= clock + 1 BY <1>1
  <2>1. transcript[i].at \in 1..MaxClock
    <3>1. transcript \in Seq(TranscriptRecords) BY DEF ScanIInv, ScanTypeOK, TranscriptRecords
    <3>2. transcript[i] \in TranscriptRecords BY <3>1, LenProperties, ElementOfSeq
    <3> QED BY <3>2 DEF TranscriptRecords
  <2>2. transcript[i].at <= clock BY DEF ScanIInv
  <2> QED BY <1>2, <2>1, <2>2
<1>7. ReadIsReal'
  <2>1. CASE UNCHANGED <<marker, waited>> BY <1>1, <2>1 DEF ScanIInv, ReadIsReal, WaitingState
  <2>2. CASE transcript # <<>> /\ marker' = clock' /\ waited' = (waited \/ WaitingState(transcript, marker'))
    <3>1. Last(transcript).at <= clock' /\ WaitingState(transcript, marker')
      <4>1. Last(transcript).at <= clock /\ Last(transcript).at \in Nat BY <2>2, FilesHaveTimes
      <4> QED BY <1>1, <1>2, <2>2, <4>1 DEF WaitingState
    <3>2. waited' BY <2>2, <3>1
    <3> QED BY <1>1, <2>2, <3>2 DEF ScanIInv, ReadIsReal
  <2> QED BY <1>1, <2>1, <2>2
<1>8. ParseIsReal'
  <2>1. pass.mtime \in Nat BY DEF ScanIInv, PassRows
  <2> QED BY <1>1, <1>2, <1>3, <2>1 DEF ScanIInv, ParseIsReal
<1>9. TaskCacheIsTrue' BY <1>1, <1>3 DEF ScanIInv, TaskCacheIsTrue
<1>10. WaitWasReal'
  <2>1. waited => waited' BY <1>1
  <2> QED BY <1>1, <2>1 DEF ScanIInv, WaitWasReal
<1>11. pass' \in PassRows /\ marker' <= clock' /\ taskCache'.mtime <= clock'
  BY <1>1, <1>2 DEF ScanIInv
<1> QED BY <1>5, <1>6, <1>7, <1>8, <1>9, <1>10, <1>11 DEF ScanIInv

\* A step of the pass changes nothing of the session.
LEMMA PassFrame ==
  ASSUME ScanIInv, UNCHANGED <<clock, transcript, marker, agent>>, pass' \in PassRows,
         waited' \in BOOLEAN, taskCache'.mtime \in 0..clock,
         ReadIsReal', ParseIsReal', TaskCacheIsTrue', WaitWasReal'
  PROVE  ScanIInv'
<1>1. clock \in 1..MaxClock /\ MaxClock \in Nat BY ScanAssumption DEF ScanIInv, ScanTypeOK
<1>2. taskCache'.mtime \in 0..MaxClock /\ taskCache'.mtime <= clock' BY <1>1
<1>3. pass'.place \in Places BY DEF PassRows
<1>4. ScanTypeOK' BY <1>2, <1>3 DEF ScanIInv, ScanTypeOK
<1>5. \A i \in DOMAIN transcript' : transcript'[i].at <= clock' BY DEF ScanIInv
<1> QED BY <1>2, <1>4, <1>5 DEF ScanIInv

\* A row says what the pass found of the wait.
LEMMA RowsSayTheWait == ASSUME NEW tasks PROVE MakeRow(tasks).wait = pass.wait
BY DEF MakeRow

\* The steps of the pass take what is so, or what has not changed since.
LEMMA PassSteps ==
  ASSUME ScanIInv, Stat \/ ReadMarker \/ ScanTail \/ StatTasks \/ ParseTasks \/ KeepParse
  PROVE  ScanIInv'
<1>1. /\ clock \in 1..MaxClock /\ MaxClock \in Nat /\ pass \in PassRows /\ waited \in BOOLEAN
      /\ transcript \in Seq(TranscriptRecords) /\ taskCache.mtime \in 0..clock
      /\ pass.mtime \in Nat
  <2>1. clock \in 1..MaxClock /\ MaxClock \in Nat /\ taskCache.mtime \in 0..MaxClock
        /\ taskCache.mtime <= clock
    BY ScanAssumption DEF ScanIInv, ScanTypeOK
  <2>2. taskCache.mtime \in 0..clock BY <2>1
  <2>3. pass \in PassRows /\ waited \in BOOLEAN /\ transcript \in Seq(TranscriptRecords)
    BY DEF ScanIInv, ScanTypeOK, TranscriptRecords
  <2>4. pass.mtime \in Nat BY <2>3 DEF PassRows
  <2> QED BY <2>1, <2>2, <2>3, <2>4
<1>2. UNCHANGED <<clock, transcript, marker, agent>>
  BY DEF Stat, ReadMarker, ScanTail, StatTasks, ParseTasks, KeepParse
<1>3. ModTime' = ModTime /\ ModTime \in Nat /\ ModTime <= clock BY <1>2, FilesHaveTimes DEF ModTime
<1>4. CASE Stat
  <2>1. /\ transcript # <<>> /\ waited' = WaitingState(transcript, marker) /\ UNCHANGED taskCache
        /\ pass' = [place |-> "marker", now |-> clock, ts |-> ModTime, wait |-> "none",
                    mtime |-> 0, tasks |-> <<>>]
    BY <1>4 DEF Stat
  <2>2. pass' \in PassRows BY <1>1, <1>3, <2>1 DEF PassRows, Places
  <2>3. ReadIsReal'
    <3>1. pass'.ts = Last(transcript).at BY <2>1, FilesHaveTimes
    <3>2. marker >= pass'.ts => WaitingState(transcript, marker) BY <2>1, <3>1 DEF WaitingState
    <3> QED BY <1>2, <2>1, <3>2 DEF ReadIsReal
  <2>4. waited' \in BOOLEAN BY <2>1 DEF WaitingState
  <2>5. ParseIsReal' /\ TaskCacheIsTrue' /\ WaitWasReal'
    BY <1>2, <1>3, <2>1 DEF ScanIInv, ParseIsReal, TaskCacheIsTrue, WaitWasReal
  <2> QED BY <1>1, <1>2, <2>1, <2>2, <2>3, <2>4, <2>5, PassFrame
<1>5. CASE ReadMarker
  <2>1. /\ UNCHANGED <<taskCache, lastRow, waited>> /\ pass.place = "marker"
        /\ pass' = [pass EXCEPT !.place = "tail",
                                !.wait = IF marker > 0 /\ marker >= pass.ts THEN "idle" ELSE "none"]
    BY <1>5 DEF ReadMarker
  <2>2. /\ pass' \in PassRows /\ pass'.place = "tail" /\ pass'.ts = pass.ts
        /\ (pass'.wait # "none" => marker > 0 /\ marker >= pass.ts)
    BY <1>1, <2>1 DEF PassRows, Places
  <2>3. ReadIsReal' BY <1>2, <2>1, <2>2 DEF ScanIInv, ReadIsReal, WaitingState
  <2>4. ParseIsReal' /\ TaskCacheIsTrue' /\ WaitWasReal'
    BY <1>2, <1>3, <2>1, <2>2 DEF ScanIInv, ParseIsReal, TaskCacheIsTrue, WaitWasReal
  <2> QED BY <1>1, <1>2, <2>1, <2>2, <2>3, <2>4, PassFrame
<1>6. CASE ScanTail
  <2> DEFINE pending == PendingUserAction(TailOf(transcript))
  <2>1. /\ UNCHANGED <<taskCache, lastRow, waited>> /\ pass.place = "tail"
        /\ pass' = [pass EXCEPT !.place = "tasks", !.wait = IF pending = "none" THEN pass.wait ELSE pending]
    BY <1>6 DEF ScanTail
  <2>2. pending \in {"none", "question", "plan_review"} BY DEF PendingUserAction
  <2>3. pending # "none" => waited
    <3>1. pending # "none" => PendingUserAction(transcript) = pending BY <1>1, TailKnowsTheEnd
    <3> QED BY <2>1, <3>1 DEF ScanIInv, ReadIsReal, WaitingState
  <2> HIDE DEF pending
  <2>4. /\ pass' \in PassRows /\ pass'.place = "tasks" /\ pass'.ts = pass.ts
        /\ pass'.wait = IF pending = "none" THEN pass.wait ELSE pending
    BY <1>1, <2>1, <2>2 DEF PassRows, Places
  <2>5. ReadIsReal' BY <1>2, <2>1, <2>3, <2>4 DEF ScanIInv, ReadIsReal, WaitingState
  <2>6. ParseIsReal' /\ TaskCacheIsTrue' /\ WaitWasReal'
    BY <1>2, <1>3, <2>1, <2>4 DEF ScanIInv, ParseIsReal, TaskCacheIsTrue, WaitWasReal
  <2> QED BY <1>1, <1>2, <2>1, <2>4, <2>5, <2>6, PassFrame
<1>7. CASE StatTasks
  <2>1. CASE pass' = [pass EXCEPT !.place = "stat"] /\ lastRow' = MakeRow(taskCache.tasks)
    <3>1. UNCHANGED <<taskCache, waited>> /\ pass.place = "tasks" BY <1>7 DEF StatTasks
    <3>2. pass' \in PassRows /\ pass'.place = "stat" BY <1>1, <2>1 DEF PassRows, Places
    <3>3. lastRow'.wait = pass.wait BY <2>1, RowsSayTheWait
    <3>4. WaitWasReal' BY <3>1, <3>3 DEF ScanIInv, ReadIsReal, WaitWasReal
    <3>5. ReadIsReal' /\ ParseIsReal' /\ TaskCacheIsTrue'
      BY <1>2, <1>3, <3>1, <3>2 DEF ScanIInv, ReadIsReal, ParseIsReal, TaskCacheIsTrue
    <3> QED BY <1>1, <1>2, <3>1, <3>2, <3>4, <3>5, PassFrame
  <2>2. CASE pass' = [pass EXCEPT !.place = "parse", !.mtime = ModTime]
    <3>1. UNCHANGED <<taskCache, waited>> /\ pass.place = "tasks" BY <1>7 DEF StatTasks
    <3>2. /\ pass' \in PassRows /\ pass'.place = "parse" /\ pass'.mtime = ModTime
          /\ pass'.ts = pass.ts /\ pass'.wait = pass.wait
      BY <1>1, <1>3, <2>2 DEF PassRows, Places
    <3>3. WaitWasReal' BY <3>2 DEF WaitWasReal
    <3>4. ReadIsReal' BY <1>2, <3>1, <3>2 DEF ScanIInv, ReadIsReal, WaitingState
    <3>5. ParseIsReal' BY <1>2, <1>3, <3>2 DEF ParseIsReal
    <3>6. TaskCacheIsTrue' BY <1>2, <1>3, <3>1 DEF ScanIInv, TaskCacheIsTrue
    <3> QED BY <1>1, <1>2, <3>1, <3>2, <3>3, <3>4, <3>5, <3>6, PassFrame
  <2> QED BY <1>7, <2>1, <2>2 DEF StatTasks
<1>8. CASE ParseTasks
  <2>1. /\ UNCHANGED <<taskCache, lastRow, waited>> /\ pass.place = "parse"
        /\ pass' = [pass EXCEPT !.place = "keep", !.tasks = TaskParse(transcript)]
    BY <1>8 DEF ParseTasks
  <2>2. /\ pass' \in PassRows /\ pass'.place = "keep" /\ pass'.mtime = pass.mtime
        /\ pass'.ts = pass.ts /\ pass'.wait = pass.wait /\ pass'.tasks = TaskParse(transcript)
    BY <1>1, <2>1 DEF PassRows, Places
  <2>3. ReadIsReal' /\ WaitWasReal' BY <1>2, <2>1, <2>2 DEF ScanIInv, ReadIsReal, WaitWasReal, WaitingState
  <2>4. TaskParse(transcript)' = TaskParse(transcript) BY <1>2
  <2>5. ParseIsReal' BY <1>2, <2>1, <2>2, <2>4 DEF ScanIInv, ParseIsReal
  <2>6. TaskCacheIsTrue' BY <1>3, <2>1, <2>4 DEF ScanIInv, TaskCacheIsTrue
  <2> QED BY <1>1, <1>2, <2>1, <2>2, <2>3, <2>5, <2>6, PassFrame
<1>9. CASE KeepParse
  <2>1. /\ UNCHANGED waited /\ pass.place = "keep" /\ lastRow' = MakeRow(pass.tasks)
        /\ taskCache' = [mtime |-> pass.mtime, tasks |-> pass.tasks]
        /\ pass' = [pass EXCEPT !.place = "stat"]
    BY <1>9 DEF KeepParse, CacheKey
  <2>2. pass' \in PassRows /\ pass'.place = "stat" BY <1>1, <2>1 DEF PassRows, Places
  <2>3. lastRow'.wait = pass.wait BY <2>1, RowsSayTheWait
  <2>4. WaitWasReal' BY <2>1, <2>3 DEF ScanIInv, ReadIsReal, WaitWasReal
  <2>5. ReadIsReal' /\ ParseIsReal' BY <2>2 DEF ReadIsReal, ParseIsReal
  <2>6. TaskCacheIsTrue' BY <1>2, <1>3, <2>1 DEF ScanIInv, ParseIsReal, TaskCacheIsTrue
  <2>7. taskCache'.mtime \in 0..clock BY <1>1, <2>1 DEF ScanIInv, ParseIsReal
  <2> QED BY <1>1, <1>2, <2>1, <2>2, <2>4, <2>5, <2>6, <2>7, PassFrame
<1> QED BY <1>4, <1>5, <1>6, <1>7, <1>8, <1>9

\* What every state of the collector of the sessions keeps.
LEMMA ScanInvariance == ScanSpec => []ScanIInv
<1>1. ScanInit => ScanIInv BY ScanBegins
<1>2. ScanIInv /\ [ScanNext]_scanVars => ScanIInv'
  <2> SUFFICES ASSUME ScanIInv, [ScanNext]_scanVars PROVE ScanIInv' OBVIOUS
  <2>1. ASSUME NEW what \in TranscriptLines, AppendRecord(what) PROVE ScanIInv' BY <2>1, RecordsAppended
  <2>2. CASE Notify \/ AgentWrites BY <2>2, OthersWrite
  <2>3. CASE Stat \/ ReadMarker \/ ScanTail \/ StatTasks \/ ParseTasks \/ KeepParse BY <2>3, PassSteps
  <2>4. CASE UNCHANGED scanVars
    <3>1. UNCHANGED <<clock, transcript, marker, agent, pass, taskCache, lastRow, waited>>
      BY <2>4 DEF scanVars
    <3>2. ModTime' = ModTime BY <3>1 DEF ModTime
    <3> QED BY <3>1, <3>2 DEF ScanIInv, ScanTypeOK, ReadIsReal, ParseIsReal, TaskCacheIsTrue, WaitWasReal, WaitingState
  <2> QED BY <2>1, <2>2, <2>3, <2>4 DEF ScanNext
<1> QED BY <1>1, <1>2, PTL DEF ScanSpec

\* The row of a session: a task list from the cache is that of the transcript as it stands, and a
\* session that is shown as waiting for its user did so at some instant of the pass, although the
\* session writes on between the reads of collect_claude.
THEOREM RowsAreTheSessions == ScanSpec => []RowsAreOfTheSession
<1>1. ScanIInv => RowsAreOfTheSession BY DEF ScanIInv, RowsAreOfTheSession
<1>2. ScanSpec => []ScanIInv BY ScanInvariance
<1> QED BY <1>1, <1>2, PTL

\* What every state keeps is typed.
LEMMA ScanIsTyped == ScanSpec => []ScanTypeOK
<1>1. ScanIInv => ScanTypeOK BY DEF ScanIInv
<1>2. ScanSpec => []ScanIInv BY ScanInvariance
<1> QED BY <1>1, <1>2, PTL

-----------------------------------------------------------------------------
(* The flag of the Codex rows *)

CodexHomes == {"home", "synced"}
Flags == {"db", "index-fallback", "db-unknown"}
ThreadRows == [root : CodexHomes, ts : Nat, src : Flags]
Passes ==
  [place : {"probe", "read", "show"}, root : 1..2, rows : SUBSET ThreadRows, sawDb : BOOLEAN,
   sawUnknown : BOOLEAN, start : Nat, broken : SUBSET CodexHomes]
Probes(r) == [until : Nat, db : CandidateFiles[r] \union {NoDb}, status : {"absent", "ok", "unknown"}]

CodexTypes ==
  /\ dbTime \in 1..MaxDbTime
  /\ \A r \in CodexHomes : dbs[r] \in [CandidateFiles[r] -> IndexFiles]
  /\ DOMAIN dbs = CodexHomes
  /\ \A r \in CodexHomes : probed[r] \in Probes(r)
  /\ DOMAIN probed = CodexHomes
  /\ stood \in [CodexHomes -> Nat] /\ codexAt \in Passes

\* How long a root has had databases, and what was remembered of one that had none.
RootOK(r) ==
  /\ stood[r] = 0 <=> Present(r) = {}
  /\ probed[r].until <= dbTime + ProbeTtl
  /\ probed[r].status = "absent" => stood[r] = 0 \/ probed[r].until <= stood[r] + ProbeTtl

\* The pass knows of every root it found broken and is done with; the one it is about to read is
\* not remembered as one without a database.
PassIsHonest ==
  /\ codexAt.place = "probe" => codexAt.broken \subseteq IF codexAt.root = 1 THEN {} ELSE {"home"}
  /\ codexAt.place = "read" /\ codexAt.root = 1 => codexAt.broken \subseteq {"home"}
  /\ codexAt.place = "read" /\ Root \in codexAt.broken => probed[Root].status # "absent"
  /\ codexAt.place = "read" /\ codexAt.broken \ {Root} # {} => codexAt.sawUnknown
  /\ codexAt.place # "read" /\ codexAt.broken # {} => codexAt.sawUnknown

CodexIInv == CodexTypes /\ (\A r \in CodexHomes : RootOK(r)) /\ PassIsHonest /\ FlagIsHonest

\* The roots and their candidates.
LEMMA Homes ==
  /\ ToSet(CodexRoots) = CodexHomes /\ Len(CodexRoots) = 2
  /\ CodexRoots[1] = "home" /\ CodexRoots[2] = "synced"
  /\ CandidateFiles["home"] = {5, 6} /\ CandidateFiles["synced"] = {5}
<1>1. DOMAIN CodexRoots = {1, 2} /\ Len(CodexRoots) = 2 /\ CodexRoots[1] = "home" /\ CodexRoots[2] = "synced"
  BY DEF CodexRoots
<1>2. ToSet(CodexRoots) = CodexHomes BY <1>1 DEF ToSet, CodexHomes
<1> QED BY <1>1, <1>2 DEF CandidateFiles

\* The pass is at one of the roots.
LEMMA RootIsHome ==
  ASSUME codexAt \in Passes
  PROVE  /\ Root \in CodexHomes /\ (codexAt.root = 1 => Root = "home") /\ (codexAt.root = 2 => Root = "synced")
         /\ codexAt.root \in 1..2
BY Homes DEF Root, Passes, CodexHomes

\* At first no root has files.
LEMMA CodexBegins == CodexInit => CodexIInv
<1> SUFFICES ASSUME CodexInit PROVE CodexIInv OBVIOUS
<1>1. /\ dbTime = 1 /\ dbs = [r \in CodexHomes |-> [c \in CandidateFiles[r] |-> <<"none">>]]
      /\ probed = [r \in CodexHomes |-> [until |-> 0, db |-> NoDb, status |-> "absent"]]
      /\ codexAt = [place |-> "probe", root |-> 1, rows |-> {}, sawDb |-> FALSE, sawUnknown |-> FALSE,
                    start |-> 1, broken |-> {}]
      /\ codexShown = [rows |-> {}, flag |-> "index-fallback", broken |-> {}]
      /\ stood = [r \in CodexHomes |-> 0]
  BY Homes DEF CodexInit
<1>2. MaxDbTime \in Nat /\ MaxDbTime >= 1 /\ ProbeTtl \in Nat BY CodexAssumption
<1>3. codexAt \in Passes BY <1>1 DEF Passes
<1>4. <<"none">> \in IndexFiles BY DEF IndexFiles
<1>5. \A r \in CodexHomes : probed[r] \in Probes(r) BY <1>1 DEF Probes
<1>6. dbTime \in 1..MaxDbTime
  <2>1. dbTime = 1 BY <1>1
  <2> QED BY <1>2, <2>1
<1>7. CodexTypes BY <1>1, <1>3, <1>4, <1>5, <1>6 DEF CodexTypes
<1>8. ASSUME NEW r \in CodexHomes PROVE RootOK(r)
  <2>1. Present(r) = {}
    <3>1. \A c \in CandidateFiles[r] : dbs[r][c][1] = "none" BY <1>1, <1>8
    <3> QED BY <3>1 DEF Present
  <2>2. stood[r] = 0 /\ probed[r].until = 0 /\ dbTime = 1 BY <1>1, <1>8
  <2> QED BY <1>2, <2>1, <2>2 DEF RootOK
<1>9. PassIsHonest
  <2>1. codexAt.place = "probe" /\ codexAt.broken = {} BY <1>1
  <2> QED BY <2>1 DEF PassIsHonest
<1>10. FlagIsHonest BY <1>1 DEF FlagIsHonest
<1> QED BY <1>7, <1>8, <1>9, <1>10 DEF CodexIInv

\* Time passes.
LEMMA CodexTicks == ASSUME CodexIInv, CodexTick PROVE CodexIInv'
<1>1. /\ dbTime' = dbTime + 1 /\ dbTime < MaxDbTime
      /\ UNCHANGED <<dbs, probed, codexAt, codexShown, stood>>
  BY DEF CodexTick
<1>2. dbTime \in 1..MaxDbTime /\ MaxDbTime \in Nat /\ ProbeTtl \in Nat
  BY CodexAssumption DEF CodexIInv, CodexTypes
<1>3. dbTime' \in 1..MaxDbTime BY <1>1, <1>2
<1>4. CodexTypes' BY <1>1, <1>3 DEF CodexIInv, CodexTypes
<1>5. ASSUME NEW r \in CodexHomes PROVE RootOK(r)'
  <2>1. RootOK(r) /\ probed[r].until \in Nat BY <1>5 DEF CodexIInv, CodexTypes, Probes
  <2> QED BY <1>1, <1>2, <2>1 DEF RootOK, Present
<1>6. PassIsHonest' /\ FlagIsHonest' BY <1>1 DEF CodexIInv, PassIsHonest, FlagIsHonest, Root
<1> QED BY <1>4, <1>5, <1>6 DEF CodexIInv

\* Codex replaces a file: the time its root has had files is kept in the history.
LEMMA FilesReplaced ==
  ASSUME CodexIInv, NEW r \in CodexHomes, NEW c \in CandidateFiles[r], NEW content \in IndexFiles,
         Rewrite(r, c, content)
  PROVE  CodexIInv'
<1>1. /\ dbs' = [dbs EXCEPT ![r][c] = content]
      /\ stood' = [stood EXCEPT ![r] = IF Present(r)' = {} THEN 0 ELSE IF @ = 0 THEN dbTime ELSE @]
      /\ UNCHANGED <<dbTime, probed, codexAt, codexShown>>
  BY DEF Rewrite
<1>2. dbTime \in 1..MaxDbTime /\ MaxDbTime \in Nat /\ ProbeTtl \in Nat /\ stood \in [CodexHomes -> Nat]
      /\ DOMAIN dbs = CodexHomes /\ \A q \in CodexHomes : dbs[q] \in [CandidateFiles[q] -> IndexFiles]
  BY CodexAssumption DEF CodexIInv, CodexTypes
<1>3. /\ DOMAIN dbs' = CodexHomes /\ dbs'[r] = [dbs[r] EXCEPT ![c] = content]
      /\ \A q \in CodexHomes : q # r => dbs'[q] = dbs[q]
  BY <1>1, <1>2
<1>4. \A q \in CodexHomes : dbs'[q] \in [CandidateFiles[q] -> IndexFiles]
  <2>1. dbs'[r] \in [CandidateFiles[r] -> IndexFiles] BY <1>2, <1>3
  <2> QED BY <1>2, <1>3, <2>1
<1>5. /\ stood'[r] = IF Present(r)' = {} THEN 0 ELSE IF stood[r] = 0 THEN dbTime ELSE stood[r]
      /\ \A q \in CodexHomes : q # r => stood'[q] = stood[q]
      /\ stood' \in [CodexHomes -> Nat]
  <2>1. (IF Present(r)' = {} THEN 0 ELSE IF stood[r] = 0 THEN dbTime ELSE stood[r]) \in Nat
    BY <1>2
  <2> QED BY <1>1, <1>2, <2>1
<1>6. CodexTypes' BY <1>1, <1>2, <1>3, <1>4, <1>5 DEF CodexIInv, CodexTypes
<1>7. ASSUME NEW q \in CodexHomes PROVE RootOK(q)'
  <2>1. RootOK(q) /\ probed[q].until \in Nat BY <1>7 DEF CodexIInv, CodexTypes, Probes
  <2>2. CASE q # r
    <3>1. Present(q)' = Present(q) BY <1>3, <1>7, <2>2 DEF Present
    <3> QED BY <1>1, <1>5, <1>7, <2>1, <2>2, <3>1 DEF RootOK
  <2>3. CASE q = r
    <3>1. stood'[q] = 0 <=> Present(q)' = {} BY <1>2, <1>5, <2>3
    <3>2. probed'[q].until <= dbTime' + ProbeTtl BY <1>1, <2>1 DEF RootOK
    <3>3. probed'[q].status = "absent" => stood'[q] = 0 \/ probed'[q].until <= stood'[q] + ProbeTtl
      BY <1>1, <1>2, <1>5, <2>1, <2>3 DEF RootOK
    <3> QED BY <3>1, <3>2, <3>3 DEF RootOK
  <2> QED BY <2>2, <2>3
<1>8. PassIsHonest' /\ FlagIsHonest' BY <1>1 DEF CodexIInv, PassIsHonest, FlagIsHonest, Root
<1> QED BY <1>6, <1>7, <1>8 DEF CodexIInv

\* The database that is chosen is a candidate.
LEMMA ChosenIsCandidate ==
  ASSUME NEW r \in CodexHomes
  PROVE  Freshest(r) \in CandidateFiles[r] \union {NoDb}
<1> DEFINE usable == {c \in Present(r) : Usable(dbs[r][c])}
           best == {c \in usable : \A d \in usable : dbs[r][c][2] >= dbs[r][d][2]}
<1>1. Freshest(r) = IF best = {} THEN NoDb ELSE CHOOSE c \in best : \A d \in best : c <= d BY DEF Freshest
<1>2. best \subseteq CandidateFiles[r] BY DEF Present
<1> HIDE DEF best
<1>3. CandidateFiles[r] = {5, 6} \/ CandidateFiles[r] = {5} BY Homes DEF CodexHomes
<1>4. best # {} => \E c \in best : \A d \in best : c <= d
  <2> SUFFICES ASSUME best # {} PROVE \E c \in best : \A d \in best : c <= d OBVIOUS
  <2>1. \A d \in best : d = 5 \/ d = 6 BY <1>2, <1>3
  <2>2. CASE 5 \in best BY <2>1, <2>2
  <2>3. CASE 5 \notin best BY <2>1, <2>3
  <2> QED BY <2>2, <2>3
<1>5. best # {} => (CHOOSE c \in best : \A d \in best : c <= d) \in best BY <1>4
<1> QED BY <1>1, <1>2, <1>5

\* A probe, or one that is still remembered, does not call a root that has had files for long absent.
LEMMA RootsProbed == ASSUME CodexIInv, CodexProbe PROVE CodexIInv'
<1>0. PICK r : r = Root OBVIOUS
<1>1. /\ codexAt.place = "probe" /\ UNCHANGED <<dbTime, dbs, codexShown, stood>>
      /\ probed' = [probed EXCEPT ![r] = IF StillGood(r) THEN @ ELSE FreshProbe(r)]
      /\ codexAt' = [codexAt EXCEPT !.place = "read",
           !.start = IF codexAt.root = 1 THEN dbTime ELSE @,
           !.broken = @ \union {q \in {r} : IsBroken(q) /\ stood[q] + ProbeTtl <= dbTime}]
  BY <1>0 DEF CodexProbe
<1>2. /\ dbTime \in 1..MaxDbTime /\ MaxDbTime \in Nat /\ ProbeTtl \in Nat /\ stood \in [CodexHomes -> Nat]
      /\ DOMAIN probed = CodexHomes /\ codexAt \in Passes
      /\ \A q \in CodexHomes : probed[q] \in Probes(q)
  BY CodexAssumption DEF CodexIInv, CodexTypes
<1>3. r \in CodexHomes /\ codexAt.root \in 1..2 /\ (codexAt.root = 1 => r = "home")
      /\ (codexAt.root = 2 => r = "synced")
  BY <1>0, <1>2, RootIsHome
<1> DEFINE bad == {q \in {r} : IsBroken(q) /\ stood[q] + ProbeTtl <= dbTime}
           start == IF codexAt.root = 1 THEN dbTime ELSE codexAt.start
<1>4. bad \subseteq {r} /\ (r \in bad => Present(r) # {} /\ stood[r] + ProbeTtl <= dbTime)
  BY DEF IsBroken
<1>5. codexAt' = [codexAt EXCEPT !.place = "read", !.start = start, !.broken = codexAt.broken \union bad]
  BY <1>1
<1>6. start \in Nat BY <1>2 DEF Passes
<1> HIDE DEF bad, start
<1>7. /\ codexAt' \in Passes /\ codexAt'.place = "read" /\ codexAt'.root = codexAt.root
      /\ codexAt'.broken = codexAt.broken \union bad /\ codexAt'.sawUnknown = codexAt.sawUnknown
  BY <1>2, <1>3, <1>4, <1>5, <1>6 DEF Passes
<1>8. Root' = r BY <1>0, <1>7 DEF Root
<1>9. /\ FreshProbe(r) \in Probes(r) /\ FreshProbe(r).until = dbTime + ProbeTtl
      /\ FreshProbe(r).status = "absent" <=> Freshest(r) = NoDb /\ Present(r) = {}
  <2> DEFINE known == IF Freshest(r) # NoDb THEN "ok" ELSE IF Present(r) = {} THEN "absent" ELSE "unknown"
  <2>1. FreshProbe(r) = [until |-> dbTime + ProbeTtl, db |-> Freshest(r), status |-> known] BY DEF FreshProbe
  <2>2. Freshest(r) \in CandidateFiles[r] \union {NoDb} BY <1>3, ChosenIsCandidate
  <2>3. dbTime + ProbeTtl \in Nat BY <1>2
  <2>4. known \in {"absent", "ok", "unknown"} /\ (known = "absent" <=> Freshest(r) = NoDb /\ Present(r) = {})
    OBVIOUS
  <2> HIDE DEF known
  <2> QED BY <2>1, <2>2, <2>3, <2>4 DEF Probes
<1>10. /\ probed'[r] = IF StillGood(r) THEN probed[r] ELSE FreshProbe(r)
       /\ DOMAIN probed' = CodexHomes /\ \A q \in CodexHomes : q # r => probed'[q] = probed[q]
  BY <1>1, <1>2, <1>3
<1>11. \A q \in CodexHomes : probed'[q] \in Probes(q) BY <1>2, <1>3, <1>9, <1>10
<1>12. CodexTypes' BY <1>1, <1>7, <1>10, <1>11 DEF CodexIInv, CodexTypes
<1>13. \A q \in CodexHomes : Present(q)' = Present(q) BY <1>1 DEF Present
<1>14. ASSUME NEW q \in CodexHomes PROVE RootOK(q)'
  <2>1. RootOK(q) BY <1>14 DEF CodexIInv
  <2>2. CASE probed'[q] = probed[q] BY <1>1, <1>13, <1>14, <2>1, <2>2 DEF RootOK
  <2>3. CASE q = r /\ probed'[q] = FreshProbe(r)
    <3>1. probed'[q].until = dbTime + ProbeTtl /\ (probed'[q].status = "absent" => Present(q) = {})
      BY <1>9, <2>3
    <3>2. probed'[q].until <= dbTime + ProbeTtl
      <4>1. dbTime + ProbeTtl \in Nat BY <1>2
      <4> QED BY <3>1, <4>1
    <3> QED BY <1>1, <1>13, <1>14, <2>1, <3>1, <3>2 DEF RootOK
  <2> QED BY <1>10, <1>14, <2>2, <2>3
<1>15. PassIsHonest'
  <2>1. codexAt.broken \subseteq IF codexAt.root = 1 THEN {} ELSE {"home"} BY <1>1 DEF CodexIInv, PassIsHonest
  <2>2. r \notin codexAt.broken BY <1>3, <2>1
  <2>3. codexAt.broken # {} => codexAt.sawUnknown BY <1>1 DEF CodexIInv, PassIsHonest
  <2>4. codexAt'.root = 1 => codexAt'.broken \subseteq {"home"} BY <1>3, <1>4, <1>7, <2>1
  <2>5. codexAt'.broken \ {r} # {} => codexAt'.sawUnknown BY <1>4, <1>7, <2>3
  <2>6. r \in codexAt'.broken => probed'[r].status # "absent"
    <3> SUFFICES ASSUME r \in codexAt'.broken, probed'[r].status = "absent" PROVE FALSE OBVIOUS
    <3>1. Present(r) # {} /\ stood[r] + ProbeTtl <= dbTime BY <1>4, <1>7, <2>2
    <3>2. StillGood(r) BY <1>9, <1>10, <3>1
    <3>3. probed[r].until > dbTime /\ probed[r].status = "absent" BY <1>10, <3>2 DEF StillGood
    <3>4. stood[r] # 0 /\ probed[r].until <= stood[r] + ProbeTtl
      BY <1>3, <3>1, <3>3 DEF CodexIInv, RootOK
    <3>5. stood[r] \in Nat /\ probed[r].until \in Nat /\ dbTime \in Nat BY <1>2, <1>3 DEF Probes
    <3> QED BY <1>2, <3>1, <3>3, <3>4, <3>5
  <2> QED BY <1>7, <1>8, <2>4, <2>5, <2>6 DEF PassIsHonest
<1>16. FlagIsHonest' BY <1>1 DEF CodexIInv, FlagIsHonest
<1> QED BY <1>12, <1>14, <1>15, <1>16 DEF CodexIInv

\* A broken root offers nothing that can be read, whatever was chosen before.
LEMMA BrokenIsUnread ==
  ASSUME CodexIInv, NEW r \in CodexHomes, IsBroken(r), probed[r].db # NoDb
  PROVE  ~Usable(dbs[r][probed[r].db])
<1>1. probed[r].db \in CandidateFiles[r] BY DEF CodexIInv, CodexTypes, Probes
<1>2. CASE dbs[r][probed[r].db][1] = "none" BY <1>2 DEF Usable
<1>3. CASE dbs[r][probed[r].db][1] # "none" BY <1>1, <1>3 DEF IsBroken, Present
<1> QED BY <1>2, <1>3

\* A broken root is read from its index and noted as unknown.
LEMMA RootsRead == ASSUME CodexIInv, CodexRead PROVE CodexIInv'
<1> DEFINE r == Root
           db == probed[r].db
           content == IF db = NoDb THEN <<"none">> ELSE dbs[r][db]
           found == IF Usable(content) THEN {[root |-> r, ts |-> ts, src |-> "db"] : ts \in {content[2]}}
                    ELSE {[root |-> r, ts |-> Created, src |-> Reason(r)]}
           rows == codexAt.rows \union {row \in found : Recent(row.ts)}
           broken == {q \in codexAt.broken : q = r => IsBroken(q)}
           unknown == codexAt.sawUnknown \/ (~Usable(content) /\ Reason(r) = "db-unknown")
           place == IF codexAt.root = 2 THEN "show" ELSE "probe"
           next == IF codexAt.root = 2 THEN 2 ELSE codexAt.root + 1
           sawDb == codexAt.sawDb \/ Usable(content)
<1>1. /\ codexAt.place = "read" /\ UNCHANGED <<dbTime, dbs, probed, codexShown, stood>>
      /\ codexAt' = [codexAt EXCEPT !.rows = rows, !.broken = broken, !.sawDb = sawDb,
                       !.sawUnknown = unknown, !.place = place, !.root = next]
  <2>1. Len(CodexRoots) = 2 BY Homes
  <2>2. codexAt.place = "read" /\ UNCHANGED <<dbTime, dbs, probed, codexShown, stood>> BY DEF CodexRead
  <2>3. codexAt' = [codexAt EXCEPT !.rows = @ \union {row \in found : Recent(row.ts)},
                       !.broken = {q \in @ : q = r => IsBroken(q)},
                       !.sawDb = @ \/ Usable(content),
                       !.sawUnknown = @ \/ (~Usable(content) /\ Reason(r) = "db-unknown"),
                       !.place = IF codexAt.root = Len(CodexRoots) THEN "show" ELSE "probe",
                       !.root = IF @ = Len(CodexRoots) THEN @ ELSE @ + 1]
    BY DEF CodexRead
  <2>4. next = IF codexAt.root = 2 THEN codexAt.root ELSE codexAt.root + 1 OBVIOUS
  <2> QED BY <2>1, <2>2, <2>3, <2>4, Zenon
<1>2. codexAt \in Passes /\ (\A q \in CodexHomes : probed[q] \in Probes(q))
      /\ \A q \in CodexHomes : dbs[q] \in [CandidateFiles[q] -> IndexFiles]
  BY DEF CodexIInv, CodexTypes
<1>3. r \in CodexHomes /\ codexAt.root \in 1..2 /\ (codexAt.root = 1 => r = "home")
      /\ (codexAt.root = 2 => r = "synced")
  BY <1>2, RootIsHome
<1>4. rows \in SUBSET ThreadRows
  <2>1. content \in IndexFiles
    <3>1. <<"none">> \in IndexFiles BY DEF IndexFiles
    <3>2. db # NoDb => dbs[r][db] \in IndexFiles BY <1>2, <1>3 DEF Probes
    <3> QED BY <3>1, <3>2
  <2>2. Usable(content) => content[2] \in Nat
    <3> HIDE DEF content
    <3>1. (\E t \in 1..MaxDbTime : content = <<"threads", t>>) \/ (\E k \in {"none", "link", "moved"} : content = <<k>>)
      BY <2>1 DEF IndexFiles
    <3>2. CASE \E t \in 1..MaxDbTime : content = <<"threads", t>> BY <3>2
    <3>3. CASE \E k \in {"none", "link", "moved"} : content = <<k>> BY <3>3 DEF Usable
    <3> QED BY <3>1, <3>2, <3>3
  <2>3. Reason(r) \in Flags /\ Created \in Nat BY DEF Reason, Flags, Created
  <2>4. found \subseteq ThreadRows
    <3> HIDE DEF content
    <3> QED BY <1>3, <2>2, <2>3 DEF ThreadRows, Flags
  <2>5. codexAt.rows \subseteq ThreadRows BY <1>2 DEF Passes
  <2> HIDE DEF found
  <2> QED BY <2>4, <2>5
<1>5. broken \in SUBSET CodexHomes /\ unknown \in BOOLEAN /\ sawDb \in BOOLEAN
      /\ place \in {"probe", "read", "show"} /\ next \in 1..2
  BY <1>2, <1>3 DEF Passes, Usable
<1>6. \A q \in broken : q \in codexAt.broken /\ (q = r => IsBroken(q)) OBVIOUS
<1>7. r \in broken => unknown
  <2> SUFFICES ASSUME r \in broken PROVE ~Usable(content) /\ Reason(r) = "db-unknown" OBVIOUS
  <2>1. r \in codexAt.broken /\ IsBroken(r) BY <1>6
  <2>2. Reason(r) = "db-unknown" BY <1>1, <2>1 DEF CodexIInv, PassIsHonest, Reason
  <2>3. ~Usable(content)
    <3>1. ~Usable(<<"none">>) BY DEF Usable
    <3> QED BY <1>3, <2>1, <3>1, BrokenIsUnread
  <2> QED BY <2>2, <2>3
<1>8. codexAt.sawUnknown => unknown OBVIOUS
<1> HIDE DEF rows, broken, unknown, sawDb
<1>9. /\ codexAt' \in Passes /\ codexAt'.place = place /\ codexAt'.root = next
      /\ codexAt'.broken = broken /\ codexAt'.sawUnknown = unknown
  BY <1>1, <1>2, <1>4, <1>5, ZenonT(60) DEF Passes
<1>10. CodexTypes' BY <1>1, <1>9 DEF CodexIInv, CodexTypes
<1>11. \A q \in CodexHomes : RootOK(q)' BY <1>1 DEF CodexIInv, RootOK, Present
<1>12. PassIsHonest'
  <2>1. codexAt.broken \ {r} # {} => codexAt.sawUnknown BY <1>1 DEF CodexIInv, PassIsHonest
  <2>2. broken # {} => unknown BY <1>6, <1>7, <1>8, <2>1
  <2>3. codexAt.root = 1 => broken \subseteq {"home"} BY <1>1, <1>6 DEF CodexIInv, PassIsHonest
  <2>4. codexAt.root = 1 \/ codexAt.root = 2 BY <1>3
  <2> QED BY <1>9, <2>2, <2>3, <2>4 DEF PassIsHonest
<1>13. FlagIsHonest' BY <1>1 DEF CodexIInv, FlagIsHonest
<1> QED BY <1>10, <1>11, <1>12, <1>13 DEF CodexIInv

\* The pass changes its fields.
LEMMA PassesOn ==
  ASSUME NEW a \in Passes, NEW p \in {"probe", "read", "show"}, NEW n \in 1..2, NEW w \in SUBSET ThreadRows,
         NEW b \in SUBSET CodexHomes, NEW d \in BOOLEAN, NEW u \in BOOLEAN
  PROVE  /\ [a EXCEPT !.place = p, !.root = n, !.rows = w, !.broken = b, !.sawDb = d, !.sawUnknown = u] \in Passes
         /\ [a EXCEPT !.place = p, !.root = n, !.rows = w, !.broken = b, !.sawDb = d, !.sawUnknown = u].place = p
         /\ [a EXCEPT !.place = p, !.root = n, !.rows = w, !.broken = b, !.sawDb = d, !.sawUnknown = u].broken = b
BY DEF Passes

\* A pass that noted a broken root shows the flag for it.
LEMMA RowsOfCodexShown == ASSUME CodexIInv, CodexShow PROVE CodexIInv'
<1>1. /\ codexAt.place = "show" /\ UNCHANGED <<dbTime, dbs, probed, stood>>
      /\ codexShown' = [rows |-> NewestThreads(codexAt.rows), flag |-> Flag(NewestThreads(codexAt.rows)),
                        broken |-> codexAt.broken]
      /\ codexAt' = [codexAt EXCEPT !.place = "probe", !.root = 1, !.rows = {}, !.broken = {},
                                    !.sawDb = FALSE, !.sawUnknown = FALSE]
  BY DEF CodexShow
<1>2. codexAt \in Passes BY DEF CodexIInv, CodexTypes
<1>3. codexAt' \in Passes /\ codexAt'.place = "probe" /\ codexAt'.broken = {}
  <2>1. PICK a \in Passes : a = codexAt BY <1>2
  <2>2. PICK no \in BOOLEAN : no = FALSE OBVIOUS
  <2>3. PICK w \in SUBSET ThreadRows : w = {} OBVIOUS
  <2>4. PICK b \in SUBSET CodexHomes : b = {} OBVIOUS
  <2>5. PICK p \in {"probe", "read", "show"} : p = "probe" OBVIOUS
  <2>6. PICK n \in 1..2 : n = 1 OBVIOUS
  <2> DEFINE next == [a EXCEPT !.place = p, !.root = n, !.rows = w, !.broken = b, !.sawDb = no, !.sawUnknown = no]
  <2>7. next \in Passes /\ next.place = p /\ next.broken = b BY DEF Passes
  <2>8. codexAt' = next BY <1>1, <2>1, <2>2, <2>3, <2>4, <2>5, <2>6
  <2> HIDE DEF next
  <2> QED BY <2>4, <2>5, <2>7, <2>8
<1>4. CodexTypes' BY <1>1, <1>3 DEF CodexIInv, CodexTypes
<1>5. \A q \in CodexHomes : RootOK(q)' BY <1>1 DEF CodexIInv, RootOK, Present
<1>6. PassIsHonest' BY <1>3 DEF PassIsHonest
<1>7. FlagIsHonest'
  <2> DEFINE rows == NewestThreads(codexAt.rows)
  <2>1. codexShown'.rows = rows /\ codexShown'.flag = Flag(rows) /\ codexShown'.broken = codexAt.broken
    BY <1>1
  <2> HIDE DEF rows
  <2>2. codexAt.broken # {} => codexAt.sawUnknown BY <1>1 DEF CodexIInv, PassIsHonest
  <2>3. codexAt.sawUnknown => Flag(rows) = "db-unknown" BY DEF Flag
  <2>4. Flag(rows) = "db" => \A row \in rows : row.src = "db" BY DEF Flag
  <2> QED BY <2>1, <2>2, <2>3, <2>4 DEF FlagIsHonest
<1> QED BY <1>4, <1>5, <1>6, <1>7 DEF CodexIInv

\* What every state of the Codex source keeps.
LEMMA CodexInvariance == CodexSpec => []CodexIInv
<1>1. CodexInit => CodexIInv BY CodexBegins
<1>2. CodexIInv /\ [CodexNext]_codexVars => CodexIInv'
  <2> SUFFICES ASSUME CodexIInv, [CodexNext]_codexVars PROVE CodexIInv' OBVIOUS
  <2>1. CASE CodexTick BY <2>1, CodexTicks
  <2>2. ASSUME NEW r \in CodexHomes, NEW c \in CandidateFiles[r], NEW content \in IndexFiles,
               Rewrite(r, c, content)
        PROVE  CodexIInv'
    BY <2>2, FilesReplaced
  <2>3. CASE CodexProbe BY <2>3, RootsProbed
  <2>4. CASE CodexRead BY <2>4, RootsRead
  <2>5. CASE CodexShow BY <2>5, RowsOfCodexShown
  <2>6. CASE UNCHANGED codexVars
    <3>1. UNCHANGED <<dbTime, dbs, probed, codexAt, codexShown, stood>> BY <2>6 DEF codexVars
    <3> QED BY <3>1 DEF CodexIInv, CodexTypes, RootOK, Present, PassIsHonest, FlagIsHonest, Root
  <2> QED BY <2>1, <2>2, <2>3, <2>4, <2>5, <2>6, Homes DEF CodexNext
<1> QED BY <1>1, <1>2, PTL DEF CodexSpec

\* A Codex page whose pass met a root with databases and none of use says so, once the root has
\* had them for as long as a probe is kept, and one that claims a database shows no row from an
\* index, whenever Codex rewrites its files between the probe and the read (collect_codex).
THEOREM FlagWasHonest == CodexSpec => []FlagIsHonest
<1>1. CodexIInv => FlagIsHonest BY DEF CodexIInv
<1>2. CodexSpec => []CodexIInv BY CodexInvariance
<1> QED BY <1>1, <1>2, PTL

\* What every state keeps is typed; the flag of the rows is the one of a pass.
LEMMA CodexIsTyped == CodexSpec => []CodexTypeOK
<1> DEFINE Flagged == codexShown.flag \in Flags
<1>1. CodexInit => Flagged BY DEF CodexInit, Flags
<1>2. CodexIInv /\ Flagged /\ [CodexNext]_codexVars => Flagged'
  <2> SUFFICES ASSUME Flagged, [CodexNext]_codexVars PROVE Flagged' OBVIOUS
  <2>1. CASE codexShown' = codexShown BY <2>1
  <2>2. CASE CodexTick \/ CodexProbe \/ CodexRead BY <2>1, <2>2 DEF CodexTick, CodexProbe, CodexRead
  <2>3. ASSUME NEW r, NEW c, NEW content, Rewrite(r, c, content) PROVE Flagged' BY <2>1, <2>3 DEF Rewrite
  <2>4. CASE CodexShow
    <3>1. PICK rows : codexShown'.flag = Flag(rows) BY <2>4 DEF CodexShow
    <3> QED BY <3>1 DEF Flag, Flags
  <2>5. CASE UNCHANGED codexVars BY <2>1, <2>5 DEF codexVars
  <2> QED BY <2>2, <2>3, <2>4, <2>5 DEF CodexNext
<1>3. CodexIInv /\ Flagged => CodexTypeOK
  <2> SUFFICES ASSUME CodexIInv, Flagged PROVE CodexTypeOK OBVIOUS
  <2>1. CodexTypes BY DEF CodexIInv
  <2>2. \A r \in CodexHomes : probed[r].db \in CandidateFiles[r] \union {NoDb} BY <2>1 DEF CodexTypes, Probes
  <2> QED BY <2>1, <2>2, Homes DEF CodexTypes, CodexTypeOK, Flags
<1>4. CodexSpec => []CodexIInv BY CodexInvariance
<1> HIDE DEF Flagged
<1> QED BY <1>1, <1>2, <1>3, <1>4, PTL DEF CodexSpec

-----------------------------------------------------------------------------
(* The office floor *)

FloorDetails == {"none", "docs", "code"}
WorkKinds == {"unknown", "working", "standby"}
WorkSights == [kind : WorkKinds, at : Int, detail : FloorDetails]
FloorFigures == [kind : WorkKinds \union {"none"}, detail : FloorDetails, now : Int,
                 phase : {"none", "await_user", "wait", "integrate"}]

\* What is remembered was seen when it says, and while no helper runs none runs now.
FloorIInv ==
  /\ FloorTypeOK /\ moment \in Nat /\ goneAt \in 0..moment /\ (~helper => goneAt = moment)
  /\ poll \in [Pollers -> Int] /\ \A p \in Pollers : poll[p] # Never => poll[p] \in 0..moment
  /\ seenAt \in [FloorDetails -> Int] /\ figure \in FloorFigures
  /\ workCache \in WorkSights /\ (workCache.kind = "working" <=> workCache.detail # "none")
  /\ workCache.kind # "unknown" => seenAt[workCache.detail] >= workCache.at
  /\ bridge \in [at : Int, running : BOOLEAN]
  /\ bridge.at # Never /\ ~bridge.running => goneAt >= bridge.at
  /\ DrawnWasSeen

\* At first nothing is remembered or drawn.
LEMMA FloorBegins == FloorInit => FloorIInv
<1> SUFFICES ASSUME FloorInit PROVE FloorIInv OBVIOUS
<1>1. FloorTypeOK
  <2>1. moment \in 0..MaxMoment /\ liveTail \in [tool : Tools, done : BOOLEAN]
    BY FloorAssumption DEF FloorInit, Tools
  <2>2. asking \in BOOLEAN /\ helper \in BOOLEAN /\ workCache.kind = "unknown" /\ figure.phase = "none"
    BY DEF FloorInit, NoFigure
  <2> QED BY <2>1, <2>2 DEF FloorTypeOK
<1>2. poll \in [Pollers -> Int] /\ \A p \in Pollers : poll[p] # Never => poll[p] \in 0..moment
  BY DEF FloorInit, Never
<1>3. figure \in FloorFigures /\ figure.kind = "none" BY DEF FloorInit, NoFigure, FloorFigures, FloorDetails
<1>4. seenAt \in [FloorDetails -> Int] BY DEF FloorInit, FloorDetails, Never
<1>5. /\ workCache \in WorkSights /\ workCache.kind = "unknown" /\ workCache.detail = "none"
      /\ bridge \in [at : Int, running : BOOLEAN] /\ bridge.at = Never
  BY DEF FloorInit, WorkSights, WorkKinds, FloorDetails, Never
<1>6. moment = 0 /\ goneAt = 0 BY DEF FloorInit
<1> QED BY <1>1, <1>2, <1>3, <1>4, <1>5, <1>6 DEF FloorIInv, DrawnWasSeen

\* The numbers of the floor.
LEMMA FloorNumbers == Debounce \in Nat \ {0} /\ BridgeTtl \in Nat \ {0} /\ MaxMoment \in Nat
BY FloorAssumption

\* The session and the clock go on.
LEMMA FloorMoves ==
  ASSUME FloorIInv, FloorTick \/ (\E t \in Tools \ {"none"} : CallTool(t)) \/ ToolResult \/ AskUser \/ HelperRuns
  PROVE  FloorIInv'
<1>1. /\ moment' \in 0..MaxMoment /\ moment' >= moment /\ goneAt' \in 0..moment' /\ goneAt' >= goneAt
      /\ (~helper' => goneAt' = moment') /\ helper' \in BOOLEAN /\ asking' \in BOOLEAN
  <2>1. /\ moment \in 0..MaxMoment /\ moment \in Nat /\ goneAt \in 0..moment /\ (~helper => goneAt = moment)
        /\ helper \in BOOLEAN /\ asking \in BOOLEAN
    BY DEF FloorIInv, FloorTypeOK
  <2>2. CASE FloorTick BY <2>1, <2>2, FloorNumbers DEF FloorTick
  <2>3. CASE HelperRuns
    <3>1. helper' \in BOOLEAN BY <2>3 DEF HelperRuns
    <3> QED BY <2>1, <2>3, <3>1, FloorNumbers DEF HelperRuns
  <2>4. CASE AskUser
    <3>1. asking' \in BOOLEAN BY <2>4 DEF AskUser
    <3> QED BY <2>1, <2>4, <3>1, FloorNumbers DEF AskUser
  <2>5. CASE ToolResult \/ \E t \in Tools \ {"none"} : CallTool(t)
    BY <2>1, <2>5, FloorNumbers DEF ToolResult, CallTool
  <2> QED BY <2>2, <2>3, <2>4, <2>5
<1>2. liveTail' \in [tool : Tools, done : BOOLEAN]
  <2>1. liveTail \in [tool : Tools, done : BOOLEAN] BY DEF FloorIInv, FloorTypeOK
  <2>2. ASSUME NEW t \in Tools \ {"none"}, CallTool(t) PROVE liveTail' \in [tool : Tools, done : BOOLEAN]
    BY <2>2 DEF CallTool
  <2>3. CASE ToolResult
    <3>1. liveTail' = [tool |-> liveTail.tool, done |-> TRUE] BY <2>1, <2>3 DEF ToolResult
    <3> QED BY <2>1, <3>1
  <2>4. CASE FloorTick \/ AskUser \/ HelperRuns BY <2>1, <2>4 DEF FloorTick, AskUser, HelperRuns
  <2> QED BY <2>2, <2>3, <2>4
<1>3. UNCHANGED <<workCache, bridge, poll, figure, seenAt>>
  BY DEF FloorTick, CallTool, ToolResult, AskUser, HelperRuns
<1>4. moment \in Nat /\ goneAt \in Nat /\ moment' \in Nat /\ goneAt' \in Nat
  BY <1>1, FloorNumbers DEF FloorIInv
<1>5. FloorTypeOK' BY <1>1, <1>2, <1>3 DEF FloorIInv, FloorTypeOK
<1>6. \A p \in Pollers : poll[p] # Never => poll[p] \in 0..moment' BY <1>1, <1>4 DEF FloorIInv
<1>7. DrawnWasSeen'
  BY <1>1, <1>3, <1>4, FloorNumbers DEF FloorIInv, DrawnWasSeen, FloorFigures
<1>8. bridge.at # Never /\ ~bridge.running => goneAt' >= bridge.at BY <1>1, <1>4 DEF FloorIInv
<1> QED BY <1>1, <1>3, <1>4, <1>5, <1>6, <1>7, <1>8 DEF FloorIInv

\* What a poll keeps and draws it saw itself, or another less than the debounce before.
LEMMA FloorDraws ==
  ASSUME FloorIInv, NEW p \in Pollers, FinishPoll(p)
  PROVE  FloorIInv'
<1> DEFINE now == poll[p]
           kind == IF UnderWay THEN "working" ELSE "standby"
           seen == IF UnderWay THEN OfficeWorkDetail(liveTail.tool) ELSE "none"
           sighted == [kind |-> kind, detail |-> seen]
           held == Debounced(sighted, now)
           detail == IF held.kind = "working" THEN held.detail ELSE "none"
           consult == liveTail.tool = "council" /\ ~asking /\ liveTail.done
           answered == IF consult THEN HelperAsOf(now) ELSE bridge
           phase == CouncilPhase(detail, consult /\ answered.running)
<1>1. /\ now \in 0..moment /\ moment \in Nat /\ goneAt \in 0..moment
      /\ workCache' = held /\ bridge' = answered
      /\ figure' = [kind |-> held.kind, detail |-> detail, now |-> now, phase |-> phase]
      /\ seenAt' = [seenAt EXCEPT ![seen] = FloorLater(@, now)]
      /\ poll' = [poll EXCEPT ![p] = Never] /\ UNCHANGED <<moment, liveTail, asking, helper, goneAt>>
  BY DEF FinishPoll, FloorIInv
<1>2. seen \in FloorDetails /\ kind \in {"working", "standby"} /\ (kind = "working" <=> seen # "none")
  BY DEF UnderWay, OfficeWorkDetail, FloorIInv, FloorTypeOK, Tools, FloorDetails
<1>3. phase \in {"none", "await_user", "wait", "integrate"} /\ (phase = "integrate" => consult /\ ~answered.running)
  <2>1. liveTail \in [tool : Tools, done : BOOLEAN] /\ asking \in BOOLEAN BY DEF FloorIInv, FloorTypeOK
  <2> DEFINE asked == consult /\ answered.running
  <2>2. phase = CouncilPhase(detail, asked) OBVIOUS
  <2>3. phase = "integrate" => liveTail.tool = "council" /\ ~asking /\ ~UnderWay /\ ~asked
    <3> HIDE DEF detail, asked, phase
    <3> QED BY <2>2 DEF CouncilPhase
  <2>4. phase \in {"none", "await_user", "wait", "integrate"}
    <3> HIDE DEF detail, asked, phase
    <3> QED BY <2>2 DEF CouncilPhase
  <2> HIDE DEF phase
  <2>5. phase = "integrate" => consult BY <2>1, <2>3 DEF UnderWay
  <2> QED BY <2>3, <2>4, <2>5
<1>4. /\ held = workCache /\ workCache.kind # "unknown" /\ now - workCache.at < Debounce
      \/ held = [kind |-> kind, at |-> now, detail |-> seen]
  BY DEF Debounced
<1>5. /\ answered \in [at : Int, running : BOOLEAN]
      /\ answered.at # Never /\ ~answered.running => goneAt >= answered.at
      /\ phase = "integrate" => goneAt > now - BridgeTtl
  <2>1. CASE answered = bridge /\ (consult => now - bridge.at \in 0..(BridgeTtl - 1) /\ bridge.at # Never)
    <3>1. bridge \in [at : Int, running : BOOLEAN] /\ (bridge.at # Never /\ ~bridge.running => goneAt >= bridge.at)
      BY DEF FloorIInv
    <3> HIDE DEF now, phase, consult, answered
    <3>2. phase = "integrate" => goneAt > now - BridgeTtl
      BY <2>1, <3>1, <1>1, <1>3, FloorNumbers
    <3> QED BY <2>1, <3>1, <3>2
  <2>2. CASE consult /\ answered = [at |-> now, running |-> helper]
    <3>1. helper \in BOOLEAN /\ (~helper => goneAt = moment) BY DEF FloorIInv, FloorTypeOK
    <3> HIDE DEF now, phase, consult, answered
    <3>2. answered.at = now /\ answered.running = helper BY <2>2
    <3>3. ~helper => goneAt >= now /\ goneAt > now - BridgeTtl BY <3>1, <1>1, FloorNumbers
    <3> QED BY <2>2, <3>1, <3>2, <3>3, <1>1, <1>3
  <2> QED BY <2>1, <2>2 DEF HelperAsOf
<1> HIDE DEF now, kind, seen, held, phase, consult, answered
<1>6. seenAt' \in [FloorDetails -> Int] /\ seenAt'[seen] >= now /\ \A d \in FloorDetails : seenAt'[d] >= seenAt[d]
  <2>1. seenAt \in [FloorDetails -> Int] BY DEF FloorIInv
  <2>2. FloorLater(seenAt[seen], now) \in Int /\ FloorLater(seenAt[seen], now) >= now
        /\ FloorLater(seenAt[seen], now) >= seenAt[seen]
    BY <2>1, <1>1, <1>2 DEF FloorLater
  <2> QED BY <2>1, <2>2, <1>1, <1>2
<1>7. /\ held \in WorkSights /\ held.kind \in {"working", "standby"}
      /\ (held.kind = "working" <=> held.detail # "none")
      /\ seenAt'[held.detail] >= held.at /\ held.at > now - Debounce
  <2>1. CASE held = workCache /\ workCache.kind # "unknown" /\ now - workCache.at < Debounce
    <3>1. workCache \in WorkSights /\ (workCache.kind = "working" <=> workCache.detail # "none")
          /\ seenAt[workCache.detail] >= workCache.at /\ seenAt \in [FloorDetails -> Int]
      BY <2>1 DEF FloorIInv
    <3>2. workCache.kind \in {"working", "standby"} /\ workCache.detail \in FloorDetails /\ workCache.at \in Int
      BY <2>1, <3>1 DEF WorkSights, WorkKinds
    <3>3. seenAt'[workCache.detail] >= workCache.at BY <3>1, <3>2, <1>6
    <3>4. workCache.at > now - Debounce BY <2>1, <3>2, <1>1, FloorNumbers
    <3> QED BY <2>1, <3>1, <3>2, <3>3, <3>4
  <2>2. CASE held = [kind |-> kind, at |-> now, detail |-> seen]
    <3>1. held.kind = kind /\ held.at = now /\ held.detail = seen BY <2>2
    <3>2. held \in WorkSights BY <2>2, <1>1, <1>2 DEF WorkSights, WorkKinds
    <3>3. now > now - Debounce BY <1>1, FloorNumbers
    <3> QED BY <3>1, <3>2, <3>3, <1>2, <1>6
  <2> QED BY <1>4, <2>1, <2>2
<1>8. detail = held.detail /\ detail \in FloorDetails BY <1>7 DEF WorkSights
<1> HIDE DEF detail
<1>9. figure' \in FloorFigures /\ figure'.detail = held.detail /\ figure'.kind = held.kind /\ figure'.now = now
      /\ figure'.phase = phase
  BY <1>1, <1>3, <1>7, <1>8 DEF FloorFigures, WorkKinds
<1>10. DrawnWasSeen'
  <2>1. seenAt'[held.detail] > now - Debounce
    BY <1>1, <1>6, <1>7, FloorNumbers DEF WorkSights
  <2> QED BY <2>1, <1>1, <1>5, <1>7, <1>9 DEF DrawnWasSeen
<1>11. poll' \in [Pollers -> Int] /\ \A q \in Pollers : poll'[q] # Never => poll'[q] \in 0..moment'
  BY <1>1 DEF FloorIInv, Never
<1>12. FloorTypeOK' BY <1>1, <1>7, <1>9 DEF FloorIInv, FloorTypeOK, WorkKinds, FloorFigures
<1> QED BY <1>1, <1>5, <1>6, <1>7, <1>9, <1>10, <1>11, <1>12 DEF FloorIInv

\* What every state of the office floor keeps.
LEMMA FloorInvariance == FloorSpec => []FloorIInv
<1>1. FloorIInv /\ [FloorNext]_floorVars => FloorIInv'
  <2> SUFFICES ASSUME FloorIInv, [FloorNext]_floorVars PROVE FloorIInv' OBVIOUS
  <2>1. CASE UNCHANGED floorVars
    BY <2>1 DEF floorVars, FloorIInv, FloorTypeOK, DrawnWasSeen
  <2>2. ASSUME NEW p \in Pollers, BeginPoll(p) PROVE FloorIInv'
    BY <2>2 DEF BeginPoll, FloorIInv, FloorTypeOK, DrawnWasSeen
  <2> QED BY <2>1, <2>2, FloorMoves, FloorDraws DEF FloorNext
<1> QED BY <1>1, FloorBegins, PTL DEF FloorSpec

\* What the office draws was seen less than the debounce before (_debounced_work_kind,
\* _council_state), for every number of threads that poll, however old the time each of them took.
THEOREM FiguresWereSeen == FloorSpec => []DrawnWasSeen
<1>1. FloorIInv => DrawnWasSeen BY DEF FloorIInv
<1>2. FloorSpec => []FloorIInv BY FloorInvariance
<1> QED BY <1>1, <1>2, PTL

\* What every state keeps is typed.
LEMMA FloorIsTyped == FloorSpec => []FloorTypeOK
<1>1. FloorIInv => FloorTypeOK BY DEF FloorIInv
<1>2. FloorSpec => []FloorIInv BY FloorInvariance
<1> QED BY <1>1, <1>2, PTL

-----------------------------------------------------------------------------
(* The curve of the source *)

CurvePoints == [date : HistoryDays, commit : 0..MaxHalf, made : Nat]
HistoryWalkers ==
  [place : {"rest", "cache", "days", "due"}, head : Int, date : Int, began : Nat, points : SUBSET CurvePoints]

\* The last commit of a mainline by the noon of a day.
IsPointOf(c, d, line) ==
  \E i \in 1..Len(line) : /\ c = line[i] /\ c <= Noon(d)
                          /\ \A j \in 1..Len(line) : j > i => line[j] > Noon(d)

\* A point that was made when the day's noon had passed is final.
FinalOK(p) == p.made <= half /\ (p.made > Noon(p.date) => p.commit = settled[p.date + 1])

\* One made earlier is a commit that was there when its walk began, or came later.
EarlyOK(p) ==
  p.made <= Noon(p.date) =>
    \E k \in 1..Len(mainline) : k >= history.head /\ p.commit = mainline[k] /\ p.commit <= Noon(p.date)

MainlineOK ==
  /\ half \in 0..MaxHalf /\ mainline \in Seq(0..MaxHalf) /\ Len(mainline) >= 1 /\ mainline[1] = 0
  /\ \A i \in 1..Len(mainline) : mainline[i] <= half

SettledOK ==
  /\ settled \in Seq(0..MaxHalf) /\ Len(settled) = (half + 1) \div 2
  /\ \A i \in 1..Len(settled) : IsPointOf(settled[i], i - 1, mainline)

WalkerOK(w) ==
  /\ \A p \in walkers[w].points : FinalOK(p)
  /\ walkers[w].place \in {"cache", "days"} =>
       /\ walkers[w].head \in 1..Len(mainline) /\ walkers[w].began <= half
       /\ \A k \in 1..Len(mainline) : k > walkers[w].head => mainline[k] >= walkers[w].began

HistoryIInv ==
  /\ MainlineOK /\ SettledOK
  /\ sideBranch \in -1..MaxHalf /\ sideways \subseteq 0..MaxHalf /\ snapshots \subseteq HistoryDays
  /\ history \in [head : Int, date : Int, points : SUBSET CurvePoints]
  /\ \A p \in history.points : FinalOK(p) /\ EarlyOK(p)
  /\ walkers \in [Walkers -> HistoryWalkers] /\ \A w \in Walkers : WalkerOK(w)

\* Halves of days.
LEMMA HalfDays ==
  ASSUME NEW h \in Nat
  PROVE  Day(h) \in Nat /\ 2 * Day(h) <= h /\ h <= 2 * Day(h) + 1
BY DEF Day

\* What is assumed of the bounds.
LEMMA HistoryNumbers == MaxHalf \in Nat /\ MaxLanding \in Nat /\ Backfill \in Nat /\ Snapper \in Walkers
BY HistoryAssumption

\* The days of the history hold the day of every half.
LEMMA DaysOfHalves == ASSUME NEW h \in 0..MaxHalf PROVE Day(h) \in HistoryDays
BY HistoryNumbers, SMTT(30) DEF Day, HistoryDays

\* At first there is one commit and nothing is known of it.
LEMMA HistoryBegins == HistoryInit => HistoryIInv
<1> SUFFICES ASSUME HistoryInit PROVE HistoryIInv OBVIOUS
<1>1. MainlineOK
  <2>1. mainline = <<0>> /\ half = 0 /\ 0 \in 0..MaxHalf BY HistoryNumbers DEF HistoryInit
  <2>2. mainline \in Seq(0..MaxHalf) /\ Len(mainline) = 1 /\ mainline[1] = 0 BY <2>1
  <2> QED BY <2>1, <2>2 DEF MainlineOK
<1>2. SettledOK
  <2>1. settled = <<>> /\ half = 0 BY DEF HistoryInit
  <2>2. (half + 1) \div 2 = 0 BY <2>1
  <2> QED BY <2>1, <2>2 DEF SettledOK
<1>3. history \in [head : Int, date : Int, points : SUBSET CurvePoints] /\ history.points = {}
  BY DEF HistoryInit, NoHistory, NotYet
<1>4. walkers \in [Walkers -> HistoryWalkers] /\ \A w \in Walkers : WalkerOK(w)
  <2>1. Ended("rest", {}) \in HistoryWalkers /\ Ended("rest", {}).points = {} /\ Ended("rest", {}).place = "rest"
    BY DEF Ended, HistoryWalkers
  <2>2. walkers = [w \in Walkers |-> Ended("rest", {})] BY DEF HistoryInit
  <2> QED BY <2>1, <2>2 DEF WalkerOK
<1>5. sideBranch \in -1..MaxHalf /\ sideways = {} /\ snapshots = {} BY HistoryNumbers DEF HistoryInit, NotYet
<1> QED BY <1>1, <1>2, <1>3, <1>4, <1>5 DEF HistoryIInv

\* What is settled stays what it was.
LEMMA FinalStays ==
  ASSUME HistoryIInv, half' \in Nat, half' >= half, NEW p \in CurvePoints, FinalOK(p),
         \A i \in 1..Len(settled) : settled'[i] = settled[i]
  PROVE  FinalOK(p)'
<1>1. half \in Nat /\ Len(settled) = (half + 1) \div 2 /\ p.made \in Nat /\ p.date \in Nat
  BY HistoryNumbers DEF HistoryIInv, MainlineOK, SettledOK, CurvePoints, HistoryDays
<1>2. p.made <= half' BY <1>1 DEF FinalOK
<1>3. ASSUME p.made > Noon(p.date) PROVE p.commit = settled'[p.date + 1]
  <2>1. p.date + 1 \in 1..Len(settled) BY <1>1, <1>3 DEF Noon, FinalOK
  <2> QED BY <1>3, <2>1 DEF FinalOK
<1> QED BY <1>2, <1>3 DEF FinalOK

\* A commit that lands is later than every noon that has passed, and a walk that has begun.
LEMMA MainlineGrows ==
  ASSUME HistoryIInv, half > 0, mainline' = Append(mainline, half),
         sideBranch' \in -1..MaxHalf, sideways' \subseteq 0..MaxHalf,
         UNCHANGED <<half, settled, history, walkers, snapshots>>
  PROVE  HistoryIInv'
<1>1. half \in 0..MaxHalf /\ half \in Nat /\ mainline \in Seq(0..MaxHalf) /\ Len(mainline) \in Nat /\ Len(mainline) >= 1
  BY HistoryNumbers, LenProperties DEF HistoryIInv, MainlineOK
<1>2. /\ mainline' \in Seq(0..MaxHalf) /\ Len(mainline') = Len(mainline) + 1
      /\ \A i \in 1..Len(mainline) : mainline'[i] = mainline[i]
      /\ mainline'[Len(mainline) + 1] = half
  BY <1>1, AppendProperties
<1>3. MainlineOK' BY <1>1, <1>2 DEF HistoryIInv, MainlineOK
<1>4. SettledOK'
  <2>1. ASSUME NEW i \in 1..Len(settled) PROVE IsPointOf(settled[i], i - 1, mainline')
    <3>0. Len(settled) = (half + 1) \div 2 /\ IsPointOf(settled[i], i - 1, mainline) BY DEF HistoryIInv, SettledOK
    <3>1. half > 2 * (i - 1) BY <3>0, <1>1
    <3>2. PICK k \in 1..Len(mainline) :
            /\ settled[i] = mainline[k] /\ settled[i] <= 2 * (i - 1)
            /\ \A j \in 1..Len(mainline) : j > k => mainline[j] > 2 * (i - 1)
      BY <3>0 DEF IsPointOf, Noon
    <3>3. k \in 1..Len(mainline') /\ settled[i] = mainline'[k] BY <1>1, <1>2, <3>2
    <3>4. \A j \in 1..Len(mainline') : j > k => mainline'[j] > 2 * (i - 1) BY <1>1, <1>2, <3>1, <3>2, SMTT(60)
    <3> QED BY <3>2, <3>3, <3>4 DEF IsPointOf, Noon
  <2> QED BY <2>1 DEF HistoryIInv, SettledOK
<1>5. \A p \in CurvePoints : (FinalOK(p) => FinalOK(p)') /\ (EarlyOK(p) => EarlyOK(p)')
  BY <1>1, <1>2 DEF FinalOK, EarlyOK
<1>6. ASSUME NEW w \in Walkers PROVE WalkerOK(w)'
  <2>1. WalkerOK(w) /\ walkers[w] \in HistoryWalkers BY DEF HistoryIInv
  <2>2. \A p \in walkers[w].points : FinalOK(p)' BY <2>1, <1>5 DEF WalkerOK, HistoryWalkers
  <2>3. walkers[w].place \in {"cache", "days"} =>
          /\ walkers[w].head \in 1..Len(mainline')
          /\ \A k \in 1..Len(mainline') : k > walkers[w].head => mainline'[k] >= walkers[w].began
    BY <1>1, <1>2, <2>1 DEF WalkerOK
  <2> QED BY <2>1, <2>2, <2>3 DEF WalkerOK
<1>7. history.points \subseteq CurvePoints BY DEF HistoryIInv
<1>8. \A p \in history.points : FinalOK(p)' /\ EarlyOK(p)' BY <1>5, <1>7 DEF HistoryIInv
<1> QED BY <1>3, <1>4, <1>6, <1>8 DEF HistoryIInv

\* At noon the last commit is the day's.
LEMMA NoonSettles ==
  ASSUME HistoryIInv, HalfDayPasses
  PROVE  HistoryIInv'
<1>1. half \in 0..MaxHalf /\ half \in Nat /\ half' = half + 1 /\ half' \in 0..MaxHalf
  BY HistoryNumbers DEF HistoryIInv, MainlineOK, HalfDayPasses
<1>2. UNCHANGED <<mainline, sideBranch, sideways, history, walkers, snapshots>> BY DEF HalfDayPasses
<1>3. MainlineOK'
  <2>1. \A i \in 1..Len(mainline) : mainline[i] \in Nat BY HistoryNumbers, ElementOfSeq DEF HistoryIInv, MainlineOK
  <2>2. \A i \in 1..Len(mainline) : mainline[i] <= half' BY <1>1, <2>1 DEF HistoryIInv, MainlineOK
  <2> QED BY <1>1, <1>2, <2>2 DEF HistoryIInv, MainlineOK
<1>4. mainline \in Seq(0..MaxHalf) /\ Len(mainline) \in Nat /\ Len(mainline) >= 1
      /\ Last(mainline) = mainline[Len(mainline)] /\ Last(mainline) \in 0..MaxHalf /\ Last(mainline) <= half
  <2>1. mainline \in Seq(0..MaxHalf) /\ Len(mainline) \in Nat /\ Len(mainline) >= 1
    BY LenProperties DEF HistoryIInv, MainlineOK
  <2>2. mainline[Len(mainline)] \in 0..MaxHalf
    <3>1. Len(mainline) \in 1..Len(mainline) BY <2>1
    <3> QED BY <2>1, <3>1, ElementOfSeq
  <2> QED BY <2>1, <2>2 DEF Last, HistoryIInv, MainlineOK
<1>5. settled \in Seq(0..MaxHalf) /\ Len(settled) \in Nat /\ Len(settled) = (half + 1) \div 2
  BY LenProperties DEF HistoryIInv, SettledOK
<1>6. SettledOK' /\ \A i \in 1..Len(settled) : settled'[i] = settled[i]
  <2>1. CASE half % 2 = 0
    <3>1. settled' = Append(settled, Last(mainline)) BY <2>1 DEF HalfDayPasses
    <3>2. /\ settled' \in Seq(0..MaxHalf) /\ Len(settled') = Len(settled) + 1
          /\ \A i \in 1..Len(settled) : settled'[i] = settled[i]
          /\ settled'[Len(settled) + 1] = Last(mainline)
      BY <1>4, <1>5, <3>1, AppendProperties
    <3>3. Len(settled') = (half' + 1) \div 2 /\ 2 * Len(settled) = half BY <1>1, <1>5, <2>1, <3>2
    <3>4. IsPointOf(Last(mainline), Len(settled), mainline)
      BY <1>4, <3>3 DEF IsPointOf, Noon
    <3>5. ASSUME NEW i \in 1..Len(settled') PROVE IsPointOf(settled'[i], i - 1, mainline)
      <4>1. CASE i \in 1..Len(settled) BY <3>2, <4>1 DEF HistoryIInv, SettledOK
      <4>2. CASE i = Len(settled) + 1
        <5>1. i - 1 = Len(settled) BY <4>2, <1>5
        <5> QED BY <5>1, <4>2, <3>2, <3>4
      <4> QED BY <1>5, <3>2, <4>1, <4>2
    <3> QED BY <1>2, <3>2, <3>3, <3>5 DEF SettledOK
  <2>2. CASE half % 2 # 0
    <3>1. settled' = settled BY <2>2 DEF HalfDayPasses
    <3>2. (half' + 1) \div 2 = (half + 1) \div 2 BY <1>1, <2>2
    <3> QED BY <1>2, <1>5, <3>1, <3>2 DEF HistoryIInv, SettledOK
  <2> QED BY <2>1, <2>2
<1>7. \A p \in CurvePoints : FinalOK(p) => FinalOK(p)' BY <1>1, <1>6, FinalStays
<1>8. \A p : EarlyOK(p) => EarlyOK(p)' BY <1>2 DEF EarlyOK
<1>9. ASSUME NEW w \in Walkers PROVE WalkerOK(w)'
  <2>1. WalkerOK(w) /\ walkers[w] \in HistoryWalkers BY DEF HistoryIInv
  <2>2. walkers[w].began \in Nat /\ walkers[w].points \subseteq CurvePoints BY <2>1 DEF HistoryWalkers
  <2> QED BY <1>1, <1>2, <1>7, <2>1, <2>2 DEF WalkerOK
<1>10. history.points \subseteq CurvePoints BY DEF HistoryIInv
<1> QED BY <1>2, <1>3, <1>6, <1>7, <1>8, <1>9, <1>10 DEF HistoryIInv

\* The last mainline commit by a noon is there.
LEMMA PointsArePoints ==
  ASSUME MainlineOK, NEW d \in HistoryDays
  PROVE  IsPointOf(PointOf(d), d, mainline) /\ PointOf(d) \in 0..MaxHalf
<1> DEFINE I == {i \in 1..Len(mainline) : mainline[i] <= Noon(d)}
<1>1. Len(mainline) \in Nat /\ Len(mainline) >= 1 /\ mainline \in Seq(0..MaxHalf) /\ mainline[1] = 0 /\ d \in Nat
  BY LenProperties, HistoryNumbers DEF MainlineOK, HistoryDays
<1>2. I \in SUBSET (1..Len(mainline)) /\ 1 \in I BY <1>1 DEF Noon
<1>3. PointOf(d) = mainline[IF I # {} THEN Max(I) ELSE 0] BY DEF PointOf, SelectLastInSeq
<1> HIDE DEF I
<1>4. PICK n \in I : n = Max(I) /\ \A i \in I : i <= n BY <1>1, <1>2, LastPosition
<1>5. n \in 1..Len(mainline) /\ mainline[n] <= Noon(d) /\ PointOf(d) = mainline[n] BY <1>2, <1>3, <1>4 DEF I
<1>6. mainline[n] \in 0..MaxHalf BY <1>1, <1>5, ElementOfSeq
<1>7. ASSUME NEW j \in 1..Len(mainline), j > n PROVE mainline[j] > Noon(d)
  <2>1. j \notin I BY <1>1, <1>4, <1>5, <1>7
  <2>2. mainline[j] \in 0..MaxHalf BY <1>1, ElementOfSeq
  <2> QED BY <1>1, <2>1, <2>2, HistoryNumbers DEF I, Noon
<1> QED BY <1>5, <1>6, <1>7 DEF IsPointOf

\* There is one such commit only.
LEMMA OnePointEach ==
  ASSUME MainlineOK, NEW d \in Nat, NEW b, NEW c, IsPointOf(b, d, mainline), IsPointOf(c, d, mainline)
  PROVE  b = c
<1>1. \A i \in 1..Len(mainline) : mainline[i] \in Nat BY HistoryNumbers, ElementOfSeq DEF MainlineOK
<1>2. Len(mainline) \in Nat BY LenProperties DEF MainlineOK
<1>3. PICK i \in 1..Len(mainline) : /\ b = mainline[i] /\ b <= Noon(d)
                                    /\ \A j \in 1..Len(mainline) : j > i => mainline[j] > Noon(d)
  BY DEF IsPointOf
<1>4. PICK k \in 1..Len(mainline) : /\ c = mainline[k] /\ c <= Noon(d)
                                    /\ \A j \in 1..Len(mainline) : j > k => mainline[j] > Noon(d)
  BY DEF IsPointOf
<1>5. ~(i > k) /\ ~(k > i) BY <1>1, <1>3, <1>4 DEF Noon
<1> QED BY <1>2, <1>3, <1>4, <1>5

\* A walk that ends leaves what is final.
LEMMA WalkEnds ==
  ASSUME HistoryIInv, NEW w \in Walkers, NEW points \in SUBSET CurvePoints,
         \A p \in points : FinalOK(p), EndWalk(w, points),
         UNCHANGED <<half, mainline, sideBranch, sideways, settled, snapshots>>,
         history' \in [head : Int, date : Int, points : SUBSET CurvePoints],
         \A p \in history'.points : FinalOK(p) /\ EarlyOK(p)'
  PROVE  HistoryIInv'
<1>1. PICK e \in HistoryWalkers : /\ walkers' = [walkers EXCEPT ![w] = e] /\ e.place \in {"rest", "due"}
                                  /\ e.points \subseteq points
  <2>1. Ended("due", {}) \in HistoryWalkers /\ Ended("due", {}).place = "due" /\ Ended("due", {}).points = {}
    BY DEF Ended, HistoryWalkers
  <2>2. Ended("rest", points) \in HistoryWalkers /\ Ended("rest", points).place = "rest" /\ Ended("rest", points).points = points
    BY DEF Ended, HistoryWalkers
  <2>3. CASE w = Snapper
    <3>1. walkers' = [walkers EXCEPT ![w] = Ended("due", {})] BY <2>3 DEF EndWalk
    <3> QED BY <2>1, <3>1
  <2>4. CASE w # Snapper
    <3>1. walkers' = [walkers EXCEPT ![w] = Ended("rest", points)] BY <2>4 DEF EndWalk
    <3> QED BY <2>2, <3>1
  <2> QED BY <2>3, <2>4
<1>2. \A p : FinalOK(p)' <=> FinalOK(p) BY DEF FinalOK
<1>3. walkers' \in [Walkers -> HistoryWalkers] /\ \A v \in Walkers : walkers'[v] = IF v = w THEN e ELSE walkers[v]
  BY <1>1 DEF HistoryIInv
<1>4. \A v \in Walkers : WalkerOK(v)' BY <1>1, <1>2, <1>3 DEF HistoryIInv, WalkerOK
<1>5. MainlineOK' /\ SettledOK' BY DEF HistoryIInv, MainlineOK, SettledOK
<1> QED BY <1>2, <1>3, <1>4, <1>5 DEF HistoryIInv

\* What was kept for the same branch and date is as good as if it were made now.
LEMMA KeptIsFinal ==
  ASSUME HistoryIInv, NEW w \in Walkers, walkers[w].place = "cache", KeptFor(w), NEW p \in history.points
  PROVE  [p EXCEPT !.made = walkers[w].began] \in CurvePoints /\ FinalOK([p EXCEPT !.made = walkers[w].began])
<1> DEFINE q == [p EXCEPT !.made = walkers[w].began]
           began == walkers[w].began
           head == walkers[w].head
<1>1. /\ p \in CurvePoints /\ FinalOK(p) /\ EarlyOK(p) /\ began \in Nat /\ began <= half /\ half \in Nat
      /\ head \in 1..Len(mainline) /\ history.head = head
      /\ \A k \in 1..Len(mainline) : k > head => mainline[k] >= began
  BY HistoryNumbers DEF HistoryIInv, WalkerOK, HistoryWalkers, KeptFor, MainlineOK
<1>2. q \in CurvePoints /\ q.made = began /\ q.date = p.date /\ q.commit = p.commit BY <1>1 DEF CurvePoints
<1>3. p.made \in Nat /\ p.date \in Nat BY <1>1, HistoryNumbers DEF CurvePoints, HistoryDays
<1>4. ASSUME began > Noon(p.date) PROVE p.commit = settled[p.date + 1]
  <2>1. CASE p.made > Noon(p.date) BY <1>1, <2>1 DEF FinalOK
  <2>2. CASE p.made <= Noon(p.date)
    <3>1. PICK k \in 1..Len(mainline) : k >= head /\ p.commit = mainline[k] /\ p.commit <= Noon(p.date)
      BY <1>1, <2>2 DEF EarlyOK
    <3>2. \A i \in 1..Len(mainline) : mainline[i] \in Nat BY HistoryNumbers, ElementOfSeq, SMTT(60) DEF HistoryIInv, MainlineOK
    <3>3. k = head BY <1>1, <1>4, <1>3, <3>1, <3>2, SMTT(60) DEF Noon
    <3>4. \A j \in 1..Len(mainline) : j > k => mainline[j] > Noon(p.date) BY <1>1, <1>4, <1>3, <3>2, <3>3, SMTT(60) DEF Noon
    <3>5. IsPointOf(p.commit, p.date, mainline) BY <3>1, <3>4 DEF IsPointOf
    <3>6. p.date + 1 \in 1..Len(settled) /\ IsPointOf(settled[p.date + 1], p.date, mainline)
      <4>1. Len(settled) = (half + 1) \div 2 BY DEF HistoryIInv, SettledOK
      <4>2. p.date + 1 \in 1..Len(settled) BY <1>1, <1>3, <1>4, <4>1, SMTT(60) DEF Noon
      <4>3. (p.date + 1) - 1 = p.date BY <1>3
      <4> QED BY <4>2, <4>3 DEF HistoryIInv, SettledOK
    <3> QED BY <1>3, <3>5, <3>6, OnePointEach DEF HistoryIInv
  <2> QED BY <1>3, <2>1, <2>2 DEF Noon
<1> HIDE DEF q
<1>5. FinalOK(q) BY <1>1, <1>2, <1>4 DEF FinalOK
<1> QED BY <1>2, <1>5 DEF q

\* What a walk computes is final where the noon has passed.
LEMMA WalkedIsFinal ==
  ASSUME HistoryIInv, NEW w \in Walkers, walkers[w].place = "days", NEW lost, NEW p \in Backfilled(w, lost)
  PROVE  /\ p \in CurvePoints /\ FinalOK(p)
         /\ \A k \in Int : k <= Len(mainline) /\ p.made <= Noon(p.date) =>
              \E i \in 1..Len(mainline) : i >= k /\ p.commit = mainline[i] /\ p.commit <= Noon(p.date)
<1>1. PICK d \in HistoryDays : p = [date |-> d, commit |-> PointOf(d), made |-> half] BY DEF Backfilled, Window
<1>2. half \in Nat /\ half \in 0..MaxHalf /\ d \in Nat /\ MainlineOK /\ Len(mainline) \in Nat
  BY HistoryNumbers, LenProperties DEF HistoryIInv, MainlineOK, HistoryDays
<1>3. IsPointOf(PointOf(d), d, mainline) /\ PointOf(d) \in 0..MaxHalf BY <1>2, PointsArePoints
<1>4. p \in CurvePoints /\ p.made = half /\ p.date = d /\ p.commit = PointOf(d) BY <1>1, <1>2, <1>3 DEF CurvePoints
<1>5. ASSUME half > Noon(d) PROVE PointOf(d) = settled[d + 1]
  <2>1. Len(settled) = (half + 1) \div 2 BY DEF HistoryIInv, SettledOK
  <2>2. d + 1 \in 1..Len(settled) /\ (d + 1) - 1 = d BY <1>2, <1>5, <2>1 DEF Noon
  <2>3. IsPointOf(settled[d + 1], d, mainline) BY <2>2 DEF HistoryIInv, SettledOK
  <2> QED BY <1>2, <1>3, <2>3, OnePointEach
<1>6. FinalOK(p) BY <1>2, <1>4, <1>5 DEF FinalOK
<1>7. ASSUME NEW k \in Int, k <= Len(mainline), half <= Noon(d)
      PROVE  \E i \in 1..Len(mainline) : i >= k /\ PointOf(d) = mainline[i] /\ PointOf(d) <= Noon(d)
  <2>1. PICK i \in 1..Len(mainline) : /\ PointOf(d) = mainline[i] /\ PointOf(d) <= Noon(d)
                                      /\ \A j \in 1..Len(mainline) : j > i => mainline[j] > Noon(d)
    BY <1>3 DEF IsPointOf
  <2>2. mainline[Len(mainline)] \in Nat /\ mainline[Len(mainline)] <= half /\ Len(mainline) \in 1..Len(mainline)
    <3>1. Len(mainline) >= 1 /\ Len(mainline) \in 1..Len(mainline) BY <1>2 DEF MainlineOK
    <3>2. mainline[Len(mainline)] \in 0..MaxHalf BY <1>2, <3>1, ElementOfSeq DEF MainlineOK
    <3> QED BY <1>2, <3>1, <3>2, HistoryNumbers DEF MainlineOK
  <2>3. ~(Len(mainline) > i) BY <1>2, <1>7, <2>1, <2>2 DEF Noon
  <2> QED BY <1>2, <1>7, <2>1, <2>3
<1> QED BY <1>4, <1>6, <1>7

\* A past day's point of the source curve stays what it was (backfill_source,
\* _backfill_cached), for every number of walkers and whatever lands or is merged while they walk.
THEOREM CurveStays == HistorySpec => [](HistoryTypeOK /\ PastPointsStay)
<1>1. HistoryIInv /\ [HistoryNext]_historyVars => HistoryIInv'
  <2> SUFFICES ASSUME HistoryIInv, [HistoryNext]_historyVars PROVE HistoryIInv' OBVIOUS
  <2>0. /\ half \in 0..MaxHalf /\ half \in Nat /\ mainline \in Seq(0..MaxHalf) /\ Len(mainline) \in Nat
        /\ Len(mainline) >= 1 /\ Last(mainline) \in Nat /\ sideBranch \in -1..MaxHalf /\ sideways \subseteq 0..MaxHalf
    <3>1. mainline \in Seq(0..MaxHalf) /\ Len(mainline) \in Nat /\ Len(mainline) >= 1
      BY LenProperties DEF HistoryIInv, MainlineOK
    <3>2. mainline[Len(mainline)] \in 0..MaxHalf
      <4>1. Len(mainline) \in 1..Len(mainline) BY <3>1
      <4> QED BY <3>1, <4>1, ElementOfSeq
    <3> QED BY <3>1, <3>2, HistoryNumbers DEF Last, HistoryIInv, MainlineOK
  <2>1. CASE UNCHANGED historyVars
    <3>1. MainlineOK' /\ SettledOK' BY <2>1 DEF historyVars, HistoryIInv, MainlineOK, SettledOK
    <3>2. \A p : (FinalOK(p)' <=> FinalOK(p)) /\ (EarlyOK(p)' <=> EarlyOK(p)) BY <2>1 DEF historyVars, FinalOK, EarlyOK
    <3>3. \A w \in Walkers : WalkerOK(w)' <=> WalkerOK(w) BY <2>1, <3>2 DEF historyVars, WalkerOK
    <3> QED BY <2>1, <3>1, <3>2, <3>3 DEF historyVars, HistoryIInv
  <2>2. CASE HalfDayPasses BY <2>2, NoonSettles
  <2>3. CASE Land
    <3>1. half > 0 /\ mainline' = Append(mainline, half) BY <2>0, <2>3 DEF Land
    <3> QED BY <2>0, <2>3, <3>1, MainlineGrows DEF Land
  <2>4. CASE CommitAside
    <3>0. sideBranch' \in -1..MaxHalf BY <2>0, <2>4 DEF CommitAside
    <3>1. MainlineOK' /\ SettledOK' BY <2>4 DEF CommitAside, HistoryIInv, MainlineOK, SettledOK
    <3>2. \A p : (FinalOK(p)' <=> FinalOK(p)) /\ (EarlyOK(p)' <=> EarlyOK(p)) BY <2>4 DEF CommitAside, FinalOK, EarlyOK
    <3>3. \A w \in Walkers : WalkerOK(w)' <=> WalkerOK(w) BY <2>4, <3>2 DEF CommitAside, WalkerOK
    <3> QED BY <2>4, <3>0, <3>1, <3>2, <3>3 DEF CommitAside, HistoryIInv
  <2>5. CASE MergeTopic
    <3>1. half > 0 /\ mainline' = Append(mainline, half) BY <2>0, <2>5 DEF MergeTopic
    <3>2. sideBranch' \in -1..MaxHalf /\ sideways' \subseteq 0..MaxHalf
      BY <2>0, <2>5, HistoryNumbers DEF MergeTopic, NotYet
    <3> QED BY <2>5, <3>1, <3>2, MainlineGrows DEF MergeTopic
  <2>6. ASSUME NEW w \in Walkers, BeginWalk(w) PROVE HistoryIInv'
    <3> DEFINE e == [place |-> "cache", head |-> Len(mainline), date |-> Day(half), began |-> half, points |-> {}]
    <3>1. e \in HistoryWalkers BY <2>0, HalfDays DEF HistoryWalkers
    <3>2. walkers' \in [Walkers -> HistoryWalkers] /\ \A v \in Walkers : walkers'[v] = IF v = w THEN e ELSE walkers[v]
      BY <2>6, <3>1 DEF BeginWalk, HistoryIInv
    <3>3. MainlineOK' /\ SettledOK' BY <2>6 DEF BeginWalk, HistoryIInv, MainlineOK, SettledOK
    <3>4. \A p : (FinalOK(p)' <=> FinalOK(p)) /\ (EarlyOK(p)' <=> EarlyOK(p)) BY <2>6 DEF BeginWalk, FinalOK, EarlyOK
    <3>5. e.points = {} /\ e.head = Len(mainline) /\ e.began = half OBVIOUS
    <3> HIDE DEF e
    <3>6. ASSUME NEW v \in Walkers PROVE WalkerOK(v)'
      <4>1. UNCHANGED <<half, mainline>> BY <2>6 DEF BeginWalk
      <4>2. CASE v = w
        <5>1. walkers'[v] = e BY <3>2, <4>2
        <5>2. ~\E k \in 1..Len(mainline) : k > Len(mainline) BY <2>0
        <5>3. Len(mainline) \in 1..Len(mainline) /\ half <= half BY <2>0
        <5> QED BY <3>5, <4>1, <5>1, <5>2, <5>3 DEF WalkerOK
      <4>3. CASE v # w
        <5>1. walkers'[v] = walkers[v] /\ WalkerOK(v) BY <3>2, <4>3 DEF HistoryIInv
        <5> QED BY <3>4, <4>1, <5>1 DEF WalkerOK
      <4> QED BY <4>2, <4>3
    <3> QED BY <2>6, <3>2, <3>3, <3>4, <3>6 DEF BeginWalk, HistoryIInv
  <2>7. ASSUME NEW w \in Walkers, LookUp(w) PROVE HistoryIInv'
    <3>0. /\ walkers[w].place = "cache" /\ UNCHANGED <<half, mainline, sideBranch, sideways, settled, history, snapshots>>
      BY <2>7 DEF LookUp
    <3>1. CASE KeptFor(w)
      <4> DEFINE points == {[p EXCEPT !.made = walkers[w].began] : p \in history.points}
      <4>1. EndWalk(w, points) BY <2>7, <3>1 DEF LookUp
      <4>2. points \in SUBSET CurvePoints /\ \A p \in points : FinalOK(p) BY <3>0, <3>1, KeptIsFinal
      <4>3. \A p \in history'.points : FinalOK(p) /\ EarlyOK(p)' BY <3>0 DEF HistoryIInv, EarlyOK
      <4>4. history' \in [head : Int, date : Int, points : SUBSET CurvePoints] BY <3>0 DEF HistoryIInv
      <4> HIDE DEF points
      <4> QED BY <3>0, <4>1, <4>2, <4>3, <4>4, WalkEnds
    <3>2. CASE ~KeptFor(w)
      <4>1. walkers' = [walkers EXCEPT ![w].place = "days"] BY <2>7, <3>2 DEF LookUp
      <4>2. PICK e \in HistoryWalkers : /\ walkers' = [walkers EXCEPT ![w] = e] /\ e.place = "days" /\ e.points = walkers[w].points
                                        /\ e.head = walkers[w].head /\ e.began = walkers[w].began
        <5>1. walkers[w] \in HistoryWalkers BY DEF HistoryIInv
        <5>2. [walkers[w] EXCEPT !.place = "days"] \in HistoryWalkers BY <5>1 DEF HistoryWalkers
        <5>3. walkers' = [walkers EXCEPT ![w] = [walkers[w] EXCEPT !.place = "days"]] BY <4>1
        <5> QED BY <5>1, <5>2, <5>3 DEF HistoryWalkers
      <4>3. walkers' \in [Walkers -> HistoryWalkers] /\ \A v \in Walkers : walkers'[v] = IF v = w THEN e ELSE walkers[v]
        BY <4>2 DEF HistoryIInv
      <4>4. MainlineOK' /\ SettledOK' BY <3>0 DEF HistoryIInv, MainlineOK, SettledOK
      <4>5. \A p : (FinalOK(p)' <=> FinalOK(p)) /\ (EarlyOK(p)' <=> EarlyOK(p)) BY <3>0 DEF FinalOK, EarlyOK
      <4>6. \A v \in Walkers : WalkerOK(v)' BY <3>0, <4>2, <4>3, <4>5 DEF HistoryIInv, WalkerOK
      <4> QED BY <3>0, <4>3, <4>4, <4>5, <4>6 DEF HistoryIInv
    <3> QED BY <3>1, <3>2
  <2>8. ASSUME NEW w \in Walkers, AbandonWalk(w) PROVE HistoryIInv'
    <3>0. EndWalk(w, {}) /\ UNCHANGED <<half, mainline, sideBranch, sideways, settled, history, snapshots>>
      BY <2>8 DEF AbandonWalk
    <3>1. \A p \in history'.points : FinalOK(p) /\ EarlyOK(p)' BY <3>0 DEF HistoryIInv, EarlyOK
    <3>2. history' \in [head : Int, date : Int, points : SUBSET CurvePoints] BY <3>0 DEF HistoryIInv
    <3> QED BY <3>0, <3>1, <3>2, WalkEnds
  <2>9. ASSUME NEW w \in Walkers, NEW lost \in SUBSET Window(w), Walk(w, lost) PROVE HistoryIInv'
    <3> DEFINE points == Backfilled(w, lost)
    <3>0. /\ walkers[w].place = "days" /\ EndWalk(w, points)
          /\ UNCHANGED <<half, mainline, sideBranch, sideways, settled, snapshots>>
          /\ history' = IF w = Snapper THEN [head |-> walkers[w].head, date |-> walkers[w].date, points |-> points] ELSE history
      BY <2>9 DEF Walk
    <3>1. walkers[w] \in HistoryWalkers /\ WalkerOK(w) BY DEF HistoryIInv
    <3>2. walkers[w].head \in Int /\ walkers[w].date \in Int /\ walkers[w].head <= Len(mainline)
      BY <2>0, <3>0, <3>1 DEF HistoryWalkers, WalkerOK
    <3>3. \A p \in points : /\ p \in CurvePoints /\ FinalOK(p)
                            /\ p.made <= Noon(p.date) =>
                                 \E i \in 1..Len(mainline) : i >= walkers[w].head /\ p.commit = mainline[i] /\ p.commit <= Noon(p.date)
      BY <3>0, <3>2, WalkedIsFinal
    <3> HIDE DEF points
    <3>4. CASE w = Snapper
      <4>1. history' \in [head : Int, date : Int, points : SUBSET CurvePoints] /\ history'.points = points
            /\ history'.head = walkers[w].head
        BY <3>0, <3>2, <3>3, <3>4
      <4>2. \A p \in history'.points : FinalOK(p) /\ EarlyOK(p)' BY <3>0, <3>3, <4>1 DEF EarlyOK
      <4>3. points \in SUBSET CurvePoints /\ \A p \in points : FinalOK(p) BY <3>3
      <4> QED BY <3>0, <4>1, <4>2, <4>3, WalkEnds
    <3>5. CASE w # Snapper
      <4>1. history' = history BY <3>0, <3>5
      <4>2. history' \in [head : Int, date : Int, points : SUBSET CurvePoints] BY <4>1 DEF HistoryIInv
      <4>3. \A p \in history'.points : FinalOK(p) /\ EarlyOK(p)' BY <3>0, <4>1 DEF HistoryIInv, EarlyOK
      <4>4. points \in SUBSET CurvePoints /\ \A p \in points : FinalOK(p) BY <3>3
      <4> QED BY <3>0, <4>2, <4>3, <4>4, WalkEnds
    <3> QED BY <3>4, <3>5
  <2>10. ASSUME NEW raises \in BOOLEAN, SnapshotIfDue(raises) PROVE HistoryIInv'
    <3>0. /\ walkers' = [walkers EXCEPT ![Snapper].place = "rest"] /\ walkers[Snapper].place = "due"
          /\ UNCHANGED <<half, mainline, sideBranch, sideways, settled, history>>
      BY <2>10 DEF SnapshotIfDue
    <3>1. snapshots' \subseteq HistoryDays
      <4>1. Day(half) \in HistoryDays /\ snapshots \subseteq HistoryDays BY <2>0, DaysOfHalves DEF HistoryIInv
      <4> QED BY <2>10, <4>1 DEF SnapshotIfDue
    <3>2. PICK e \in HistoryWalkers : /\ walkers' = [walkers EXCEPT ![Snapper] = e] /\ e.place = "rest"
                                      /\ e.points = walkers[Snapper].points
      <4>1. walkers[Snapper] \in HistoryWalkers BY HistoryNumbers DEF HistoryIInv
      <4>2. [walkers[Snapper] EXCEPT !.place = "rest"] \in HistoryWalkers BY <4>1 DEF HistoryWalkers
      <4>3. walkers' = [walkers EXCEPT ![Snapper] = [walkers[Snapper] EXCEPT !.place = "rest"]] BY <3>0
      <4> QED BY <4>1, <4>2, <4>3 DEF HistoryWalkers
    <3>3. walkers' \in [Walkers -> HistoryWalkers] /\ \A v \in Walkers : walkers'[v] = IF v = Snapper THEN e ELSE walkers[v]
      BY <3>2, HistoryNumbers DEF HistoryIInv
    <3>4. MainlineOK' /\ SettledOK' BY <3>0 DEF HistoryIInv, MainlineOK, SettledOK
    <3>5. \A p : (FinalOK(p)' <=> FinalOK(p)) /\ (EarlyOK(p)' <=> EarlyOK(p)) BY <3>0 DEF FinalOK, EarlyOK
    <3>6. \A v \in Walkers : WalkerOK(v)' BY <3>0, <3>2, <3>3, <3>5, HistoryNumbers DEF HistoryIInv, WalkerOK
    <3> QED BY <3>0, <3>1, <3>3, <3>4, <3>5, <3>6 DEF HistoryIInv
  <2> QED BY <2>1, <2>2, <2>3, <2>4, <2>5, <2>6, <2>7, <2>8, <2>9, <2>10 DEF HistoryNext
<1>2. HistoryIInv => HistoryTypeOK /\ PastPointsStay
  <2> SUFFICES ASSUME HistoryIInv PROVE HistoryTypeOK /\ PastPointsStay OBVIOUS
  <2>1. HistoryTypeOK
    <3>1. \A p \in history.points : p.date \in HistoryDays /\ p.commit <= MaxHalf
      BY HistoryNumbers DEF HistoryIInv, CurvePoints
    <3>2. \A w \in Walkers : walkers[w].place \in {"rest", "cache", "days", "due"} BY DEF HistoryIInv, HistoryWalkers
    <3> QED BY <3>1, <3>2 DEF HistoryIInv, HistoryTypeOK, MainlineOK
  <2>2. PastPointsStay BY DEF HistoryIInv, PastPointsStay, WalkerOK, FinalOK
  <2> QED BY <2>1, <2>2
<1> QED BY <1>1, <1>2, HistoryBegins, PTL DEF HistorySpec

-----------------------------------------------------------------------------
(* What a far machine pushes *)

SeatViews == [at : Nat, waits : BOOLEAN]
SeatRows == [of : Seats, token : Seats \X OfficeDays, ts : Nat, status : {"waiting", "running", "quiet"}]
ListingSenders == [at : {"stat"}, now : Nat, todo : SUBSET Seats, rows : SUBSET SeatRows]
AskingSenders == [at : {"pending", "marker"}, now : Nat, todo : SUBSET Seats, rows : SUBSET SeatRows,
                  of : Seats, ts : Nat, asks : BOOLEAN]

\* What a session was at, from some time on.
SeatSince(s, from) == {w \in seatPast[s] : from <= w.t}

\* A row was so at some times since the push began.
SeatRowOK(r, from) ==
  /\ \E w \in SeatSince(r.of, from) : w.seat.at = r.ts
  /\ \E w \in SeatSince(r.of, from) : w.seat.waits = (r.status = "waiting")

\* A session that has been passed over was out of the window.
OutOfSpan(s, from) == \E w \in SeatSince(s, from) : from - w.seat.at > Span

ListedOK(x) ==
  /\ x.now <= bellTime /\ IsFiniteSet(x.rows)
  /\ \A r \in x.rows : SeatRowOK(r, x.now) /\ r.of \notin x.todo /\ r.token[1] = r.of
  /\ \A r, q \in x.rows : r.of = q.of => r = q

\* What is known of the session in hand.
AskedOK(x) ==
  /\ x.of \notin x.todo /\ \A r \in x.rows : r.of # x.of
  /\ \E w \in SeatSince(x.of, x.now) : w.seat.at = x.ts
  /\ x.ts <= seat[x.of].at
  /\ buzz[x.of] >= x.ts => \E w \in SeatSince(x.of, x.now) : w.seat.waits
  /\ x.at = "marker" =>
       IF x.asks THEN \E w \in SeatSince(x.of, x.now) : w.seat.waits
       ELSE buzz[x.of] >= x.ts \/ \E w \in SeatSince(x.of, x.now) : ~w.seat.waits

SenderOK(p) ==
  \/ sender[p] = Resting
  \/ /\ sender[p] \in ListingSenders /\ ListedOK(sender[p])
     /\ \A s \in Seats \ sender[p].todo : (\E r \in sender[p].rows : r.of = s) \/ OutOfSpan(s, sender[p].now)
  \/ /\ sender[p] \in AskingSenders /\ ListedOK(sender[p]) /\ AskedOK(sender[p])
     /\ \A s \in Seats \ (sender[p].todo \union {sender[p].of}) :
          (\E r \in sender[p].rows : r.of = s) \/ OutOfSpan(s, sender[p].now)

\* What was so while an envelope was made.
Within(s, e) == {v.seat : v \in {w \in seatPast[s] : e.pushed <= w.t /\ w.t <= e.till}}
EnvelopeOK(e) ==
  /\ \A r \in e.rows : /\ r.of \in Seats
                       /\ \E v \in Within(r.of, e) : v.at = r.ts
                       /\ \E v \in Within(r.of, e) : v.waits = (r.status = "waiting")
                       /\ \A q \in e.rows : q.of = r.of \/ q.token = r.token => q = r
  /\ \A s \in Seats \ {r.of : r \in e.rows} : \E v \in Within(s, e) :
       e.pushed - v.at > Span \/ Cardinality({r \in e.rows : r.ts >= v.at}) = RowLimit

OfficeTypes ==
  /\ bellTime \in 1..MaxBell /\ date \in OfficeDays /\ believed \subseteq officeTopic
  /\ seat \in [Seats -> [at : 0..MaxBell, asks : BOOLEAN]] /\ buzz \in [Seats -> 0..MaxBell]
  /\ seatPast \in [Seats -> SUBSET [t : Nat, seat : SeatViews]]
  /\ DOMAIN sender = Senders /\ sender = [p \in Senders |-> sender[p]]

PastOK ==
  /\ \A s \in Seats : seat[s].at <= bellTime /\ buzz[s] <= bellTime
  /\ \A s \in Seats : [t |-> bellTime, seat |-> Seat(s, seat, buzz)] \in seatPast[s]
  /\ \A s \in Seats : \A w \in seatPast[s] : w.t <= bellTime

OfficeIInv ==
  /\ OfficeTypes /\ PastOK
  /\ \A p \in Senders : SenderOK(p)
  /\ \A e \in officeTopic : e.key = Secret => EnvelopeOK(e)
  /\ \A e \in believed : e.key = Secret

\* What is assumed of the bounds.
LEMMA OfficeNumbers == {RowLimit, Vivid, Span, MaxSends} \subseteq Nat /\ MaxBell \in Nat \ {0}
BY OfficeScanAssumption

\* What a session looks like.
LEMMA SeatLooks ==
  ASSUME NEW s \in Seats, NEW doc \in [Seats -> [at : 0..MaxBell, asks : BOOLEAN]], NEW ring \in [Seats -> 0..MaxBell]
  PROVE  /\ Seat(s, doc, ring) \in SeatViews /\ Seat(s, doc, ring).at = doc[s].at
         /\ Seat(s, doc, ring).waits <=> (doc[s].asks \/ ring[s] >= doc[s].at)
<1>1. doc[s] \in [at : 0..MaxBell, asks : BOOLEAN] /\ ring[s] \in 0..MaxBell OBVIOUS
<1>2. doc[s].at \in Nat BY <1>1, OfficeNumbers
<1>3. (doc[s].asks \/ ring[s] >= doc[s].at) \in BOOLEAN OBVIOUS
<1> QED BY <1>2, <1>3 DEF Seat, SeatViews

\* At first nobody pushes.
LEMMA OfficeBegins == OfficeScanInit => OfficeIInv
<1> SUFFICES ASSUME OfficeScanInit PROVE OfficeIInv OBVIOUS
<1>1. /\ bellTime = 1 /\ 1 \in 1..MaxBell /\ date \in OfficeDays /\ believed = {} /\ officeTopic = {}
      /\ seat = [s \in Seats |-> [at |-> 1, asks |-> FALSE]] /\ buzz = [s \in Seats |-> 0]
      /\ sender = [p \in Senders |-> Resting]
      /\ seatPast = [s \in Seats |-> {[t |-> 1, seat |-> Seat(s, seat, buzz)]}]
  BY OfficeNumbers DEF OfficeScanInit, OfficeDays
<1>2. seat \in [Seats -> [at : 0..MaxBell, asks : BOOLEAN]] /\ buzz \in [Seats -> 0..MaxBell]
  BY <1>1, OfficeNumbers
<1>3. \A s \in Seats : Seat(s, seat, buzz) \in SeatViews BY <1>2, SeatLooks
<1>4. seatPast \in [Seats -> SUBSET [t : Nat, seat : SeatViews]]
  <2>1. \A s \in Seats : [t |-> 1, seat |-> Seat(s, seat, buzz)] \in [t : Nat, seat : SeatViews] BY <1>3
  <2>2. \A s \in Seats : {[t |-> 1, seat |-> Seat(s, seat, buzz)]} \in SUBSET [t : Nat, seat : SeatViews] BY <2>1
  <2> QED BY <1>1, <2>2
<1>5. OfficeTypes BY <1>1, <1>2, <1>4 DEF OfficeTypes
<1>6. PastOK BY <1>1 DEF PastOK
<1>7. \A p \in Senders : SenderOK(p) BY <1>1 DEF SenderOK
<1> QED BY <1>1, <1>5, <1>6, <1>7 DEF OfficeIInv

\* The past only grows: what was so stays so.
LEMMA PastGrows ==
  ASSUME NEW s \in Seats, NEW e, seatPast[s] \subseteq seatPast'[s]
  PROVE  /\ \A from : SeatSince(s, from) \subseteq SeatSince(s, from)'
         /\ Within(s, e) \subseteq Within(s, e)'
BY DEF SeatSince, Within

\* An envelope that was so stays so while its past only grows.
LEMMA EnvelopeStays ==
  ASSUME NEW e, \A s \in Seats : seatPast[s] \subseteq seatPast'[s], EnvelopeOK(e)
  PROVE  EnvelopeOK(e)'
<1>1. \A s \in Seats : Within(s, e) \subseteq Within(s, e)' BY DEF Within
<1>2. \A s \in Seats : \A v \in Within(s, e) : v \in Within(s, e)' BY <1>1
<1> QED BY <1>2 DEF EnvelopeOK

\* Where the sessions and the past are left alone, so are the other senders and what was sent.
LEMMA OfficeStep ==
  ASSUME OfficeIInv, UNCHANGED <<bellTime, seat, buzz, seatPast>>, date' \in OfficeDays,
         DOMAIN sender' = Senders, sender' = [p \in Senders |-> sender'[p]],
         \A p \in Senders : sender'[p] = sender[p] \/ SenderOK(p)',
         believed' \subseteq officeTopic', \A e \in believed' : e.key = Secret,
         \A e \in officeTopic' : e \in officeTopic \/ (e.key = Secret => EnvelopeOK(e))
  PROVE  OfficeIInv'
<1>1. OfficeTypes' BY DEF OfficeIInv, OfficeTypes
<1>2. PastOK' BY DEF OfficeIInv, PastOK, Seat
<1>3. \A e : EnvelopeOK(e)' <=> EnvelopeOK(e) BY DEF EnvelopeOK, Within
<1>4. ASSUME NEW p \in Senders, sender'[p] = sender[p] PROVE SenderOK(p)'
  <2>1. SenderOK(p) BY DEF OfficeIInv
  <2>2. \A s, from : SeatSince(s, from)' = SeatSince(s, from) BY DEF SeatSince
  <2>3. \A s, from : OutOfSpan(s, from)' <=> OutOfSpan(s, from) BY <2>2 DEF OutOfSpan
  <2>4. \A r, from : SeatRowOK(r, from)' <=> SeatRowOK(r, from) BY <2>2 DEF SeatRowOK
  <2>5. \A x : ListedOK(x)' <=> ListedOK(x) BY <2>4 DEF ListedOK
  <2>6. \A x : AskedOK(x)' <=> AskedOK(x) BY <2>2 DEF AskedOK
  <2> QED BY <1>4, <2>1, <2>3, <2>5, <2>6 DEF SenderOK
<1> QED BY <1>1, <1>2, <1>3, <1>4 DEF OfficeIInv

\* A session writes or is rung: a new instant, with what it is now.
LEMMA SeatsMove ==
  ASSUME OfficeIInv, NEW s \in Seats, (\E blocked \in BOOLEAN : SeatWrites(s, blocked)) \/ SeatBuzzes(s)
  PROVE  OfficeIInv'
<1>1. /\ BellPasses /\ bellTime \in Nat /\ bellTime' = bellTime + 1 /\ bellTime' \in 1..MaxBell
      /\ UNCHANGED <<date, sender, officeTopic, believed>>
  BY OfficeNumbers DEF SeatWrites, SeatBuzzes, BellPasses, OfficeIInv, OfficeTypes
<1>2. /\ seat' \in [Seats -> [at : 0..MaxBell, asks : BOOLEAN]] /\ buzz' \in [Seats -> 0..MaxBell]
      /\ \A q \in Seats : /\ seat'[q] = seat[q] \/ seat'[q].at = bellTime'
                          /\ buzz'[q] = buzz[q] \/ (buzz'[q] = bellTime' /\ seat'[q] = seat[q])
  <2>1. seat \in [Seats -> [at : 0..MaxBell, asks : BOOLEAN]] /\ buzz \in [Seats -> 0..MaxBell]
        /\ bellTime + 1 \in 0..MaxBell
    BY <1>1, OfficeNumbers DEF OfficeIInv, OfficeTypes
  <2>2. ASSUME NEW blocked \in BOOLEAN, SeatWrites(s, blocked)
        PROVE  seat' = [seat EXCEPT ![s] = [at |-> bellTime + 1, asks |-> blocked]] /\ buzz' = buzz
    BY <2>2 DEF SeatWrites
  <2>3. CASE SeatBuzzes(s)
    <3>1. buzz' = [buzz EXCEPT ![s] = bellTime + 1] /\ seat' = seat BY <2>3 DEF SeatBuzzes
    <3> QED BY <1>1, <2>1, <3>1
  <2>4. CASE \E blocked \in BOOLEAN : SeatWrites(s, blocked)
    <3>1. PICK blocked \in BOOLEAN : SeatWrites(s, blocked) BY <2>4
    <3>2. seat' = [seat EXCEPT ![s] = [at |-> bellTime + 1, asks |-> blocked]] /\ buzz' = buzz BY <3>1, <2>2
    <3>3. [at |-> bellTime + 1, asks |-> blocked] \in [at : 0..MaxBell, asks : BOOLEAN] BY <2>1
    <3>4. seat' \in [Seats -> [at : 0..MaxBell, asks : BOOLEAN]] BY <2>1, <3>2, <3>3
    <3>5. \A q \in Seats : seat'[q] = IF q = s THEN [at |-> bellTime + 1, asks |-> blocked] ELSE seat[q]
      BY <2>1, <3>2
    <3>6. \A q \in Seats : seat'[q] = seat[q] \/ seat'[q].at = bellTime + 1 BY <3>5
    <3>7. \A q \in Seats : seat'[q] = seat[q] \/ seat'[q].at = bellTime' BY <1>1, <3>6
    <3>8. \A q \in Seats : buzz'[q] = buzz[q] BY <3>2
    <3>9. buzz' \in [Seats -> 0..MaxBell] BY <2>1, <3>2
    <3>10. \A q \in Seats : /\ seat'[q] = seat[q] \/ seat'[q].at = bellTime'
                            /\ buzz'[q] = buzz[q] \/ (buzz'[q] = bellTime' /\ seat'[q] = seat[q])
      BY <3>7, <3>8, Zenon
    <3> QED BY <3>4, <3>9, <3>10, Zenon
  <2> QED BY <2>3, <2>4
<1>3. \A q \in Seats : /\ seat[q].at \in Nat /\ buzz[q] \in Nat /\ seat[q].at <= bellTime /\ buzz[q] <= bellTime
                       /\ seat'[q].at \in Nat /\ buzz'[q] \in Nat
  BY <1>2, OfficeNumbers DEF OfficeIInv, OfficeTypes, PastOK
<1>4. \A q \in Seats : /\ seat'[q].at <= bellTime' /\ buzz'[q] <= bellTime' /\ seat'[q].at >= seat[q].at
                       /\ buzz'[q] >= buzz[q] /\ (buzz'[q] # buzz[q] => buzz'[q] >= seat'[q].at)
  BY <1>1, <1>2, <1>3
<1>5. \A q \in Seats : /\ Seat(q, seat', buzz') \in SeatViews /\ Seat(q, seat', buzz').at = seat'[q].at
                       /\ Seat(q, seat', buzz').waits <=> (seat'[q].asks \/ buzz'[q] >= seat'[q].at)
  BY <1>2, SeatLooks
<1>6. seatPast' = [q \in Seats |-> seatPast[q] \union {[t |-> bellTime', seat |-> Seat(q, seat', buzz')]}]
  BY <1>1 DEF BellPasses
<1>7. \A q \in Seats : /\ seatPast[q] \subseteq seatPast'[q]
                       /\ [t |-> bellTime', seat |-> Seat(q, seat', buzz')] \in seatPast'[q]
                       /\ \A w \in seatPast'[q] : w \in seatPast[q] \/ w = [t |-> bellTime', seat |-> Seat(q, seat', buzz')]
  BY <1>6
<1>8. OfficeTypes'
  <2>1. ASSUME NEW q \in Seats PROVE seatPast'[q] \in SUBSET [t : Nat, seat : SeatViews]
    <3>1. [t |-> bellTime', seat |-> Seat(q, seat', buzz')] \in [t : Nat, seat : SeatViews] BY <1>1, <1>5
    <3>2. seatPast[q] \subseteq [t : Nat, seat : SeatViews] BY DEF OfficeIInv, OfficeTypes
    <3> QED BY <1>7, <3>1, <3>2
  <2>2. seatPast' \in [Seats -> SUBSET [t : Nat, seat : SeatViews]] BY <1>6, <2>1
  <2> QED BY <1>1, <1>2, <2>2 DEF OfficeIInv, OfficeTypes
<1>9. PastOK'
  <2>1. ASSUME NEW q \in Seats, NEW w \in seatPast'[q] PROVE w.t <= bellTime'
    <3>1. CASE w \in seatPast[q]
      <4>1. w.t \in Nat /\ w.t <= bellTime BY <3>1 DEF OfficeIInv, OfficeTypes, PastOK
      <4> QED BY <1>1, <4>1
    <3>2. CASE w = [t |-> bellTime', seat |-> Seat(q, seat', buzz')] BY <3>2, <1>1
    <3> QED BY <1>7, <3>1, <3>2
  <2> QED BY <1>4, <1>7, <2>1 DEF PastOK
<1>10. \A e \in officeTopic' : e.key = Secret => EnvelopeOK(e)'
  BY <1>1, <1>7, EnvelopeStays DEF OfficeIInv
<1>11. \A from : \A q \in Seats : SeatSince(q, from) \subseteq SeatSince(q, from)' BY <1>7 DEF SeatSince
<1>12. \A r, from : r.of \in Seats /\ SeatRowOK(r, from) => SeatRowOK(r, from)'
  <2> SUFFICES ASSUME NEW r, NEW from, r.of \in Seats, SeatRowOK(r, from) PROVE SeatRowOK(r, from)' OBVIOUS
  <2>1. \A w \in SeatSince(r.of, from) : w \in SeatSince(r.of, from)' BY <1>11
  <2> QED BY <2>1 DEF SeatRowOK
<1>13. \A from : \A q \in Seats : OutOfSpan(q, from) => OutOfSpan(q, from)'
  <2> SUFFICES ASSUME NEW q \in Seats, NEW from, OutOfSpan(q, from) PROVE OutOfSpan(q, from)' OBVIOUS
  <2>1. \A w \in SeatSince(q, from) : w \in SeatSince(q, from)' BY <1>11
  <2> QED BY <2>1 DEF OutOfSpan
<1>14. \A x \in ListingSenders \union AskingSenders : ListedOK(x) => ListedOK(x)'
  <2> SUFFICES ASSUME NEW x \in ListingSenders \union AskingSenders, ListedOK(x) PROVE ListedOK(x)' OBVIOUS
  <2>1. x.rows \subseteq SeatRows /\ x.now \in Nat BY DEF ListingSenders, AskingSenders
  <2>2. \A r \in x.rows : r.of \in Seats BY <2>1 DEF SeatRows
  <2>3. x.now <= bellTime' BY <1>1, <2>1 DEF ListedOK
  <2> QED BY <1>12, <2>2, <2>3 DEF ListedOK
<1>15. \A x \in AskingSenders : ListedOK(x) /\ AskedOK(x) => AskedOK(x)'
  <2> SUFFICES ASSUME NEW x \in AskingSenders, ListedOK(x), AskedOK(x) PROVE AskedOK(x)' OBVIOUS
  <2>1. x.of \in Seats /\ x.ts \in Nat /\ x.now \in Nat /\ x.now <= bellTime BY DEF AskingSenders, ListedOK
  <2>2. \A w \in SeatSince(x.of, x.now) : w \in SeatSince(x.of, x.now)' BY <1>11, <2>1
  <2>3. x.ts <= seat'[x.of].at BY <1>3, <1>4, <2>1 DEF AskedOK
  <2>4. ASSUME buzz'[x.of] >= x.ts PROVE \E w \in SeatSince(x.of, x.now)' : w.seat.waits
    <3>1. CASE buzz'[x.of] = buzz[x.of] BY <2>2, <2>4, <3>1 DEF AskedOK
    <3>2. CASE buzz'[x.of] # buzz[x.of]
      <4> DEFINE v == [t |-> bellTime', seat |-> Seat(x.of, seat', buzz')]
      <4>1. v \in seatPast'[x.of] /\ x.now <= v.t BY <1>1, <1>7, <2>1
      <4>2. v.seat.waits BY <1>4, <1>5, <2>1, <3>2
      <4> HIDE DEF v
      <4> QED BY <4>1, <4>2 DEF SeatSince
    <3> QED BY <3>1, <3>2
  <2>5. buzz[x.of] >= x.ts => buzz'[x.of] >= x.ts BY <1>3, <1>4, <2>1
  <2> QED BY <2>2, <2>3, <2>4, <2>5 DEF AskedOK
<1>16. ASSUME NEW p \in Senders PROVE SenderOK(p)'
  <2>1. SenderOK(p) /\ sender'[p] = sender[p] BY <1>1 DEF OfficeIInv
  <2> DEFINE x == sender[p]
  <2>2. CASE x = Resting BY <2>1, <2>2 DEF SenderOK
  <2>3. CASE /\ x \in ListingSenders /\ ListedOK(x)
             /\ \A q \in Seats \ x.todo : (\E r \in x.rows : r.of = q) \/ OutOfSpan(q, x.now)
    <3>1. PICK y \in ListingSenders : y = x BY <2>3
    <3>2. ListedOK(y)' /\ sender'[p] = y BY <1>14, <2>1, <2>3, <3>1
    <3>3. \A q \in Seats \ y.todo : (\E r \in y.rows : r.of = q) \/ OutOfSpan(q, y.now)' BY <1>13, <2>3, <3>1
    <3> QED BY <3>1, <3>2, <3>3 DEF SenderOK
  <2>4. CASE /\ x \in AskingSenders /\ ListedOK(x) /\ AskedOK(x)
             /\ \A q \in Seats \ (x.todo \union {x.of}) : (\E r \in x.rows : r.of = q) \/ OutOfSpan(q, x.now)
    <3>1. PICK y \in AskingSenders : y = x BY <2>4
    <3>2. ListedOK(y)' /\ AskedOK(y)' /\ sender'[p] = y BY <1>14, <1>15, <2>1, <2>4, <3>1
    <3>3. \A q \in Seats \ (y.todo \union {y.of}) : (\E r \in y.rows : r.of = q) \/ OutOfSpan(q, y.now)'
      BY <1>13, <2>4, <3>1
    <3> QED BY <3>1, <3>2, <3>3 DEF SenderOK
  <2> QED BY <2>1, <2>2, <2>3, <2>4 DEF SenderOK
<1> QED BY <1>1, <1>8, <1>9, <1>10, <1>16 DEF OfficeIInv

\* A sender's new state.
LEMMA SenderGoes ==
  ASSUME OfficeIInv, NEW p \in Senders, NEW x, Set(p, x)
  PROVE  /\ DOMAIN sender' = Senders /\ sender' = [q \in Senders |-> sender'[q]]
         /\ sender'[p] = x /\ \A q \in Senders : q = p \/ sender'[q] = sender[q]
BY DEF Set, OfficeIInv, OfficeTypes

\* What is known where the sender is.
LEMMA SenderIs ==
  ASSUME OfficeIInv, NEW p \in Senders
  PROVE  /\ sender[p].at = "stat" =>
              /\ sender[p] \in ListingSenders /\ ListedOK(sender[p])
              /\ \A s \in Seats \ sender[p].todo : (\E r \in sender[p].rows : r.of = s) \/ OutOfSpan(s, sender[p].now)
         /\ sender[p].at \in {"pending", "marker"} =>
              /\ sender[p] \in AskingSenders /\ ListedOK(sender[p]) /\ AskedOK(sender[p])
              /\ \A s \in Seats \ (sender[p].todo \union {sender[p].of}) :
                   (\E r \in sender[p].rows : r.of = s) \/ OutOfSpan(s, sender[p].now)
BY DEF OfficeIInv, SenderOK, Resting, ListingSenders, AskingSenders

\* Where the past is left alone, what is known of a state is.
LEMMA StateStays ==
  ASSUME UNCHANGED <<bellTime, seat, buzz, seatPast>>, NEW p, NEW x, sender'[p] = x,
         \/ x \in ListingSenders /\ ListedOK(x) /\ \A s \in Seats \ x.todo : (\E r \in x.rows : r.of = s) \/ OutOfSpan(s, x.now)
         \/ /\ x \in AskingSenders /\ ListedOK(x) /\ AskedOK(x)
            /\ \A s \in Seats \ (x.todo \union {x.of}) : (\E r \in x.rows : r.of = s) \/ OutOfSpan(s, x.now)
  PROVE  SenderOK(p)'
<1>2. \A s, from : SeatSince(s, from)' = SeatSince(s, from) BY DEF SeatSince
<1>3. \A s, from : OutOfSpan(s, from)' <=> OutOfSpan(s, from) BY <1>2 DEF OutOfSpan
<1>4. \A r, from : SeatRowOK(r, from)' <=> SeatRowOK(r, from) BY <1>2 DEF SeatRowOK
<1>5. \A y : ListedOK(y)' <=> ListedOK(y) BY <1>4 DEF ListedOK
<1>6. \A y : AskedOK(y)' <=> AskedOK(y) BY <1>2 DEF AskedOK
<1> QED BY <1>3, <1>5, <1>6 DEF SenderOK

\* A session as it is now is of the past already.
LEMMA NowIsPast ==
  ASSUME OfficeIInv, NEW s \in Seats, NEW from \in Nat, from <= bellTime
  PROVE  /\ \E w \in SeatSince(s, from) : w.seat.at = seat[s].at
         /\ seat[s].asks \/ buzz[s] >= seat[s].at => \E w \in SeatSince(s, from) : w.seat.waits
         /\ ~(seat[s].asks \/ buzz[s] >= seat[s].at) => \E w \in SeatSince(s, from) : ~w.seat.waits
         /\ from - seat[s].at > Span => OutOfSpan(s, from)
         /\ seat[s].at \in Nat /\ buzz[s] \in Nat /\ seat[s].asks \in BOOLEAN
<1> DEFINE w == [t |-> bellTime, seat |-> Seat(s, seat, buzz)]
<1>1. seat \in [Seats -> [at : 0..MaxBell, asks : BOOLEAN]] /\ buzz \in [Seats -> 0..MaxBell]
  BY DEF OfficeIInv, OfficeTypes
<1>2. /\ w.seat.at = seat[s].at /\ (w.seat.waits <=> (seat[s].asks \/ buzz[s] >= seat[s].at))
  BY <1>1, SeatLooks
<1>3. w \in SeatSince(s, from) BY DEF OfficeIInv, PastOK, SeatSince
<1>4. seat[s].at \in Nat /\ buzz[s] \in Nat /\ seat[s].asks \in BOOLEAN BY <1>1, OfficeNumbers
<1> HIDE DEF w
<1> QED BY <1>2, <1>3, <1>4 DEF OutOfSpan

\* Where only a sender moves.
LEMMA OneSenderMoves ==
  ASSUME OfficeIInv, NEW p \in Senders, NEW x, Set(p, x), SenderOK(p)',
         UNCHANGED <<bellTime, date, seat, buzz, officeTopic, believed, seatPast>>
  PROVE  OfficeIInv'
<1>1. date' \in OfficeDays /\ believed' \subseteq officeTopic' /\ \A e \in believed' : e.key = Secret
  BY DEF OfficeIInv, OfficeTypes
<1> QED BY <1>1, SenderGoes, OfficeStep

\* A session is passed over.
LEMMA SeatPassed ==
  ASSUME NEW x \in ListingSenders, NEW T \in SUBSET Seats
  PROVE  /\ [x EXCEPT !.todo = T] \in ListingSenders /\ [x EXCEPT !.todo = T].todo = T
         /\ [x EXCEPT !.todo = T].now = x.now /\ [x EXCEPT !.todo = T].rows = x.rows
BY DEF ListingSenders

\* A question is noted.
LEMMA SeatAsked ==
  ASSUME NEW x \in AskingSenders, NEW a \in BOOLEAN
  PROVE  \E y \in AskingSenders :
           /\ y = [x EXCEPT !.at = "marker", !.asks = a] /\ y.at = "marker" /\ y.asks = a /\ y.now = x.now
           /\ y.todo = x.todo /\ y.rows = x.rows /\ y.of = x.of /\ y.ts = x.ts
<1> DEFINE z == [x EXCEPT !.at = "marker", !.asks = a]
<1>1. /\ z \in AskingSenders /\ z.at = "marker" /\ z.asks = a /\ z.now = x.now
      /\ z.todo = x.todo /\ z.rows = x.rows /\ z.of = x.of /\ z.ts = x.ts
  BY DEF AskingSenders
<1> QED BY <1>1

\* A push begins with all sessions to do.
LEMMA PushBegins ==
  ASSUME OfficeIInv, NEW p \in Senders, BeginPush(p)
  PROVE  OfficeIInv'
<1> DEFINE x == [at |-> "stat", now |-> bellTime, todo |-> Seats, rows |-> {}]
<1>1. Set(p, x) /\ UNCHANGED <<bellTime, date, seat, buzz, officeTopic, believed, seatPast>> BY DEF BeginPush
<1>2. bellTime \in Nat BY OfficeNumbers DEF OfficeIInv, OfficeTypes
<1>3. x \in ListingSenders BY <1>2 DEF ListingSenders
<1>4. ListedOK(x) BY <1>2, FS_EmptySet DEF ListedOK
<1>5. Seats \ x.todo = {} OBVIOUS
<1> HIDE DEF x
<1>6. sender'[p] = x BY <1>1, SenderGoes
<1>7. SenderOK(p)' BY <1>1, <1>3, <1>4, <1>5, <1>6, StateStays
<1> QED BY <1>1, <1>7, OneSenderMoves

\* The time of the session's last write is taken, or the session is passed over.
LEMMA StatIsNow ==
  ASSUME OfficeIInv, NEW p \in Senders, NEW s \in Seats, StatSeat(p, s)
  PROVE  OfficeIInv'
<1> DEFINE x == sender[p]
<1>1. /\ x.at = "stat" /\ s \in x.todo
      /\ UNCHANGED <<bellTime, date, seat, buzz, officeTopic, believed, seatPast>>
      /\ Set(p, IF x.now - seat[s].at > Span THEN [x EXCEPT !.todo = @ \ {s}]
                ELSE [at |-> "pending", now |-> x.now, todo |-> x.todo \ {s}, rows |-> x.rows,
                      of |-> s, ts |-> seat[s].at, asks |-> FALSE])
  BY DEF StatSeat
<1>2. /\ x \in ListingSenders /\ ListedOK(x)
      /\ \A q \in Seats \ x.todo : (\E r \in x.rows : r.of = q) \/ OutOfSpan(q, x.now)
  BY <1>1, SenderIs
<1>3. x.now \in Nat /\ x.now <= bellTime /\ x.todo \subseteq Seats /\ x.rows \subseteq SeatRows
  BY <1>2 DEF ListingSenders, ListedOK
<1>4. CASE x.now - seat[s].at > Span
  <2>0. x.todo \ {s} \in SUBSET Seats /\ [x EXCEPT !.todo = @ \ {s}] = [x EXCEPT !.todo = x.todo \ {s}] BY <1>2, <1>3
  <2>1. PICK y \in ListingSenders : y = [x EXCEPT !.todo = @ \ {s}] /\ y.todo = x.todo \ {s} /\ y.now = x.now /\ y.rows = x.rows
    BY <1>2, <2>0, SeatPassed, ZenonT(60)
  <2>2. Set(p, y) BY <1>1, <1>4, <2>1
  <2>3. ListedOK(y) BY <1>2, <2>1 DEF ListedOK
  <2>4. OutOfSpan(s, y.now) BY <1>3, <1>4, <2>1, NowIsPast
  <2>5. \A q \in Seats \ y.todo : (\E r \in y.rows : r.of = q) \/ OutOfSpan(q, y.now) BY <1>2, <2>1, <2>4
  <2>6. sender'[p] = y BY <2>2, SenderGoes
  <2>7. SenderOK(p)' BY <1>1, <2>3, <2>5, <2>6, StateStays
  <2> QED BY <1>1, <2>2, <2>7, OneSenderMoves
<1>5. CASE ~(x.now - seat[s].at > Span)
  <2> DEFINE z == [at |-> "pending", now |-> x.now, todo |-> x.todo \ {s}, rows |-> x.rows,
                   of |-> s, ts |-> seat[s].at, asks |-> FALSE]
  <2>0. seat[s].at \in Nat BY <1>3, NowIsPast
  <2>1. z \in AskingSenders BY <1>3, <2>0 DEF AskingSenders
  <2>2. PICK y \in AskingSenders : /\ y = z /\ y.at = "pending" /\ y.now = x.now /\ y.todo = x.todo \ {s} /\ y.rows = x.rows
                                   /\ y.of = s /\ y.ts = seat[s].at
    BY <2>1
  <2>3. Set(p, y) BY <1>1, <1>5, <2>2
  <2> HIDE DEF z
  <2>4. ListedOK(y) BY <1>2, <2>2 DEF ListedOK
  <2>5. AskedOK(y)
    <3>1. y.of \notin y.todo /\ \A r \in y.rows : r.of # y.of BY <1>1, <1>2, <2>2 DEF ListedOK
    <3>2. \E w \in SeatSince(s, x.now) : w.seat.at = seat[s].at BY <1>3, NowIsPast
    <3>3. buzz[s] >= seat[s].at => \E w \in SeatSince(s, x.now) : w.seat.waits BY <1>3, NowIsPast
    <3>4. seat[s].at <= seat[s].at BY <2>0
    <3> QED BY <2>2, <3>1, <3>2, <3>3, <3>4 DEF AskedOK
  <2>6. \A q \in Seats \ (y.todo \union {y.of}) : (\E r \in y.rows : r.of = q) \/ OutOfSpan(q, y.now) BY <1>2, <2>2
  <2>7. sender'[p] = y BY <2>3, SenderGoes
  <2>8. SenderOK(p)' BY <1>1, <2>4, <2>5, <2>6, <2>7, StateStays
  <2> QED BY <1>1, <2>3, <2>8, OneSenderMoves
<1> QED BY <1>4, <1>5

\* The question is looked for.
LEMMA AskIsNow ==
  ASSUME OfficeIInv, NEW p \in Senders, AskSeat(p)
  PROVE  OfficeIInv'
<1> DEFINE x == sender[p]
<1>1. /\ x.at = "pending" /\ Set(p, [x EXCEPT !.at = "marker", !.asks = seat[x.of].asks])
      /\ UNCHANGED <<bellTime, date, seat, buzz, officeTopic, believed, seatPast>>
  BY DEF AskSeat
<1>2. /\ x \in AskingSenders /\ ListedOK(x) /\ AskedOK(x)
      /\ \A q \in Seats \ (x.todo \union {x.of}) : (\E r \in x.rows : r.of = q) \/ OutOfSpan(q, x.now)
  BY <1>1, SenderIs
<1>3. x.now \in Nat /\ x.now <= bellTime /\ x.of \in Seats /\ x.ts \in Nat BY <1>2 DEF AskingSenders, ListedOK
<1>4. /\ seat[x.of].asks \in BOOLEAN /\ seat[x.of].at \in Nat /\ buzz[x.of] \in Nat
      /\ seat[x.of].asks => \E w \in SeatSince(x.of, x.now) : w.seat.waits
      /\ ~seat[x.of].asks => buzz[x.of] >= seat[x.of].at \/ \E w \in SeatSince(x.of, x.now) : ~w.seat.waits
  BY <1>3, NowIsPast
<1>5. PICK a \in BOOLEAN : a = seat[x.of].asks BY <1>4
<1>6. PICK y \in AskingSenders :
        /\ y = [x EXCEPT !.at = "marker", !.asks = a] /\ y.at = "marker" /\ y.asks = a /\ y.now = x.now
        /\ y.todo = x.todo /\ y.rows = x.rows /\ y.of = x.of /\ y.ts = x.ts
  BY <1>2, SeatAsked
<1>7. Set(p, y) BY <1>1, <1>5, <1>6
<1> HIDE DEF x
<1>8. ListedOK(y) BY <1>2, <1>6 DEF ListedOK
<1>9. AskedOK(y)
  <2>1. ~a => buzz[x.of] >= x.ts \/ \E w \in SeatSince(x.of, x.now) : ~w.seat.waits
    <3>1. x.ts <= seat[x.of].at BY <1>2 DEF AskedOK
    <3> QED BY <1>3, <1>4, <1>5, <3>1
  <2>2. a => \E w \in SeatSince(x.of, x.now) : w.seat.waits BY <1>4, <1>5
  <2> QED BY <1>2, <1>6, <2>1, <2>2 DEF AskedOK
<1>10. \A q \in Seats \ (y.todo \union {y.of}) : (\E r \in y.rows : r.of = q) \/ OutOfSpan(q, y.now) BY <1>2, <1>6
<1>11. sender'[p] = y BY <1>7, SenderGoes
<1>12. SenderOK(p)' BY <1>1, <1>8, <1>9, <1>10, <1>11, StateStays
<1> QED BY <1>1, <1>7, <1>12, OneSenderMoves

\* A row waits or does not, as its session did at some time.
LEMMA RowIsMade ==
  ASSUME OfficeIInv, NEW p \in Senders, MakeSeatRow(p)
  PROVE  OfficeIInv'
<1> DEFINE x == sender[p]
           status == StatusOfSeat(x.ts, x.asks, buzz[x.of], x.now)
           made == [of |-> x.of, token |-> <<x.of, date>>, ts |-> x.ts, status |-> status]
           z == [at |-> "stat", now |-> x.now, todo |-> x.todo, rows |-> x.rows \union {made}]
<1>1. /\ x.at = "marker" /\ Set(p, z) /\ UNCHANGED <<bellTime, date, seat, buzz, officeTopic, believed, seatPast>>
  BY DEF MakeSeatRow
<1>2. /\ x \in AskingSenders /\ ListedOK(x) /\ AskedOK(x)
      /\ \A q \in Seats \ (x.todo \union {x.of}) : (\E r \in x.rows : r.of = q) \/ OutOfSpan(q, x.now)
  BY <1>1, SenderIs
<1>3. x.now \in Nat /\ x.of \in Seats /\ x.ts \in Nat /\ x.todo \subseteq Seats /\ x.rows \subseteq SeatRows
      /\ x.asks \in BOOLEAN
  BY <1>2 DEF AskingSenders
<1>4. status \in {"waiting", "running", "quiet"} /\ (status = "waiting" <=> (x.asks \/ buzz[x.of] >= x.ts))
  BY DEF StatusOfSeat
<1>5. date \in OfficeDays BY DEF OfficeIInv, OfficeTypes
<1> HIDE DEF status
<1>6. made \in SeatRows /\ made.of = x.of /\ made.token[1] = x.of /\ made.ts = x.ts /\ made.status = status
  BY <1>3, <1>4, <1>5 DEF SeatRows
<1>7. PICK r \in SeatRows : r = made BY <1>6
<1>8. SeatRowOK(r, x.now)
  <2>1. \E w \in SeatSince(x.of, x.now) : w.seat.at = x.ts BY <1>2 DEF AskedOK
  <2>2. status = "waiting" => \E w \in SeatSince(x.of, x.now) : w.seat.waits BY <1>1, <1>2, <1>4 DEF AskedOK
  <2>3. status # "waiting" => \E w \in SeatSince(x.of, x.now) : ~w.seat.waits BY <1>1, <1>2, <1>4 DEF AskedOK
  <2>4. \A w \in SeatSince(x.of, x.now) : w.seat.waits \in BOOLEAN
    <3>1. seatPast[x.of] \subseteq [t : Nat, seat : SeatViews] BY <1>3 DEF OfficeIInv, OfficeTypes
    <3> QED BY <3>1 DEF SeatSince, SeatViews
  <2>5. \E w \in SeatSince(x.of, x.now) : w.seat.waits = (status = "waiting") BY <2>2, <2>3, <2>4
  <2> QED BY <1>6, <1>7, <2>1, <2>5 DEF SeatRowOK
<1>9. z \in ListingSenders /\ z.now = x.now /\ z.todo = x.todo /\ z.rows = x.rows \union {r}
  BY <1>3, <1>6, <1>7 DEF ListingSenders
<1>10. PICK y \in ListingSenders : y = z /\ y.now = x.now /\ y.todo = x.todo /\ y.rows = x.rows \union {r} BY <1>9
<1> HIDE DEF x, made, z
<1>11. r.of = x.of /\ r.token[1] = x.of BY <1>6, <1>7
<1>12. ListedOK(y)
  <2>1. IsFiniteSet(x.rows \union {r}) BY <1>2, FS_AddElement DEF ListedOK
  <2>2. \A q \in y.rows : SeatRowOK(q, y.now) /\ q.of \notin y.todo /\ q.token[1] = q.of
    BY <1>2, <1>8, <1>10, <1>11 DEF ListedOK, AskedOK
  <2>3. \A q, s \in y.rows : q.of = s.of => q = s BY <1>2, <1>10, <1>11 DEF ListedOK, AskedOK
  <2>4. y.now <= bellTime BY <1>2, <1>10 DEF ListedOK
  <2> QED BY <1>10, <2>1, <2>2, <2>3, <2>4 DEF ListedOK
<1>13. \A q \in Seats \ y.todo : (\E s \in y.rows : s.of = q) \/ OutOfSpan(q, y.now) BY <1>2, <1>10, <1>11
<1>14. Set(p, y) BY <1>1, <1>10
<1>15. sender'[p] = y BY <1>14, SenderGoes
<1>16. SenderOK(p)' BY <1>1, <1>12, <1>13, <1>15, StateStays
<1> QED BY <1>1, <1>14, <1>16, OneSenderMoves

\* The cut leaves out only what is older than as many as are allowed.
LEMMA PushIsSo ==
  ASSUME OfficeIInv, NEW p \in Senders, sender[p].at = "stat", sender[p].todo = {},
         NEW rows \in Cuts(sender[p].rows),
         NEW e, e = [key |-> Secret, pushed |-> Stamp(p), till |-> bellTime, rows |-> rows]
  PROVE  EnvelopeOK(e)
<1> DEFINE x == sender[p]
<1>1. /\ x \in ListingSenders /\ ListedOK(x)
      /\ \A q \in Seats : (\E r \in x.rows : r.of = q) \/ OutOfSpan(q, x.now)
  BY SenderIs
<1>2. /\ e.pushed = x.now /\ e.till = bellTime /\ e.rows = rows /\ rows \subseteq x.rows
      /\ x.rows \subseteq SeatRows /\ IsFiniteSet(x.rows)
  BY <1>1 DEF Stamp, Cuts, ListingSenders, ListedOK
<1>3. \A s \in Seats : \A w \in SeatSince(s, x.now) : w.seat \in Within(s, e)
  BY <1>2 DEF SeatSince, Within, OfficeIInv, PastOK
<1>4. \A r \in x.rows : /\ r.of \in Seats /\ SeatRowOK(r, x.now) /\ r.token[1] = r.of
                        /\ \A q \in x.rows : r.of = q.of => r = q
  BY <1>1, <1>2 DEF ListedOK, SeatRows
<1>5. ASSUME NEW r \in rows
      PROVE  /\ r.of \in Seats
             /\ \E v \in Within(r.of, e) : v.at = r.ts
             /\ \E v \in Within(r.of, e) : v.waits = (r.status = "waiting")
             /\ \A q \in rows : q.of = r.of \/ q.token = r.token => q = r
  <2>1. r \in x.rows BY <1>2
  <2>2. r.of \in Seats /\ SeatRowOK(r, x.now) BY <1>4, <2>1
  <2>3. \A q \in rows : q.of = r.of \/ q.token = r.token => q = r BY <1>2, <1>4, <2>1
  <2> QED BY <1>3, <2>2, <2>3 DEF SeatRowOK
<1>6. ASSUME NEW s \in Seats \ {r.of : r \in rows}
      PROVE  \E v \in Within(s, e) : x.now - v.at > Span \/ Cardinality({r \in rows : r.ts >= v.at}) = RowLimit
  <2>1. CASE OutOfSpan(s, x.now) BY <1>3, <2>1 DEF OutOfSpan
  <2>2. ASSUME NEW r \in x.rows, r.of = s PROVE \E v \in Within(s, e) : Cardinality({k \in rows : k.ts >= v.at}) = RowLimit
    <3>1. r \notin rows BY <1>6, <2>2
    <3>2. /\ Cardinality(rows) = IF Cardinality(x.rows) < RowLimit THEN Cardinality(x.rows) ELSE RowLimit
          /\ \A k \in rows : k.ts >= r.ts
      BY <2>2, <3>1 DEF Cuts
    <3>3. Cardinality(rows) # Cardinality(x.rows) BY <1>2, <2>2, <3>1, FS_Subset
    <3>4. Cardinality(rows) = RowLimit BY <3>2, <3>3
    <3>5. PICK w \in SeatSince(s, x.now) : w.seat.at = r.ts BY <1>4, <2>2 DEF SeatRowOK
    <3>6. {k \in rows : k.ts >= w.seat.at} = rows BY <3>2, <3>5
    <3>7. Cardinality({k \in rows : k.ts >= w.seat.at}) = RowLimit BY <3>4, <3>6
    <3> QED BY <1>3, <3>5, <3>7
  <2> QED BY <1>1, <2>1, <2>2
<1> QED BY <1>2, <1>5, <1>6, ZenonT(60) DEF EnvelopeOK

\* What home takes of a far machine was so while it was made (office_push.py, office.verify),
\* for every number of sessions and senders, and what is left out had no place.
THEOREM PushedRowsWereSo == OfficeScanSpec => [](OfficeScanTypeOK /\ RowsWereSo)
<1>1. OfficeIInv /\ [OfficeScanNext]_officeScanVars => OfficeIInv'
  <2> SUFFICES ASSUME OfficeIInv, [OfficeScanNext]_officeScanVars PROVE OfficeIInv' OBVIOUS
  <2>0. /\ date \in OfficeDays /\ DOMAIN sender = Senders /\ sender = [p \in Senders |-> sender[p]]
        /\ believed \subseteq officeTopic /\ (\A e \in believed : e.key = Secret)
        /\ \A e \in officeTopic : e.key = Secret => EnvelopeOK(e)
    BY DEF OfficeIInv, OfficeTypes
  <2>1. CASE UNCHANGED officeScanVars BY <2>0, <2>1, OfficeStep DEF officeScanVars
  <2>2. ASSUME NEW s \in Seats, (\E blocked \in BOOLEAN : SeatWrites(s, blocked)) \/ SeatBuzzes(s) PROVE OfficeIInv'
    BY <2>2, SeatsMove
  <2>3. CASE Midnight
    <3>1. date' \in OfficeDays BY <2>3 DEF Midnight, OfficeDays
    <3> QED BY <2>0, <2>3, <3>1, OfficeStep DEF Midnight
  <2>4. CASE Forge
    <3> DEFINE e == [key |-> "theirs", pushed |-> bellTime, till |-> bellTime, rows |-> {}]
    <3>1. officeTopic' = officeTopic \union {e} /\ UNCHANGED <<bellTime, date, seat, buzz, sender, believed, seatPast>>
      BY <2>4 DEF Forge
    <3>2. e.key # Secret BY DEF Secret
    <3> HIDE DEF e
    <3>3. \A f \in officeTopic' : f \in officeTopic \/ (f.key = Secret => EnvelopeOK(f)) BY <3>1, <3>2
    <3>4. believed' \subseteq officeTopic' /\ \A f \in believed' : f.key = Secret BY <2>0, <3>1
    <3> QED BY <2>0, <3>1, <3>3, <3>4, OfficeStep
  <2>5. ASSUME NEW p \in Senders, SendPush(p) PROVE OfficeIInv'
    <3>1. /\ sender[p].at = "stat" /\ sender[p].todo = {} /\ Set(p, Resting)
          /\ UNCHANGED <<bellTime, date, seat, buzz, believed, seatPast>>
      BY <2>5 DEF SendPush
    <3>2. \/ officeTopic' = officeTopic
          \/ \E rows \in Cuts(sender[p].rows) :
               officeTopic' = officeTopic \union {[key |-> Secret, pushed |-> Stamp(p), till |-> bellTime, rows |-> rows]}
      BY <2>5 DEF SendPush
    <3>3. \A e \in officeTopic' : e \in officeTopic \/ EnvelopeOK(e)
      <4>1. ASSUME NEW rows \in Cuts(sender[p].rows), NEW e,
                   e = [key |-> Secret, pushed |-> Stamp(p), till |-> bellTime, rows |-> rows]
            PROVE  EnvelopeOK(e)
        BY <3>1, <4>1, PushIsSo
      <4> QED BY <3>2, <4>1
    <3>4. believed' \subseteq officeTopic' /\ \A e \in believed' : e.key = Secret BY <2>0, <3>1, <3>2
    <3>5. sender'[p] = Resting BY <3>1, SenderGoes
    <3>6. SenderOK(p)' BY <3>5 DEF SenderOK, Resting
    <3>7. DOMAIN sender' = Senders /\ sender' = [q \in Senders |-> sender'[q]]
          /\ \A q \in Senders : sender'[q] = sender[q] \/ SenderOK(q)'
      BY <3>1, <3>6, SenderGoes
    <3> QED BY <2>0, <3>1, <3>3, <3>4, <3>7, OfficeStep
  <2>6. ASSUME NEW e \in officeTopic, Believe(e) PROVE OfficeIInv'
    <3>1. /\ believed' = believed \union {e} /\ e.key = Secret
          /\ UNCHANGED <<bellTime, date, seat, buzz, sender, officeTopic, seatPast>>
      BY <2>6 DEF Believe
    <3> QED BY <2>0, <3>1, OfficeStep
  <2> QED BY <2>1, <2>2, <2>3, <2>4, <2>5, <2>6, PushBegins, StatIsNow, AskIsNow, RowIsMade DEF OfficeScanNext
<1>2. OfficeIInv => OfficeScanTypeOK /\ RowsWereSo
  <2> SUFFICES ASSUME OfficeIInv PROVE OfficeScanTypeOK /\ RowsWereSo OBVIOUS
  <2>1. \A p \in Senders : sender[p].at \in {"rest", "stat", "pending", "marker", "send"}
    BY DEF OfficeIInv, SenderOK, Resting, ListingSenders, AskingSenders
  <2>2. OfficeScanTypeOK BY <2>1 DEF OfficeScanTypeOK, OfficeIInv, OfficeTypes
  <2>3. \A e \in believed : EnvelopeOK(e) BY DEF OfficeIInv, OfficeTypes
  <2>4. RowsWereSo BY <2>3 DEF RowsWereSo, EnvelopeOK, Within
  <2> QED BY <2>2, <2>4
<1> QED BY <1>1, <1>2, OfficeBegins, PTL DEF OfficeScanSpec

-----------------------------------------------------------------------------
(* The pull requests *)

PullStates == Pulls \union {None}
PullAnswers ==
  [available : BOOLEAN, stale : BOOLEAN, checked : Int, rows : SUBSET {PullRow(p) : p \in PullStates}]

\* What an answer shows was so at some time since the date it carries.
AnswerWasSo(d) ==
  d.available => \E p \in PullStates : lastSo[p] >= d.checked /\ d.rows = Good(0, p).rows

\* Where a thread may be: what it took from the cache and what it shows was so, and what it was
\* told by GitHub was so since its request began.
Idles(c) == caller[c] = Waiting
Refreshes(c) ==
  \E step \in {"asked", "listing", "refused"}, now \in 0..instant, on \in BOOLEAN, d \in PullAnswers \union {None} :
    /\ caller[c] = [at |-> step, now |-> now, enabled |-> on, cached |-> d]
    /\ d # None => AnswerWasSo(d)
IsTold(c) ==
  \E now \in 0..instant, on \in BOOLEAN, p \in PullStates :
    /\ caller[c] = [at |-> "listed", now |-> now, enabled |-> on, cached |-> [read |-> p]]
    /\ lastSo[p] >= now
ShowsPulls(c) ==
  \E d \in PullAnswers : caller[c] = [at |-> "pulls", answer |-> d] /\ AnswerWasSo(d)
ShowsThreads(c) ==
  \E d \in PullAnswers :
    /\ caller[c] = [at |-> "matched", answer |-> d, proofs |-> Provenance(d)] /\ AnswerWasSo(d)

CallerOK(c) == Idles(c) \/ Refreshes(c) \/ IsTold(c) \/ ShowsPulls(c) \/ ShowsThreads(c)

PrIInv ==
  /\ instant \in 0..MaxInstant /\ pull \in PullStates
  /\ lastSo \in [PullStates -> Int] /\ lastSo[pull] = instant
  /\ \A p \in PullStates : lastSo[p] <= instant
  /\ prCache.ts \in 0..MaxInstant
  /\ \E ts \in 0..MaxInstant, d \in PullAnswers \union {None} :
       prCache = [ts |-> ts, data |-> d] /\ (d # None => AnswerWasSo(d))
  /\ caller = [c \in Callers |-> caller[c]] /\ \A c \in Callers : CallerOK(c)

\* What was so stays so while time and the account move on.
LEMMA WasSoStays ==
  ASSUME NEW d, lastSo \in [PullStates -> Int], lastSo' \in [PullStates -> Int], d \in PullAnswers,
         \A p \in PullStates : lastSo[p] <= lastSo'[p], AnswerWasSo(d)
  PROVE  AnswerWasSo(d)'
<1>1. d.checked \in Int BY DEF PullAnswers
<1>2. SUFFICES ASSUME d.available PROVE \E p \in PullStates : lastSo'[p] >= d.checked /\ d.rows = Good(0, p).rows
  BY DEF AnswerWasSo
<1>3. PICK p \in PullStates : lastSo[p] >= d.checked /\ d.rows = Good(0, p).rows BY <1>2 DEF AnswerWasSo
<1>4. lastSo[p] \in Int /\ lastSo'[p] \in Int /\ lastSo[p] <= lastSo'[p] OBVIOUS
<1>5. lastSo'[p] >= d.checked BY <1>1, <1>3, <1>4
<1> QED BY <1>3, <1>5

\* A thread that does nothing stays where it may be.
LEMMA CallerStays ==
  ASSUME NEW c \in Callers, CallerOK(c), caller'[c] = caller[c], thread' = thread,
         instant \in Nat, instant' \in Nat, instant <= instant',
         lastSo \in [PullStates -> Int], lastSo' \in [PullStates -> Int],
         \A p \in PullStates : lastSo[p] <= lastSo'[p]
  PROVE  CallerOK(c)'
<1>0. 0..instant \subseteq 0..instant' OBVIOUS
<1>1. CASE Idles(c) BY <1>1 DEF Idles, CallerOK
<1>2. CASE Refreshes(c)
  <2>1. PICK step \in {"asked", "listing", "refused"}, now \in 0..instant, on \in BOOLEAN, d \in PullAnswers \union {None} :
          /\ caller[c] = [at |-> step, now |-> now, enabled |-> on, cached |-> d]
          /\ d # None => AnswerWasSo(d)
    BY <1>2 DEF Refreshes
  <2>2. d # None => AnswerWasSo(d)' BY <2>1, WasSoStays
  <2>3. Refreshes(c)' BY <1>0, <2>1, <2>2 DEF Refreshes
  <2> QED BY <2>3 DEF CallerOK
<1>3. CASE IsTold(c)
  <2>1. PICK now \in 0..instant, on \in BOOLEAN, p \in PullStates :
          /\ caller[c] = [at |-> "listed", now |-> now, enabled |-> on, cached |-> [read |-> p]]
          /\ lastSo[p] >= now
    BY <1>3 DEF IsTold
  <2>2. lastSo[p] \in Int /\ lastSo'[p] \in Int /\ lastSo[p] <= lastSo'[p] /\ now \in Int OBVIOUS
  <2>3. lastSo'[p] >= now BY <2>1, <2>2
  <2>4. IsTold(c)' BY <1>0, <2>1, <2>3 DEF IsTold
  <2> QED BY <2>4 DEF CallerOK
<1>4. CASE ShowsPulls(c)
  <2>1. PICK d \in PullAnswers : caller[c] = [at |-> "pulls", answer |-> d] /\ AnswerWasSo(d) BY <1>4 DEF ShowsPulls
  <2>2. AnswerWasSo(d)' BY <2>1, WasSoStays
  <2>3. ShowsPulls(c)' BY <2>1, <2>2 DEF ShowsPulls
  <2> QED BY <2>3 DEF CallerOK
<1>5. CASE ShowsThreads(c)
  <2>1. PICK d \in PullAnswers :
          caller[c] = [at |-> "matched", answer |-> d, proofs |-> Provenance(d)] /\ AnswerWasSo(d)
    BY <1>5 DEF ShowsThreads
  <2>2. AnswerWasSo(d)' BY <2>1, WasSoStays
  <2>3. Provenance(d)' = Provenance(d) BY DEF Provenance, Match
  <2>4. ShowsThreads(c)' BY <2>1, <2>2, <2>3 DEF ShowsThreads
  <2> QED BY <2>4 DEF CallerOK
<1> QED BY <1>1, <1>2, <1>3, <1>4, <1>5 DEF CallerOK

\* The cache holds what was so, also after time and the account moved on.
LEMMA CacheStays ==
  ASSUME PrIInv, prCache' = prCache, lastSo' \in [PullStates -> Int],
         \A p \in PullStates : lastSo[p] <= lastSo'[p]
  PROVE  \E ts \in 0..MaxInstant, d \in PullAnswers \union {None} :
           prCache' = [ts |-> ts, data |-> d] /\ (d # None => AnswerWasSo(d)')
<1>1. PICK ts \in 0..MaxInstant, d \in PullAnswers \union {None} :
        prCache = [ts |-> ts, data |-> d] /\ (d # None => AnswerWasSo(d))
  BY DEF PrIInv
<1>2. d # None => AnswerWasSo(d)' BY <1>1, WasSoStays DEF PrIInv
<1> QED BY <1>1, <1>2

\* What a refresh, or the cache, gives a thread to show.
LEMMA NothingWasSo == Nothing \in PullAnswers /\ AnswerWasSo(Nothing)
BY DEF Nothing, PullAnswers, AnswerWasSo

\* An answer of GitHub shows what was so since its request.
LEMMA GoodWasSo ==
  ASSUME NEW now \in Int, NEW p \in PullStates, lastSo[p] >= now
  PROVE  Good(now, p) \in PullAnswers /\ AnswerWasSo(Good(now, p)) /\ Good(now, p) # None
<1>1. Good(now, p) = [available |-> TRUE, stale |-> FALSE, checked |-> now, rows |-> Good(0, p).rows] BY DEF Good
<1>2. Good(0, p).rows \in SUBSET {PullRow(q) : q \in PullStates} BY DEF Good
<1>3. Good(now, p) \in PullAnswers BY <1>1, <1>2 DEF PullAnswers
<1>4. Good(now, p).checked = now /\ Good(now, p).rows = Good(0, p).rows BY <1>1
<1>5. AnswerWasSo(Good(now, p)) BY <1>4 DEF AnswerWasSo
<1> QED BY <1>1, <1>3, <1>5 DEF None

\* After a failed request the answer kept before is shown, with its own date.
LEMMA FailedWasSo ==
  ASSUME NEW d \in PullAnswers \union {None}, d # None => AnswerWasSo(d)
  PROVE  Failed(d) \in PullAnswers /\ AnswerWasSo(Failed(d))
<1>1. CASE d # None /\ d.available
  <2>1. d \in PullAnswers /\ AnswerWasSo(d) BY <1>1
  <2>2. PICK a \in BOOLEAN, o \in BOOLEAN, n \in Int, w \in SUBSET {PullRow(p) : p \in PullStates} :
          d = [available |-> a, stale |-> o, checked |-> n, rows |-> w]
    <3> DEFINE Shown == SUBSET {PullRow(p) : p \in PullStates}
    <3>1. d \in [available : BOOLEAN, stale : BOOLEAN, checked : Int, rows : Shown] BY <2>1 DEF PullAnswers
    <3> HIDE DEF Shown
    <3>2. \E a \in BOOLEAN, o \in BOOLEAN, n \in Int, w \in Shown :
            d = [available |-> a, stale |-> o, checked |-> n, rows |-> w]
      BY <3>1
    <3> QED BY <3>2 DEF Shown
  <2> DEFINE e == [available |-> a, stale |-> TRUE, checked |-> n, rows |-> w]
  <2>3. Failed(d) = e BY <1>1, <2>2 DEF Failed
  <2>4. e \in PullAnswers BY DEF PullAnswers
  <2>5. e.available = d.available /\ e.checked = d.checked /\ e.rows = d.rows BY <2>2
  <2>6. AnswerWasSo(e) BY <2>1, <2>5 DEF AnswerWasSo
  <2> QED BY <2>3, <2>4, <2>6
<1>2. CASE ~(d # None /\ d.available)
  <2>1. Failed(d) = Nothing BY <1>2 DEF Failed
  <2> QED BY <2>1, NothingWasSo
<1> QED BY <1>1, <1>2

CacheWasSo(ts, d) == ts \in 0..MaxInstant /\ d \in PullAnswers \union {None} /\ (d # None => AnswerWasSo(d))

\* A step of one thread, which leaves the cache or fills it with what was so.
LEMMA CallerMoves ==
  ASSUME PrIInv, NEW c \in Callers, NEW state, caller' = [caller EXCEPT ![c] = state],
         UNCHANGED <<instant, pull, thread, lastSo>>, CallerOK(c)',
         \/ prCache' = prCache
         \/ \E ts, d : prCache' = [ts |-> ts, data |-> d] /\ CacheWasSo(ts, d)
  PROVE  PrIInv'
<1>1. UNCHANGED <<instant, pull, thread, lastSo>> OBVIOUS
<1>2. caller' = [caller EXCEPT ![c] = state] OBVIOUS
<1>3. /\ instant' \in 0..MaxInstant /\ pull' \in PullStates
      /\ lastSo' \in [PullStates -> Int] /\ lastSo'[pull'] = instant'
      /\ \A p \in PullStates : lastSo'[p] <= instant'
  BY <1>1 DEF PrIInv
<1>4. prCache'.ts \in 0..MaxInstant
  <2>1. CASE prCache' = prCache BY <2>1 DEF PrIInv
  <2>2. CASE \E ts, d : prCache' = [ts |-> ts, data |-> d] /\ CacheWasSo(ts, d) BY <2>2 DEF CacheWasSo
  <2> QED BY <2>1, <2>2
<1>5. \E ts \in 0..MaxInstant, d \in PullAnswers \union {None} :
        prCache' = [ts |-> ts, data |-> d] /\ (d # None => AnswerWasSo(d)')
  <2>1. CASE prCache' = prCache
    <3>1. \A p \in PullStates : lastSo[p] <= lastSo'[p] /\ lastSo[p] \in Int BY <1>1 DEF PrIInv
    <3> QED BY <1>3, <2>1, <3>1, CacheStays
  <2>2. CASE \E ts, d : prCache' = [ts |-> ts, data |-> d] /\ CacheWasSo(ts, d)
    <3>1. PICK ts, d : prCache' = [ts |-> ts, data |-> d] /\ CacheWasSo(ts, d) BY <2>2
    <3>2. d # None => AnswerWasSo(d)' BY <1>1, <3>1 DEF CacheWasSo, AnswerWasSo
    <3> QED BY <3>1, <3>2 DEF CacheWasSo
  <2> QED BY <2>1, <2>2
<1>6. caller' = [e \in Callers |-> caller'[e]] BY <1>2 DEF PrIInv
<1>7. ASSUME NEW e \in Callers PROVE CallerOK(e)'
  <2>1. CASE e = c BY <2>1
  <2>2. CASE e # c
    <3>1. caller'[e] = caller[e] /\ CallerOK(e) BY <1>2, <2>2 DEF PrIInv
    <3>2. /\ thread' = thread /\ instant \in Nat /\ instant' \in Nat /\ instant <= instant'
          /\ lastSo \in [PullStates -> Int] /\ lastSo' \in [PullStates -> Int]
          /\ \A p \in PullStates : lastSo[p] <= lastSo'[p]
      BY <1>1, PrAssumption DEF PrIInv
    <3> QED BY <3>1, <3>2, CallerStays
  <2> QED BY <2>1, <2>2
<1> QED BY <1>3, <1>4, <1>5, <1>6, <1>7 DEF PrIInv

\* At first the cache is empty and every thread idle.
LEMMA PrBegins == PrInit => PrIInv
<1> SUFFICES ASSUME PrInit PROVE PrIInv OBVIOUS
<1>1. instant = 0 /\ pull \in PullStates /\ 0 \in 0..MaxInstant BY PrAssumption DEF PrInit, PullStates
<1>2. lastSo = [p \in PullStates |-> IF p = pull THEN 0 ELSE -1] BY DEF PrInit, PullStates
<1>3. lastSo \in [PullStates -> Int] /\ lastSo[pull] = instant /\ \A p \in PullStates : lastSo[p] <= instant
  BY <1>1, <1>2
<1>4. prCache = [ts |-> 0, data |-> None] BY DEF PrInit, NoCache
<1>5. caller = [c \in Callers |-> caller[c]] /\ \A c \in Callers : caller[c] = Waiting BY DEF PrInit
<1>6. \A c \in Callers : CallerOK(c) BY <1>5 DEF CallerOK, Idles
<1>7. /\ prCache.ts \in 0..MaxInstant
      /\ \E ts \in 0..MaxInstant, d \in PullAnswers \union {None} :
           prCache = [ts |-> ts, data |-> d] /\ (d # None => AnswerWasSo(d))
  BY <1>1, <1>4
<1> QED BY <1>1, <1>3, <1>5, <1>6, <1>7 DEF PrIInv

\* Where a thread is tells what it has.
LEMMA PlacesTell ==
  ASSUME NEW c \in Callers, CallerOK(c)
  PROVE  /\ caller[c].at \in {"asked", "listing", "refused"} => Refreshes(c)
         /\ caller[c].at = "listed" => IsTold(c)
         /\ caller[c].at = "pulls" => ShowsPulls(c)
         /\ caller[c].at = "matched" => ShowsThreads(c)
<1>1. Idles(c) => caller[c].at = "idle" BY DEF Idles, Waiting
<1>2. Refreshes(c) => caller[c].at \in {"asked", "listing", "refused"} BY DEF Refreshes
<1>3. IsTold(c) => caller[c].at = "listed" BY DEF IsTold
<1>4. ShowsPulls(c) => caller[c].at = "pulls" BY DEF ShowsPulls
<1>5. ShowsThreads(c) => caller[c].at = "matched" BY DEF ShowsThreads
<1> QED BY <1>1, <1>2, <1>3, <1>4, <1>5 DEF CallerOK

\* The steps of a request.
LEMMA AskedFromCache == ASSUME PrIInv, NEW c \in Callers, NEW on \in BOOLEAN, AskPulls(c, on) PROVE PrIInv'
<1>1. PICK ts \in 0..MaxInstant, d \in PullAnswers \union {None} :
        prCache = [ts |-> ts, data |-> d] /\ (d # None => AnswerWasSo(d))
  BY DEF PrIInv
<1> DEFINE state == [at |-> "asked", now |-> instant, enabled |-> on, cached |-> d]
<1>2. caller' = [caller EXCEPT ![c] = state] /\ prCache' = prCache
      /\ UNCHANGED <<instant, pull, thread, lastSo>>
  BY <1>1 DEF AskPulls
<1>3. instant \in 0..instant' BY <1>2, PrAssumption DEF PrIInv
<1>4. caller'[c] = state BY <1>2 DEF PrIInv
<1>5. d # None => AnswerWasSo(d)' BY <1>1, <1>2 DEF AnswerWasSo
<1>6. CallerOK(c)' BY <1>3, <1>4, <1>5 DEF CallerOK, Refreshes
<1> HIDE DEF state
<1> QED BY <1>2, <1>6, CallerMoves

\* A thread answers from the cache or asks GitHub.
LEMMA DecidedPulls == ASSUME PrIInv, NEW c \in Callers, DecidePulls(c) PROVE PrIInv'
<1>1. caller[c].at = "asked" /\ CallerOK(c) BY DEF DecidePulls, PrIInv
<1>2. PICK step \in {"asked", "listing", "refused"}, now \in 0..instant, on \in BOOLEAN, d \in PullAnswers \union {None} :
        /\ caller[c] = [at |-> step, now |-> now, enabled |-> on, cached |-> d]
        /\ d # None => AnswerWasSo(d)
  BY <1>1, PlacesTell DEF Refreshes
<1>3. /\ caller[c].now = now /\ caller[c].enabled = on /\ caller[c].cached = d
      /\ [caller[c] EXCEPT !.at = "listing"] = [at |-> "listing", now |-> now, enabled |-> on, cached |-> d]
  BY <1>2
<1>4. \A state : Step(c, state) => /\ caller' = [caller EXCEPT ![c] = state]
                                  /\ UNCHANGED <<instant, pull, thread, lastSo>>
                                  /\ caller'[c] = state
  BY DEF Step, PrIInv
<1>5. \/ d # None /\ Step(c, [at |-> "pulls", answer |-> d]) /\ prCache' = prCache
      \/ Step(c, [at |-> "listing", now |-> now, enabled |-> on, cached |-> d]) /\ prCache' = prCache
      \/ Step(c, [at |-> "pulls", answer |-> Nothing]) /\ prCache' = [ts |-> now, data |-> Nothing]
  BY <1>3 DEF DecidePulls
<1>6. CASE d # None /\ Step(c, [at |-> "pulls", answer |-> d]) /\ prCache' = prCache
  <2> DEFINE state == [at |-> "pulls", answer |-> d]
  <2>1. /\ caller' = [caller EXCEPT ![c] = state] /\ caller'[c] = state
        /\ UNCHANGED <<instant, pull, thread, lastSo>> /\ prCache' = prCache
    BY <1>4, <1>6
  <2>2. d \in PullAnswers /\ AnswerWasSo(d)' BY <1>2, <1>6, <2>1 DEF AnswerWasSo
  <2>3. CallerOK(c)' BY <2>1, <2>2 DEF CallerOK, ShowsPulls
  <2> HIDE DEF state
  <2> QED BY <2>1, <2>3, CallerMoves
<1>7. CASE Step(c, [at |-> "listing", now |-> now, enabled |-> on, cached |-> d]) /\ prCache' = prCache
  <2> DEFINE state == [at |-> "listing", now |-> now, enabled |-> on, cached |-> d]
  <2>1. /\ caller' = [caller EXCEPT ![c] = state] /\ caller'[c] = state
        /\ UNCHANGED <<instant, pull, thread, lastSo>> /\ prCache' = prCache
    BY <1>4, <1>7
  <2>2. (d # None => AnswerWasSo(d)') /\ now \in 0..instant' BY <1>2, <2>1 DEF AnswerWasSo
  <2>3. CallerOK(c)' BY <2>1, <2>2 DEF CallerOK, Refreshes
  <2> HIDE DEF state
  <2> QED BY <2>1, <2>3, CallerMoves
<1>8. CASE Step(c, [at |-> "pulls", answer |-> Nothing]) /\ prCache' = [ts |-> now, data |-> Nothing]
  <2> DEFINE state == [at |-> "pulls", answer |-> Nothing]
  <2>1. /\ caller' = [caller EXCEPT ![c] = state] /\ caller'[c] = state
        /\ UNCHANGED <<instant, pull, thread, lastSo>>
    BY <1>4, <1>8
  <2>2. Nothing \in PullAnswers /\ AnswerWasSo(Nothing)' BY NothingWasSo DEF AnswerWasSo, Nothing
  <2>3. CallerOK(c)' BY <2>1, <2>2 DEF CallerOK, ShowsPulls
  <2>4. now \in 0..MaxInstant BY PrAssumption DEF PrIInv
  <2>5. CacheWasSo(now, Nothing) BY <2>4, NothingWasSo DEF CacheWasSo
  <2> HIDE DEF state
  <2> QED BY <1>8, <2>1, <2>3, <2>5, CallerMoves
<1> QED BY <1>5, <1>6, <1>7, <1>8

\* What GitHub answers is so at that moment.
LEMMA AnsweredByGitHub == ASSUME PrIInv, NEW c \in Callers, GitHubAnswers(c) PROVE PrIInv'
<1>1. caller[c].at = "listing" /\ CallerOK(c) /\ prCache' = prCache BY DEF GitHubAnswers, PrIInv
<1>2. PICK step \in {"asked", "listing", "refused"}, now \in 0..instant, on \in BOOLEAN, d \in PullAnswers \union {None} :
        /\ caller[c] = [at |-> step, now |-> now, enabled |-> on, cached |-> d]
        /\ d # None => AnswerWasSo(d)
  BY <1>1, PlacesTell DEF Refreshes
<1> DEFINE heard == [at |-> "listed", now |-> now, enabled |-> on, cached |-> [read |-> pull]]
           refusal == [at |-> "refused", now |-> now, enabled |-> on, cached |-> d]
<1>3. [caller[c] EXCEPT !.at = "listed", !.cached = [read |-> pull]] = heard
  <2>1. caller[c] = [at |-> step, now |-> now, enabled |-> on, cached |-> d] BY <1>2
  <2>2. PICK r : r = [caller[c] EXCEPT !.cached = [read |-> pull]] OBVIOUS
  <2>3. r = [at |-> step, now |-> now, enabled |-> on, cached |-> [read |-> pull]] BY <2>1, <2>2
  <2>4. [r EXCEPT !.at = "listed"] = heard BY <2>3
  <2>5. [caller[c] EXCEPT !.at = "listed", !.cached = [read |-> pull]] = [r EXCEPT !.at = "listed"] BY <2>2
  <2> QED BY <2>4, <2>5
<1>4. [caller[c] EXCEPT !.at = "refused"] = refusal BY <1>2
<1>5. Step(c, heard) \/ Step(c, refusal) BY <1>3, <1>4 DEF GitHubAnswers
<1>6. \A state : Step(c, state) => /\ caller' = [caller EXCEPT ![c] = state]
                                  /\ UNCHANGED <<instant, pull, thread, lastSo>>
                                  /\ caller'[c] = state
  BY DEF Step, PrIInv
<1>7. CASE Step(c, heard)
  <2>1. /\ caller' = [caller EXCEPT ![c] = heard] /\ caller'[c] = heard
        /\ UNCHANGED <<instant, pull, thread, lastSo>>
    BY <1>6, <1>7
  <2>2. pull \in PullStates /\ lastSo'[pull] >= now /\ now \in 0..instant' BY <2>1, PrAssumption DEF PrIInv
  <2>3. CallerOK(c)' BY <2>1, <2>2 DEF CallerOK, IsTold
  <2> HIDE DEF heard
  <2> QED BY <1>1, <2>1, <2>3, CallerMoves
<1>8. CASE Step(c, refusal)
  <2>1. /\ caller' = [caller EXCEPT ![c] = refusal] /\ caller'[c] = refusal
        /\ UNCHANGED <<instant, pull, thread, lastSo>>
    BY <1>6, <1>8
  <2>2. (d # None => AnswerWasSo(d)') /\ now \in 0..instant' BY <1>2, <2>1 DEF AnswerWasSo
  <2>3. CallerOK(c)' BY <2>1, <2>2 DEF CallerOK, Refreshes
  <2> HIDE DEF refusal
  <2> QED BY <1>1, <2>1, <2>3, CallerMoves
<1> QED BY <1>5, <1>7, <1>8

\* What a refresh stores was so since its request, whichever thread stores it (collect_github_prs).
LEMMA StoredPulls == ASSUME PrIInv, NEW c \in Callers, StorePulls(c) PROVE PrIInv'
<1>1. caller[c].at \in {"listed", "refused"} /\ CallerOK(c) BY DEF StorePulls, PrIInv
<1>2. \E now \in 0..instant, out \in PullAnswers :
        /\ AnswerWasSo(out)
        /\ prCache' = [ts |-> now, data |-> out] /\ Step(c, [at |-> "pulls", answer |-> out])
  <2>1. CASE caller[c].at = "listed"
    <3>1. PICK now \in 0..instant, on \in BOOLEAN, p \in PullStates :
            /\ caller[c] = [at |-> "listed", now |-> now, enabled |-> on, cached |-> [read |-> p]]
            /\ lastSo[p] >= now
      BY <1>1, <2>1, PlacesTell DEF IsTold
    <3>2. caller[c].now = now /\ caller[c].cached.read = p BY <3>1
    <3>3. prCache' = [ts |-> now, data |-> Good(now, p)] /\ Step(c, [at |-> "pulls", answer |-> Good(now, p)])
      BY <2>1, <3>2 DEF StorePulls
    <3> QED BY <3>1, <3>3, GoodWasSo
  <2>2. CASE caller[c].at = "refused"
    <3>1. PICK step \in {"asked", "listing", "refused"}, now \in 0..instant, on \in BOOLEAN, d \in PullAnswers \union {None} :
            /\ caller[c] = [at |-> step, now |-> now, enabled |-> on, cached |-> d]
            /\ d # None => AnswerWasSo(d)
      BY <1>1, <2>2, PlacesTell DEF Refreshes
    <3>2. caller[c].now = now /\ caller[c].cached = d BY <3>1
    <3>3. prCache' = [ts |-> now, data |-> Failed(d)] /\ Step(c, [at |-> "pulls", answer |-> Failed(d)])
      BY <2>2, <3>2 DEF StorePulls
    <3> QED BY <3>1, <3>3, FailedWasSo
  <2> QED BY <1>1, <2>1, <2>2
<1>3. PICK now \in 0..instant, out \in PullAnswers :
        /\ AnswerWasSo(out)
        /\ prCache' = [ts |-> now, data |-> out] /\ Step(c, [at |-> "pulls", answer |-> out])
  BY <1>2
<1> DEFINE state == [at |-> "pulls", answer |-> out]
<1>4. /\ caller' = [caller EXCEPT ![c] = state] /\ caller'[c] = state
      /\ UNCHANGED <<instant, pull, thread, lastSo>>
  BY <1>3 DEF Step, PrIInv
<1>5. AnswerWasSo(out)' BY <1>3, <1>4 DEF AnswerWasSo
<1>6. CallerOK(c)' BY <1>4, <1>5 DEF CallerOK, ShowsPulls
<1>7. now \in 0..MaxInstant BY PrAssumption DEF PrIInv
<1>8. CacheWasSo(now, out) BY <1>3, <1>7 DEF CacheWasSo
<1> HIDE DEF state
<1> QED BY <1>3, <1>4, <1>6, <1>8, CallerMoves

\* A thread that matches the threads with the pull requests keeps the rows it was given.
LEMMA MatchedThreads == ASSUME PrIInv, NEW c \in Callers, MatchThreads(c) PROVE PrIInv'
<1>1. caller[c].at = "pulls" /\ CallerOK(c) /\ prCache' = prCache BY DEF MatchThreads, PrIInv
<1>2. PICK d \in PullAnswers : caller[c] = [at |-> "pulls", answer |-> d] /\ AnswerWasSo(d)
  BY <1>1, PlacesTell DEF ShowsPulls
<1> DEFINE state == [at |-> "matched", answer |-> d, proofs |-> Provenance(d)]
<1>3. caller[c].answer = d BY <1>2
<1>4. Step(c, state) BY <1>3 DEF MatchThreads
<1>5. /\ caller' = [caller EXCEPT ![c] = state] /\ caller'[c] = state
      /\ UNCHANGED <<instant, pull, thread, lastSo>>
  BY <1>4 DEF Step, PrIInv
<1>6. AnswerWasSo(d)' BY <1>2, <1>5 DEF AnswerWasSo
<1>7. Provenance(d)' = Provenance(d) BY <1>5 DEF Provenance, Match
<1>8. ShowsThreads(c)' BY <1>5, <1>6, <1>7 DEF ShowsThreads
<1>9. CallerOK(c)' BY <1>8 DEF CallerOK
<1> HIDE DEF state
<1> QED BY <1>1, <1>5, <1>9, CallerMoves

\* A thread that leaves is idle again.
LEMMA LeftCache == ASSUME PrIInv, NEW c \in Callers, LeaveCache(c) PROVE PrIInv'
<1>1. /\ caller' = [caller EXCEPT ![c] = Waiting] /\ caller'[c] = Waiting /\ prCache' = prCache
      /\ UNCHANGED <<instant, pull, thread, lastSo>>
  BY DEF LeaveCache, Step, PrIInv
<1>2. CallerOK(c)' BY <1>1 DEF CallerOK, Idles
<1> QED BY <1>1, <1>2, CallerMoves

\* Time passes, and the pull request changes.
LEMMA TimeOrPullMoves ==
  ASSUME PrIInv, PrTick \/ \E p \in PullStates : PullMoves(p)
  PROVE  PrIInv'
<1>1. /\ instant \in Nat /\ instant' \in 0..MaxInstant /\ instant <= instant' /\ pull' \in PullStates
      /\ lastSo' = [lastSo EXCEPT ![pull'] = instant']
      /\ UNCHANGED <<thread, prCache, caller>>
  <2>1. CASE PrTick BY <2>1, PrAssumption DEF PrTick, PrIInv
  <2>2. CASE \E p \in PullStates : PullMoves(p) BY <2>2, PrAssumption DEF PullMoves, PrIInv
  <2> QED BY <2>1, <2>2
<1>2. lastSo \in [PullStates -> Int] /\ \A p \in PullStates : lastSo[p] <= instant BY DEF PrIInv
<1>3. /\ lastSo' \in [PullStates -> Int] /\ lastSo'[pull'] = instant'
      /\ \A p \in PullStates : lastSo[p] <= lastSo'[p] /\ lastSo'[p] <= instant'
  BY <1>1, <1>2
<1>4. \E ts \in 0..MaxInstant, d \in PullAnswers \union {None} :
        prCache' = [ts |-> ts, data |-> d] /\ (d # None => AnswerWasSo(d)')
  BY <1>1, <1>3, CacheStays
<1>5. \A c \in Callers : CallerOK(c)'
  <2> SUFFICES ASSUME NEW c \in Callers PROVE CallerOK(c)' OBVIOUS
  <2>1. CallerOK(c) /\ caller'[c] = caller[c] /\ instant' \in Nat BY <1>1, PrAssumption DEF PrIInv
  <2> QED BY <1>1, <1>2, <1>3, <2>1, CallerStays
<1>6. caller' = [c \in Callers |-> caller'[c]] /\ prCache'.ts \in 0..MaxInstant BY <1>1 DEF PrIInv
<1> QED BY <1>1, <1>3, <1>4, <1>5, <1>6 DEF PrIInv

\* Every step keeps the books of the pull requests.
LEMMA PrStep == ASSUME PrIInv, [PrNext]_prVars PROVE PrIInv'
<1>1. CASE PrTick \/ \E p \in Pulls \union {None} : PullMoves(p) BY <1>1, TimeOrPullMoves DEF PullStates
<1>2. CASE \E c \in Callers, on \in BOOLEAN : AskPulls(c, on) BY <1>2, AskedFromCache
<1>3. ASSUME NEW c \in Callers, DecidePulls(c) \/ GitHubAnswers(c) \/ StorePulls(c)
                                \/ MatchThreads(c) \/ LeaveCache(c)
      PROVE  PrIInv'
  BY <1>3, DecidedPulls, AnsweredByGitHub, StoredPulls, MatchedThreads, LeftCache
<1>4. CASE UNCHANGED prVars
  <2>1. UNCHANGED <<instant, pull, thread, lastSo, prCache, caller>> BY <1>4 DEF prVars
  <2>2. lastSo' \in [PullStates -> Int] /\ \A p \in PullStates : lastSo[p] <= lastSo'[p] BY <2>1 DEF PrIInv
  <2>3. \E ts \in 0..MaxInstant, d \in PullAnswers \union {None} :
          prCache' = [ts |-> ts, data |-> d] /\ (d # None => AnswerWasSo(d)')
    BY <2>1, <2>2, CacheStays
  <2>4. \A c \in Callers : CallerOK(c)'
    <3> SUFFICES ASSUME NEW c \in Callers PROVE CallerOK(c)' OBVIOUS
    <3>1. CallerOK(c) /\ instant \in Nat /\ lastSo \in [PullStates -> Int] BY PrAssumption DEF PrIInv
    <3> QED BY <2>1, <2>2, <3>1, CallerStays
  <2> QED BY <2>1, <2>3, <2>4 DEF PrIInv
<1> QED BY <1>1, <1>2, <1>3, <1>4 DEF PrNext
\* What every state of the cache of pull requests keeps.
LEMMA PrInvariance == PrSpec => []PrIInv
<1>1. PrInit => PrIInv BY PrBegins
<1>2. PrIInv /\ [PrNext]_prVars => PrIInv' BY PrStep
<1> QED BY <1>1, <1>2, PTL DEF PrSpec

\* What a page is shown of the pull requests was so since the date it carries, and a head is
\* attributed to the thread that then was on it, whichever of the request threads refreshed the
\* unlocked cache and however many refreshes failed (collect_github_prs,
\* collect_codex_pr_provenance).
THEOREM PullsWereSo == PrSpec => []ShownWasSo
<1>1. PrIInv => ShownWasSo
  <2> SUFFICES ASSUME PrIInv, NEW c \in Callers, caller[c].at \in {"pulls", "matched"}, caller[c].answer.available
               PROVE  \E p \in Pulls \union {None} :
                        /\ lastSo[p] >= caller[c].answer.checked
                        /\ caller[c].answer.rows = Good(0, p).rows
                        /\ caller[c].at = "matched" /\ ~caller[c].answer.stale =>
                             \A proof \in caller[c].proofs : proof.proof = "verified" =>
                               p # None /\ thread # None /\ p.head = thread.sha
    BY DEF ShownWasSo
  <2>1. CallerOK(c) BY DEF PrIInv
  <2>2. CASE caller[c].at = "pulls"
    <3>1. PICK d \in PullAnswers : caller[c] = [at |-> "pulls", answer |-> d] /\ AnswerWasSo(d)
      BY <2>1, <2>2, PlacesTell DEF ShowsPulls
    <3>2. caller[c].answer = d BY <3>1
    <3>3. PICK p \in PullStates : lastSo[p] >= d.checked /\ d.rows = Good(0, p).rows
      BY <3>1, <3>2 DEF AnswerWasSo
    <3> QED BY <2>2, <3>2, <3>3 DEF PullStates
  <2>3. CASE caller[c].at = "matched"
    <3>1. PICK d \in PullAnswers :
            caller[c] = [at |-> "matched", answer |-> d, proofs |-> Provenance(d)] /\ AnswerWasSo(d)
      BY <2>1, <2>3, PlacesTell DEF ShowsThreads
    <3>2. caller[c].answer = d /\ caller[c].proofs = Provenance(d) BY <3>1
    <3>3. PICK p \in PullStates : lastSo[p] >= d.checked /\ d.rows = Good(0, p).rows
      BY <3>1, <3>2 DEF AnswerWasSo
    <3>4. ASSUME NEW proof \in Provenance(d), proof.proof = "verified"
          PROVE  p # None /\ thread # None /\ p.head = thread.sha
      <4>1. PICK row \in d.rows : proof = [head |-> row.head, proof |-> Match(row)] BY <3>4 DEF Provenance
      <4>2. row \in IF p = None THEN {} ELSE {PullRow(p)} BY <3>3, <4>1 DEF Good
      <4>3. p # None /\ row = PullRow(p) BY <4>2
      <4>4. row.head = p.head BY <4>3 DEF PullRow
      <4>5. Match(row) = "verified" BY <3>4, <4>1
      <4>6. thread # None /\ thread.sha = row.head BY <4>5 DEF Match
      <4> QED BY <4>3, <4>4, <4>6
    <3> QED BY <3>2, <3>3, <3>4 DEF PullStates
  <2> QED BY <2>2, <2>3
<1>2. PrSpec => []PrIInv BY PrInvariance
<1> QED BY <1>1, <1>2, PTL

\* What every state keeps is typed.
LEMMA PullsAreTyped == PrSpec => []PrTypeOK
<1>1. PrIInv => PrTypeOK
  <2> SUFFICES ASSUME PrIInv PROVE PrTypeOK OBVIOUS
  <2>1. ASSUME NEW c \in Callers
        PROVE  caller[c].at \in {"idle", "asked", "listing", "listed", "refused", "pulls", "matched"}
    <3>1. CallerOK(c) BY DEF PrIInv
    <3>2. Idles(c) => caller[c].at = "idle" BY DEF Idles, Waiting
    <3>3. Refreshes(c) => caller[c].at \in {"asked", "listing", "refused"} BY DEF Refreshes
    <3>4. IsTold(c) => caller[c].at = "listed" BY DEF IsTold
    <3>5. ShowsPulls(c) => caller[c].at = "pulls" BY DEF ShowsPulls
    <3>6. ShowsThreads(c) => caller[c].at = "matched" BY DEF ShowsThreads
    <3> QED BY <3>1, <3>2, <3>3, <3>4, <3>5, <3>6 DEF CallerOK
  <2>2. instant \in 0..MaxInstant /\ pull \in Pulls \union {None} /\ prCache.ts \in 0..MaxInstant
    BY DEF PrIInv, PullStates
  <2> QED BY <2>1, <2>2 DEF PrTypeOK
<1>2. PrSpec => []PrIInv BY PrInvariance
<1> QED BY <1>1, <1>2, PTL

-----------------------------------------------------------------------------
(* The sweep of the dispatch ledger *)

PollRecords ==
  [ok : BOOLEAN, ts : Int, summary : SUBSET [key : Dispatches, state : {"pending", "done", "un-judged"}],
   unkeyed : Nat, known : SUBSET Dispatches]

\* A record that is good to show.
RecordOK(r) ==
  /\ r.known \subseteq {row.key : row \in r.summary}
  /\ \A row \in r.summary :
       IF row.state = "un-judged" THEN row.key \notin r.known
       ELSE /\ \E i \in DOMAIN ledger : /\ ledger[i].kind = "poll" /\ ledger[i].key = row.key
                                        /\ ledger[i].state = row.state
            /\ row.state = "done" => row.key \in finished

\* Of the ledger: a verdict that a dispatch is done is true.  Of a sweep: it knows what was
\* dispatched when it began, the script has judged all of that once it is through, and what is
\* about to be written is good to show.
PollIInv ==
  /\ beat \in Nat /\ finished \subseteq Dispatches /\ ledger \in Seq(Rows)
  /\ sweep \in [place : {"due", "run", "read", "write", "asleep"}, ts : Int, next : PollRecords]
  /\ record \in PollRecords
  /\ \A i \in DOMAIN ledger :
       ledger[i].kind = "poll" /\ ledger[i].state = "done" => ledger[i].key \in finished
  /\ sweep.place \in {"run", "read"} => sweep.next.known \subseteq Dispatched
  /\ sweep.place = "read" /\ sweep.next.ok => \A k \in sweep.next.known : Verdict(k) # "none"
  /\ sweep.place = "run" => ~sweep.next.ok
  /\ sweep.place = "write" /\ sweep.next.ok => RecordOK(sweep.next)
  /\ record.ok => RecordOK(record)

\* The verdict on a dispatch is that of its last row.
VerdictIn(rowsOf, k) ==
  LET i == SelectLastInSeq(rowsOf, LAMBDA row : row.kind = "poll" /\ row.key = k)
  IN  IF i = 0 THEN "none" ELSE rowsOf[i].state

\* A verdict is that of some row of the dispatch, and a dispatch with a row has one.
LEMMA VerdictIsOfARow ==
  ASSUME NEW l \in Seq(Rows), NEW k
  PROVE  /\ VerdictIn(l, k) # "none" =>
              \E i \in DOMAIN l : l[i].kind = "poll" /\ l[i].key = k /\ l[i].state = VerdictIn(l, k)
         /\ VerdictIn(l, k) \in {"none", "pending", "done"}
         /\ (\E i \in DOMAIN l : l[i].kind = "poll" /\ l[i].key = k) => VerdictIn(l, k) # "none"
<1> DEFINE I == {i \in 1..Len(l) : l[i].kind = "poll" /\ l[i].key = k}
<1>1. VerdictIn(l, k) = LET i == IF I # {} THEN Max(I) ELSE 0 IN IF i = 0 THEN "none" ELSE l[i].state
  BY DEF VerdictIn, SelectLastInSeq
<1>2. Len(l) \in Nat /\ DOMAIN l = 1..Len(l) /\ I \in SUBSET (1..Len(l)) BY LenProperties
<1>3. CASE I = {}
  <2>1. VerdictIn(l, k) = "none" BY <1>1, <1>3
  <2> QED BY <1>2, <1>3, <2>1
<1>4. CASE I # {}
  <2> HIDE DEF I
  <2>1. Max(I) \in I BY <1>2, <1>4, LastPosition
  <2>2. Max(I) \in 1..Len(l) /\ l[Max(I)].kind = "poll" /\ l[Max(I)].key = k BY <2>1 DEF I
  <2>3. Max(I) # 0 BY <1>2, <2>2
  <2>4. VerdictIn(l, k) = l[Max(I)].state BY <1>1, <1>4, <2>3
  <2>5. l[Max(I)] \in Rows BY <1>2, <2>2, ElementOfSeq
  <2>6. l[Max(I)].state \in {"pending", "done"} BY <2>2, <2>5 DEF Rows
  <2> QED BY <1>2, <2>2, <2>4, <2>6
<1> QED BY <1>3, <1>4

\* Rows are only added: what was dispatched stays so, and what has a verdict keeps one.
LEMMA LedgerGrows ==
  ASSUME ledger \in Seq(Rows), NEW row \in Rows, ledger' = Append(ledger, row)
  PROVE  /\ ledger' \in Seq(Rows) /\ Dispatched \subseteq Dispatched'
         /\ \A i \in DOMAIN ledger : i \in DOMAIN ledger' /\ ledger'[i] = ledger[i]
         /\ \A i \in DOMAIN ledger' : (i \in DOMAIN ledger /\ ledger'[i] = ledger[i]) \/ ledger'[i] = row
         /\ \A k : Verdict(k) # "none" => Verdict(k)' # "none"
<1>1. /\ ledger' \in Seq(Rows) /\ Len(ledger) \in Nat
      /\ DOMAIN ledger = 1..Len(ledger) /\ DOMAIN ledger' = 1..(Len(ledger) + 1)
      /\ \A i \in 1..Len(ledger) : ledger'[i] = ledger[i]
      /\ ledger'[Len(ledger) + 1] = row
  BY AppendProperties, LenProperties
<1>2. \A i \in DOMAIN ledger : i \in DOMAIN ledger' /\ ledger'[i] = ledger[i] BY <1>1
<1>3. \A i \in DOMAIN ledger' : (i \in DOMAIN ledger /\ ledger'[i] = ledger[i]) \/ ledger'[i] = row BY <1>1
<1>4. Dispatched \subseteq Dispatched' BY <1>2 DEF Dispatched
<1>5. ASSUME NEW k, Verdict(k) # "none" PROVE Verdict(k)' # "none"
  <2>0. Verdict(k) = VerdictIn(ledger, k) /\ Verdict(k)' = VerdictIn(ledger', k)
    BY DEF Verdict, VerdictIn, SelectLastInSeq
  <2>1. PICK i \in DOMAIN ledger : ledger[i].kind = "poll" /\ ledger[i].key = k
    BY <1>5, <2>0, VerdictIsOfARow
  <2>2. \E j \in DOMAIN ledger' : ledger'[j].kind = "poll" /\ ledger'[j].key = k BY <1>2, <2>1
  <2>3. VerdictIn(ledger', k) # "none" BY <1>1, <2>2, VerdictIsOfARow
  <2> QED BY <2>0, <2>3
<1> QED BY <1>1, <1>2, <1>3, <1>4, <1>5

SweepPlaces == {"due", "run", "read", "write", "asleep"}
Sweeps == [place : SweepPlaces, ts : Int, next : PollRecords]
Summaries == SUBSET [key : Dispatches, state : {"pending", "done", "un-judged"}]

\* What becomes of the sweep and its record.
LEMMA NoRecordIsOne == NoRecord \in PollRecords /\ ~NoRecord.ok
BY DEF NoRecord, PollRecords

\* The sweep moves on from place to place.
LEMMA SweepFallsDue ==
  ASSUME NEW w \in Sweeps
  PROVE  [w EXCEPT !.place = "due"] \in Sweeps /\ [w EXCEPT !.place = "due"].place = "due"
BY DEF Sweeps, SweepPlaces

\* It sleeps once the time of its run is noted.
LEMMA SweepSleeps ==
  ASSUME NEW w \in Sweeps, NEW t \in Int
  PROVE  /\ [w EXCEPT !.place = "asleep", !.ts = t] \in Sweeps
         /\ [w EXCEPT !.place = "asleep", !.ts = t].place = "asleep"
BY DEF Sweeps, SweepPlaces

\* It sleeps again after its record was written.
LEMMA SweepEnds ==
  ASSUME NEW w \in Sweeps, NEW r \in PollRecords
  PROVE  /\ [w EXCEPT !.place = "asleep", !.next = r] \in Sweeps
         /\ [w EXCEPT !.place = "asleep", !.next = r].place = "asleep"
BY DEF Sweeps, SweepPlaces

\* A record of a failed sweep knows of the dispatches up to then.
LEMMA PollFailedIsOne ==
  ASSUME beat \in Nat, ledger \in Seq(Rows)
  PROVE  PollFailedRow \in PollRecords /\ ~PollFailedRow.ok /\ PollFailedRow.known = Dispatched
<1>1. Dispatched \subseteq Dispatches
  <2>1. \A i \in DOMAIN ledger : ledger[i] \in Rows BY ElementOfSeq, LenProperties
  <2>2. \A i \in DOMAIN ledger : ledger[i].key \in Dispatches \union {NoKey} BY <2>1 DEF Rows
  <2> QED BY <2>2 DEF Dispatched
<1>2. ASSUME NEW r \in PollRecords, NEW t \in Int, NEW d \in SUBSET Dispatches
      PROVE  /\ [r EXCEPT !.ts = t, !.known = d] \in PollRecords
             /\ [r EXCEPT !.ts = t, !.known = d].ok = r.ok
             /\ [r EXCEPT !.ts = t, !.known = d].known = d
  BY DEF PollRecords
<1>3. beat \in Int /\ Dispatched \in SUBSET Dispatches BY <1>1
<1>4. PollFailedRow = [NoRecord EXCEPT !.ts = beat, !.known = Dispatched] BY DEF PollFailedRow
<1> QED BY <1>2, <1>3, <1>4, NoRecordIsOne, ZenonT(60)

\* At first there is no record.
LEMMA PollBegins == PollInit => PollIInv
<1> SUFFICES ASSUME PollInit PROVE PollIInv OBVIOUS
<1>1. <<>> \in Seq(Rows) OBVIOUS
<1>2. beat = 0 /\ finished = {} /\ ledger = <<>> /\ record = NoRecord
      /\ sweep = [place |-> "due", ts |-> 0, next |-> NoRecord]
  BY DEF PollInit
<1>3. sweep \in [place : {"due", "run", "read", "write", "asleep"}, ts : Int, next : PollRecords]
      /\ sweep.place = "due"
  BY <1>2, NoRecordIsOne
<1>4. beat \in Nat /\ finished \subseteq Dispatches /\ ledger \in Seq(Rows) /\ DOMAIN ledger = {}
  BY <1>1, <1>2
<1> QED BY <1>2, <1>3, <1>4, NoRecordIsOne DEF PollIInv

\* What is good to show stays so: the ledger and what is done only grow.
LEMMA RecordStaysOK ==
  ASSUME NEW r, RecordOK(r), finished \subseteq finished',
         \A i \in DOMAIN ledger : i \in DOMAIN ledger' /\ ledger'[i] = ledger[i]
  PROVE  RecordOK(r)'
BY DEF RecordOK

\* Dispatches, verdicts and what Codex has done.
LEMMA LedgerStep ==
  ASSUME PollIInv, \/ \E k \in Dispatches \union {NoKey} : Dispatch(k)
                   \/ \E k \in Dispatches : FinishScript(k) \/ Judge(k)
  PROVE  PollIInv'
<1>1. UNCHANGED <<beat, sweep, record>> /\ finished \subseteq finished' /\ finished' \subseteq Dispatches
  BY DEF PollIInv, Dispatch, FinishScript, Judge
<1>2. ledger \in Seq(Rows) BY DEF PollIInv
<1>3. \/ ledger' = ledger
      \/ \E row \in Rows : /\ ledger' = Append(ledger, row)
                           /\ (row.kind = "poll" /\ row.state = "done") => row.key \in finished'
  <2>1. ASSUME NEW k \in Dispatches \union {NoKey}, Dispatch(k) PROVE <1>3!1 \/ <1>3!2
    <3> DEFINE row == [kind |-> "dispatch", key |-> k]
    <3>1. ledger' = Append(ledger, row) /\ row \in Rows /\ row.kind # "poll" BY <2>1 DEF Dispatch, Rows
    <3> HIDE DEF row
    <3> QED BY <3>1
  <2>2. ASSUME NEW k \in Dispatches, Judge(k) PROVE <1>3!1 \/ <1>3!2
    <3> DEFINE row == [kind |-> "poll", key |-> k, state |-> IF k \in finished THEN "done" ELSE "pending"]
    <3>1. ledger' = Append(ledger, row) /\ finished' = finished BY <2>2 DEF Judge
    <3>2. row \in Rows /\ row.key = k /\ (row.state = "done" => k \in finished) BY DEF Rows
    <3> HIDE DEF row
    <3> QED BY <3>1, <3>2
  <2>3. ASSUME NEW k \in Dispatches, FinishScript(k) PROVE <1>3!1 BY <2>3 DEF FinishScript
  <2> QED BY <2>1, <2>2, <2>3
<1>4. /\ ledger' \in Seq(Rows) /\ Dispatched \subseteq Dispatched'
      /\ \A i \in DOMAIN ledger : i \in DOMAIN ledger' /\ ledger'[i] = ledger[i]
      /\ \A i \in DOMAIN ledger' :
           \/ i \in DOMAIN ledger /\ ledger'[i] = ledger[i]
           \/ (ledger'[i].kind = "poll" /\ ledger'[i].state = "done") => ledger'[i].key \in finished'
      /\ \A k : Verdict(k) # "none" => Verdict(k)' # "none"
  <2>1. CASE ledger' = ledger
    <3>1. \A k : Verdict(k)' = Verdict(k) BY <2>1 DEF Verdict, SelectLastInSeq
    <3>2. Dispatched' = Dispatched BY <2>1 DEF Dispatched
    <3> QED BY <1>2, <2>1, <3>1, <3>2
  <2>2. ASSUME NEW row \in Rows, ledger' = Append(ledger, row),
               row.kind = "poll" /\ row.state = "done" => row.key \in finished'
        PROVE  <1>4
    <3>1. /\ ledger' \in Seq(Rows) /\ Dispatched \subseteq Dispatched'
          /\ \A i \in DOMAIN ledger : i \in DOMAIN ledger' /\ ledger'[i] = ledger[i]
          /\ \A i \in DOMAIN ledger' : (i \in DOMAIN ledger /\ ledger'[i] = ledger[i]) \/ ledger'[i] = row
          /\ \A k : Verdict(k) # "none" => Verdict(k)' # "none"
      BY <1>2, <2>2, LedgerGrows
    <3> QED BY <2>2, <3>1
  <2>3. CASE \E row \in Rows : /\ ledger' = Append(ledger, row)
                               /\ (row.kind = "poll" /\ row.state = "done") => row.key \in finished'
    BY <2>2, <2>3
  <2> QED BY <1>3, <2>1, <2>3
<1>5. \A i \in DOMAIN ledger' :
        ledger'[i].kind = "poll" /\ ledger'[i].state = "done" => ledger'[i].key \in finished'
  BY <1>1, <1>4 DEF PollIInv
<1>6. \A r : RecordOK(r) => RecordOK(r)' BY <1>1, <1>4, RecordStaysOK
<1>7. sweep'.place \in {"run", "read"} => sweep'.next.known \subseteq Dispatched' BY <1>1, <1>4 DEF PollIInv
<1>8. sweep'.place = "read" /\ sweep'.next.ok => \A k \in sweep'.next.known : Verdict(k)' # "none"
  BY <1>1, <1>4 DEF PollIInv
<1>9. /\ beat' \in Nat /\ sweep' \in [place : {"due", "run", "read", "write", "asleep"}, ts : Int, next : PollRecords]
      /\ record' \in PollRecords /\ (sweep'.place = "run" => ~sweep'.next.ok)
  BY <1>1 DEF PollIInv
<1>10. sweep'.place = "write" /\ sweep'.next.ok => RecordOK(sweep.next)' BY <1>1, <1>6 DEF PollIInv
<1>11. record'.ok => RecordOK(record)' 
  <2>1. ASSUME record'.ok PROVE RecordOK(record)'
    <3>1. RecordOK(record) BY <1>1, <2>1 DEF PollIInv
    <3> QED BY <1>1, <1>4, <3>1 DEF RecordOK
  <2> QED BY <2>1
<1> QED BY <1>1, <1>4, <1>5, <1>7, <1>8, <1>9, <1>10, <1>11 DEF PollIInv

\* A step that leaves the ledger and what is done alone.
LEMMA SweepStep ==
  ASSUME PollIInv, beat' \in Nat, UNCHANGED <<finished, ledger>>,
         sweep' \in Sweeps, record' \in PollRecords,
         sweep'.place \in {"run", "read"} => sweep'.next.known \subseteq Dispatched,
         sweep'.place = "read" /\ sweep'.next.ok => \A k \in sweep'.next.known : Verdict(k) # "none",
         sweep'.place = "run" => ~sweep'.next.ok,
         sweep'.place = "write" /\ sweep'.next.ok => RecordOK(sweep'.next),
         record'.ok => RecordOK(record')
  PROVE  PollIInv'
<1>1. Dispatched' = Dispatched /\ \A k : Verdict(k)' = Verdict(k) BY DEF Dispatched, Verdict, SelectLastInSeq
<1>2. sweep'.place = "write" /\ sweep'.next.ok => RecordOK(sweep.next)' BY DEF RecordOK
<1>3. record'.ok => RecordOK(record)' BY DEF RecordOK
<1>4. /\ beat' \in Nat /\ finished' \subseteq Dispatches /\ ledger' \in Seq(Rows)
      /\ \A i \in DOMAIN ledger' :
           ledger'[i].kind = "poll" /\ ledger'[i].state = "done" => ledger'[i].key \in finished'
  BY DEF PollIInv
<1>5. sweep' \in [place : {"due", "run", "read", "write", "asleep"}, ts : Int, next : PollRecords]
  BY DEF Sweeps, SweepPlaces
<1>6. sweep'.place \in {"run", "read"} => sweep'.next.known \subseteq Dispatched' BY <1>1
<1>7. sweep'.place = "read" /\ sweep'.next.ok => \A k \in sweep'.next.known : Verdict(k)' # "none" BY <1>1
<1> QED BY <1>2, <1>3, <1>4, <1>5, <1>6, <1>7 DEF PollIInv

\* The clock, the configuration and the loop of the sweep.
LEMMA ClockStep == ASSUME PollIInv, BeatPasses PROVE PollIInv'
<1>1. beat \in Nat /\ beat' \in Nat /\ UNCHANGED <<finished, ledger, record>> BY DEF BeatPasses, PollIInv
<1>2. sweep \in Sweeps BY DEF PollIInv, Sweeps, SweepPlaces
<1>3. CASE sweep' = sweep BY <1>1, <1>2, <1>3, SweepStep DEF PollIInv
<1>4. CASE sweep' = [sweep EXCEPT !.place = "due"]
  <2>1. sweep' \in Sweeps /\ sweep'.place = "due" BY <1>2, <1>4, SweepFallsDue, Zenon
  <2> QED BY <1>1, <2>1, SweepStep DEF PollIInv
<1> QED BY <1>3, <1>4 DEF BeatPasses

\* A sweep begins with a look at what was dispatched (_codex_poll_once).
LEMMA BeginStep == ASSUME PollIInv, BeginSweep PROVE PollIInv'
<1>1. beat \in Nat /\ beat' \in Nat /\ UNCHANGED <<finished, ledger, record>> BY DEF BeginSweep, PollIInv
<1>2. sweep \in Sweeps BY DEF PollIInv, Sweeps, SweepPlaces
<1>3. PollFailedRow \in PollRecords /\ ~PollFailedRow.ok /\ PollFailedRow.known = Dispatched
  BY PollFailedIsOne DEF PollIInv
<1>4. \/ sweep' = [sweep EXCEPT !.place = "asleep", !.ts = beat]
      \/ sweep' = [place |-> "write", ts |-> beat, next |-> PollFailedRow]
      \/ sweep' = [place |-> "run", ts |-> beat, next |-> PollFailedRow]
  BY DEF BeginSweep
<1>5. CASE sweep' = [sweep EXCEPT !.place = "asleep", !.ts = beat]
  <2>1. beat \in Int BY <1>1
  <2>2. sweep' \in Sweeps /\ sweep'.place = "asleep" BY <1>2, <1>5, <2>1, SweepSleeps, Zenon
  <2> QED BY <1>1, <2>2, SweepStep DEF PollIInv
<1>6. ASSUME NEW p \in {"write", "run"}, sweep' = [place |-> p, ts |-> beat, next |-> PollFailedRow]
      PROVE  PollIInv'
  <2>1. sweep' \in Sweeps BY <1>1, <1>3, <1>6 DEF Sweeps, SweepPlaces
  <2>2. sweep'.place = p /\ sweep'.next = PollFailedRow BY <1>6
  <2>3. record' \in PollRecords /\ (record'.ok => RecordOK(record')) BY <1>1 DEF PollIInv
  <2> QED BY <1>1, <1>3, <2>1, <2>2, <2>3, SweepStep
<1> QED BY <1>4, <1>5, <1>6

\* The script of the sweep judges all that was dispatched, or fails.
LEMMA ScriptStep == ASSUME PollIInv, NEW rc \in {"ok", "refused", "late"}, ScriptEnds(rc) PROVE PollIInv'
<1>1. beat' \in Nat /\ UNCHANGED <<finished, ledger, record>> /\ sweep.place = "run"
  BY DEF ScriptEnds, PollIInv
<1>2. sweep \in Sweeps /\ sweep.next.known \subseteq Dispatched BY <1>1 DEF PollIInv, Sweeps, SweepPlaces
<1> DEFINE p == IF rc = "late" THEN "write" ELSE "read"
           b == rc = "ok"
<1>3. sweep' = [sweep EXCEPT !.place = p, !.next.ok = b] BY DEF ScriptEnds
<1>4. p \in SweepPlaces /\ b \in BOOLEAN /\ (p = "write" => ~b) /\ p \in {"read", "write"} BY DEF SweepPlaces
<1>5. b => \A k \in Dispatched : Verdict(k) # "none" BY DEF ScriptEnds
<1> HIDE DEF p, b
<1>6. sweep' \in Sweeps /\ sweep'.place = p /\ sweep'.next.ok = b /\ sweep'.next.known = sweep.next.known
  BY <1>2, <1>3, <1>4 DEF Sweeps, PollRecords
<1>7. record' \in PollRecords /\ (record'.ok => RecordOK(record')) BY <1>1 DEF PollIInv
<1>8. sweep'.place \in {"run", "read"} => sweep'.next.known \subseteq Dispatched BY <1>2, <1>6
<1>9. sweep'.place = "read" /\ sweep'.next.ok => \A k \in sweep'.next.known : Verdict(k) # "none"
  BY <1>2, <1>5, <1>6
<1>10. (sweep'.place = "run" => ~sweep'.next.ok) /\ ~(sweep'.place = "write" /\ sweep'.next.ok) BY <1>4, <1>6
<1> QED BY <1>1, <1>6, <1>7, <1>8, <1>9, <1>10, SweepStep

\* What is read back of the ledger is good to show, if the script has judged what the sweep knew.
LEMMA ReadStep == ASSUME PollIInv, ReadBack PROVE PollIInv'
<1>1. beat' \in Nat /\ UNCHANGED <<finished, ledger, record>> /\ sweep.place = "read" /\ ledger \in Seq(Rows)
  BY DEF ReadBack, PollIInv
<1>2. sweep \in Sweeps /\ sweep.next.known \subseteq Dispatched BY <1>1 DEF PollIInv, Sweeps, SweepPlaces
<1> DEFINE m == {[key |-> k, state |-> State(k)] : k \in Dispatched}
           unkeyed == {i \in DOMAIN ledger : ledger[i].key = NoKey}
           n == Cardinality(unkeyed)
<1>3. sweep' = [sweep EXCEPT !.place = "write", !.next.summary = m, !.next.unkeyed = n] BY DEF ReadBack
<1>4. n \in Nat
  <2>1. DOMAIN ledger = 1..Len(ledger) /\ Len(ledger) \in Nat BY <1>1, LenProperties
  <2>2. IsFiniteSet(DOMAIN ledger) BY <2>1, FS_Interval
  <2>3. unkeyed \subseteq DOMAIN ledger OBVIOUS
  <2>4. IsFiniteSet(unkeyed) BY <2>2, <2>3, FS_Subset
  <2> QED BY <2>4, FS_CardinalityType
<1>5. \A k : /\ State(k) \in {"pending", "done", "un-judged"} /\ (State(k) = "un-judged" => Verdict(k) = "none")
             /\ State(k) # "un-judged" =>
                  \E i \in DOMAIN ledger : ledger[i].kind = "poll" /\ ledger[i].key = k /\ ledger[i].state = State(k)
  <2> SUFFICES ASSUME NEW k
               PROVE  /\ State(k) \in {"pending", "done", "un-judged"} /\ (State(k) = "un-judged" => Verdict(k) = "none")
                      /\ State(k) # "un-judged" =>
                           \E i \in DOMAIN ledger : ledger[i].kind = "poll" /\ ledger[i].key = k /\ ledger[i].state = State(k)
    OBVIOUS
  <2>1. Verdict(k) = VerdictIn(ledger, k) BY DEF Verdict, VerdictIn, SelectLastInSeq
  <2>2. Verdict(k) \in {"none", "pending", "done"} BY <1>1, <2>1, VerdictIsOfARow
  <2>3. Verdict(k) # "none" =>
          \E i \in DOMAIN ledger : ledger[i].kind = "poll" /\ ledger[i].key = k /\ ledger[i].state = Verdict(k)
    BY <1>1, <2>1, VerdictIsOfARow
  <2>4. State(k) = IF Verdict(k) = "none" THEN "un-judged" ELSE Verdict(k) BY DEF State
  <2> QED BY <2>2, <2>3, <2>4
<1>6. Dispatched \subseteq Dispatches BY <1>1, PollFailedIsOne DEF PollIInv, PollRecords
<1>7. m \in Summaries BY <1>5, <1>6 DEF Summaries
<1> HIDE DEF n
<1>8. /\ sweep' \in Sweeps /\ sweep'.place = "write" /\ sweep'.next.ok = sweep.next.ok
      /\ sweep'.next.known = sweep.next.known /\ sweep'.next.summary = m
  <2> HIDE DEF m
  <2> QED BY <1>2, <1>3, <1>4, <1>7 DEF Sweeps, PollRecords, SweepPlaces, Summaries
<1>9. ASSUME sweep'.next.ok PROVE RecordOK(sweep'.next)
  <2>1. \A k \in sweep.next.known : Verdict(k) # "none" BY <1>1, <1>8, <1>9 DEF PollIInv
  <2>2. sweep'.next.known \subseteq {row.key : row \in m}
    <3>1. ASSUME NEW k \in Dispatched PROVE k \in {row.key : row \in m}
      <4> DEFINE row == [key |-> k, state |-> State(k)]
      <4>1. row \in m /\ row.key = k OBVIOUS
      <4> HIDE DEF row, m
      <4> QED BY <4>1
    <3> QED BY <1>2, <1>8, <3>1
  <2>3. ASSUME NEW row \in m
        PROVE  IF row.state = "un-judged" THEN row.key \notin sweep'.next.known
               ELSE /\ \E i \in DOMAIN ledger : /\ ledger[i].kind = "poll" /\ ledger[i].key = row.key
                                                /\ ledger[i].state = row.state
                    /\ row.state = "done" => row.key \in finished
    <3>1. PICK k \in Dispatched : row = [key |-> k, state |-> State(k)] OBVIOUS
    <3>2. row.key = k /\ row.state = State(k) BY <3>1
    <3>3. CASE row.state = "un-judged" BY <1>5, <1>8, <2>1, <3>2, <3>3
    <3>4. CASE row.state # "un-judged"
      <4>1. PICK i \in DOMAIN ledger : ledger[i].kind = "poll" /\ ledger[i].key = k /\ ledger[i].state = State(k)
        BY <1>5, <3>2, <3>4
      <4>2. State(k) = "done" => k \in finished BY <4>1 DEF PollIInv
      <4> QED BY <3>2, <3>4, <4>1, <4>2
    <3> QED BY <3>3, <3>4
  <2> HIDE DEF m
  <2> QED BY <1>8, <2>2, <2>3 DEF RecordOK
<1>10. record' \in PollRecords /\ (record'.ok => RecordOK(record')) BY <1>1 DEF PollIInv
<1> HIDE DEF m
<1> QED BY <1>1, <1>8, <1>9, <1>10, SweepStep

\* The record that was found is kept or written as it is, or the server ends within the sweep.
LEMMA RecordStep ==
  ASSUME PollIInv, RestartSweep \/ \E written \in BOOLEAN : WriteRecord(written)
  PROVE  PollIInv'
<1>1. sweep \in Sweeps BY DEF PollIInv, Sweeps, SweepPlaces
<1>2. CASE RestartSweep
  <2>1. sweep' \in Sweeps /\ sweep'.place = "due"
    BY <1>2, NoRecordIsOne DEF RestartSweep, Sweeps, SweepPlaces, PollIInv
  <2>2. beat' \in Nat /\ UNCHANGED <<finished, ledger, record>> BY <1>2 DEF RestartSweep, PollIInv
  <2>3. record' \in PollRecords /\ (record'.ok => RecordOK(record')) BY <2>2 DEF PollIInv
  <2> QED BY <2>1, <2>2, <2>3, SweepStep
<1>3. ASSUME NEW written \in BOOLEAN, WriteRecord(written) PROVE PollIInv'
  <2>1. /\ beat' \in Nat /\ UNCHANGED <<finished, ledger>> /\ sweep.place = "write"
        /\ record' = IF written THEN sweep.next ELSE record
        /\ sweep' = [sweep EXCEPT !.place = "asleep", !.next = NoRecord]
    BY <1>3 DEF WriteRecord, PollIInv
  <2>2. sweep' \in Sweeps /\ sweep'.place = "asleep" BY <1>1, <2>1, NoRecordIsOne, SweepEnds, Zenon
  <2>3. sweep.next \in PollRecords /\ (sweep.next.ok => RecordOK(sweep.next))
        /\ record \in PollRecords /\ (record.ok => RecordOK(record))
    BY <2>1 DEF PollIInv
  <2>4. record' \in PollRecords /\ (record'.ok => RecordOK(record')) BY <2>1, <2>3
  <2> QED BY <2>1, <2>2, <2>4, SweepStep
<1> QED BY <1>2, <1>3

\* Every step keeps the record honest.
LEMMA PollStep == ASSUME PollIInv, [PollNext]_pollVars PROVE PollIInv'
<1>1. CASE (\E k \in Dispatches \union {NoKey} : Dispatch(k)) \/ \E k \in Dispatches : FinishScript(k) \/ Judge(k)
  BY <1>1, LedgerStep
<1>2. CASE BeatPasses BY <1>2, ClockStep
<1>3. CASE BeginSweep BY <1>3, BeginStep
<1>4. CASE ReadBack BY <1>4, ReadStep
<1>5. CASE RestartSweep \/ \E written \in BOOLEAN : WriteRecord(written) BY <1>5, RecordStep
<1>6. CASE \E rc \in {"ok", "refused", "late"} : ScriptEnds(rc) BY <1>6, ScriptStep
<1>7. CASE (\E new \in [enabled : BOOLEAN, present : BOOLEAN] : Reconfigure(new)) \/ UNCHANGED pollVars
  <2>1. UNCHANGED <<beat, finished, ledger, sweep, record>> BY <1>7 DEF Reconfigure, pollVars
  <2>2. beat' \in Nat /\ sweep' \in Sweeps BY <2>1 DEF PollIInv, Sweeps, SweepPlaces
  <2>3. record' \in PollRecords /\ (record'.ok => RecordOK(record'))
        /\ (sweep'.place = "write" /\ sweep'.next.ok => RecordOK(sweep'.next))
    BY <2>1 DEF PollIInv
  <2>4. (sweep'.place \in {"run", "read"} => sweep'.next.known \subseteq Dispatched)
        /\ (sweep'.place = "read" /\ sweep'.next.ok => \A k \in sweep'.next.known : Verdict(k) # "none")
        /\ (sweep'.place = "run" => ~sweep'.next.ok)
    BY <2>1 DEF PollIInv
  <2> QED BY <2>1, <2>2, <2>3, <2>4, SweepStep
<1> QED BY <1>1, <1>2, <1>3, <1>4, <1>5, <1>6, <1>7 DEF PollNext

\* What every state of the sweep keeps.
LEMMA PollInvariance == PollSpec => []PollIInv
<1>1. PollInit => PollIInv BY PollBegins
<1>2. PollIInv /\ [PollNext]_pollVars => PollIInv' BY PollStep
<1> QED BY <1>1, <1>2, PTL DEF PollSpec

\* A card that shows no warning stands on what the script said: a sweep that judged nothing, was
\* refused, came too late or ended halfway is not taken for a quiet day (codex_poll_loop,
\* _codex_ledger_summary).
THEOREM CalmCardsAreHonest == PollSpec => []CardIsHonest
<1>1. PollIInv => CardIsHonest BY DEF PollIInv, RecordOK, CardIsHonest, Calm
<1>2. PollSpec => []PollIInv BY PollInvariance
<1> QED BY <1>1, <1>2, PTL

\* What every state keeps is typed, but for the clock's bound and the configuration.
LEMMA PollIsTyped == PollSpec => []PollTypeOK
<1> DEFINE Bounded == beat \in 0..MaxBeat /\ setup \in [enabled : BOOLEAN, present : BOOLEAN]
<1>0. MaxBeat \in Nat BY PollAssumption
<1>1. PollInit => Bounded
  <2> SUFFICES ASSUME PollInit PROVE Bounded OBVIOUS
  <2>1. PICK present \in BOOLEAN : setup = [enabled |-> TRUE, present |-> present] BY Zenon DEF PollInit
  <2>2. PICK enabled \in BOOLEAN : enabled = TRUE OBVIOUS
  <2>3. setup = [enabled |-> enabled, present |-> present] BY <2>1, <2>2
  <2> QED BY <1>0, <2>3 DEF PollInit
<1>2. Bounded /\ [PollNext]_pollVars => Bounded'
  <2> SUFFICES ASSUME Bounded, [PollNext]_pollVars PROVE Bounded' OBVIOUS
  <2>1. CASE UNCHANGED <<beat, setup>> BY <2>1
  <2>2. CASE BeatPasses BY <1>0, <2>2 DEF BeatPasses
  <2>3. CASE BeginSweep \/ ReadBack \/ RestartSweep BY <2>1, <2>3 DEF BeginSweep, ReadBack, RestartSweep
  <2>4. ASSUME NEW k, Dispatch(k) \/ FinishScript(k) \/ Judge(k) PROVE Bounded'
    BY <2>1, <2>4 DEF Dispatch, FinishScript, Judge
  <2>5. ASSUME NEW new \in [enabled : BOOLEAN, present : BOOLEAN], Reconfigure(new) PROVE Bounded'
    BY <2>5 DEF Reconfigure
  <2>6. ASSUME NEW rc, ScriptEnds(rc) PROVE Bounded' BY <2>1, <2>6 DEF ScriptEnds
  <2>7. ASSUME NEW written, WriteRecord(written) PROVE Bounded' BY <2>1, <2>7 DEF WriteRecord
  <2>8. CASE UNCHANGED pollVars BY <2>1, <2>8 DEF pollVars
  <2> QED BY <2>2, <2>3, <2>4, <2>5, <2>6, <2>7, <2>8 DEF PollNext
<1>3. PollIInv /\ Bounded => PollTypeOK BY DEF PollIInv, PollTypeOK
<1>4. PollSpec => []PollIInv BY PollInvariance
<1> HIDE DEF Bounded
<1> QED BY <1>1, <1>2, <1>3, <1>4, PTL DEF PollSpec

-----------------------------------------------------------------------------
(* The counter of the knowledge base *)

\* Of the numbers that git's list gave: no less than was there before minute m, no more than is there.
CountedSince(n, m) == Cardinality(past[m]) <= n /\ n <= Cardinality(kbAdded)

\* An answer that is right for minute m: an error, a failed list, or such numbers.
AnswerSince(d, m) ==
  \/ d = NoAnswer
  \/ \E t : \E listed \in BOOLEAN, s \in Nat, c \in Nat :
       /\ d = [available |-> TRUE, listed |-> listed, tickets |-> t, sources |-> s, cards |-> c]
       /\ listed => CountedSince(s + c, m)

\* While a thread counts no time passes.  What is kept is right for the time it carries, unless a
\* thread is between its two writes; and so is what was shown last.
AskerOK(a) ==
  /\ asker[a].at \in {"idle", "counted", "stamped"}
  /\ asker[a].at # "idle" => AnswerSince(asker[a].data, minute)
  /\ asker[a].at = "stamped" => kbCache.ts = minute
ShownOK == ~kbShown.torn => \E m \in 0..minute : kbShown.at - KbTtl < m /\ AnswerSince(kbShown.data, m)

KbIInv ==
  /\ minute \in Nat /\ IsFiniteSet(kbAdded) /\ kbAdded \subseteq Files
  /\ past \in [0..minute -> SUBSET kbAdded]
  /\ \A i, j \in 0..minute : i <= j => past[i] \subseteq past[j]
  /\ kbCache = [ts |-> kbCache.ts, data |-> kbCache.data, filled |-> kbCache.filled]
  /\ kbCache.ts \in 0..minute /\ kbCache.filled \in BOOLEAN
  /\ asker = [a \in Askers |-> [at |-> asker[a].at, data |-> asker[a].data]]
  /\ \A a \in Askers : AskerOK(a)
  /\ kbCache.filled /\ ~Torn => AnswerSince(kbCache.data, kbCache.ts)
  /\ kbShown.at \in 0..minute /\ ShownOK

\* A list of git's is as long as what it lists.
LEMMA CountsAreRight ==
  ASSUME KbIInv, NEW git \in {"done", "failed", "error"}, NEW readable
  PROVE  AnswerSince(Counted(git, readable), minute)
<1>1. CASE git = "error" BY <1>1 DEF Counted, AnswerSince
<1>2. CASE git # "error"
  <2> DEFINE names == IF git = "done" THEN kbAdded ELSE {}
             S == {f \in names : f.kind = "source"}
             C == {f \in names : f.kind = "card"}
             t == KbTicketCounts(readable)
  <2>1. Counted(git, readable) = [available |-> TRUE, listed |-> git = "done", tickets |-> t,
                                  sources |-> Cardinality(S), cards |-> Cardinality(C)]
    BY <1>2 DEF Counted
  <2>2. IsFiniteSet(names) /\ names \subseteq Files BY FS_EmptySet DEF KbIInv
  <2>3. names = S \union C BY <2>2, KbAssumption
  <2>4. S \intersect C = {} OBVIOUS
  <2>5. S \subseteq names /\ C \subseteq names OBVIOUS
  <2>6. git = "done" => names = kbAdded OBVIOUS
  <2> HIDE DEF names, S, C, t
  <2>7. IsFiniteSet(S) /\ IsFiniteSet(C) /\ Cardinality(S) \in Nat /\ Cardinality(C) \in Nat
    BY <2>2, <2>5, FS_Subset, FS_CardinalityType
  <2>8. Cardinality(names) = Cardinality(S) + Cardinality(C)
    <3>1. Cardinality(S \union C) = Cardinality(S) + Cardinality(C) - Cardinality(S \intersect C)
      BY <2>7, FS_Union
    <3>2. Cardinality(S \intersect C) = 0 BY <2>4, FS_EmptySet
    <3> QED BY <2>3, <2>7, <3>1, <3>2
  <2>9. past[minute] \subseteq kbAdded BY DEF KbIInv
  <2>10. /\ Cardinality(past[minute]) <= Cardinality(kbAdded)
         /\ Cardinality(past[minute]) \in Nat /\ Cardinality(kbAdded) \in Nat
    BY <2>9, FS_Subset, FS_CardinalityType DEF KbIInv
  <2>11. git = "done" => CountedSince(Cardinality(S) + Cardinality(C), minute)
    BY <2>6, <2>8, <2>10 DEF CountedSince
  <2>12. PICK s \in Nat, c \in Nat, listed \in BOOLEAN :
           s = Cardinality(S) /\ c = Cardinality(C) /\ listed = (git = "done")
    BY <2>7
  <2>13. Counted(git, readable) = [available |-> TRUE, listed |-> listed, tickets |-> t, sources |-> s, cards |-> c]
         /\ (listed => CountedSince(s + c, minute))
    BY <2>1, <2>11, <2>12
  <2> QED BY <2>13 DEF AnswerSince
<1> QED BY <1>1, <1>2

\* What was right for a minute stays so, and is right for every minute before it.
LEMMA AnswerStays ==
  ASSUME NEW d, NEW m, AnswerSince(d, m), past'[m] = past[m], kbAdded \subseteq kbAdded',
         IsFiniteSet(kbAdded')
  PROVE  AnswerSince(d, m)'
<1>1. IsFiniteSet(kbAdded) /\ Cardinality(kbAdded) <= Cardinality(kbAdded')
      /\ Cardinality(kbAdded) \in Nat /\ Cardinality(kbAdded') \in Nat
  BY FS_Subset, FS_CardinalityType
<1>2. ASSUME NEW n \in Nat, CountedSince(n, m) PROVE CountedSince(n, m)'
  BY <1>1, <1>2 DEF CountedSince
<1>3. CASE d = NoAnswer BY <1>3 DEF AnswerSince, NoAnswer
<1>4. CASE \E t : \E listed \in BOOLEAN, s \in Nat, c \in Nat :
             /\ d = [available |-> TRUE, listed |-> listed, tickets |-> t, sources |-> s, cards |-> c]
             /\ listed => CountedSince(s + c, m)
  <2>1. PICK t : \E listed \in BOOLEAN, s \in Nat, c \in Nat :
             /\ d = [available |-> TRUE, listed |-> listed, tickets |-> t, sources |-> s, cards |-> c]
             /\ listed => CountedSince(s + c, m)
    BY <1>4
  <2>4. PICK listed \in BOOLEAN, s \in Nat, c \in Nat :
             /\ d = [available |-> TRUE, listed |-> listed, tickets |-> t, sources |-> s, cards |-> c]
             /\ listed => CountedSince(s + c, m)
    BY <2>1
  <2>2. s + c \in Nat OBVIOUS
  <2>3. listed => CountedSince(s + c, m)' BY <1>2, <2>4, <2>2
  <2> QED BY <2>4, <2>3 DEF AnswerSince
<1> QED BY <1>3, <1>4 DEF AnswerSince

\* At first nothing was counted.
LEMMA KbBegins == KbInit => KbIInv
<1> SUFFICES ASSUME KbInit PROVE KbIInv OBVIOUS
<1>1. /\ minute = 0 /\ kbAdded = {} /\ past = [m \in {0} |-> {}] /\ 0..minute = {0}
      /\ kbCache = [ts |-> 0, data |-> NoAnswer, filled |-> FALSE]
      /\ asker = [a \in Askers |-> [at |-> "idle", data |-> NoAnswer]]
      /\ kbShown = [at |-> 0, data |-> NoAnswer, torn |-> FALSE]
  BY DEF KbInit
<1>2. /\ IsFiniteSet(kbAdded) /\ kbAdded \subseteq Files /\ past \in [0..minute -> SUBSET kbAdded]
      /\ \A i, j \in 0..minute : i <= j => past[i] \subseteq past[j]
  BY <1>1, FS_EmptySet
<1>3. /\ kbCache = [ts |-> kbCache.ts, data |-> kbCache.data, filled |-> kbCache.filled]
      /\ kbCache.ts \in 0..minute /\ kbCache.filled \in BOOLEAN /\ ~kbCache.filled
      /\ \A a \in Askers : asker[a].at = "idle"
  BY <1>1
<1>4. asker = [a \in Askers |-> [at |-> asker[a].at, data |-> asker[a].data]] BY <1>1
<1>5. kbShown.at \in 0..minute /\ kbShown.at - KbTtl < 0 /\ AnswerSince(kbShown.data, 0)
  BY <1>1, KbAssumption DEF AnswerSince
<1>6. \E m \in 0..minute : kbShown.at - KbTtl < m /\ AnswerSince(kbShown.data, m) BY <1>1, <1>5
<1> QED BY <1>1, <1>2, <1>3, <1>4, <1>5, <1>6 DEF KbIInv, AskerOK, ShownOK

\* Time passes and the knowledge base grows.
LEMMA BaseGrows ==
  ASSUME KbIInv, KbTick \/ \E f \in Files : AddFile(f)
  PROVE  KbIInv'
<1>1. /\ UNCHANGED <<kbCache, asker, kbShown>> /\ minute \in Nat /\ minute' \in Nat
      /\ kbAdded \subseteq kbAdded' /\ IsFiniteSet(kbAdded') /\ kbAdded' \subseteq Files
      /\ minute' # minute => \A a \in Askers : asker[a].at = "idle"
      /\ minute <= minute'
  <2>1. CASE KbTick BY <2>1 DEF KbTick, KbIInv
  <2>2. ASSUME NEW f \in Files, AddFile(f) PROVE <1>1
    <3>1. IsFiniteSet(kbAdded \union {f}) BY FS_AddElement DEF KbIInv
    <3> QED BY <2>2, <3>1 DEF AddFile, KbIInv
  <2> QED BY <2>1, <2>2
<1>2. /\ past' \in [0..minute' -> SUBSET kbAdded'] /\ \A m \in 0..minute : past'[m] = past[m]
      /\ \A i, j \in 0..minute' : i <= j => past'[i] \subseteq past'[j]
  <2>1. CASE KbTick
    <3>1. /\ minute' = minute + 1 /\ kbAdded' = kbAdded
          /\ past' = [m \in 0..minute' |-> IF m = minute' THEN kbAdded ELSE past[m]]
      BY <2>1 DEF KbTick
    <3>2. \A m \in 0..minute' : m = minute' \/ m \in 0..minute BY <1>1, <3>1
    <3>3. past \in [0..minute -> SUBSET kbAdded] BY DEF KbIInv
    <3>4. past' \in [0..minute' -> SUBSET kbAdded'] BY <3>1, <3>2, <3>3
    <3>5. \A m \in 0..minute : past'[m] = past[m] /\ m # minute' BY <1>1, <3>1
    <3>6. past'[minute'] = kbAdded /\ \A m \in 0..minute' : past'[m] \subseteq kbAdded
      BY <1>1, <3>1, <3>4
    <3>7. \A i, j \in 0..minute' : i <= j => past'[i] \subseteq past'[j]
      <4> SUFFICES ASSUME NEW i \in 0..minute', NEW j \in 0..minute', i <= j PROVE past'[i] \subseteq past'[j]
        OBVIOUS
      <4>1. CASE j = minute' BY <3>6, <4>1
      <4>2. CASE j # minute'
        <5>1. i \in 0..minute /\ j \in 0..minute BY <1>1, <3>1, <4>2
        <5> QED BY <3>5, <5>1 DEF KbIInv
      <4> QED BY <4>1, <4>2
    <3> QED BY <3>4, <3>5, <3>7
  <2>2. CASE \E f \in Files : AddFile(f)
    <3>1. past' = past /\ minute' = minute BY <2>2 DEF AddFile
    <3> QED BY <1>1, <3>1 DEF KbIInv
  <2> QED BY <2>1, <2>2
<1>3. ASSUME NEW d, NEW m \in 0..minute, AnswerSince(d, m) PROVE AnswerSince(d, m)'
  BY <1>1, <1>2, <1>3, AnswerStays
<1>4. /\ kbCache' = [ts |-> kbCache'.ts, data |-> kbCache'.data, filled |-> kbCache'.filled]
      /\ kbCache'.ts \in 0..minute' /\ kbCache'.filled \in BOOLEAN
      /\ asker' = [a \in Askers |-> [at |-> asker'[a].at, data |-> asker'[a].data]]
      /\ kbShown'.at \in 0..minute'
  BY <1>1 DEF KbIInv
<1>5. ASSUME NEW a \in Askers
      PROVE  /\ asker'[a].at \in {"idle", "counted", "stamped"}
             /\ asker'[a].at # "idle" => AnswerSince(asker[a].data, minute)'
             /\ asker'[a].at = "stamped" => kbCache'.ts = minute'
  <2>1. asker'[a] = asker[a] /\ asker[a].at \in {"idle", "counted", "stamped"} BY <1>1 DEF KbIInv, AskerOK
  <2>2. CASE asker[a].at = "idle" BY <2>1, <2>2
  <2>3. CASE asker[a].at # "idle"
    <3>1. minute' = minute BY <1>1, <2>3
    <3>2. AnswerSince(asker[a].data, minute) /\ minute \in 0..minute BY <1>1, <2>3 DEF KbIInv, AskerOK
    <3>3. \A d : AnswerSince(d, minute) => AnswerSince(d, minute)' BY <1>1, <1>2, <3>1, <3>2, AnswerStays
    <3>4. asker[a].at = "stamped" => kbCache.ts = minute BY DEF KbIInv, AskerOK
    <3> QED BY <1>1, <2>1, <3>1, <3>2, <3>3, <3>4
  <2> QED BY <2>2, <2>3
<1>6. kbCache'.filled /\ ~Torn' => AnswerSince(kbCache.data, kbCache.ts)'
  <2>1. Torn' = Torn BY <1>1 DEF Torn
  <2>2. ASSUME kbCache.filled, ~Torn PROVE AnswerSince(kbCache.data, kbCache.ts)'
    <3>1. PICK d, m : d = kbCache.data /\ m = kbCache.ts OBVIOUS
    <3>2. AnswerSince(d, m) /\ m \in 0..minute BY <2>2, <3>1 DEF KbIInv
    <3>3. AnswerSince(d, m)' BY <1>3, <3>2
    <3>4. kbCache'.data = d /\ kbCache'.ts = m BY <1>1, <3>1
    <3> QED BY <3>3, <3>4 DEF AnswerSince, CountedSince
  <2> QED BY <1>1, <2>1, <2>2
<1>7. ~kbShown'.torn => \E m \in 0..minute' : kbShown'.at - KbTtl < m /\ AnswerSince(kbShown.data, m)'
  <2> SUFFICES ASSUME ~kbShown.torn
               PROVE  \E m \in 0..minute' : kbShown.at - KbTtl < m /\ AnswerSince(kbShown.data, m)'
    BY <1>1
  <2>1. PICK m \in 0..minute : kbShown.at - KbTtl < m /\ AnswerSince(kbShown.data, m) BY DEF KbIInv, ShownOK
  <2>2. PICK d : d = kbShown.data OBVIOUS
  <2>3. AnswerSince(d, m)' BY <1>3, <2>1, <2>2
  <2>4. kbShown'.data = d BY <1>1, <2>2
  <2>5. AnswerSince(kbShown.data, m)' BY <2>3, <2>4 DEF AnswerSince, CountedSince
  <2>6. m \in 0..minute' BY <1>1
  <2> QED BY <2>1, <2>5, <2>6
<1> QED BY <1>1, <1>2, <1>4, <1>5, <1>6, <1>7 DEF KbIInv, AskerOK, ShownOK

\* What a step leaves alone stays right while nothing is added and no time passes.
LEMMA KbFrame ==
  ASSUME KbIInv, UNCHANGED <<minute, kbAdded, past>>
  PROVE  /\ \A d, m : AnswerSince(d, m)' <=> AnswerSince(d, m)
         /\ UNCHANGED kbShown => ShownOK'
         /\ \A b \in Askers : /\ asker'[b] = asker[b]
                               /\ kbCache'.ts \in {kbCache.ts, minute}
                               => AskerOK(b)'
<1>1. \A d, m : AnswerSince(d, m)' <=> AnswerSince(d, m) BY DEF AnswerSince, CountedSince
<1>2. ASSUME UNCHANGED kbShown, ~kbShown.torn PROVE ShownOK'
  <2>1. PICK m \in 0..minute : kbShown.at - KbTtl < m /\ AnswerSince(kbShown.data, m) BY <1>2 DEF KbIInv, ShownOK
  <2>2. AnswerSince(kbShown.data, m)'
    <3>1. PICK d : d = kbShown.data OBVIOUS
    <3>2. AnswerSince(d, m)' BY <1>1, <2>1, <3>1
    <3>3. kbShown'.data = d BY <1>2, <3>1
    <3> QED BY <3>2, <3>3 DEF AnswerSince, CountedSince
  <2> QED BY <1>2, <2>1, <2>2 DEF ShownOK
<1>3. ASSUME NEW b \in Askers, asker'[b] = asker[b], kbCache'.ts \in {kbCache.ts, minute}
      PROVE  AskerOK(b)'
  <2>1. AskerOK(b) BY DEF KbIInv
  <2>2. asker[b].at # "idle" => AnswerSince(asker[b].data, minute)'
    <3>1. PICK d, m : d = asker[b].data /\ m = minute OBVIOUS
    <3>2. asker[b].at # "idle" => AnswerSince(d, m)' BY <1>1, <2>1, <3>1 DEF AskerOK
    <3>3. asker'[b].data = d /\ minute' = m BY <1>3, <3>1
    <3> QED BY <3>2, <3>3 DEF AnswerSince, CountedSince
  <2> QED BY <1>3, <2>1, <2>2 DEF AskerOK
<1>4. UNCHANGED kbShown /\ kbShown.torn => ShownOK' BY DEF ShownOK
<1> QED BY <1>1, <1>2, <1>3, <1>4

\* A thread is given the answer that is kept, counts, and makes its two writes.
LEMMA AskedKb == ASSUME KbIInv, NEW a \in Askers, CollectKbToday(a) PROVE KbIInv'
<1>1. UNCHANGED <<minute, kbAdded, kbCache, past>> /\ asker[a].at = "idle" BY DEF CollectKbToday
<1>2. /\ \A d, m : AnswerSince(d, m)' <=> AnswerSince(d, m)
      /\ UNCHANGED kbShown => ShownOK'
      /\ \A b \in Askers : asker'[b] = asker[b] => AskerOK(b)'
  BY <1>1, KbFrame
<1>3. UNCHANGED Torn => (kbCache'.filled /\ ~Torn' => AnswerSince(kbCache.data, kbCache.ts)')
  <2>1. PICK d, m : d = kbCache.data /\ m = kbCache.ts OBVIOUS
  <2>2. kbCache.filled /\ ~Torn => AnswerSince(d, m)' BY <1>2, <2>1 DEF KbIInv
  <2>3. kbCache'.data = d /\ kbCache'.ts = m BY <1>1, <2>1
  <2>4. AnswerSince(d, m)' => AnswerSince(kbCache.data, kbCache.ts)' BY <2>3 DEF AnswerSince, CountedSince
  <2> QED BY <1>1, <2>2, <2>4
<1>4. minute \in 0..minute /\ kbCache.ts \in 0..minute /\ KbTtl \in Nat BY KbAssumption DEF KbIInv
<1>5. CASE StillFresh(kbCache) /\ ShowKb(kbCache.data, Torn) /\ UNCHANGED asker
  <2>1. kbShown' = [at |-> minute, data |-> kbCache.data, torn |-> Torn] BY <1>5 DEF ShowKb
  <2>2. kbCache.filled /\ minute - kbCache.ts < KbTtl BY <1>5 DEF StillFresh
  <2>3. kbShown'.at = minute /\ kbShown'.data = kbCache.data /\ kbShown'.torn = Torn BY <2>1
  <2>4. Torn' = Torn BY <1>5 DEF Torn
  <2>5. ShownOK'
    <3> SUFFICES ASSUME ~kbShown'.torn
                 PROVE  \E m \in 0..minute' : kbShown'.at - KbTtl < m /\ AnswerSince(kbShown.data, m)'
      BY DEF ShownOK
    <3>1. PICK d, m : d = kbCache.data /\ m = kbCache.ts OBVIOUS
    <3>2. AnswerSince(d, m) BY <2>2, <2>3, <3>1 DEF KbIInv
    <3>3. AnswerSince(d, m)' BY <1>2, <3>2
    <3>4. minute \in Nat /\ m \in 0..minute BY <1>4, <3>1
    <3>5. m \in 0..minute' /\ kbShown'.at - KbTtl < m BY <1>1, <1>4, <2>2, <2>3, <3>1, <3>4
    <3>6. kbShown'.data = d BY <2>3, <3>1
    <3>7. AnswerSince(kbShown.data, m)' BY <3>3, <3>6 DEF AnswerSince, CountedSince
    <3> QED BY <3>5, <3>7
  <2>6. \A b \in Askers : AskerOK(b)' BY <1>2, <1>5
  <2> QED BY <1>1, <1>3, <1>4, <1>5, <2>3, <2>4, <2>5, <2>6 DEF KbIInv
<1>6. ASSUME UNCHANGED kbShown, NEW git \in {"done", "failed", "error"}, NEW readable,
             asker' = [asker EXCEPT ![a] = [at |-> "counted", data |-> Counted(git, readable)]]
      PROVE  KbIInv'
  <2>1. AnswerSince(Counted(git, readable), minute) BY CountsAreRight
  <2>2. PICK d, m : d = Counted(git, readable) /\ m = minute OBVIOUS
  <2>3. asker' = [asker EXCEPT ![a] = [at |-> "counted", data |-> d]] /\ AnswerSince(d, m)'
    BY <1>2, <1>6, <2>1, <2>2
  <2>4. asker'[a] = [at |-> "counted", data |-> d] /\ \A b \in Askers : b # a => asker'[b] = asker[b]
    BY <2>3 DEF KbIInv
  <2>5. asker' = [b \in Askers |-> [at |-> asker'[b].at, data |-> asker'[b].data]]
    BY <2>3, <2>4 DEF KbIInv
  <2>6. \A b \in Askers : asker'[b].at = "stamped" <=> asker[b].at = "stamped" BY <1>1, <2>4
  <2>7. Torn' = Torn BY <2>6 DEF Torn
  <2>8. AskerOK(a)'
    <3>1. asker'[a].data = d /\ asker'[a].at = "counted" /\ minute' = m BY <1>1, <2>2, <2>4
    <3>2. AnswerSince(asker[a].data, minute)' BY <2>3, <3>1 DEF AnswerSince, CountedSince
    <3> QED BY <3>1, <3>2 DEF AskerOK
  <2>9. \A b \in Askers : AskerOK(b)' BY <1>2, <2>4, <2>8
  <2> QED BY <1>1, <1>2, <1>3, <1>6, <2>5, <2>7, <2>9 DEF KbIInv
<1>7. ~StillFresh(kbCache) => \E git \in {"done", "failed", "error"}, readable \in SUBSET tickets :
        /\ UNCHANGED kbShown
        /\ asker' = [asker EXCEPT ![a] = [at |-> "counted", data |-> Counted(git, readable)]]
  BY DEF CollectKbToday
<1> QED BY <1>5, <1>6, <1>7 DEF CollectKbToday

\* A thread writes the time of the cache before its data.
LEMMA StampedKb == ASSUME KbIInv, NEW a \in Askers, StampKb(a) PROVE KbIInv'
<1>1. /\ UNCHANGED <<minute, kbAdded, kbShown, past>> /\ asker[a].at = "counted"
      /\ asker' = [asker EXCEPT ![a].at = "stamped"] /\ kbCache' = [kbCache EXCEPT !.ts = minute]
  BY DEF StampKb
<1>2. asker[a] = [at |-> asker[a].at, data |-> asker[a].data] BY DEF KbIInv
<1>3. asker'[a].at = "stamped" /\ asker'[a].data = asker[a].data
      /\ asker'[a] = [at |-> asker'[a].at, data |-> asker'[a].data]
  BY <1>1, <1>2 DEF KbIInv
<1>4. \A b \in Askers : b # a => asker'[b] = asker[b] BY <1>1 DEF KbIInv
<1>5. asker' = [b \in Askers |-> [at |-> asker'[b].at, data |-> asker'[b].data]]
  BY <1>1, <1>3, <1>4 DEF KbIInv
<1>6. /\ kbCache' = [ts |-> kbCache'.ts, data |-> kbCache'.data, filled |-> kbCache'.filled]
      /\ kbCache'.ts = minute /\ kbCache'.filled = kbCache.filled
  BY <1>1 DEF KbIInv
<1>7. Torn' BY <1>3 DEF Torn
<1>8. /\ \A d, m : AnswerSince(d, m)' <=> AnswerSince(d, m)
      /\ ShownOK' /\ \A b \in Askers : asker'[b] = asker[b] => AskerOK(b)'
  BY <1>1, <1>6, KbFrame
<1>9. AskerOK(a)'
  <2>1. PICK d, m : d = asker[a].data /\ m = minute OBVIOUS
  <2>2. AnswerSince(d, m)' BY <1>1, <1>8, <2>1 DEF KbIInv, AskerOK
  <2>3. asker'[a].data = d /\ minute' = m BY <1>1, <1>3, <2>1
  <2>4. AnswerSince(asker[a].data, minute)' BY <2>2, <2>3 DEF AnswerSince, CountedSince
  <2> QED BY <1>1, <1>3, <1>6, <2>4 DEF AskerOK
<1>10. minute \in 0..minute BY DEF KbIInv
<1>11. \A b \in Askers : AskerOK(b)' BY <1>4, <1>8, <1>9, SMTT(60)
<1> QED BY <1>1, <1>5, <1>6, <1>7, <1>8, <1>10, <1>11 DEF KbIInv

\* A thread completes the cache and shows its own answer.
LEMMA KeptKb == ASSUME KbIInv, NEW a \in Askers, KeepKb(a) PROVE KbIInv'
<1>1. /\ UNCHANGED <<minute, kbAdded, past>> /\ asker[a].at = "stamped"
      /\ asker' = [asker EXCEPT ![a] = [at |-> "idle", data |-> NoAnswer]]
      /\ kbCache' = [kbCache EXCEPT !.data = asker[a].data, !.filled = TRUE]
      /\ kbShown' = [at |-> minute, data |-> asker[a].data, torn |-> FALSE]
  BY DEF KeepKb, ShowKb
<1>2. PICK d, m : d = asker[a].data /\ m = minute OBVIOUS
<1>3. AnswerSince(d, m) /\ kbCache.ts = minute /\ m \in 0..minute /\ m \in Nat
  BY <1>1, <1>2 DEF KbIInv, AskerOK
<1>4. /\ kbCache' = [ts |-> kbCache'.ts, data |-> kbCache'.data, filled |-> kbCache'.filled]
      /\ kbCache'.ts = minute /\ kbCache'.data = d /\ kbCache'.filled = TRUE
  <2>1. kbCache' = [kbCache EXCEPT !.data = d, !.filled = TRUE] BY <1>1, <1>2
  <2> QED BY <1>3, <2>1 DEF KbIInv
<1>5. AnswerSince(d, m)' /\ \A b \in Askers : asker'[b] = asker[b] => AskerOK(b)'
  BY <1>1, <1>3, <1>4, KbFrame
<1>6. asker'[a] = [at |-> "idle", data |-> NoAnswer] /\ \A b \in Askers : b # a => asker'[b] = asker[b]
  BY <1>1 DEF KbIInv
<1>7. asker' = [b \in Askers |-> [at |-> asker'[b].at, data |-> asker'[b].data]] BY <1>1, <1>6 DEF KbIInv
<1>8. kbShown'.at = m /\ kbShown'.data = d /\ minute' = m BY <1>1, <1>2
<1>9. AnswerSince(kbCache.data, kbCache.ts)'
  <2>1. kbCache'.ts = m BY <1>2, <1>4
  <2> QED BY <1>4, <1>5, <2>1 DEF AnswerSince, CountedSince
<1>10. ShownOK'
  <2>1. AnswerSince(kbShown.data, m)' BY <1>5, <1>8 DEF AnswerSince, CountedSince
  <2>2. m \in 0..minute' /\ kbShown'.at - KbTtl < m BY <1>3, <1>8, KbAssumption
  <2> QED BY <2>1, <2>2 DEF ShownOK
<1>11. AskerOK(a)' BY <1>6 DEF AskerOK
<1>12. \A b \in Askers : AskerOK(b)' BY <1>5, <1>6, <1>11
<1> QED BY <1>1, <1>3, <1>4, <1>7, <1>8, <1>9, <1>10, <1>12 DEF KbIInv

\* Every step keeps the counts recent.
LEMMA KbStep == ASSUME KbIInv, [KbNext]_kbVars PROVE KbIInv'
<1>1. CASE KbTick \/ \E f \in Files : AddFile(f) BY <1>1, BaseGrows
<1>2. CASE (\E t \in KbTickets : WriteTicket(t)) \/ UNCHANGED kbVars
  <2>1. UNCHANGED <<minute, kbAdded, past, kbCache, asker, kbShown>> BY <1>2 DEF WriteTicket, kbVars
  <2>2. ShownOK' /\ \A b \in Askers : AskerOK(b)' BY <2>1, KbFrame
  <2>3. kbCache'.filled /\ ~Torn' => AnswerSince(kbCache.data, kbCache.ts)'
    BY <2>1 DEF KbIInv, Torn, AnswerSince, CountedSince
  <2> QED BY <2>1, <2>2, <2>3 DEF KbIInv
<1>3. ASSUME NEW a \in Askers, CollectKbToday(a) \/ StampKb(a) \/ KeepKb(a) PROVE KbIInv'
  BY <1>3, AskedKb, StampedKb, KeptKb
<1> QED BY <1>1, <1>2, <1>3 DEF KbNext

\* What every state of the counter keeps.
LEMMA KbInvariance == KbSpec => []KbIInv
<1>1. KbInit => KbIInv BY KbBegins
<1>2. KbIInv /\ [KbNext]_kbVars => KbIInv' BY KbStep
<1> QED BY <1>1, <1>2, PTL DEF KbSpec

\* What a page is shown of the knowledge base counts all that was there the time to live ago and
\* nothing that is not there, whichever of the request threads counted it, unless the answer was
\* taken between the two unlocked writes of another thread (collect_kb_today).
THEOREM CountsWereRecent == KbSpec => []ShownIsRecent
<1>1. KbIInv => ShownIsRecent
  <2> DEFINE n == kbShown.data.sources + kbShown.data.cards
             least == IF kbShown.at < KbTtl THEN 0 ELSE kbShown.at - KbTtl + 1
  <2> SUFFICES ASSUME KbIInv, kbShown.data.available, ~kbShown.torn, kbShown.data.listed
               PROVE  Cardinality(past[least]) <= n /\ n <= Cardinality(kbAdded)
    BY DEF ShownIsRecent
  <2>1. PICK m \in 0..minute : kbShown.at - KbTtl < m /\ AnswerSince(kbShown.data, m) BY DEF KbIInv, ShownOK
  <2>2. kbShown.data # NoAnswer BY DEF NoAnswer
  <2>3. CountedSince(n, m) /\ n \in Nat
    <3>1. PICK t : \E listed \in BOOLEAN, s \in Nat, c \in Nat :
             /\ kbShown.data = [available |-> TRUE, listed |-> listed, tickets |-> t, sources |-> s, cards |-> c]
             /\ listed => CountedSince(s + c, m)
      BY <2>1, <2>2 DEF AnswerSince
    <3>2. PICK listed \in BOOLEAN, s \in Nat, c \in Nat :
             /\ kbShown.data = [available |-> TRUE, listed |-> listed, tickets |-> t, sources |-> s, cards |-> c]
             /\ listed => CountedSince(s + c, m)
      BY <3>1
    <3>3. kbShown.data.listed = listed /\ kbShown.data.sources = s /\ kbShown.data.cards = c BY <3>2
    <3> QED BY <3>2, <3>3
  <2>4. least \in 0..minute /\ least <= m BY <2>1, KbAssumption DEF KbIInv
  <2>5. past[least] \subseteq past[m] /\ past[m] \subseteq kbAdded BY <2>4 DEF KbIInv
  <2>6. Cardinality(past[least]) <= Cardinality(past[m])
        /\ Cardinality(past[least]) \in Nat /\ Cardinality(past[m]) \in Nat
    <3>1. IsFiniteSet(past[m]) BY <2>5, FS_Subset DEF KbIInv
    <3> QED BY <2>5, <3>1, FS_Subset, FS_CardinalityType
  <2> QED BY <2>3, <2>6 DEF CountedSince
<1>2. KbSpec => []KbIInv BY KbInvariance
<1> QED BY <1>1, <1>2, PTL

\* What every state keeps is typed, but for the clock's bound and the ticket cards.
LEMMA CounterIsTyped == KbSpec => []KbTypeOK
<1> DEFINE Bounded == minute <= MaxMinute /\ tickets \subseteq KbTickets
<1>0. MaxMinute \in Nat BY KbAssumption
<1>1. KbInit => Bounded BY <1>0 DEF KbInit
<1>2. KbIInv /\ Bounded /\ [KbNext]_kbVars => Bounded'
  <2> SUFFICES ASSUME KbIInv, Bounded, [KbNext]_kbVars PROVE Bounded' OBVIOUS
  <2>0. minute \in Nat BY DEF KbIInv
  <2>1. CASE UNCHANGED <<minute, tickets>> BY <2>1
  <2>2. CASE KbTick BY <1>0, <2>0, <2>2 DEF KbTick
  <2>3. ASSUME NEW f, AddFile(f) PROVE Bounded' BY <2>1, <2>3 DEF AddFile
  <2>4. ASSUME NEW t \in KbTickets, WriteTicket(t) PROVE Bounded' BY <2>4 DEF WriteTicket
  <2>5. ASSUME NEW a, CollectKbToday(a) \/ StampKb(a) \/ KeepKb(a) PROVE Bounded'
    BY <2>1, <2>5 DEF CollectKbToday, StampKb, KeepKb
  <2>6. CASE UNCHANGED kbVars BY <2>1, <2>6 DEF kbVars
  <2> QED BY <2>2, <2>3, <2>4, <2>5, <2>6 DEF KbNext
<1>3. KbIInv /\ Bounded => KbTypeOK
  <2> SUFFICES ASSUME KbIInv, Bounded PROVE KbTypeOK OBVIOUS
  <2>1. \A a \in Askers : asker[a].at \in {"idle", "counted", "stamped"} BY DEF KbIInv, AskerOK
  <2>2. minute \in 0..MaxMinute BY <1>0 DEF KbIInv
  <2> QED BY <2>1, <2>2 DEF KbIInv, KbTypeOK
<1>4. KbSpec => []KbIInv BY KbInvariance
<1> HIDE DEF Bounded
<1> QED BY <1>1, <1>2, <1>3, <1>4, PTL DEF KbSpec

-----------------------------------------------------------------------------
(* The marks of the alerts about the hooks' log *)

\* A set of positions that is not empty has a first one.
LEMMA FirstPosition ==
  ASSUME NEW S \in SUBSET Nat, S # {}
  PROVE  Min(S) \in S
<1>1. PICK m \in S : \A x \in S : ~(<<x, m>> \in OpToRel(<, Nat)) BY NatLessThanWellFounded, WFMin
<1>2. \A x \in S : m <= x
  <2> SUFFICES ASSUME NEW x \in S PROVE m <= x OBVIOUS
  <2>1. x \in Nat /\ m \in Nat OBVIOUS
  <2>2. ~(x < m) BY <1>1, <2>1 DEF OpToRel
  <2> QED BY <2>1, <2>2
<1> QED BY <1>2 DEF Min

Rounds ==
  [place : {"load", "post", "save"}, stream : Streams, seen : Seq(Nat), fresh : SUBSET Nat, attempt : 1..2]

MarksTypes ==
  /\ markEvents \in Seq(Streams) /\ lapses \in Nat /\ over \subseteq DOMAIN markEvents
  /\ delivered \in Seq(Nat) /\ Len(delivered) = Len(markEvents)
  /\ refused \in Seq(Nat) /\ Len(refused) = Len(markEvents)
  /\ marks \in [Streams -> Seq(Nat)] /\ round \in Rounds

\* A round is about rows of its stream: those that are marked, those it has posted since and
\* those it has to post.
RoundOK ==
  /\ ToSet(round.seen) \subseteq DOMAIN markEvents /\ round.fresh \subseteq DOMAIN markEvents
  /\ \A k \in ToSet(round.seen) \union round.fresh : markEvents[k] = round.stream
  /\ round.place = "load" => round.seen = <<>> /\ round.fresh = {} /\ round.attempt = 1
  /\ round.place = "post" => round.fresh # {}
  /\ round.place = "save" => round.fresh = {}
  /\ round.place # "load" => ToSet(marks[round.stream]) \subseteq ToSet(round.seen)
  /\ ToSet(round.seen) \intersect round.fresh = {}

MarksOK ==
  \A s \in Streams : /\ ToSet(marks[s]) \subseteq DOMAIN markEvents
                     /\ \A k \in ToSet(marks[s]) : markEvents[k] = s

\* A row that may still be announced was announced for lapses only.
Announced(k) == k \in over \/ k \in ToSet(marks[markEvents[k]]) \/ k \in ToSet(round.seen)
PaidFor(k) ==
  /\ delivered[k] <= lapses + 1
  /\ k \in round.fresh \/ ~Announced(k) => delivered[k] <= lapses

\* A row that was dealt with reached the phone, or two posts of it failed.
DealtWith(k) == delivered[k] > 0 \/ refused[k] >= 2
Reached ==
  /\ \A s \in Streams : \A k \in ToSet(marks[s]) : DealtWith(k)
  /\ \A k \in ToSet(round.seen) : DealtWith(k)
  /\ round.place = "post" /\ round.attempt = 2 =>
       delivered[Min(round.fresh)] > 0 \/ refused[Min(round.fresh)] >= 1

MarksIInv == MarksTypes /\ RoundOK /\ MarksOK /\ (\A k \in DOMAIN markEvents : PaidFor(k)) /\ Reached

\* A round starts with nothing to announce.
LEMMA LoadIsRound ==
  ASSUME NEW s \in Streams
  PROVE  /\ Load(s) \in Rounds /\ Load(s).place = "load" /\ Load(s).stream = s
         /\ Load(s).seen = <<>> /\ Load(s).fresh = {} /\ ToSet(Load(s).seen) = {}
         /\ Load(s).attempt = 1
<1>1. <<>> \in Seq(Nat) OBVIOUS
<1>2. Load(s) \in Rounds BY <1>1 DEF Load, Rounds
<1>3. Load(s).seen = <<>> /\ ToSet(<<>>) = {} BY DEF Load, ToSet
<1> QED BY <1>2, <1>3 DEF Load

\* The numbers of a row.
LEMMA RowNumbers ==
  ASSUME MarksTypes, NEW k \in DOMAIN markEvents
  PROVE  /\ delivered[k] \in Nat /\ refused[k] \in Nat /\ markEvents[k] \in Streams /\ k \in Nat
         /\ k \in DOMAIN delivered /\ k \in DOMAIN refused /\ lapses \in Nat
         /\ DOMAIN delivered = DOMAIN markEvents /\ DOMAIN refused = DOMAIN markEvents
<1>1. DOMAIN markEvents = 1..Len(markEvents) /\ Len(markEvents) \in Nat BY LenProperties DEF MarksTypes
<1>2. DOMAIN delivered = DOMAIN markEvents /\ DOMAIN refused = DOMAIN markEvents
  BY <1>1, LenProperties DEF MarksTypes
<1>3. delivered[k] \in Nat /\ refused[k] \in Nat /\ markEvents[k] \in Streams
  BY <1>1, <1>2, LenProperties, ElementOfSeq DEF MarksTypes
<1> QED BY <1>1, <1>2, <1>3 DEF MarksTypes

\* At first no row was written.
LEMMA MarksBegin == MarksInit => MarksIInv
<1> SUFFICES ASSUME MarksInit PROVE MarksIInv OBVIOUS
<1>1. /\ markEvents = <<>> /\ over = {} /\ marks = [s \in Streams |-> <<>>] /\ round = Load("delete")
      /\ delivered = <<>> /\ refused = <<>> /\ lapses = 0 /\ "delete" \in Streams
  BY DEF MarksInit, Streams
<1>2. <<>> \in Seq(Nat) /\ <<>> \in Seq(Streams) OBVIOUS
<1>3. MarksTypes BY <1>1, <1>2, LoadIsRound DEF MarksTypes
<1>4. /\ round.place = "load" /\ round.seen = <<>> /\ round.fresh = {} /\ ToSet(round.seen) = {}
      /\ round.attempt = 1
  BY <1>1, LoadIsRound
<1>5. RoundOK BY <1>4 DEF RoundOK
<1>6. \A s \in Streams : ToSet(marks[s]) = {} BY <1>1 DEF ToSet
<1>7. MarksOK BY <1>6 DEF MarksOK
<1>8. Reached BY <1>4, <1>6 DEF Reached
<1>9. DOMAIN markEvents = {} BY <1>1
<1> QED BY <1>3, <1>5, <1>7, <1>8, <1>9 DEF MarksIInv

\* A new row was announced to nobody yet.
LEMMA EventsAreNew ==
  ASSUME MarksIInv, NEW s \in Streams, NewEvent(s)
  PROVE  MarksIInv'
<1> DEFINE n == Len(markEvents)
<1>1. /\ markEvents' = Append(markEvents, s) /\ delivered' = Append(delivered, 0)
      /\ refused' = Append(refused, 0) /\ UNCHANGED <<over, marks, round, lapses>>
  BY DEF NewEvent
<1>2. /\ markEvents \in Seq(Streams) /\ delivered \in Seq(Nat) /\ refused \in Seq(Nat)
      /\ Len(delivered) = n /\ Len(refused) = n /\ n \in Nat
  BY LenProperties DEF MarksIInv, MarksTypes
<1>3. /\ markEvents' \in Seq(Streams) /\ delivered' \in Seq(Nat) /\ refused' \in Seq(Nat)
      /\ Len(markEvents') = n + 1 /\ Len(delivered') = n + 1 /\ Len(refused') = n + 1
      /\ delivered'[n + 1] = 0
      /\ \A k \in 1..n : /\ markEvents'[k] = markEvents[k] /\ delivered'[k] = delivered[k]
                         /\ refused'[k] = refused[k]
  BY <1>1, <1>2, AppendProperties
<1>4. DOMAIN markEvents = 1..n /\ DOMAIN markEvents' = 1..(n + 1)
  BY <1>2, <1>3, LenProperties
<1>5. DOMAIN markEvents \subseteq DOMAIN markEvents' /\ n + 1 \notin DOMAIN markEvents
      /\ \A k \in DOMAIN markEvents' : k \in DOMAIN markEvents \/ k = n + 1
  BY <1>2, <1>4
<1>6. \A k \in DOMAIN markEvents : /\ markEvents'[k] = markEvents[k] /\ delivered'[k] = delivered[k]
                                   /\ refused'[k] = refused[k]
  BY <1>3, <1>4
<1> HIDE DEF n
<1>7. MarksTypes'
  <2>1. over' \subseteq DOMAIN markEvents' BY <1>1, <1>5 DEF MarksIInv, MarksTypes
  <2>2. Len(delivered)' = Len(markEvents)' /\ Len(refused)' = Len(markEvents)' BY <1>3
  <2>3. lapses' \in Nat /\ marks' \in [Streams -> Seq(Nat)] /\ round' \in Rounds
    BY <1>1 DEF MarksIInv, MarksTypes
  <2> QED BY <1>3, <2>1, <2>2, <2>3 DEF MarksTypes
<1>8. RoundOK' BY <1>1, <1>5, <1>6 DEF MarksIInv, RoundOK
<1>9. MarksOK' BY <1>1, <1>5, <1>6 DEF MarksIInv, MarksOK
<1>10. \A k \in DOMAIN markEvents' : PaidFor(k)'
  <2>1. ASSUME NEW k \in DOMAIN markEvents PROVE PaidFor(k)'
    BY <1>1, <1>6 DEF MarksIInv, PaidFor, Announced
  <2>2. ASSUME NEW k \in DOMAIN markEvents', k = n + 1 PROVE PaidFor(k)'
    <3>1. PICK m \in Nat : m = lapses' BY <1>7 DEF MarksTypes
    <3>2. delivered'[k] = 0 BY <1>3, <2>2
    <3>3. delivered'[k] <= m /\ delivered'[k] <= m + 1
      <4>1. 0 <= m /\ 0 <= m + 1 OBVIOUS
      <4> QED BY <3>2, <4>1
    <3> QED BY <3>1, <3>3 DEF PaidFor
  <2> QED BY <1>5, <2>1, <2>2
<1>11. Reached'
  <2>1. \A k \in DOMAIN markEvents : DealtWith(k) => DealtWith(k)' BY <1>6 DEF DealtWith
  <2>2. \A t \in Streams : \A k \in ToSet(marks[t])' : DealtWith(k)'
    BY <1>1, <2>1 DEF MarksIInv, MarksOK, Reached
  <2>3. \A k \in ToSet(round.seen)' : DealtWith(k)' BY <1>1, <2>1 DEF MarksIInv, RoundOK, Reached
  <2>4. ASSUME round'.place = "post", round'.attempt = 2
        PROVE  delivered'[Min(round'.fresh)] > 0 \/ refused'[Min(round'.fresh)] >= 1
    <3>1. round.fresh # {} /\ round.fresh \subseteq DOMAIN markEvents /\ round.fresh \in SUBSET Nat
      BY <1>1, <2>4 DEF MarksIInv, RoundOK, MarksTypes, Rounds
    <3>2. Min(round.fresh) \in DOMAIN markEvents BY <3>1, FirstPosition
    <3> QED BY <1>1, <1>6, <2>4, <3>2 DEF MarksIInv, Reached
  <2> QED BY <2>2, <2>3, <2>4 DEF Reached
<1> QED BY <1>7, <1>8, <1>9, <1>10, <1>11 DEF MarksIInv

\* A row that leaves its window is not announced any more.
LEMMA WindowsMove ==
  ASSUME MarksIInv, NEW k \in DOMAIN markEvents, LeaveWindow(k)
  PROVE  MarksIInv'
<1>1. over' = over \union {k} /\ UNCHANGED <<markEvents, marks, round, delivered, refused, lapses>>
  BY DEF LeaveWindow
<1>2. MarksTypes' BY <1>1 DEF MarksIInv, MarksTypes
<1>3. RoundOK' /\ MarksOK' BY <1>1 DEF MarksIInv, RoundOK, MarksOK
<1>4. \A j \in DOMAIN markEvents' : PaidFor(j)' BY <1>1 DEF MarksIInv, PaidFor, Announced
<1>5. Reached' BY <1>1 DEF MarksIInv, Reached, DealtWith
<1> QED BY <1>2, <1>3, <1>4, <1>5 DEF MarksIInv

\* A round that ends without a change of the marks.
LEMMA RoundsEnd ==
  ASSUME MarksIInv, NEW s \in Streams, round' = Load(s),
         UNCHANGED <<markEvents, over, marks, delivered, refused>>,
         (round.place = "load" /\ lapses' = lapses) \/ lapses' = lapses + 1
  PROVE  MarksIInv'
<1>1. /\ round'.place = "load" /\ round'.seen = <<>> /\ round'.fresh = {} /\ ToSet(round'.seen) = {}
      /\ round'.attempt = 1 /\ round' \in Rounds
  BY LoadIsRound
<1>2. lapses \in Nat /\ lapses' \in Nat /\ lapses <= lapses' BY DEF MarksIInv, MarksTypes
<1>3. MarksTypes' BY <1>1, <1>2 DEF MarksIInv, MarksTypes
<1>4. RoundOK' BY <1>1 DEF RoundOK
<1>5. MarksOK' BY DEF MarksIInv, MarksOK
<1>6. ASSUME NEW k \in DOMAIN markEvents PROVE PaidFor(k)'
  <2>1. delivered[k] \in Nat /\ delivered' = delivered BY <1>6, RowNumbers DEF MarksIInv
  <2>2. PaidFor(k) BY <1>6 DEF MarksIInv
  <2>3. CASE lapses' = lapses + 1 BY <1>2, <2>1, <2>2, <2>3 DEF PaidFor
  <2>4. CASE round.place = "load" /\ lapses' = lapses
    <3>1. round.seen = <<>> /\ round.fresh = {} BY <2>4 DEF MarksIInv, RoundOK
    <3>2. Announced(k)' = Announced(k) BY <1>1, <3>1 DEF Announced
    <3> QED BY <1>1, <2>1, <2>2, <2>4, <3>1, <3>2 DEF PaidFor
  <2> QED BY <2>3, <2>4
<1>7. Reached' BY <1>1 DEF MarksIInv, Reached, DealtWith
<1> QED BY <1>3, <1>4, <1>5, <1>6, <1>7 DEF MarksIInv

\* A round takes on the rows that are not marked: they were announced for lapses only.
LEMMA MarksRead == ASSUME MarksIInv, LoadMarks PROVE MarksIInv'
<1> DEFINE known == marks[round.stream]
           new == {k \in DOMAIN markEvents \ over : markEvents[k] = round.stream /\ ~Contains(known, k)}
<1>1. /\ round.place = "load" /\ UNCHANGED <<markEvents, over, marks, delivered, refused, lapses>>
      /\ round' = IF new = {} THEN Load(NextStream[round.stream])
                  ELSE [round EXCEPT !.place = "post", !.seen = known, !.fresh = new]
  BY DEF LoadMarks
<1>2. /\ round \in Rounds /\ round.stream \in Streams /\ NextStream[round.stream] \in Streams
      /\ round.seen = <<>> /\ round.fresh = {} /\ round.attempt = 1 /\ known \in Seq(Nat)
  BY <1>1, SMTT(60) DEF MarksIInv, MarksTypes, RoundOK, Rounds, Streams, NextStream
<1>3. CASE new = {} BY <1>1, <1>2, <1>3, RoundsEnd
<1>4. CASE new # {}
  <2>1. round' = [round EXCEPT !.place = "post", !.seen = known, !.fresh = new] BY <1>1, <1>4
  <2>2. new \subseteq DOMAIN markEvents /\ new \in SUBSET Nat BY RowNumbers DEF MarksIInv
  <2>3. \A k \in new : k \notin over /\ markEvents[k] = round.stream /\ k \notin ToSet(known)
    <3>1. \A k : Contains(known, k) <=> k \in ToSet(known)
      BY <1>2, LenProperties DEF Contains, ToSet
    <3> QED BY <3>1
  <2> HIDE DEF new
  <2>4. round' \in Rounds
    BY <1>2, <2>1, <2>2 DEF Rounds
  <2>5. /\ round'.place = "post" /\ round'.seen = known /\ round'.fresh = new
        /\ round'.stream = round.stream /\ round'.attempt = 1
    BY <1>2, <2>1 DEF Rounds
  <2>6. MarksTypes' BY <1>1, <2>4 DEF MarksIInv, MarksTypes
  <2>7. RoundOK'
    <3>1. /\ ToSet(known) \subseteq DOMAIN markEvents
          /\ \A k \in ToSet(known) : markEvents[k] = round.stream
      BY <1>2 DEF MarksIInv, MarksOK
    <3>2. marks'[round'.stream] = known BY <1>1, <2>5
    <3> QED BY <1>1, <1>4, <2>2, <2>3, <2>5, <3>1, <3>2 DEF RoundOK
  <2>8. MarksOK' BY <1>1 DEF MarksIInv, MarksOK
  <2>9. ASSUME NEW k \in DOMAIN markEvents PROVE PaidFor(k)'
    <3>1. PaidFor(k) BY <2>9 DEF MarksIInv
    <3>2. Announced(k) => Announced(k)' BY <1>1, <1>2, <2>5 DEF Announced, ToSet
    <3>3. k \in new => ~Announced(k) BY <1>2, <2>3 DEF Announced, ToSet
    <3> QED BY <1>1, <2>5, <3>1, <3>2, <3>3 DEF PaidFor
  <2>10. Reached' BY <1>1, <1>2, <2>5 DEF MarksIInv, Reached, DealtWith
  <2> QED BY <1>1, <2>6, <2>7, <2>8, <2>9, <2>10 DEF MarksIInv
<1> QED BY <1>3, <1>4

\* A mark is appended to those of a round.
LEMMA OneMore ==
  ASSUME NEW q \in Seq(Nat), NEW k \in Nat
  PROVE  Append(q, k) \in Seq(Nat) /\ ToSet(Append(q, k)) = ToSet(q) \union {k}
<1>1. /\ Append(q, k) \in Seq(Nat) /\ Len(Append(q, k)) = Len(q) + 1 /\ Len(q) \in Nat
      /\ \A i \in 1..Len(q) : Append(q, k)[i] = q[i]
      /\ Append(q, k)[Len(q) + 1] = k /\ DOMAIN q = 1..Len(q)
      /\ DOMAIN Append(q, k) = 1..(Len(q) + 1)
  BY AppendProperties, LenProperties
<1>2. ToSet(Append(q, k)) = {Append(q, k)[i] : i \in 1..(Len(q) + 1)} /\ ToSet(q) = {q[i] : i \in 1..Len(q)}
  BY <1>1 DEF ToSet
<1>3. 1..(Len(q) + 1) = 1..Len(q) \union {Len(q) + 1} BY <1>1
<1> QED BY <1>1, <1>2, <1>3

\* A post announces one row, which had not been announced but for lapses, or is a lapse itself.
LEMMA RowsArePosted ==
  ASSUME MarksIInv, NEW answer \in {"ok", "late", "lost"}, Post(answer)
  PROVE  MarksIInv'
<1>0. PICK k : k = Min(round.fresh) OBVIOUS
<1> DEFINE rest == round.fresh \ {k}
           done == answer = "ok" \/ round.attempt = 2
<1>1. /\ round.place = "post" /\ UNCHANGED <<markEvents, over, marks>>
      /\ delivered' = [delivered EXCEPT ![k] = IF answer = "lost" THEN @ ELSE @ + 1]
      /\ refused' = [refused EXCEPT ![k] = IF answer = "lost" THEN @ + 1 ELSE @]
      /\ lapses' = IF answer = "ok" THEN lapses ELSE lapses + 1
      /\ round' = [round EXCEPT !.attempt = IF done THEN 1 ELSE 2,
                        !.seen = IF done THEN Append(@, k) ELSE @,
                        !.fresh = IF done THEN rest ELSE @,
                        !.place = IF done /\ rest = {} THEN "save" ELSE @]
  BY <1>0 DEF Post
<1>2. /\ round \in Rounds /\ round.fresh \in SUBSET Nat /\ round.fresh # {} /\ round.seen \in Seq(Nat)
      /\ round.stream \in Streams /\ round.fresh \subseteq DOMAIN markEvents /\ round.attempt \in 1..2
      /\ ToSet(round.seen) \subseteq DOMAIN markEvents
  BY <1>1 DEF MarksIInv, MarksTypes, RoundOK, Rounds
<1>3. k \in round.fresh BY <1>0, <1>2, FirstPosition
<1>4. k \in DOMAIN markEvents /\ k \in Nat /\ markEvents[k] = round.stream /\ k \notin ToSet(round.seen)
  BY <1>2, <1>3 DEF MarksIInv, RoundOK
<1>5. /\ round'.attempt = IF done THEN 1 ELSE 2
      /\ round'.seen = IF done THEN Append(round.seen, k) ELSE round.seen
      /\ round'.fresh = IF done THEN rest ELSE round.fresh
      /\ round'.place = IF done /\ rest = {} THEN "save" ELSE "post"
      /\ round'.stream = round.stream
  BY <1>1, <1>2 DEF Rounds
<1>6. Append(round.seen, k) \in Seq(Nat) /\ ToSet(Append(round.seen, k)) = ToSet(round.seen) \union {k}
  BY <1>2, <1>4, OneMore
<1>7. round' \in Rounds
  <2> DEFINE a == IF done THEN 1 ELSE 2
             q == IF done THEN Append(round.seen, k) ELSE round.seen
             f == IF done THEN rest ELSE round.fresh
             p == IF done /\ rest = {} THEN "save" ELSE "post"
  <2>1. a \in 1..2 /\ q \in Seq(Nat) /\ f \in SUBSET Nat /\ p \in {"load", "post", "save"}
    BY <1>2, <1>6
  <2>2. round' = [round EXCEPT !.attempt = a, !.seen = q, !.fresh = f, !.place = p]
    BY <1>1
  <2> HIDE DEF a, q, f, p
  <2> QED BY <1>2, <2>1, <2>2 DEF Rounds
<1>8. /\ \A j \in DOMAIN markEvents : j # k => delivered'[j] = delivered[j] /\ refused'[j] = refused[j]
      /\ delivered'[k] = IF answer = "lost" THEN delivered[k] ELSE delivered[k] + 1
      /\ refused'[k] = IF answer = "lost" THEN refused[k] + 1 ELSE refused[k]
      /\ delivered[k] \in Nat /\ refused[k] \in Nat
  BY <1>1, <1>4, RowNumbers DEF MarksIInv
<1>9. delivered' \in Seq(Nat) /\ refused' \in Seq(Nat) /\ Len(delivered') = Len(delivered)
      /\ Len(refused') = Len(refused)
  <2>1. k \in 1..Len(delivered) /\ k \in 1..Len(refused)
    BY <1>4, RowNumbers, LenProperties DEF MarksIInv, MarksTypes
  <2>2. delivered \in Seq(Nat) /\ refused \in Seq(Nat) BY DEF MarksIInv, MarksTypes
  <2>3. /\ (IF answer = "lost" THEN delivered[k] ELSE delivered[k] + 1) \in Nat
        /\ (IF answer = "lost" THEN refused[k] + 1 ELSE refused[k]) \in Nat
    BY <1>8
  <2> QED BY <1>1, <2>1, <2>2, <2>3, ExceptSeq
<1>10. lapses \in Nat /\ lapses' \in Nat /\ lapses <= lapses' /\ (answer # "ok" => lapses' = lapses + 1)
  BY <1>1 DEF MarksIInv, MarksTypes
<1>11. MarksTypes' BY <1>1, <1>7, <1>9, <1>10 DEF MarksIInv, MarksTypes
<1>12. ToSet(round.seen)' = ToSet(round.seen) \union (IF done THEN {k} ELSE {}) BY <1>5, <1>6
<1>13. RoundOK'
  <2>1. /\ ToSet(marks[round.stream]) \subseteq ToSet(round.seen)
        /\ \A j \in ToSet(round.seen) \union round.fresh : markEvents[j] = round.stream
        /\ ToSet(round.seen) \intersect round.fresh = {}
    BY <1>1 DEF MarksIInv, RoundOK
  <2>2. /\ ToSet(round.seen)' \subseteq DOMAIN markEvents' /\ round'.fresh \subseteq DOMAIN markEvents'
        /\ \A j \in ToSet(round.seen)' \union round'.fresh : markEvents'[j] = round'.stream
        /\ ToSet(round.seen)' \intersect round'.fresh = {}
    BY <1>1, <1>2, <1>3, <1>4, <1>5, <1>12, <2>1
  <2>3. ToSet(marks'[round'.stream]) \subseteq ToSet(round.seen)' BY <1>1, <1>5, <1>12, <2>1
  <2>4. /\ round'.place # "load" /\ (round'.place = "post" => round'.fresh # {})
        /\ (round'.place = "save" => round'.fresh = {})
    BY <1>2, <1>5
  <2> QED BY <2>2, <2>3, <2>4 DEF RoundOK
<1>14. MarksOK' BY <1>1 DEF MarksIInv, MarksOK
<1>15. ASSUME NEW j \in DOMAIN markEvents PROVE PaidFor(j)'
  <2>1. PaidFor(j) /\ delivered[j] \in Nat BY <1>15, RowNumbers DEF MarksIInv
  <2>2. Announced(j) => Announced(j)' BY <1>1, <1>12 DEF Announced
  <2>3. CASE j # k
    <3>1. delivered'[j] = delivered[j] /\ (j \in round'.fresh => j \in round.fresh) BY <1>5, <1>8, <2>3
    <3> QED BY <1>10, <2>1, <2>2, <3>1 DEF PaidFor
  <2>4. CASE j = k
    <3>1. delivered[k] <= lapses BY <1>3, <2>1, <2>4 DEF PaidFor
    <3>2. delivered'[k] <= lapses' + 1 /\ (answer # "ok" => delivered'[k] <= lapses')
      BY <1>8, <1>10, <3>1
    <3>3. CASE answer = "ok"
      <4>1. k \notin round'.fresh /\ k \in ToSet(round.seen)' BY <1>5, <1>12, <3>3
      <4> QED BY <2>4, <3>2, <4>1 DEF PaidFor, Announced
    <3>4. CASE answer # "ok" BY <2>4, <3>2, <3>4 DEF PaidFor
    <3> QED BY <3>3, <3>4
  <2> QED BY <2>3, <2>4
<1>16. Reached'
  <2>1. \A j \in DOMAIN markEvents : DealtWith(j) => DealtWith(j)'
    <3> SUFFICES ASSUME NEW j \in DOMAIN markEvents, DealtWith(j) PROVE DealtWith(j)' OBVIOUS
    <3>1. CASE j # k BY <1>8, <3>1 DEF DealtWith
    <3>2. CASE j = k BY <1>8, <3>2 DEF DealtWith
    <3> QED BY <3>1, <3>2
  <2>2. \A s \in Streams : \A j \in ToSet(marks[s])' : DealtWith(j)'
    BY <1>1, <2>1 DEF MarksIInv, MarksOK, Reached
  <2>3. done => DealtWith(k)'
    <3>1. CASE answer # "lost" BY <1>8, <3>1 DEF DealtWith
    <3>2. CASE answer = "lost"
      <4>1. SUFFICES ASSUME round.attempt = 2 PROVE DealtWith(k)' BY <3>2
      <4>2. delivered[k] > 0 \/ refused[k] >= 1 BY <1>0, <1>1, <4>1 DEF MarksIInv, Reached
      <4> QED BY <1>8, <3>2, <4>2 DEF DealtWith
    <3> QED BY <3>1, <3>2
  <2>4. \A j \in ToSet(round.seen)' : DealtWith(j)'
    BY <1>2, <1>12, <2>1, <2>3 DEF MarksIInv, Reached
  <2>5. ASSUME round'.attempt = 2
        PROVE  delivered'[Min(round'.fresh)] > 0 \/ refused'[Min(round'.fresh)] >= 1
    <3>1. ~done /\ round'.fresh = round.fresh BY <1>5, <2>5
    <3>2. Min(round'.fresh) = k BY <1>0, <3>1
    <3>3. delivered'[k] > 0 \/ refused'[k] >= 1 BY <1>8
    <3> QED BY <3>2, <3>3
  <2> QED BY <2>2, <2>4, <2>5 DEF Reached
<1> QED BY <1>1, <1>11, <1>13, <1>14, <1>15, <1>16 DEF MarksIInv

\* What is kept of the marks of a round are the newest of them.
LEMMA NewestMarks ==
  ASSUME NEW q \in Seq(Nat)
  PROVE  Newest(q) \in Seq(Nat) /\ ToSet(Newest(q)) \subseteq ToSet(q)
<1>1. Len(q) \in Nat /\ DOMAIN q = 1..Len(q) /\ MarksKept \in Nat /\ MarksKept > 0
  BY LenProperties, MarksAssumption
<1> DEFINE m == IF Len(q) > MarksKept THEN Len(q) - MarksKept + 1 ELSE 1
<1>2. m \in Int /\ m >= 1 /\ m \in Nat BY <1>1
<1>3. Newest(q) = SubSeq(q, m, Len(q)) BY DEF Newest
<1> HIDE DEF m
<1>4. \A i \in m..Len(q) : q[i] \in ToSet(q) /\ q[i] \in Nat
  <2> SUFFICES ASSUME NEW i \in m..Len(q) PROVE q[i] \in ToSet(q) /\ q[i] \in Nat OBVIOUS
  <2>1. i \in 1..Len(q) BY <1>1, <1>2
  <2> QED BY <1>1, <2>1, ElementOfSeq DEF ToSet
<1>5. SubSeq(q, m, Len(q)) \in Seq(ToSet(q)) BY <1>1, <1>2, <1>4, SubSeqProperties
<1>6. SubSeq(q, m, Len(q)) \in Seq(Nat) BY <1>1, <1>2, <1>4, SubSeqProperties
<1>7. ToSet(SubSeq(q, m, Len(q))) \subseteq ToSet(q)
  <2> DEFINE r == SubSeq(q, m, Len(q))
  <2>1. \A i \in DOMAIN r : r[i] \in ToSet(q) BY <1>5, LenProperties, ElementOfSeq
  <2> QED BY <2>1 DEF ToSet
<1> QED BY <1>3, <1>6, <1>7

\* The marks of a round are finitely many.
LEMMA MarksOfSeqFinite == ASSUME NEW q \in Seq(Nat) PROVE IsFiniteSet(ToSet(q))
<1>1. DOMAIN q = 1..Len(q) /\ Len(q) \in Nat BY LenProperties
<1>2. IsFiniteSet(DOMAIN q) BY <1>1, FS_Interval
<1> DEFINE f == [i \in DOMAIN q |-> q[i]]
<1>3. f \in Surjection(DOMAIN q, ToSet(q)) BY DEF Surjection, ToSet
<1> QED BY <1>2, <1>3, FS_Surjection

\* A mark that is cut off, and a save that fails, are lapses.
LEMMA MarksSaved == ASSUME MarksIInv, SaveMarks PROVE MarksIInv'
<1> DEFINE cut == {k \in ToSet(round.seen) \ ToSet(Newest(round.seen)) : k \notin over}
           next == NextStream[round.stream]
<1>1. /\ round.place = "save" /\ round' = Load(next) /\ UNCHANGED <<markEvents, over, delivered, refused>>
      /\ \/ marks' = [marks EXCEPT ![round.stream] = SavedMarks] /\ lapses' = lapses + Cardinality(cut)
         \/ UNCHANGED marks /\ lapses' = lapses + 1
  BY DEF SaveMarks
<1>2. /\ round.stream \in Streams /\ next \in Streams /\ round.seen \in Seq(Nat) /\ lapses \in Nat
      /\ marks \in [Streams -> Seq(Nat)] /\ ToSet(marks[round.stream]) \subseteq ToSet(round.seen)
      /\ ToSet(round.seen) \subseteq DOMAIN markEvents
      /\ \A k \in ToSet(round.seen) : markEvents[k] = round.stream
      /\ round.fresh = {}
  BY <1>1 DEF MarksIInv, MarksTypes, RoundOK, Rounds, Streams, NextStream
<1>3. CASE UNCHANGED marks /\ lapses' = lapses + 1 BY <1>1, <1>2, <1>3, RoundsEnd
<1>4. CASE marks' = [marks EXCEPT ![round.stream] = SavedMarks] /\ lapses' = lapses + Cardinality(cut)
  <2> DEFINE new == Newest(round.seen)
  <2>1. new \in Seq(Nat) /\ ToSet(new) \subseteq ToSet(round.seen) BY <1>2, NewestMarks
  <2>2. marks' = [marks EXCEPT ![round.stream] = new] BY <1>4 DEF SavedMarks
  <2>3. /\ round'.place = "load" /\ round'.seen = <<>> /\ round'.fresh = {} /\ ToSet(round'.seen) = {}
        /\ round'.attempt = 1 /\ round' \in Rounds
    BY <1>1, <1>2, LoadIsRound
  <2>4. IsFiniteSet(cut) /\ Cardinality(cut) \in Nat /\ \A k \in cut : Cardinality(cut) >= 1
    <3>1. IsFiniteSet(ToSet(round.seen)) BY <1>2, MarksOfSeqFinite
    <3>2. IsFiniteSet(cut) BY <3>1, FS_Subset
    <3>3. Cardinality(cut) \in Nat /\ (Cardinality(cut) = 0 <=> cut = {})
      BY <3>2, FS_CardinalityType, FS_EmptySet
    <3> QED BY <3>2, <3>3
  <2>5. lapses' \in Nat /\ lapses <= lapses' /\ \A k \in cut : lapses' >= lapses + 1
    <3>1. PICK c \in Nat : c = Cardinality(cut) BY <2>4
    <3>2. \A k \in cut : c >= 1 BY <2>4, <3>1
    <3>3. lapses' = lapses + c /\ lapses \in Nat BY <1>2, <1>4, <3>1
    <3>4. CASE cut = {} BY <3>3, <3>4
    <3>5. CASE cut # {}
      <4>1. c >= 1 BY <3>2, <3>5
      <4> QED BY <3>3, <4>1
    <3> QED BY <3>4, <3>5
  <2>6. \A k \in ToSet(round.seen) : k \in ToSet(new) \/ k \in over \/ k \in cut OBVIOUS
  <2> HIDE DEF new, cut
  <2>7. /\ marks' \in [Streams -> Seq(Nat)] /\ marks'[round.stream] = new
        /\ \A s \in Streams : s # round.stream => marks'[s] = marks[s]
    BY <1>2, <2>1, <2>2
  <2>8. MarksTypes' BY <1>1, <2>3, <2>5, <2>7 DEF MarksIInv, MarksTypes
  <2>9. RoundOK' BY <2>3 DEF RoundOK
  <2>10. MarksOK'
    <3> SUFFICES ASSUME NEW s \in Streams
                 PROVE  /\ ToSet(marks[s])' \subseteq DOMAIN markEvents'
                        /\ \A k \in ToSet(marks[s])' : markEvents'[k] = s
      BY DEF MarksOK
    <3>1. CASE s = round.stream BY <1>1, <1>2, <2>1, <2>7, <3>1
    <3>2. CASE s # round.stream BY <1>1, <2>7, <3>2 DEF MarksIInv, MarksOK
    <3> QED BY <3>1, <3>2
  <2>11. ASSUME NEW k \in DOMAIN markEvents PROVE PaidFor(k)'
    <3>1. PaidFor(k) /\ delivered[k] \in Nat /\ markEvents[k] \in Streams
      BY <2>11, RowNumbers DEF MarksIInv
    <3>2. CASE k \in cut
      <4>1. delivered'[k] <= lapses' /\ delivered'[k] <= lapses' + 1
        BY <1>1, <1>2, <2>5, <3>1, <3>2 DEF PaidFor
      <4> QED BY <4>1 DEF PaidFor
    <3>3. CASE k \notin cut
      <4>1. Announced(k) => Announced(k)'
        <5>1. k \in ToSet(round.seen) => Announced(k)' BY <1>1, <1>2, <2>6, <2>7, <3>3 DEF Announced
        <5>2. CASE markEvents[k] = round.stream
          BY <1>1, <1>2, <5>1, <5>2 DEF Announced
        <5>3. CASE markEvents[k] # round.stream
          BY <1>1, <2>7, <3>1, <5>1, <5>3 DEF Announced
        <5> QED BY <5>2, <5>3
      <4> QED BY <1>1, <1>2, <2>3, <2>5, <3>1, <4>1 DEF PaidFor
    <3> QED BY <3>2, <3>3
  <2>12. Reached'
    <3> SUFFICES ASSUME NEW s \in Streams, NEW k \in ToSet(marks[s])' PROVE DealtWith(k)'
      BY <2>3 DEF Reached
    <3>1. DealtWith(k)
      <4>1. CASE s = round.stream BY <1>2, <2>1, <2>7, <4>1 DEF MarksIInv, Reached
      <4>2. CASE s # round.stream BY <2>7, <4>2 DEF MarksIInv, Reached
      <4> QED BY <4>1, <4>2
    <3> QED BY <1>1, <3>1 DEF DealtWith
  <2> QED BY <1>1, <2>8, <2>9, <2>10, <2>11, <2>12 DEF MarksIInv
<1> QED BY <1>1, <1>3, <1>4

\* Every step keeps the books of the marks.
LEMMA MarksStep == ASSUME MarksIInv, [MarksNext]_marksVars PROVE MarksIInv'
<1>1. CASE \E s \in Streams : NewEvent(s) BY <1>1, EventsAreNew
<1>2. CASE \E k \in DOMAIN markEvents : LeaveWindow(k) BY <1>2, WindowsMove
<1>3. CASE LoadMarks BY <1>3, MarksRead
<1>4. CASE SaveMarks BY <1>4, MarksSaved
<1>5. CASE AlerterRestarts
  <2>1. "delete" \in Streams BY DEF Streams
  <2> QED BY <1>5, <2>1, RoundsEnd DEF AlerterRestarts
<1>6. CASE \E answer \in {"ok", "late", "lost"} : Post(answer) BY <1>6, RowsArePosted
<1>7. CASE UNCHANGED marksVars
  <2>1. UNCHANGED <<markEvents, over, marks, round, delivered, refused, lapses>> BY <1>7 DEF marksVars
  <2>2. MarksTypes' /\ RoundOK' /\ MarksOK' BY <2>1 DEF MarksIInv, MarksTypes, RoundOK, MarksOK
  <2>3. \A k \in DOMAIN markEvents' : PaidFor(k)' BY <2>1 DEF MarksIInv, PaidFor, Announced
  <2>4. Reached' BY <2>1 DEF MarksIInv, Reached, DealtWith
  <2> QED BY <2>2, <2>3, <2>4 DEF MarksIInv
<1> QED BY <1>1, <1>2, <1>3, <1>4, <1>5, <1>6, <1>7 DEF MarksNext

\* What every state of the marks keeps.
LEMMA MarksInvariance == MarksSpec => []MarksIInv
<1>1. MarksInit => MarksIInv BY MarksBegin
<1>2. MarksIInv /\ [MarksNext]_marksVars => MarksIInv' BY MarksStep
<1> QED BY <1>1, <1>2, PTL DEF MarksSpec

\* An executed delete and a waiting gate are announced once, and again only for a post without an
\* answer, a save that failed, a mark that had to go or a restart before the save; a row that is
\* marked reached the phone or two posts of it failed (alert_executed_deletes, alert_authz_pending).
THEOREM RowsAnnouncedOnce == MarksSpec => []AnnouncedOnce
<1>1. MarksIInv => AnnouncedOnce
  <2> SUFFICES ASSUME MarksIInv PROVE AnnouncedOnce OBVIOUS
  <2>1. ASSUME NEW k \in DOMAIN markEvents PROVE delivered[k] <= 1 + lapses
    <3>1. PaidFor(k) /\ lapses \in Nat BY <2>1 DEF MarksIInv, MarksTypes
    <3>2. lapses + 1 = 1 + lapses BY <3>1
    <3> QED BY <3>1, <3>2 DEF PaidFor
  <2>2. \A s \in Streams : \A k \in ToSet(marks[s]) : delivered[k] > 0 \/ refused[k] >= 2
    BY DEF MarksIInv, Reached, DealtWith
  <2> QED BY <2>1, <2>2 DEF AnnouncedOnce
<1>2. MarksSpec => []MarksIInv BY MarksInvariance
<1> QED BY <1>1, <1>2, PTL

\* What is kept of the marks of a round is no more than the cap.
LEMMA NewestAreFew ==
  ASSUME NEW q \in Seq(Nat)
  PROVE  Len(Newest(q)) <= MarksKept
<1>1. Len(q) \in Nat /\ MarksKept \in Nat /\ MarksKept > 0 BY LenProperties, MarksAssumption
<1>2. CASE Len(q) > MarksKept
  <2>1. PICK m : m = Len(q) - MarksKept + 1 OBVIOUS
  <2>2. m \in 1..(Len(q) + 1) /\ Newest(q) = SubSeq(q, m, Len(q)) BY <1>1, <1>2, <2>1 DEF Newest
  <2>3. Len(SubSeq(q, m, Len(q))) = IF m <= Len(q) THEN Len(q) - m + 1 ELSE 0
    BY <1>1, <2>2, SubSeqProperties
  <2> QED BY <1>1, <1>2, <2>1, <2>2, <2>3
<1>3. CASE ~(Len(q) > MarksKept)
  <2>1. Newest(q) = SubSeq(q, 1, Len(q)) BY <1>3 DEF Newest
  <2>2. Len(SubSeq(q, 1, Len(q))) = IF 1 <= Len(q) THEN Len(q) - 1 + 1 ELSE 0 BY <1>1, SubSeqProperties
  <2> QED BY <1>1, <1>3, <2>1, <2>2
<1> QED BY <1>2, <1>3

\* What every state keeps is typed, and neither file of marks outgrows its cap (_DELETE_WM_MAX, _AUTHZ_WM_MAX).
LEMMA MarksAreTyped == MarksSpec => []MarksTypeOK
<1> DEFINE Bounded == lapses <= MaxLapses /\ \A s \in Streams : Len(marks[s]) <= MarksKept
<1>0. MaxLapses \in Nat /\ MarksKept \in Nat /\ MarksKept > 0 BY MarksAssumption
<1>1. MarksInit => Bounded
  <2>1. Len(<<>>) = 0 OBVIOUS
  <2> QED BY <1>0, <2>1 DEF MarksInit
<1>2. MarksIInv /\ Bounded /\ [MarksNext]_marksVars => Bounded'
  <2> SUFFICES ASSUME MarksIInv, Bounded, [MarksNext]_marksVars PROVE Bounded' OBVIOUS
  <2>0. lapses \in Nat /\ marks \in [Streams -> Seq(Nat)] /\ round.seen \in Seq(Nat) /\ round.stream \in Streams
    BY DEF MarksIInv, MarksTypes, Rounds
  <2>1. CASE UNCHANGED <<marks, lapses>> BY <2>1
  <2>2. ASSUME NEW s, NewEvent(s) PROVE Bounded' BY <2>1, <2>2 DEF NewEvent
  <2>3. ASSUME NEW k, LeaveWindow(k) PROVE Bounded' BY <2>1, <2>3 DEF LeaveWindow
  <2>4. CASE LoadMarks BY <2>1, <2>4 DEF LoadMarks
  <2>5. ASSUME NEW answer, Post(answer) PROVE Bounded'
    <3>1. marks' = marks /\ lapses' <= MaxLapses BY <2>5 DEF Post
    <3> QED BY <3>1
  <2>6. CASE SaveMarks
    <3>1. lapses' <= MaxLapses BY <2>6 DEF SaveMarks
    <3>2. marks' = marks \/ marks' = [marks EXCEPT ![round.stream] = Newest(round.seen)]
      BY <2>6 DEF SaveMarks, SavedMarks
    <3>3. Len(Newest(round.seen)) <= MarksKept BY <2>0, NewestAreFew
    <3>4. PICK new : new = Newest(round.seen) OBVIOUS
    <3>5. \A s \in Streams : marks'[s] = marks[s] \/ marks'[s] = new BY <2>0, <3>2, <3>4
    <3> QED BY <3>1, <3>3, <3>4, <3>5
  <2>7. CASE AlerterRestarts BY <1>0, <2>0, <2>7 DEF AlerterRestarts
  <2>8. CASE UNCHANGED marksVars BY <2>1, <2>8 DEF marksVars
  <2> QED BY <2>2, <2>3, <2>4, <2>5, <2>6, <2>7, <2>8 DEF MarksNext
<1>3. MarksIInv /\ Bounded => MarksTypeOK
  <2> SUFFICES ASSUME MarksIInv, Bounded PROVE MarksTypeOK OBVIOUS
  <2>1. MarksTypes /\ MarksOK BY DEF MarksIInv
  <2>2. ASSUME NEW s \in Streams PROVE marks[s] \in Seq(DOMAIN markEvents)
    <3>1. marks[s] \in Seq(Nat) /\ ToSet(marks[s]) \subseteq DOMAIN markEvents BY <2>1 DEF MarksTypes, MarksOK
    <3>2. \A i \in 1..Len(marks[s]) : marks[s][i] \in DOMAIN markEvents BY <3>1, LenProperties DEF ToSet
    <3> QED BY <3>1, <3>2, SeqDef, LenProperties, SMTT(60)
  <2>3. round.place \in {"load", "post", "save"} /\ round.attempt \in 1..2 BY <2>1 DEF MarksTypes, Rounds
  <2>4. lapses \in 0..MaxLapses BY <1>0, <2>1 DEF MarksTypes
  <2> QED BY <2>1, <2>2, <2>3, <2>4 DEF MarksTypes, MarksTypeOK
<1>4. MarksSpec => []MarksIInv BY MarksInvariance
<1> HIDE DEF Bounded
<1> QED BY <1>1, <1>2, <1>3, <1>4, PTL DEF MarksSpec
-----------------------------------------------------------------------------
(* The cards of the cockpit *)

\* What a request read of a session was so at some instant since it began, and what it has still to
\* ask for has not been overtaken.
ListedChatOK(d) ==
  /\ d.of \in Chats /\ d = [of |-> d.of, ts |-> d.ts]
  /\ d.ts \in 1..MaxPulse /\ d.ts <= chat[d.of].at /\ \E v \in views[d.of] : v.at = d.ts
  /\ bell[d.of] >= d.ts => \E v \in views[d.of] : v.waits
AskedChatOK(d) ==
  /\ glance.asks => \E v \in views[d.of] : v.waits
  /\ ~glance.asks => bell[d.of] >= d.ts \/ \E v \in views[d.of] : ~v.waits
CardOK(k) ==
  /\ k.ts \in Nat
  /\ k.of \in Chats => /\ \E v \in views[k.of] : v.at = k.ts
                       /\ \E v \in views[k.of] : v.waits = (k.status = "waiting")

\* A session that gets no card has stopped, is old or is crowded out; another one is to be read or
\* has its card.
HasStopped(c) == (\E v \in views[c] : ~v.waits) /\ \E v \in views[c] : IsStopped(v.at, glance.now)
Younger(c, v) == {d \in Chats \ {c} : \E w \in views[d] : w.at >= v.at}
IsCrowdedOut(c) ==
  \E v \in views[c] : glance.now - v.at > Horizon \/ Cardinality(Younger(c, v)) >= Cap * Headroom
IsCutOff(c) == \E v \in views[c] : Cardinality({k \in glance.cards : k.ts >= v.at}) >= Cap
IsInHand(c) ==
  \/ \E d \in glance.todo : d.of = c
  \/ \E k \in glance.cards : k.of = c

CockpitNumbersOK ==
  /\ pulse \in 1..MaxPulse /\ cockpits \in Nat
  /\ chat \in [Chats -> [at : 1..MaxPulse, asks : BOOLEAN]] /\ \A c \in Chats : chat[c].at <= pulse
  /\ bell \in [Chats -> 0..MaxPulse] /\ (\A c \in Chats : bell[c] <= pulse) /\ vendor \in [at : 0..MaxPulse, user : 0..MaxPulse] /\ ide \in 0..MaxPulse
  /\ views \in [Chats -> SUBSET [at : 1..MaxPulse, waits : BOOLEAN]]

GlancePlaces == {"pending", "marker", "vendor", "task", "ide", "look", "cut", "done", "failed"}
GlanceShape(g) ==
  /\ g = [at |-> g.at, kind |-> g.kind, now |-> g.now, todo |-> g.todo, asks |-> g.asks, ts |-> g.ts, cards |-> g.cards]
  /\ g.at \in GlancePlaces /\ g.kind \in {"cards", "detail"} /\ g.now \in Nat /\ g.asks \in BOOLEAN /\ g.ts \in Nat
  /\ IsFiniteSet(g.cards) /\ (g.at \in {"pending", "marker"} <=> g.todo # {})

GlanceOK ==
  /\ \A c \in Chats : View(c, chat, bell) \in views[c]
  /\ \A d \in glance.todo : ListedChatOK(d)
  /\ \A k \in glance.cards : CardOK(k)
  /\ glance.at = "marker" => AskedChatOK(NextChat(glance.todo))
  /\ glance.kind = "cards" => \A c \in Chats :
       IF glance.at = "done" THEN (\E k \in glance.cards : k.of = c) \/ HasStopped(c) \/ IsCrowdedOut(c) \/ IsCutOff(c)
       ELSE IsInHand(c) \/ HasStopped(c) \/ IsCrowdedOut(c)

CockpitIInv ==
  /\ CockpitNumbersOK
  /\ glance.at = "none" => glance = NoGlance
  /\ glance.at # "none" => GlanceShape(glance) /\ GlanceOK

\* What is assumed of the bounds.
LEMMA CockpitNumbers ==
  /\ Cap \in Nat /\ Headroom \in Nat /\ Lively \in Nat /\ Horizon \in Nat /\ MaxCockpits \in Nat
  /\ MaxPulse \in Nat /\ MaxPulse > 0 /\ Cap * Headroom \in Nat
  /\ IsFiniteSet(Chats) /\ \A c \in Chats : c # "vendor" /\ c # "ide"
<1>1. /\ Cap \in Nat /\ Headroom \in Nat /\ Lively \in Nat /\ Horizon \in Nat /\ MaxCockpits \in Nat
      /\ MaxPulse \in Nat /\ MaxPulse > 0 /\ IsFiniteSet(Chats) /\ Chats \cap {"vendor", "ide"} = {}
  BY CockpitAssumption
<1>2. \A a, b \in Nat : a * b \in Nat OBVIOUS
<1> QED BY <1>1, <1>2

\* A session as it looks at an instant.
LEMMA ChatLooks ==
  ASSUME NEW c \in Chats, NEW doc \in [Chats -> [at : 1..MaxPulse, asks : BOOLEAN]], NEW ring \in [Chats -> 0..MaxPulse]
  PROVE  /\ View(c, doc, ring) \in [at : 1..MaxPulse, waits : BOOLEAN]
         /\ View(c, doc, ring).at = doc[c].at
         /\ View(c, doc, ring).waits <=> (doc[c].asks \/ ring[c] >= doc[c].at)
<1>1. doc[c].at \in 1..MaxPulse /\ doc[c].asks \in BOOLEAN OBVIOUS
<1>2. Waits(c, doc, ring) \in BOOLEAN BY <1>1 DEF Waits
<1> QED BY <1>1, <1>2 DEF View, Waits

\* A list that is not empty has a newest entry.
LEMMA NewestIsListed ==
  ASSUME NEW n \in Nat, NEW todo, todo # {}, \A d \in todo : d.ts \in 1..n
  PROVE  NextChat(todo) \in todo
<1> DEFINE S == {d.ts : d \in todo}
<1>1. S \in SUBSET (1..n) /\ S # {} OBVIOUS
<1> HIDE DEF S
<1>2. Max(S) \in S /\ \A i \in S : i <= Max(S) BY <1>1, LastPosition
<1>3. PICK d \in todo : d.ts = Max(S) BY <1>2 DEF S
<1>4. ASSUME NEW e \in todo PROVE d.ts >= e.ts
  <2>1. e.ts \in S /\ e.ts \in Nat /\ d.ts \in Nat BY DEF S
  <2> QED BY <1>2, <1>3, <2>1
<1> QED BY <1>3, <1>4 DEF NextChat

\* At first nothing is asked.
LEMMA CockpitBegins == CockpitInit => CockpitIInv
<1> SUFFICES ASSUME CockpitInit PROVE CockpitIInv OBVIOUS
<1>1. 1 \in 1..MaxPulse /\ 0 \in 0..MaxPulse /\ 1 \in 0..MaxPulse BY CockpitNumbers
<1>2. [c \in Chats |-> [at |-> 1, asks |-> FALSE]] \in [Chats -> [at : 1..MaxPulse, asks : BOOLEAN]] BY <1>1
<1>3. CockpitNumbersOK BY <1>1, <1>2 DEF CockpitInit, CockpitNumbersOK, Away
<1>4. glance = NoGlance /\ glance.at = "none" BY DEF CockpitInit, NoGlance
<1> QED BY <1>3, <1>4 DEF CockpitIInv

\* Who is younger than somebody stays so while the past only grows.
LEMMA YoungerStay ==
  ASSUME \A q \in Chats : views[q] \subseteq views'[q], NEW c \in Chats, NEW v,
         Cardinality(Younger(c, v)) >= Cap * Headroom
  PROVE  Cardinality(Younger(c, v)') >= Cap * Headroom
<1>1. Younger(c, v) \subseteq Younger(c, v)' /\ Younger(c, v)' \subseteq Chats BY DEF Younger
<1>2. IsFiniteSet(Younger(c, v)') BY <1>1, CockpitNumbers, FS_Subset
<1>3. PICK A, B : A = Younger(c, v) /\ B = Younger(c, v)' OBVIOUS
<1>4. Cardinality(A) <= Cardinality(B) /\ Cardinality(A) \in Nat /\ Cardinality(B) \in Nat /\ IsFiniteSet(A)
  BY <1>1, <1>2, <1>3, FS_Subset, FS_CardinalityType
<1> QED BY <1>3, <1>4, CockpitNumbers

\* What is so of a request stays so while its past grows and it does nothing itself.
LEMMA CockpitWaits ==
  ASSUME CockpitIInv, CockpitNumbersOK', glance' = glance, \A q \in Chats : views[q] \subseteq views'[q],
         \A q \in Chats : View(q, chat', bell') \in views'[q],
         \A q \in Chats : chat'[q].at >= chat[q].at /\ bell'[q] >= bell[q] /\ (bell'[q] = bell[q] \/ View(q, chat', bell').waits)
  PROVE  CockpitIInv'
<1>0. CASE glance.at = "none" BY <1>0 DEF CockpitIInv, NoGlance
<1> SUFFICES ASSUME glance.at # "none" PROVE CockpitIInv' BY <1>0
<1>1. GlanceShape(glance) /\ GlanceOK /\ CockpitNumbersOK BY DEF CockpitIInv
<1>2. \A q \in Chats : /\ chat[q].at \in Nat /\ chat'[q].at \in Nat /\ bell[q] \in Nat /\ bell'[q] \in Nat
  BY <1>1, CockpitNumbers DEF CockpitNumbersOK
<1>3. ASSUME NEW d \in glance.todo PROVE ListedChatOK(d)'
  <2>1. ListedChatOK(d) BY <1>1 DEF GlanceOK
  <2>2. d.of \in Chats /\ d.ts \in Nat BY <2>1, CockpitNumbers DEF ListedChatOK
  <2>3. d.ts <= chat'[d.of].at BY <1>2, <2>1, <2>2 DEF ListedChatOK
  <2>4. (bell[d.of] >= d.ts => \E v \in views[d.of] : v.waits) => (bell'[d.of] >= d.ts => \E v \in views'[d.of] : v.waits)
    BY <2>2
  <2> QED BY <2>1, <2>2, <2>3, <2>4 DEF ListedChatOK
<1>4. ASSUME NEW k \in glance.cards PROVE CardOK(k)'
  <2>1. CardOK(k) BY <1>1 DEF GlanceOK
  <2> QED BY <2>1 DEF CardOK
<1>5. ASSUME glance.at = "marker" PROVE AskedChatOK(NextChat(glance.todo))'
  <2>1. AskedChatOK(NextChat(glance.todo)) BY <1>1, <1>5 DEF GlanceOK
  <2>2. glance.todo # {} BY <1>1, <1>5 DEF GlanceShape
  <2>3. \A d \in glance.todo : d.ts \in 1..MaxPulse BY <1>1 DEF GlanceOK, ListedChatOK
  <2>4. NextChat(glance.todo) \in glance.todo BY <2>2, <2>3, CockpitNumbers, NewestIsListed
  <2>5. PICK d \in glance.todo : d = NextChat(glance.todo) BY <2>4
  <2>6. ListedChatOK(d) /\ AskedChatOK(d) BY <1>1, <2>1, <2>5 DEF GlanceOK
  <2>7. d.of \in Chats /\ d.ts \in Nat /\ views[d.of] \subseteq views'[d.of] BY <2>6, CockpitNumbers DEF ListedChatOK
  <2>8. ASSUME bell[d.of] >= d.ts PROVE bell'[d.of] >= d.ts
    BY <1>2, <2>7, <2>8
  <2>9. AskedChatOK(d)' BY <2>6, <2>7, <2>8 DEF AskedChatOK
  <2> QED BY <2>5, <2>9
<1>6. \A c \in Chats : (IsInHand(c) => IsInHand(c)') /\ (HasStopped(c) => HasStopped(c)')
  BY DEF IsInHand, HasStopped, IsStopped
<1>7. \A c \in Chats : IsCrowdedOut(c) => IsCrowdedOut(c)' BY YoungerStay DEF IsCrowdedOut
<1>8. \A c \in Chats : IsCutOff(c) => IsCutOff(c)' BY DEF IsCutOff
<1>9. GlanceOK' BY <1>1, <1>3, <1>4, <1>5, <1>6, <1>7, <1>8 DEF GlanceOK
<1> QED BY <1>1, <1>9 DEF CockpitIInv

\* A session writes or is rung: the request may see it from then on.
LEMMA ChatsMove ==
  ASSUME CockpitIInv, NEW c \in Chats, (\E blocked \in BOOLEAN : ChatWrites(c, blocked)) \/ BellRings(c)
  PROVE  CockpitIInv'
<1>1. /\ pulse < MaxPulse /\ pulse' = pulse + 1 /\ UNCHANGED <<glance, cockpits, vendor, ide>>
      /\ views' = [q \in Chats |-> views[q] \union {View(q, chat', bell')}]
  BY DEF ChatWrites, BellRings, Tock, Witness
<1>2. CockpitNumbersOK BY DEF CockpitIInv
<1>3. pulse \in 1..MaxPulse /\ pulse' \in 1..MaxPulse /\ pulse' \in 0..MaxPulse /\ MaxPulse \in Nat
  BY <1>1, <1>2, CockpitNumbers DEF CockpitNumbersOK
<1>4. chat \in [Chats -> [at : 1..MaxPulse, asks : BOOLEAN]] /\ bell \in [Chats -> 0..MaxPulse] /\ views \in [Chats -> SUBSET [at : 1..MaxPulse, waits : BOOLEAN]]
  BY <1>2 DEF CockpitNumbersOK
<1>5. /\ chat' \in [Chats -> [at : 1..MaxPulse, asks : BOOLEAN]] /\ bell' \in [Chats -> 0..MaxPulse]
      /\ \A q \in Chats : (chat'[q] = chat[q] \/ chat'[q].at = pulse') /\ (bell'[q] = bell[q] \/ (bell'[q] = pulse' /\ chat'[q] = chat[q]))
  <2>1. CASE BellRings(c)
    <3>1. bell' = [bell EXCEPT ![c] = pulse'] /\ chat' = chat BY <2>1 DEF BellRings
    <3> QED BY <1>3, <1>4, <3>1
  <2>2. CASE \E blocked \in BOOLEAN : ChatWrites(c, blocked)
    <3>1. PICK blocked \in BOOLEAN : ChatWrites(c, blocked) BY <2>2
    <3>2. chat' = [chat EXCEPT ![c] = [at |-> pulse', asks |-> blocked]] /\ bell' = bell BY <3>1 DEF ChatWrites
    <3>3. PICK x \in [at : 1..MaxPulse, asks : BOOLEAN] : x = [at |-> pulse', asks |-> blocked] BY <1>3
    <3>4. x.at = pulse' /\ chat' = [chat EXCEPT ![c] = x] BY <3>2, <3>3
    <3>5. chat' \in [Chats -> [at : 1..MaxPulse, asks : BOOLEAN]] /\ \A q \in Chats : chat'[q] = IF q = c THEN x ELSE chat[q]
      BY <1>4, <3>4
    <3>6. \A q \in Chats : chat'[q] = chat[q] \/ chat'[q].at = pulse' BY <3>4, <3>5
    <3>7. bell' \in [Chats -> 0..MaxPulse] /\ \A q \in Chats : bell'[q] = bell[q] BY <1>4, <3>2
    <3> QED BY <3>5, <3>6, <3>7, Zenon
  <2> QED BY <2>1, <2>2
<1>6. \A q \in Chats : View(q, chat', bell') \in [at : 1..MaxPulse, waits : BOOLEAN] BY <1>5, ChatLooks
<1>7. views' \in [Chats -> SUBSET [at : 1..MaxPulse, waits : BOOLEAN]] BY <1>1, <1>4, <1>6
<1>8. \A q \in Chats : views[q] \subseteq views'[q] /\ View(q, chat', bell') \in views'[q] BY <1>1
<1>9. \A q \in Chats : /\ chat[q].at \in Nat /\ bell[q] \in Nat /\ chat[q].at <= pulse /\ chat'[q].at \in Nat /\ bell'[q] \in Nat
                       /\ bell[q] <= MaxPulse
  BY <1>2, <1>4, <1>5, CockpitNumbers DEF CockpitNumbersOK
<1>10. \A q \in Chats : chat'[q].at <= pulse' /\ chat'[q].at >= chat[q].at
  BY <1>1, <1>3, <1>5, <1>9
<1>11. \A q \in Chats : bell[q] <= pulse BY <1>2 DEF CockpitNumbersOK
<1>12. \A q \in Chats : bell'[q] >= bell[q] /\ (bell'[q] = bell[q] \/ bell'[q] >= chat'[q].at)
  BY <1>1, <1>3, <1>5, <1>9, <1>10, <1>11
<1>13. \A q \in Chats : bell'[q] = bell[q] \/ View(q, chat', bell').waits BY <1>5, <1>12, ChatLooks
<1>14. \A q \in Chats : bell'[q] <= pulse' BY <1>1, <1>3, <1>5, <1>9, <1>11
<1>15. CockpitNumbersOK' BY <1>1, <1>2, <1>3, <1>5, <1>7, <1>10, <1>14 DEF CockpitNumbersOK
<1> QED BY <1>1, <1>8, <1>10, <1>12, <1>13, <1>15, CockpitWaits

\* What the others write is not a session's.
LEMMA OthersMove ==
  ASSUME CockpitIInv, (\E user \in BOOLEAN : VendorWrites(user)) \/ IdeWrites
  PROVE  CockpitIInv'
<1>1. /\ pulse < MaxPulse /\ pulse' = pulse + 1 /\ UNCHANGED <<glance, cockpits, chat, bell, views>>
  BY DEF VendorWrites, IdeWrites, Tock
<1>2. CockpitNumbersOK BY DEF CockpitIInv
<1>3. pulse \in 1..MaxPulse /\ pulse' \in 1..MaxPulse /\ pulse' \in 0..MaxPulse
  BY <1>1, <1>2, CockpitNumbers DEF CockpitNumbersOK
<1>4. vendor' \in [at : 0..MaxPulse, user : 0..MaxPulse] /\ ide' \in 0..MaxPulse
  <2>1. CASE IdeWrites BY <1>2, <1>3, <2>1, CockpitNumbers DEF IdeWrites, CockpitNumbersOK, Away
  <2>2. CASE \E user \in BOOLEAN : VendorWrites(user)
    <3>1. PICK user \in BOOLEAN : VendorWrites(user) BY <2>2
    <3>2. vendor.user \in 0..MaxPulse BY <1>2 DEF CockpitNumbersOK
    <3>3. vendor' = [at |-> pulse', user |-> IF user THEN pulse' ELSE vendor.user] /\ ide' = ide BY <3>1 DEF VendorWrites
    <3> QED BY <1>2, <1>3, <3>2, <3>3 DEF CockpitNumbersOK
  <2> QED BY <2>1, <2>2
<1>5. CockpitNumbersOK'
  <2>1. \A q \in Chats : chat[q].at <= pulse' /\ bell[q] <= pulse'
    BY <1>1, <1>2, <1>3, CockpitNumbers DEF CockpitNumbersOK
  <2> QED BY <1>1, <1>2, <1>3, <1>4, <2>1 DEF CockpitNumbersOK
<1>6. CASE glance.at = "none" BY <1>1, <1>5, <1>6 DEF CockpitIInv, NoGlance
<1>7. CASE glance.at # "none"
  <2>1. \A q \in Chats : View(q, chat', bell') = View(q, chat, bell) BY <1>1 DEF View, Waits
  <2>2. \A q \in Chats : View(q, chat', bell') \in views'[q] BY <1>1, <1>7, <2>1 DEF CockpitIInv, GlanceOK
  <2>3. \A q \in Chats : chat'[q].at >= chat[q].at /\ bell'[q] >= bell[q] /\ bell'[q] = bell[q] /\ views[q] \subseteq views'[q]
    BY <1>1, <1>2, CockpitNumbers DEF CockpitNumbersOK
  <2> QED BY <1>1, <1>5, <2>2, <2>3, CockpitWaits
<1> QED BY <1>6, <1>7

\* Entries are as many as the sessions they are of, when no two are of the same.
LEMMA EntriesAreSessions ==
  ASSUME NEW T, NEW Y, IsFiniteSet(Y), \A a \in T : a.of \in Y, \A a, b \in T : a.of = b.of => a = b
  PROVE  IsFiniteSet(T) /\ Cardinality(T) \in Nat /\ Cardinality(Y) \in Nat /\ Cardinality(T) <= Cardinality(Y)
<1> DEFINE f == [a \in T |-> a.of]
<1>1. f \in [T -> Y] OBVIOUS
<1>2. IsInjective(f) BY DEF IsInjective
<1>3. f \in Injection(T, Y) BY <1>1, <1>2 DEF Injection
<1> HIDE DEF f
<1>4. IsFiniteSet(T) /\ Cardinality(T) <= Cardinality(Y) BY <1>3, FS_Injection
<1> QED BY <1>4, FS_CardinalityType

\* What the first of a list leave out is not newer than any of them, and they are as many as may be.
LEMMA LeftOut ==
  ASSUME NEW S, IsFiniteSet(S), NEW n \in Nat, NEW T \in NewestOf(S, n), NEW e \in S, e \notin T
  PROVE  Cardinality(T) = n /\ IsFiniteSet(T) /\ \A a \in T : a.ts >= e.ts
<1>1. T \in SUBSET S /\ Cardinality(T) = (IF Cardinality(S) < n THEN Cardinality(S) ELSE n) BY DEF NewestOf
<1>2. \A a \in T : a.ts >= e.ts BY DEF NewestOf
<1>3. IsFiniteSet(T) /\ (Cardinality(S) = Cardinality(T) => S = T) BY <1>1, FS_Subset
<1>4. S # T OBVIOUS
<1> QED BY <1>1, <1>2, <1>3, <1>4

\* A session that is not on the list is too old or crowded out.
LEMMA ListsCrowdOut ==
  ASSUME pulse \in Nat, chat \in [Chats -> [at : 1..MaxPulse, asks : BOOLEAN]], NEW todo \in ChatLists, NEW c \in Chats
  PROVE  \/ \E d \in todo : d.of = c
         \/ pulse - chat[c].at > Horizon
         \/ Cardinality({d \in Chats \ {c} : chat[d].at >= chat[c].at}) >= Cap * Headroom
<1> DEFINE W == {d \in Chats : pulse - chat[d].at <= Horizon}
           S == {[of |-> q, ts |-> chat[q].at] : q \in W}
           Y == {d \in Chats \ {c} : chat[d].at >= chat[c].at}
           e == [of |-> c, ts |-> chat[c].at]
<1>1. IsFiniteSet(Chats) /\ Cap * Headroom \in Nat BY CockpitNumbers
<1>2. IsFiniteSet(W) /\ IsFiniteSet(Y)
  <2>1. W \subseteq Chats /\ Y \subseteq Chats OBVIOUS
  <2> QED BY <1>1, <2>1, FS_Subset
<1>3. \A a \in S : a.of \in W /\ a = [of |-> a.of, ts |-> chat[a.of].at] OBVIOUS
<1>4. \A a, b \in S : a.of = b.of => a = b BY <1>3
<1>5. todo \in NewestOf(S, Cap * Headroom) BY DEF ChatLists
<1>6. todo \subseteq S BY <1>5 DEF NewestOf
<1>7. c \in W => e \in S OBVIOUS
<1>8. c \notin W => ~(pulse - chat[c].at <= Horizon) OBVIOUS
<1>9. e.of = c /\ e.ts = chat[c].at OBVIOUS
<1>10. \A d \in Chats : d # c /\ chat[d].at >= chat[c].at => d \in Y OBVIOUS
<1>11. W \subseteq Chats OBVIOUS
<1> HIDE DEF W, S, e
<1>12. IsFiniteSet(S)
  <2>1. \A a \in S : a.of \in W BY <1>3
  <2> QED BY <1>2, <1>4, <2>1, EntriesAreSessions
<1>13. ASSUME c \in W, ~\E d \in todo : d.of = c PROVE Cardinality(Y) >= Cap * Headroom
  <2>1. e \in S /\ e \notin todo BY <1>7, <1>9, <1>13
  <2>2. Cardinality(todo) = Cap * Headroom /\ \A a \in todo : a.ts >= e.ts
    BY <1>1, <1>5, <1>12, <2>1, LeftOut
  <2>3. ASSUME NEW a \in todo PROVE a.of \in Y
    <3>1. a.of \in Chats /\ a.of # c /\ a.ts = chat[a.of].at BY <1>3, <1>6, <1>11, <1>13
    <3> QED BY <1>9, <1>10, <2>2, <3>1
  <2>4. \A a, b \in todo : a.of = b.of => a = b BY <1>4, <1>6
  <2> HIDE DEF Y
  <2>5. Cardinality(todo) <= Cardinality(Y) /\ Cardinality(Y) \in Nat BY <1>2, <2>3, <2>4, EntriesAreSessions
  <2> QED BY <1>1, <2>2, <2>5
<1>14. chat[c].at \in Nat /\ Horizon \in Nat
  <2>1. chat[c].at \in 1..MaxPulse OBVIOUS
  <2> QED BY <2>1, CockpitNumbers
<1>15. c \notin W => pulse - chat[c].at > Horizon BY <1>8, <1>14
<1> QED BY <1>13, <1>15

\* A request begins: it has everything yet to read.
LEMMA RequestBegins ==
  ASSUME CockpitIInv, NEW kind \in {"cards", "detail"}, NEW todo, AskFor(kind, todo),
         \A d \in todo : d.of \in Chats /\ d = [of |-> d.of, ts |-> chat[d.of].at],
         kind = "cards" => \A c \in Chats :
           \/ \E d \in todo : d.of = c
           \/ pulse - chat[c].at > Horizon
           \/ Cardinality({d \in Chats \ {c} : chat[d].at >= chat[c].at}) >= Cap * Headroom
  PROVE  CockpitIInv'
<1>1. CockpitNumbersOK BY DEF CockpitIInv
<1>2. /\ glance' = [at |-> IF todo = {} THEN "vendor" ELSE "pending", kind |-> kind, now |-> pulse, todo |-> todo,
                    asks |-> FALSE, ts |-> 0, cards |-> {}]
      /\ views' = [c \in Chats |-> {View(c, chat, bell)}] /\ cockpits' = cockpits + 1
      /\ UNCHANGED <<pulse, chat, bell, vendor, ide>>
  BY DEF AskFor
<1>3. \A c \in Chats : /\ View(c, chat, bell) \in [at : 1..MaxPulse, waits : BOOLEAN] /\ View(c, chat, bell).at = chat[c].at
                       /\ View(c, chat, bell).waits <=> (chat[c].asks \/ bell[c] >= chat[c].at)
                       /\ View(c, chat', bell') = View(c, chat, bell) /\ views'[c] = {View(c, chat, bell)}
  BY <1>1, <1>2, ChatLooks DEF CockpitNumbersOK, View, Waits
<1>4. views' \in [Chats -> SUBSET [at : 1..MaxPulse, waits : BOOLEAN]] BY <1>2, <1>3
<1>5. pulse \in Nat /\ pulse' = pulse /\ chat' = chat /\ bell' = bell /\ cockpits' \in Nat
      /\ \A c \in Chats : chat[c].at \in 1..MaxPulse /\ chat[c].at \in Nat /\ bell[c] \in Nat
  BY <1>1, <1>2, CockpitNumbers DEF CockpitNumbersOK
<1>6. CockpitNumbersOK' BY <1>1, <1>2, <1>4, <1>5 DEF CockpitNumbersOK
<1>7. /\ glance'.at = IF todo = {} THEN "vendor" ELSE "pending"
      /\ glance'.kind = kind /\ glance'.now = pulse /\ glance'.todo = todo /\ glance'.asks = FALSE /\ glance'.ts = 0
      /\ glance'.cards = {}
  BY <1>2
<1>8. GlanceShape(glance')
  <2>1. IsFiniteSet({}) BY FS_EmptySet
  <2>2. glance' = [at |-> glance'.at, kind |-> glance'.kind, now |-> glance'.now, todo |-> glance'.todo, asks |-> glance'.asks,
                   ts |-> glance'.ts, cards |-> glance'.cards]
    BY <1>2
  <2>3. glance'.at \in GlancePlaces /\ (glance'.at \in {"pending", "marker"} <=> glance'.todo # {}) BY <1>7 DEF GlancePlaces
  <2>4. glance'.ts \in Nat /\ glance'.now \in Nat BY <1>5, <1>7
  <2>5. glance'.kind \in {"cards", "detail"} /\ glance'.asks \in BOOLEAN /\ IsFiniteSet(glance'.cards) BY <1>7, <2>1, Zenon
  <2> QED BY <2>2, <2>3, <2>4, <2>5, Zenon DEF GlanceShape
<1>9. ASSUME NEW d \in todo PROVE ListedChatOK(d)'
  <2>1. d.of \in Chats /\ d.ts = chat[d.of].at /\ d = [of |-> d.of, ts |-> d.ts] OBVIOUS
  <2>2. View(d.of, chat, bell) \in views'[d.of] BY <1>3, <2>1
  <2>3. bell[d.of] >= d.ts => View(d.of, chat, bell).waits BY <1>3, <2>1
  <2>4. d.ts <= chat[d.of].at /\ d.ts \in 1..MaxPulse /\ View(d.of, chat, bell).at = d.ts BY <1>3, <1>5, <2>1
  <2> QED BY <1>5, <2>1, <2>2, <2>3, <2>4 DEF ListedChatOK
<1>10. ASSUME kind = "cards", NEW c \in Chats PROVE IsInHand(c)' \/ IsCrowdedOut(c)'
  <2>1. CASE \E d \in todo : d.of = c BY <1>7, <2>1 DEF IsInHand
  <2>2. CASE pulse - chat[c].at > Horizon
    <3>1. View(c, chat, bell) \in views'[c] /\ glance'.now - View(c, chat, bell).at > Horizon BY <1>3, <1>7, <2>2
    <3> QED BY <3>1 DEF IsCrowdedOut
  <2>3. CASE Cardinality({d \in Chats \ {c} : chat[d].at >= chat[c].at}) >= Cap * Headroom
    <3>1. PICK v : v = View(c, chat, bell) OBVIOUS
    <3>2. Younger(c, v)' = {d \in Chats \ {c} : chat[d].at >= chat[c].at}
      <4>1. \A d \in Chats \ {c} : (\E w \in views'[d] : w.at >= v.at) <=> chat[d].at >= chat[c].at BY <1>3, <3>1
      <4> QED BY <4>1 DEF Younger
    <3>3. v \in views'[c] /\ Cardinality(Younger(c, v)') >= Cap * Headroom BY <1>3, <2>3, <3>1, <3>2
    <3> QED BY <3>3 DEF IsCrowdedOut
  <2> QED BY <1>10, <2>1, <2>2, <2>3
<1>11. GlanceOK'
  <2>1. \A c \in Chats : View(c, chat', bell') \in views'[c] BY <1>3
  <2>2. \A k \in glance'.cards : CardOK(k)' BY <1>7
  <2>3. glance'.at # "marker" /\ glance'.at # "done" BY <1>7
  <2>4. \A d \in glance'.todo : ListedChatOK(d)' BY <1>7, <1>9
  <2>5. glance'.kind = "cards" => \A c \in Chats : (IsInHand(c) \/ HasStopped(c) \/ IsCrowdedOut(c))' BY <1>7, <1>10
  <2> QED BY <2>1, <2>2, <2>3, <2>4, <2>5 DEF GlanceOK
<1>12. glance'.at # "none" BY <1>7
<1> QED BY <1>6, <1>8, <1>11, <1>12 DEF CockpitIInv

\* One asks for the cards or for one session.
LEMMA AsksBegin ==
  ASSUME CockpitIInv, AskCards \/ \E c \in Chats : AskDetail(c)
  PROVE  CockpitIInv'
<1>1. CockpitNumbersOK BY DEF CockpitIInv
<1>2. pulse \in Nat /\ chat \in [Chats -> [at : 1..MaxPulse, asks : BOOLEAN]]
  BY <1>1, CockpitNumbers DEF CockpitNumbersOK
<1>3. CASE AskCards
  <2>1. PICK todo \in ChatLists : AskFor("cards", todo) BY <1>3 DEF AskCards
  <2>2. \A d \in todo : d.of \in Chats /\ d = [of |-> d.of, ts |-> chat[d.of].at] BY <2>1 DEF ChatLists, NewestOf
  <2>3. \A c \in Chats :
           \/ \E d \in todo : d.of = c
           \/ pulse - chat[c].at > Horizon
           \/ Cardinality({d \in Chats \ {c} : chat[d].at >= chat[c].at}) >= Cap * Headroom
    BY <1>2, <2>1, ListsCrowdOut
  <2> QED BY <2>1, <2>2, <2>3, RequestBegins
<1>4. CASE \E c \in Chats : AskDetail(c)
  <2>1. PICK c \in Chats : AskFor("detail", {[of |-> c, ts |-> chat[c].at]}) BY <1>4 DEF AskDetail
  <2>2. PICK todo : todo = {[of |-> c, ts |-> chat[c].at]} OBVIOUS
  <2>3. AskFor("detail", todo) BY <2>1, <2>2
  <2>4. \A d \in todo : d.of \in Chats /\ d = [of |-> d.of, ts |-> chat[d.of].at] BY <2>2
  <2> QED BY <2>3, <2>4, RequestBegins
<1> QED BY <1>3, <1>4

\* A request goes on by itself: what it takes and leaves is to be so, the rest is as it was.
LEMMA RequestGoesOn ==
  ASSUME CockpitIInv, glance.at \notin {"none", "done"}, UNCHANGED <<pulse, chat, bell, vendor, ide, views, cockpits>>,
         GlanceShape(glance'), glance'.now = glance.now, glance'.kind = glance.kind, glance'.todo \subseteq glance.todo,
         \A k \in glance'.cards : k \in glance.cards \/ CardOK(k),
         glance'.at = "marker" => AskedChatOK(NextChat(glance.todo))' /\ glance'.todo = glance.todo,
         glance'.kind = "cards" => \A c \in Chats : IsInHand(c) =>
           \/ HasStopped(c)
           \/ glance'.at # "done" /\ IsInHand(c)'
           \/ glance'.at = "done" /\ ((\E k \in glance'.cards : k.of = c) \/ IsCutOff(c)')
  PROVE  CockpitIInv'
<1>1. CockpitNumbersOK /\ GlanceShape(glance) /\ GlanceOK BY DEF CockpitIInv
<1>2. pulse' = pulse /\ chat' = chat /\ bell' = bell /\ views' = views OBVIOUS
<1>3. CockpitNumbersOK' BY <1>1 DEF CockpitNumbersOK
<1>4. \A c \in Chats : View(c, chat', bell') \in views'[c] BY <1>1, <1>2 DEF GlanceOK, View, Waits
<1>5. \A d \in glance'.todo : ListedChatOK(d)'
  <2>1. \A d \in glance'.todo : ListedChatOK(d) BY <1>1 DEF GlanceOK
  <2> QED BY <1>2, <2>1 DEF ListedChatOK
<1>6. \A k \in glance'.cards : CardOK(k)'
  <2>1. \A k \in glance'.cards : CardOK(k) BY <1>1 DEF GlanceOK
  <2> QED BY <1>2, <2>1 DEF CardOK
<1>7. glance'.at = "marker" => AskedChatOK(NextChat(glance.todo))' OBVIOUS
<1>8. \A c \in Chats : (HasStopped(c) => HasStopped(c)') /\ (IsCrowdedOut(c) => IsCrowdedOut(c)')
  BY <1>2 DEF HasStopped, IsCrowdedOut, Younger
<1>9. ASSUME glance'.kind = "cards", NEW c \in Chats
      PROVE  IF glance'.at = "done" THEN ((\E k \in glance'.cards : k.of = c) \/ HasStopped(c)' \/ IsCrowdedOut(c)' \/ IsCutOff(c)')
             ELSE (IsInHand(c)' \/ HasStopped(c)' \/ IsCrowdedOut(c)')
  <2>1. IsInHand(c) \/ HasStopped(c) \/ IsCrowdedOut(c) BY <1>1, <1>9 DEF GlanceOK
  <2>2. CASE HasStopped(c) \/ IsCrowdedOut(c) BY <1>8, <2>2
  <2>3. CASE IsInHand(c)
    <3>1. \/ HasStopped(c)
          \/ glance'.at # "done" /\ IsInHand(c)'
          \/ glance'.at = "done" /\ ((\E k \in glance'.cards : k.of = c) \/ IsCutOff(c)')
      BY <1>9, <2>3
    <3> QED BY <1>8, <3>1
  <2> QED BY <2>1, <2>2, <2>3
<1>10. GlanceOK' BY <1>4, <1>5, <1>6, <1>7, <1>9 DEF GlanceOK
<1>11. glance'.at # "none" BY DEF GlanceShape, GlancePlaces
<1> QED BY <1>3, <1>10, <1>11 DEF CockpitIInv

\* The pending question of the session that is next.
LEMMA PendingIsRead ==
  ASSUME CockpitIInv, ReadPending
  PROVE  CockpitIInv'
<1>1. CockpitNumbersOK /\ GlanceShape(glance) /\ GlanceOK /\ glance.at = "pending"
  BY DEF CockpitIInv, ReadPending
<1>2. PICK d : d = NextChat(glance.todo) OBVIOUS
<1>3. /\ glance' = [glance EXCEPT !.at = "marker", !.asks = chat[d.of].asks]
      /\ UNCHANGED <<pulse, chat, bell, vendor, ide, views, cockpits>>
  BY <1>2 DEF ReadPending
<1>4. d \in glance.todo /\ ListedChatOK(d) /\ glance.todo # {}
  <2>1. glance.todo # {} BY <1>1 DEF GlanceShape
  <2>2. \A e \in glance.todo : ListedChatOK(e) /\ e.ts \in 1..MaxPulse BY <1>1 DEF GlanceOK, ListedChatOK
  <2> QED BY <1>2, <2>1, <2>2, CockpitNumbers, NewestIsListed
<1>5. /\ d.of \in Chats /\ chat[d.of].asks \in BOOLEAN /\ chat \in [Chats -> [at : 1..MaxPulse, asks : BOOLEAN]]
      /\ bell \in [Chats -> 0..MaxPulse]
  BY <1>1, <1>4 DEF ListedChatOK, CockpitNumbersOK
<1>6. /\ glance'.at = "marker" /\ glance'.asks = chat[d.of].asks /\ glance'.now = glance.now /\ glance'.kind = glance.kind
      /\ glance'.todo = glance.todo /\ glance'.cards = glance.cards /\ glance'.ts = glance.ts
      /\ glance' = [at |-> glance'.at, kind |-> glance'.kind, now |-> glance'.now, todo |-> glance'.todo, asks |-> glance'.asks,
                    ts |-> glance'.ts, cards |-> glance'.cards]
  BY <1>1, <1>3 DEF GlanceShape
<1>7. GlanceShape(glance')
  <2>1. glance'.asks \in BOOLEAN BY <1>5, <1>6, Zenon
  <2>2. glance'.at \in GlancePlaces /\ (glance'.at \in {"pending", "marker"} <=> glance'.todo # {})
    BY <1>4, <1>6 DEF GlancePlaces
  <2>3. glance.kind \in {"cards", "detail"} /\ glance.now \in Nat /\ glance.ts \in Nat /\ IsFiniteSet(glance.cards)
    BY <1>1 DEF GlanceShape
  <2>4. glance'.kind \in {"cards", "detail"} /\ glance'.now \in Nat /\ glance'.ts \in Nat /\ IsFiniteSet(glance'.cards)
    BY <1>6, <2>3
  <2> QED BY <1>6, <2>1, <2>2, <2>4, Zenon DEF GlanceShape
<1>8. AskedChatOK(d)'
  <2>1. View(d.of, chat, bell) \in views[d.of] BY <1>1, <1>5 DEF GlanceOK
  <2>2. View(d.of, chat, bell).waits <=> (chat[d.of].asks \/ bell[d.of] >= chat[d.of].at) BY <1>5, ChatLooks
  <2>3. chat[d.of].asks => \E v \in views'[d.of] : v.waits BY <1>3, <2>1, <2>2
  <2>4. ASSUME ~chat[d.of].asks PROVE bell'[d.of] >= d.ts \/ \E v \in views'[d.of] : ~v.waits
    <3>1. chat[d.of].at \in Nat /\ bell[d.of] \in Nat /\ d.ts \in Nat /\ d.ts <= chat[d.of].at
      BY <1>4, <1>5, CockpitNumbers DEF ListedChatOK
    <3>2. bell[d.of] >= chat[d.of].at => bell'[d.of] >= d.ts BY <1>3, <3>1
    <3> QED BY <1>3, <2>1, <2>2, <2>4, <3>2
  <2> QED BY <1>6, <2>3, <2>4 DEF AskedChatOK
<1>9. AskedChatOK(NextChat(glance.todo))'
  <2>1. NextChat(glance.todo)' = d BY <1>2, <1>6
  <2> QED BY <1>8, <2>1
<1>10. \A c \in Chats : IsInHand(c) => IsInHand(c)' BY <1>6 DEF IsInHand
<1> QED BY <1>1, <1>3, <1>6, <1>7, <1>9, <1>10, RequestGoesOn

\* The marker of the session that is next, and its card.
LEMMA BellIsRead ==
  ASSUME CockpitIInv, ReadBell
  PROVE  CockpitIInv'
<1>1. CockpitNumbersOK /\ GlanceShape(glance) /\ GlanceOK /\ glance.at = "marker"
  BY DEF CockpitIInv, ReadBell
<1>2. PICK d : d = NextChat(glance.todo) OBVIOUS
<1> DEFINE waits == glance.asks \/ bell[d.of] >= d.ts
<1>3. PICK status : status = CardStatus(d.ts, waits, glance.now) OBVIOUS
<1>4. PICK card : card = [of |-> d.of, ts |-> d.ts, status |-> status] OBVIOUS
<1>5. /\ glance' = [glance EXCEPT !.todo = @ \ {d},
           !.at = IF glance.todo # {d} THEN "pending" ELSE IF glance.kind = "detail" THEN "done" ELSE "vendor",
           !.cards = IF glance.kind = "cards" /\ status = "stopped" THEN @ ELSE @ \union {card}]
      /\ UNCHANGED <<pulse, chat, bell, vendor, ide, views, cockpits>>
  BY <1>2, <1>3, <1>4 DEF ReadBell
<1>6. d \in glance.todo /\ ListedChatOK(d) /\ AskedChatOK(d)
  <2>1. glance.todo # {} BY <1>1 DEF GlanceShape
  <2>2. \A e \in glance.todo : ListedChatOK(e) /\ e.ts \in 1..MaxPulse BY <1>1 DEF GlanceOK, ListedChatOK
  <2> QED BY <1>1, <1>2, <2>1, <2>2, CockpitNumbers, NewestIsListed DEF GlanceOK
<1>7. /\ glance'.at = IF glance.todo # {d} THEN "pending" ELSE IF glance.kind = "detail" THEN "done" ELSE "vendor"
      /\ glance'.cards = IF glance.kind = "cards" /\ status = "stopped" THEN glance.cards ELSE glance.cards \union {card}
      /\ glance'.asks = glance.asks /\ glance'.now = glance.now /\ glance'.kind = glance.kind
      /\ glance'.todo = glance.todo \ {d} /\ glance'.ts = glance.ts
      /\ glance' = [at |-> glance'.at, kind |-> glance'.kind, now |-> glance'.now, todo |-> glance'.todo, asks |-> glance'.asks,
                    ts |-> glance'.ts, cards |-> glance'.cards]
  BY <1>1, <1>5 DEF GlanceShape
<1>8. d.of \in Chats /\ d.ts \in Nat /\ (\E v \in views[d.of] : v.at = d.ts) /\ glance.kind \in {"cards", "detail"}
  BY <1>1, <1>6, CockpitNumbers DEF ListedChatOK, GlanceShape
<1>9. (waits => \E v \in views[d.of] : v.waits) /\ (~waits => \E v \in views[d.of] : ~v.waits)
  BY <1>6 DEF ListedChatOK, AskedChatOK
<1>10. /\ (status = "waiting") <=> waits
       /\ status = "stopped" => ~waits /\ IsStopped(d.ts, glance.now)
  BY <1>3 DEF CardStatus
<1> HIDE DEF waits
<1>11. CardOK(card)
  <2>1. \A v \in views[d.of] : v.waits \in BOOLEAN BY <1>1, <1>8 DEF CockpitNumbersOK
  <2>2. card.of = d.of /\ card.ts = d.ts /\ card.status = status BY <1>4
  <2>3. \E v \in views[d.of] : v.waits = (status = "waiting")
    <3>1. CASE waits
      <4>1. PICK v \in views[d.of] : v.waits BY <1>9, <3>1
      <4>2. v.waits = TRUE /\ (status = "waiting") = TRUE BY <1>10, <2>1, <3>1, <4>1, Zenon
      <4> QED BY <4>2
    <3>2. CASE ~waits
      <4>1. PICK v \in views[d.of] : ~v.waits BY <1>9, <3>2
      <4>2. v.waits = FALSE /\ (status = "waiting") = FALSE BY <1>10, <2>1, <3>2, <4>1, Zenon
      <4> QED BY <4>2
    <3> QED BY <3>1, <3>2
  <2> QED BY <1>8, <2>2, <2>3 DEF CardOK
<1>12. GlanceShape(glance')
  <2>1. glance'.at \in GlancePlaces BY <1>7 DEF GlancePlaces
  <2>2. glance'.at \in {"pending", "marker"} <=> glance'.todo # {} BY <1>6, <1>7
  <2>3. glance.asks \in BOOLEAN /\ glance.now \in Nat /\ glance.ts \in Nat /\ IsFiniteSet(glance.cards)
    BY <1>1 DEF GlanceShape
  <2>4. IsFiniteSet(glance.cards \union {card}) BY <2>3, FS_AddElement
  <2>5. IsFiniteSet(glance'.cards) BY <1>7, <2>3, <2>4
  <2>6. glance'.kind \in {"cards", "detail"} /\ glance'.now \in Nat /\ glance'.ts \in Nat /\ glance'.asks \in BOOLEAN
    BY <1>7, <1>8, <2>3, Zenon
  <2> QED BY <1>7, <2>1, <2>2, <2>5, <2>6, Zenon DEF GlanceShape
<1>13. \A k \in glance'.cards : k \in glance.cards \/ CardOK(k) BY <1>7, <1>11
<1>14. ASSUME glance'.kind = "cards", NEW c \in Chats, IsInHand(c)
       PROVE  HasStopped(c) \/ (glance'.at # "done" /\ IsInHand(c)')
  <2>1. glance'.at # "done" BY <1>7, <1>14
  <2>2. CASE \E k \in glance.cards : k.of = c
    <3>1. glance.cards \subseteq glance'.cards BY <1>7
    <3> QED BY <2>1, <2>2, <3>1 DEF IsInHand
  <2>3. CASE \E e \in glance.todo : e.of = c /\ e # d BY <1>7, <2>1, <2>3 DEF IsInHand
  <2>4. CASE d.of = c /\ status = "stopped"
    <3>1. \E v \in views[c] : ~v.waits BY <1>9, <1>10, <2>4
    <3>2. \E v \in views[c] : IsStopped(v.at, glance.now) BY <1>8, <1>10, <2>4
    <3> QED BY <3>1, <3>2 DEF HasStopped
  <2>5. CASE d.of = c /\ status # "stopped"
    <3>1. card \in glance'.cards /\ card.of = c BY <1>4, <1>7, <2>5
    <3> QED BY <2>1, <3>1 DEF IsInHand
  <2> QED BY <1>14, <2>2, <2>3, <2>4, <2>5 DEF IsInHand
<1>15. glance'.at # "marker" /\ glance'.todo \subseteq glance.todo BY <1>7
<1> QED BY <1>1, <1>5, <1>7, <1>12, <1>13, <1>14, <1>15, RequestGoesOn

\* A card of another vendor is of no session.
LEMMA OtherCards ==
  ASSUME CockpitIInv, glance.at \in {"vendor", "task", "ide", "look"},
         UNCHANGED <<pulse, chat, bell, vendor, ide, views, cockpits>>,
         NEW next \in {"task", "ide", "look", "cut", "failed"}, NEW ts \in Nat, NEW cards,
         glance' = [at |-> next, kind |-> glance.kind, now |-> glance.now, todo |-> glance.todo, asks |-> glance.asks,
                    ts |-> ts, cards |-> cards],
         cards = glance.cards \/ \E k : cards = glance.cards \union {k} /\ k.ts \in Nat /\ k.of \in {"vendor", "ide"}
  PROVE  CockpitIInv'
<1>1. CockpitNumbersOK /\ GlanceShape(glance) /\ GlanceOK BY DEF CockpitIInv
<1>2. /\ glance.todo = {} /\ IsFiniteSet(glance.cards) /\ glance.asks \in BOOLEAN /\ glance.now \in Nat
      /\ glance.kind \in {"cards", "detail"}
  BY <1>1 DEF GlanceShape
<1>3. /\ glance'.at = next /\ glance'.cards = cards /\ glance'.asks = glance.asks /\ glance'.now = glance.now
      /\ glance'.kind = glance.kind /\ glance'.todo = glance.todo /\ glance'.ts = ts
      /\ glance' = [at |-> glance'.at, kind |-> glance'.kind, now |-> glance'.now, todo |-> glance'.todo, asks |-> glance'.asks,
                    ts |-> glance'.ts, cards |-> glance'.cards]
  OBVIOUS
<1>4. IsFiniteSet(cards) /\ glance.cards \subseteq cards /\ \A k \in cards : k \in glance.cards \/ CardOK(k)
  <2>1. CASE cards = glance.cards BY <1>2, <2>1
  <2>2. CASE \E k : cards = glance.cards \union {k} /\ k.ts \in Nat /\ k.of \in {"vendor", "ide"}
    <3>1. PICK k : cards = glance.cards \union {k} /\ k.ts \in Nat /\ k.of \in {"vendor", "ide"} BY <2>2
    <3>2. IsFiniteSet(cards) BY <1>2, <3>1, FS_AddElement
    <3>3. CardOK(k) BY <3>1, CockpitNumbers DEF CardOK
    <3> QED BY <3>1, <3>2, <3>3
  <2> QED BY <2>1, <2>2
<1>5. GlanceShape(glance')
  <2>1. glance'.at \in GlancePlaces /\ (glance'.at \in {"pending", "marker"} <=> glance'.todo # {}) BY <1>2, <1>3 DEF GlancePlaces
  <2>2. glance'.kind \in {"cards", "detail"} /\ glance'.now \in Nat /\ glance'.ts \in Nat /\ glance'.asks \in BOOLEAN
        /\ IsFiniteSet(glance'.cards)
    BY <1>2, <1>3, <1>4, Zenon
  <2> QED BY <1>3, <2>1, <2>2, Zenon DEF GlanceShape
<1>6. \A c \in Chats : IsInHand(c) => glance'.at # "done" /\ IsInHand(c)' BY <1>3, <1>4 DEF IsInHand
<1>7. \A k \in glance'.cards : k \in glance.cards \/ CardOK(k) BY <1>3, <1>4
<1>8. glance'.at # "marker" /\ glance'.todo \subseteq glance.todo /\ glance.at \notin {"none", "done"} BY <1>3
<1> QED BY <1>3, <1>5, <1>6, <1>7, <1>8, RequestGoesOn

\* The database and the file of the other vendors.
LEMMA OthersAreRead ==
  ASSUME CockpitIInv, ReadVendor \/ ReadTask \/ FindIde \/ LookIde
  PROVE  CockpitIInv'
<1>1. /\ CockpitNumbersOK /\ GlanceShape(glance) /\ glance.at \in {"vendor", "task", "ide", "look"}
      /\ UNCHANGED <<pulse, chat, bell, vendor, ide, views, cockpits>>
  BY DEF CockpitIInv, ReadVendor, ReadTask, FindIde, LookIde
<1> DEFINE Left(next, ts, cards) ==
             [at |-> next, kind |-> glance.kind, now |-> glance.now, todo |-> glance.todo, asks |-> glance.asks,
              ts |-> ts, cards |-> cards]
<1>2. vendor.at \in Nat /\ ide \in Nat /\ glance.ts \in Nat
  <2>1. vendor.at \in 0..MaxPulse /\ ide \in 0..MaxPulse BY <1>1 DEF CockpitNumbersOK
  <2> QED BY <1>1, <2>1, CockpitNumbers DEF GlanceShape
<1>3. glance = Left(glance.at, glance.ts, glance.cards) BY <1>1 DEF GlanceShape
<1>4. CASE ReadVendor
  <2>1. \/ glance' = Left("task", vendor.at, glance.cards)
        \/ glance' = Left("ide", glance.ts, glance.cards)
    BY <1>3, <1>4 DEF ReadVendor
  <2> QED BY <1>1, <1>2, <2>1, OtherCards
<1>5. CASE ReadTask
  <2>1. PICK k : k = [of |-> "vendor", ts |-> glance.ts, status |-> "active", task |-> vendor.user] OBVIOUS
  <2>2. PICK cards : /\ cards = glance.cards \/ cards = glance.cards \union {k}
                     /\ glance' = [glance EXCEPT !.at = "ide", !.cards = cards]
    BY <1>5, <2>1 DEF ReadTask
  <2>3. glance' = Left("ide", glance.ts, cards) BY <1>3, <2>2
  <2>4. k.ts \in Nat /\ k.of \in {"vendor", "ide"} BY <1>2, <2>1
  <2>5. cards = glance.cards \/ \E x : cards = glance.cards \union {x} /\ x.ts \in Nat /\ x.of \in {"vendor", "ide"}
    BY <2>2, <2>4
  <2> QED BY <1>1, <1>2, <2>3, <2>5, OtherCards
<1>6. CASE FindIde
  <2>1. glance' = Left("cut", glance.ts, glance.cards) \/ glance' = Left("look", glance.ts, glance.cards)
    BY <1>3, <1>6 DEF FindIde
  <2> QED BY <1>1, <1>2, <2>1, OtherCards
<1>7. CASE LookIde
  <2>1. PICK k : k = [of |-> "ide", ts |-> ide, status |-> "active"] OBVIOUS
  <2>2. PICK next \in {"failed", "cut"} : \E cards : /\ cards = glance.cards \/ cards = glance.cards \union {k}
                                                  /\ glance' = [glance EXCEPT !.at = next, !.cards = cards]
    BY <1>7, <2>1 DEF LookIde
  <2>3. PICK cards : /\ cards = glance.cards \/ cards = glance.cards \union {k}
                     /\ glance' = [glance EXCEPT !.at = next, !.cards = cards]
    BY <2>2
  <2>4. glance' = Left(next, glance.ts, cards) BY <1>3, <2>3
  <2>5. k.ts \in Nat /\ k.of \in {"vendor", "ide"} BY <1>2, <2>1
  <2>6. next \in {"task", "ide", "look", "cut", "failed"} OBVIOUS
  <2>7. cards = glance.cards \/ \E x : cards = glance.cards \union {x} /\ x.ts \in Nat /\ x.of \in {"vendor", "ide"}
    BY <2>3, <2>5
  <2> QED BY <1>1, <1>2, <2>4, <2>6, <2>7, OtherCards
<1> QED BY <1>4, <1>5, <1>6, <1>7

\* The newest cards are kept: what is cut off has as many above it as there is room for.
LEMMA CardsAreCut ==
  ASSUME CockpitIInv, CutCards
  PROVE  CockpitIInv'
<1>1. CockpitNumbersOK /\ GlanceShape(glance) /\ GlanceOK /\ glance.at = "cut"
      /\ UNCHANGED <<pulse, chat, bell, vendor, ide, views, cockpits>>
  BY DEF CockpitIInv, CutCards
<1>2. PICK kept \in NewestOf(glance.cards, Cap) : glance' = [glance EXCEPT !.at = "done", !.cards = kept]
  BY DEF CutCards
<1>3. kept \subseteq glance.cards BY DEF NewestOf
<1>4. glance.todo = {} /\ IsFiniteSet(glance.cards) /\ glance.asks \in BOOLEAN /\ glance.now \in Nat /\ glance.ts \in Nat
      /\ glance.kind \in {"cards", "detail"}
  BY <1>1 DEF GlanceShape
<1>5. /\ glance'.at = "done" /\ glance'.cards = kept /\ glance'.asks = glance.asks /\ glance'.now = glance.now
      /\ glance'.kind = glance.kind /\ glance'.todo = glance.todo /\ glance'.ts = glance.ts
      /\ glance' = [at |-> glance'.at, kind |-> glance'.kind, now |-> glance'.now, todo |-> glance'.todo, asks |-> glance'.asks,
                    ts |-> glance'.ts, cards |-> glance'.cards]
  BY <1>1, <1>2 DEF GlanceShape
<1>6. IsFiniteSet(kept) BY <1>3, <1>4, FS_Subset
<1>7. GlanceShape(glance')
  <2>1. glance'.at \in GlancePlaces /\ (glance'.at \in {"pending", "marker"} <=> glance'.todo # {}) BY <1>4, <1>5 DEF GlancePlaces
  <2>2. glance'.kind \in {"cards", "detail"} /\ glance'.now \in Nat /\ glance'.ts \in Nat /\ glance'.asks \in BOOLEAN
        /\ IsFiniteSet(glance'.cards)
    BY <1>4, <1>5, <1>6, Zenon
  <2> QED BY <1>5, <2>1, <2>2, Zenon DEF GlanceShape
<1>8. ASSUME NEW c \in Chats, IsInHand(c)
      PROVE  (\E k \in glance'.cards : k.of = c) \/ IsCutOff(c)'
  <2>1. PICK k \in glance.cards : k.of = c BY <1>4, <1>8 DEF IsInHand
  <2>2. CASE k \in kept BY <1>5, <2>1, <2>2
  <2>3. CASE k \notin kept
    <3>1. Cardinality(kept) = Cap /\ \A a \in kept : a.ts >= k.ts
      BY <1>2, <1>4, <2>3, CockpitNumbers, LeftOut
    <3>2. PICK v \in views[c] : v.at = k.ts BY <1>1, <2>1 DEF GlanceOK, CardOK
    <3>3. PICK A : A = {a \in glance'.cards : a.ts >= v.at} OBVIOUS
    <3>4. A = kept BY <1>5, <3>1, <3>2, <3>3
    <3>5. Cardinality(A) >= Cap BY <3>1, <3>4, CockpitNumbers
    <3>6. v \in views'[c] BY <1>1, <3>2
    <3> QED BY <3>3, <3>5, <3>6 DEF IsCutOff
  <2> QED BY <2>2, <2>3
<1>9. \A k \in glance'.cards : k \in glance.cards BY <1>3, <1>5
<1> QED BY <1>1, <1>5, <1>7, <1>8, <1>9, RequestGoesOn

\* What every state of the cockpit keeps.
LEMMA CockpitInvariance == CockpitSpec => []CockpitIInv
<1>1. CockpitIInv /\ [CockpitNext]_cockpitVars => CockpitIInv'
  <2> SUFFICES ASSUME CockpitIInv, [CockpitNext]_cockpitVars PROVE CockpitIInv' OBVIOUS
  <2>1. CASE UNCHANGED cockpitVars
    <3>1. /\ \A c \in Chats : View(c, chat', bell') = View(c, chat, bell)
          /\ glance' = glance /\ views' = views /\ chat' = chat /\ bell' = bell
      BY <2>1 DEF cockpitVars, View, Waits
    <3>2. CockpitNumbersOK' /\ \A q \in Chats : chat[q].at \in Nat /\ bell[q] \in Nat
      BY <2>1, CockpitNumbers DEF cockpitVars, CockpitIInv, CockpitNumbersOK
    <3>3. CASE glance.at = "none" BY <3>1, <3>2, <3>3 DEF CockpitIInv, NoGlance
    <3>4. CASE glance.at # "none"
      <4>1. \A q \in Chats : View(q, chat', bell') \in views'[q] BY <3>1, <3>4 DEF CockpitIInv, GlanceOK
      <4>2. \A q \in Chats : chat'[q].at >= chat[q].at /\ bell'[q] >= bell[q] /\ bell'[q] = bell[q] BY <3>1, <3>2
      <4> QED BY <3>1, <3>2, <4>1, <4>2, CockpitWaits
    <3> QED BY <3>3, <3>4
  <2>2. CASE \E c \in Chats : (\E blocked \in BOOLEAN : ChatWrites(c, blocked)) \/ BellRings(c) BY <2>2, ChatsMove
  <2>3. CASE (\E user \in BOOLEAN : VendorWrites(user)) \/ IdeWrites BY <2>3, OthersMove
  <2>4. CASE AskCards \/ \E c \in Chats : AskDetail(c) BY <2>4, AsksBegin
  <2>5. CASE ReadPending BY <2>5, PendingIsRead
  <2>6. CASE ReadBell BY <2>6, BellIsRead
  <2>7. CASE ReadVendor \/ ReadTask \/ FindIde \/ LookIde BY <2>7, OthersAreRead
  <2>8. CASE CutCards BY <2>8, CardsAreCut
  <2> QED BY <2>1, <2>2, <2>3, <2>4, <2>5, <2>6, <2>7, <2>8 DEF CockpitNext
<1> QED BY <1>1, CockpitBegins, PTL DEF CockpitSpec

\* A card of the cockpit shows what was so of its session at some instant of the request, and
\* a session without one did not wait and had stopped, was too old, or had as many above it as there is
\* room for (cockpit_cards, session_detail), for any number of sessions that write while it is read.
THEOREM CardsAreSo == CockpitSpec => []CardsWereSo
<1>1. CockpitIInv => CardsWereSo
  <2> SUFFICES ASSUME CockpitIInv, glance.at = "done" PROVE CardsWereSo BY DEF CardsWereSo
  <2>1. GlanceOK BY DEF CockpitIInv
  <2>2. \A k \in glance.cards : k.of \in Chats => /\ \E v \in views[k.of] : v.at = k.ts
                                                  /\ \E v \in views[k.of] : v.waits = (k.status = "waiting")
    BY <2>1 DEF GlanceOK, CardOK
  <2>3. ASSUME glance.kind = "cards", NEW c \in Chats \ {k.of : k \in glance.cards}
        PROVE  HasStopped(c) \/ IsCutOff(c) \/ IsCrowdedOut(c)
    BY <2>1, <2>3 DEF GlanceOK
  <2> QED BY <2>2, <2>3 DEF CardsWereSo, HasStopped, IsCutOff, IsCrowdedOut, Younger
<1>2. CockpitSpec => []CockpitIInv BY CockpitInvariance
<1> QED BY <1>1, <1>2, PTL

\* What every state keeps is typed.
LEMMA CockpitIsTyped == CockpitSpec => []CockpitTypeOK
<1>1. CockpitIInv => CockpitTypeOK
  <2> SUFFICES ASSUME CockpitIInv PROVE CockpitTypeOK OBVIOUS
  <2>1. CockpitNumbersOK BY DEF CockpitIInv
  <2>2. 1..MaxPulse \subseteq 0..MaxPulse BY CockpitNumbers
  <2>3. chat \in [Chats -> [at : 0..MaxPulse, asks : BOOLEAN]] BY <2>1, <2>2 DEF CockpitNumbersOK
  <2>4. glance.at \in {"none", "pending", "marker", "vendor", "task", "ide", "look", "cut", "done", "failed"}
    BY DEF CockpitIInv, GlanceShape, GlancePlaces
  <2> QED BY <2>1, <2>2, <2>3, <2>4 DEF CockpitNumbersOK, CockpitTypeOK
<1>2. CockpitSpec => []CockpitIInv BY CockpitInvariance
<1> QED BY <1>1, <1>2, PTL

-----------------------------------------------------------------------------
(* The deployed hooks *)

\* A scanner is at one of the places of a scan.
IsPlaced(step) == "place" \in DOMAIN step /\ step.place \in {"rest", "log", "key", "list", "read", "judge"}

HooksTypes ==
  /\ HooksTypeOK /\ scan = [s \in Scanners |-> scan[s]] /\ \A s \in Scanners : IsPlaced(scan[s])
  /\ deployed = [folder |-> deployed.folder, file |-> deployed.file, optedOut |-> deployed.optedOut]

\* The branch, its checkouts and what a scan reads are files and places that there are.
LEMMA InventoryIsTyped == HooksSpec => []HooksTypeOK
<1>0. MaxWorks \in Nat BY HooksAssumption
<1>1. HooksInit => HooksTypes
  <2> SUFFICES ASSUME HooksInit PROVE HooksTypes OBVIOUS
  <2>1. branch = <<>> /\ at = 0 /\ tree = NoFile /\ works = 0 /\ scan = [s \in Scanners |-> [place |-> "rest"]]
    BY DEF HooksInit
  <2>2. branch \in Seq(Bodies \X Names) /\ Len(branch) = 0 BY <2>1, EmptySeq
  <2>3. deployed.file = NoFile /\ deployed = [folder |-> deployed.folder, file |-> deployed.file, optedOut |-> deployed.optedOut]
    BY DEF HooksInit
  <2>4. at \in 0..Len(branch) /\ works \in 0..MaxWorks BY <1>0, <2>1, <2>2
  <2>5. \A s \in Scanners : IsPlaced(scan[s]) BY <2>1 DEF IsPlaced
  <2> QED BY <2>1, <2>2, <2>3, <2>4, <2>5 DEF HooksTypes, HooksTypeOK
<1>2. HooksTypes /\ [HooksNext]_hooksVars => HooksTypes'
  <2> SUFFICES ASSUME HooksTypes, [HooksNext]_hooksVars PROVE HooksTypes' OBVIOUS
  <2>0. /\ branch \in Seq(Bodies \X Names) /\ Len(branch) \in Nat /\ DOMAIN branch = 1..Len(branch)
        /\ at \in 0..Len(branch) /\ tree \in Contents \union {NoFile}
        /\ deployed.file \in Contents \union {NoFile} /\ works \in 0..MaxWorks
        /\ scan = [s \in Scanners |-> scan[s]] /\ \A s \in Scanners : IsPlaced(scan[s])
        /\ deployed = [folder |-> deployed.folder, file |-> deployed.file, optedOut |-> deployed.optedOut]
    BY LenProperties DEF HooksTypes, HooksTypeOK
  <2>1. ASSUME Work PROVE scan' = scan /\ works' \in 0..MaxWorks BY <1>0, <2>0, <2>1 DEF Work
  <2>2. ASSUME NEW b \in Bodies, NEW n \in Names, Commit(b, n) PROVE HooksTypes'
    <3>1. scan' = scan /\ works' \in 0..MaxWorks /\ deployed' = deployed BY <2>1, <2>2 DEF Commit
    <3>2. PICK c : c = <<b, n>> OBVIOUS
    <3>3. c \in Bodies \X Names BY <3>2
    <3>4. branch' = Append(branch, c) /\ at = Len(branch) /\ at' = at + 1 BY <2>2, <3>2 DEF Commit
    <3>5. branch' \in Seq(Bodies \X Names) /\ Len(branch') = Len(branch) + 1 BY <2>0, <3>3, <3>4, AppendProperties
    <3>6. at' \in 0..Len(branch') BY <2>0, <3>4, <3>5
    <3>7. PICK file : file = [body |-> b, crlf |-> FALSE] OBVIOUS
    <3>8. file \in Contents BY <3>7 DEF Contents
    <3>9. tree' \in Contents \union {NoFile} BY <2>0, <2>2, <3>7, <3>8 DEF Commit
    <3> QED BY <2>0, <3>1, <3>5, <3>6, <3>9 DEF HooksTypes, HooksTypeOK
  <2>3. ASSUME NEW k \in 0..Len(branch), Checkout(k) PROVE HooksTypes'
    <3>1. scan' = scan /\ works' \in 0..MaxWorks /\ deployed' = deployed /\ branch' = branch /\ at' = k
      BY <2>1, <2>3 DEF Checkout
    <3>2. PICK I : I = {i \in 1..k : branch[i][2] = Hook} OBVIOUS
    <3>3. tree' = IF (IF I # {} THEN Max(I) ELSE 0) = 0 THEN NoFile
                  ELSE [body |-> branch[IF I # {} THEN Max(I) ELSE 0][1], crlf |-> FALSE]
      BY <2>3, <3>2 DEF Checkout, SelectLastInSubSeq
    <3>6. tree' \in Contents \union {NoFile}
      <4>1. CASE I = {} BY <3>3, <4>1
      <4>2. CASE I # {}
        <5>1. k \in Nat /\ I \in SUBSET (1..k) BY <2>0, <3>2
        <5>2. Max(I) \in 1..Len(branch) BY <2>0, <4>2, <5>1, LastPosition, SMTT(60)
        <5>3. PICK i \in 1..Len(branch) : i = Max(I) BY <5>2
        <5>4. branch[i] \in Bodies \X Names BY <2>0, ElementOfSeq
        <5>5. branch[i][1] \in Bodies BY <5>4
        <5>6. tree' = [body |-> branch[i][1], crlf |-> FALSE] BY <2>0, <3>3, <4>2, <5>3
        <5> QED BY <5>5, <5>6 DEF Contents
      <4> QED BY <4>1, <4>2
    <3> QED BY <2>0, <3>1, <3>6 DEF HooksTypes, HooksTypeOK
  <2>4. ASSUME NEW c \in Contents, EditSource(c) PROVE HooksTypes'
    BY <2>0, <2>1, <2>4 DEF EditSource, HooksTypes, HooksTypeOK
  <2>5. ASSUME NEW file \in Contents \union {NoFile}, NEW folder, Work, UNCHANGED <<branch, at, tree>>,
               deployed' = [deployed EXCEPT !.file = file, !.folder = folder]
        PROVE  HooksTypes'
    <3>1. deployed' = [folder |-> folder, file |-> file, optedOut |-> deployed.optedOut] BY <2>0, <2>5
    <3>2. deployed'.folder = folder /\ deployed'.file = file /\ deployed'.optedOut = deployed.optedOut BY <3>1
    <3> QED BY <2>0, <2>1, <2>5, <3>1, <3>2 DEF HooksTypes, HooksTypeOK
  <2>6. CASE DeployHook
    <3>1. deployed' = [deployed EXCEPT !.file = tree, !.folder = TRUE] /\ Work /\ UNCHANGED <<branch, at, tree>>
      BY <2>6 DEF DeployHook
    <3> QED BY <2>0, <2>5, <3>1
  <2>7. ASSUME NEW c \in Contents, EditDeployed(c) PROVE HooksTypes'
    <3>1. deployed' = [deployed EXCEPT !.file = c] /\ Work /\ UNCHANGED <<branch, at, tree>> BY <2>7 DEF EditDeployed
    <3>2. deployed' = [folder |-> deployed.folder, file |-> c, optedOut |-> deployed.optedOut] BY <2>0, <3>1
    <3>3. deployed'.folder = deployed.folder /\ deployed'.file = c /\ deployed'.optedOut = deployed.optedOut BY <3>2
    <3> QED BY <2>0, <2>1, <3>1, <3>2, <3>3 DEF HooksTypes, HooksTypeOK
  <2>8. CASE LoseFolder
    <3>1. deployed' = [deployed EXCEPT !.folder = FALSE, !.file = NoFile] /\ Work /\ UNCHANGED <<branch, at, tree>>
      BY <2>8 DEF LoseFolder
    <3>2. deployed' = [deployed EXCEPT !.file = NoFile, !.folder = FALSE] BY <2>0, <3>1
    <3> QED BY <2>0, <2>5, <3>1, <3>2
  <2>9. ASSUME NEW s \in Scanners, NEW step, IsPlaced(step), scan' = [scan EXCEPT ![s] = step],
               UNCHANGED <<branch, at, tree, deployed, works>>
        PROVE  HooksTypes'
    <3>1. \A o \in Scanners : scan'[o] = scan[o] \/ scan'[o] = step BY <2>0, <2>9
    <3>2. \A o \in Scanners : IsPlaced(scan'[o]) BY <2>0, <2>9, <3>1
    <3>3. scan' = [o \in Scanners |-> scan'[o]] BY <2>0, <2>9
    <3>4. \A o \in Scanners : scan'[o].place \in {"rest", "log", "key", "list", "read", "judge"} BY <3>2 DEF IsPlaced
    <3> QED BY <2>0, <2>9, <3>2, <3>3, <3>4 DEF HooksTypes, HooksTypeOK
  <2>10. ASSUME NEW s \in Scanners, BeginScan(s) PROVE HooksTypes'
    <3>1. PICK step : step = IF index.key = Len(branch) /\ index.data # NoIndex
                             THEN [place |-> "list", head |-> Len(branch), index |-> index.data]
                             ELSE [place |-> "log", head |-> Len(branch), index |-> NoIndex]
      OBVIOUS
    <3>2. IsPlaced(step) BY <3>1 DEF IsPlaced
    <3>3. scan' = [scan EXCEPT ![s] = step] /\ UNCHANGED <<branch, at, tree, deployed, works>>
      BY <2>10, <3>1 DEF BeginScan
    <3> QED BY <2>9, <3>2, <3>3
  <2>11. ASSUME NEW s \in Scanners, NEW place \in {"rest", "list"}, scan' = [scan EXCEPT ![s].place = place],
                UNCHANGED <<branch, at, tree, deployed, works>>
         PROVE  HooksTypes'
    <3>1. PICK step : step = [scan[s] EXCEPT !.place = place] OBVIOUS
    <3>2. scan' = [scan EXCEPT ![s] = step] BY <2>0, <2>11, <3>1
    <3>3. IsPlaced(step) BY <2>0, <3>1 DEF IsPlaced
    <3> QED BY <2>9, <2>11, <3>2, <3>3
  <2>12. ASSUME NEW s \in Scanners, BuildSourceIndex(s) PROVE HooksTypes'
    <3>1. PICK step : step = [[scan[s] EXCEPT !.place = "key"] EXCEPT !.index = SourceIndex] OBVIOUS
    <3>2. scan' = [scan EXCEPT ![s] = step] BY <2>0, <2>12, <3>1 DEF BuildSourceIndex
    <3>3. IsPlaced(step) BY <2>0, <3>1 DEF IsPlaced
    <3> QED BY <2>9, <2>12, <3>2, <3>3 DEF BuildSourceIndex
  <2>13. ASSUME NEW s \in Scanners, KeepIndex(s) PROVE HooksTypes'
    BY <2>11, <2>13 DEF KeepIndex, ScanGoto
  <2>14. ASSUME NEW s \in Scanners, ListDeployed(s) PROVE HooksTypes'
    <3>1. CASE deployed.file = NoFile BY <2>11, <2>14, <3>1 DEF ListDeployed, Report, ScanGoto
    <3>2. CASE deployed.file # NoFile
      <4>1. PICK step : step = [place |-> "read", head |-> scan[s].head, index |-> scan[s].index, owed |-> tree # NoFile]
        OBVIOUS
      <4>2. scan' = [scan EXCEPT ![s] = step] /\ UNCHANGED <<branch, at, tree, deployed, works>>
        BY <2>0, <2>14, <3>2, <4>1 DEF ListDeployed
      <4>3. IsPlaced(step) BY <4>1 DEF IsPlaced
      <4> QED BY <2>9, <4>2, <4>3
    <3> QED BY <3>1, <3>2
  <2>15. ASSUME NEW s \in Scanners, ReadDeployed(s) PROVE HooksTypes'
    <3>1. CASE deployed.file = NoFile BY <2>11, <2>15, <3>1 DEF ReadDeployed, Report, ScanGoto
    <3>2. CASE deployed.file # NoFile
      <4>1. PICK step : step = [place |-> "judge", head |-> scan[s].head, index |-> scan[s].index,
                                owed |-> scan[s].owed, file |-> deployed.file]
        OBVIOUS
      <4>2. scan' = [scan EXCEPT ![s] = step] /\ UNCHANGED <<branch, at, tree, deployed, works>>
        BY <2>0, <2>15, <3>2, <4>1 DEF ReadDeployed
      <4>3. IsPlaced(step) BY <4>1 DEF IsPlaced
      <4> QED BY <2>9, <4>2, <4>3
    <3> QED BY <3>1, <3>2
  <2>16. ASSUME NEW s \in Scanners, JudgeHook(s) PROVE HooksTypes'
    BY <2>11, <2>16 DEF JudgeHook, Report, ScanGoto
  <2>17. CASE UNCHANGED hooksVars BY <2>0, <2>17 DEF hooksVars, HooksTypes, HooksTypeOK
  <2> QED BY <2>2, <2>3, <2>4, <2>6, <2>7, <2>8, <2>10, <2>12, <2>13, <2>14, <2>15, <2>16, <2>17 DEF HooksNext
<1>3. HooksTypes => HooksTypeOK BY DEF HooksTypes
<1> QED BY <1>1, <1>2, <1>3, PTL DEF HooksSpec
=============================================================================
