------------------------- MODULE AuthorizationProofs -------------------------
(***************************************************************************)
(* What Authorization grants, for every set of gates, every window and any *)
(* number of rotations: a grant answers a block of its own gate, soon, and *)
(* is taken by one command.  The first holds whatever the threads do; that *)
(* a block is answered once rests on the reader of DeleteLog, which gives  *)
(* the end of the file only to a thread that is alone.                     *)
(***************************************************************************)
EXTENDS Authorization, FiniteSetTheorems, SequenceTheorems, TLAPS

-----------------------------------------------------------------------------
(* Sequences of rows *)

\* What is smaller is one of the two.
LEMMA LeastOf ==
  ASSUME NEW a \in Nat, NEW b \in Nat
  PROVE  /\ Least(a, b) \in Nat /\ Least(a, b) <= a /\ Least(a, b) <= b
         /\ Least(a, b) = a \/ Least(a, b) = b
BY DEF Least

\* The part of a sequence between two places.
LEMMA PartOf ==
  ASSUME NEW s \in Seq(LogRows), NEW m \in Nat, NEW n \in Nat, n <= Len(s)
  PROVE  /\ SubSeq(s, m + 1, n) \in Seq(LogRows)
         /\ m <= n => /\ Len(SubSeq(s, m + 1, n)) = n - m
                      /\ \A i \in 1..(n - m) : SubSeq(s, m + 1, n)[i] = s[m + i]
         /\ m >= n => SubSeq(s, m + 1, n) = <<>>
<1>1. CASE m >= n BY <1>1
<1>2. CASE m < n
  <2>1. SubSeq(s, m + 1, n) = [i \in 1..(n - m) |-> s[m + i]] BY <1>2
  <2>2. \A i \in 1..(n - m) : m + i \in 1..Len(s) BY <1>2
  <2>3. SubSeq(s, m + 1, n) \in Seq(LogRows) BY <1>2
  <2>4. Len(SubSeq(s, m + 1, n)) = n - m BY <1>2
  <2> QED BY <1>2, <2>1, <2>3, <2>4
<1> QED BY <1>1, <1>2

\* What two parts are together.
LEMMA JoinOf ==
  ASSUME NEW a \in Seq(LogRows), NEW c \in Seq(LogRows)
  PROVE  \A i \in 1..(Len(a) + Len(c)) : (a \o c)[i] = IF i <= Len(a) THEN a[i] ELSE c[i - Len(a)]
BY ConcatProperties

\* The last rows of a log.
LEMMA LastOf ==
  ASSUME NEW s \in Seq(LogRows), NEW n \in Nat
  PROVE  /\ LastRows(s, n) \in Seq(LogRows) /\ Len(LastRows(s, n)) = Least(n, Len(s))
         /\ \A i \in 1..Len(LastRows(s, n)) : LastRows(s, n)[i] = s[Len(s) - Least(n, Len(s)) + i]
<1> DEFINE k == Least(n, Len(s))
<1>1. k \in Nat /\ k <= Len(s) /\ Len(s) \in Nat
  <2>1. Len(s) \in Nat OBVIOUS
  <2> QED BY <2>1, LeastOf
<1> HIDE DEF k
<1>2. PICK m \in Nat : m = Len(s) - k BY <1>1
<1>3. LastRows(s, n) = SubSeq(s, m + 1, Len(s)) BY <1>2 DEF LastRows, k
<1>4. /\ LastRows(s, n) \in Seq(LogRows) /\ Len(LastRows(s, n)) = Len(s) - m
      /\ \A i \in 1..(Len(s) - m) : LastRows(s, n)[i] = s[m + i]
  BY <1>1, <1>2, <1>3, PartOf
<1>5. Len(s) - m = k BY <1>1, <1>2
<1> QED BY <1>2, <1>4, <1>5 DEF k

\* A sequence that agrees with the end of another is a suffix of it.
LEMMA SuffixOf ==
  ASSUME NEW s \in Seq(LogRows), NEW t \in Seq(LogRows), Len(s) <= Len(t),
         \A i \in 1..Len(s) : s[i] = t[Len(t) - Len(s) + i]
  PROVE  IsSuffix(s, t)
<1>1. PICK n \in Nat : n = Len(s) OBVIOUS
<1>2. PICK m \in Nat : m = Len(t) OBVIOUS
<1>3. Reverse(s) \in Seq(LogRows) /\ Len(Reverse(s)) = n /\ \A i \in 1..n : Reverse(s)[i] = s[(n - i) + 1]
  BY <1>1 DEF Reverse
<1>4. Reverse(t) \in Seq(LogRows) /\ Len(Reverse(t)) = m /\ \A i \in 1..m : Reverse(t)[i] = t[(m - i) + 1]
  BY <1>2 DEF Reverse
<1>5. \A i \in 1..n : Reverse(s)[i] = Reverse(t)[i]
  <2> SUFFICES ASSUME NEW i \in 1..n PROVE Reverse(s)[i] = Reverse(t)[i] OBVIOUS
  <2>1. (n - i) + 1 \in 1..n /\ i \in 1..m /\ m - n + ((n - i) + 1) = (m - i) + 1 BY <1>1, <1>2
  <2>2. Reverse(s)[i] = s[(n - i) + 1] /\ Reverse(t)[i] = t[(m - i) + 1] BY <1>3, <1>4, <2>1
  <2>3. s[(n - i) + 1] = t[m - n + ((n - i) + 1)] BY <1>1, <1>2, <2>1
  <2> QED BY <2>1, <2>2, <2>3
<1>6. /\ SubSeq(Reverse(s), 1, n) \in Seq(LogRows) /\ Len(SubSeq(Reverse(s), 1, n)) = n
      /\ \A i \in 1..n : SubSeq(Reverse(s), 1, n)[i] = Reverse(s)[i]
  BY <1>3
<1>7. /\ SubSeq(Reverse(t), 1, n) \in Seq(LogRows) /\ Len(SubSeq(Reverse(t), 1, n)) = n
      /\ \A i \in 1..n : SubSeq(Reverse(t), 1, n)[i] = Reverse(t)[i]
  BY <1>1, <1>2, <1>4
<1>8. SubSeq(Reverse(s), 1, n) = SubSeq(Reverse(t), 1, n) BY <1>5, <1>6, <1>7
<1> QED BY <1>1, <1>2, <1>3, <1>4, <1>8 DEF IsSuffix, IsPrefix

-----------------------------------------------------------------------------
(* The invariant of any number of threads *)

LogEntries == [inode : Nat, first : LogRows, pos : Nat, rows : Seq(LogRows)]

AuthzTypes ==
  /\ AuthzTypeOK
  /\ inode \in Nat /\ entries \in Seq(LogEntries)
  /\ reader \in [Readers -> {"idle", "looked", "read", "returned"}]
  /\ chunk \in [Readers -> Seq(LogRows)] /\ result \in [Readers -> Seq(LogRows)]
  /\ look = [r \in Readers |-> look[r]]
  /\ chosen \in [Readers -> SUBSET LogRows] /\ grant \in [Gates -> SUBSET Grants]
  /\ askings \in [Gates -> Nat] /\ uses \in [Gates -> Nat] /\ lastUse \in [Gates -> Nat] /\ late \in [Gates -> Nat]
  /\ \A r \in Readers : reader[r] # "idle" =>
        /\ look[r] \in [entry : Nat, lines : Seq(LogRows), torn : BOOLEAN]
        /\ look[r].entry \in 1..Len(entries) /\ Len(look[r].lines) > 0

\* A row that is chosen is a fresh block of the gate that was asked for, and so is that of a grant.
FreshOK ==
  /\ \A r \in Readers : \A row \in chosen[r] :
        /\ reader[r] = "returned" /\ row.gate = asked[r] /\ row.v2 /\ row.outcome = "blocked"
        /\ authzTime - row.at <= PendingWindow
  /\ \A g \in Gates : \A x \in grant[g] :
        /\ x.row.gate = g /\ x.row.v2 /\ x.row.outcome = "blocked"
        /\ x.mtime - x.row.at <= PendingWindow

-----------------------------------------------------------------------------
(* The invariant of a thread that is alone *)

\* Lines are numbered as they are written, in the file and in what was seen of it.
FileOK ==
  /\ Len(logFile) <= linesWritten /\ (torn => Len(logFile) > 0)
  /\ \A i \in 1..Len(logFile) : logFile[i].id = linesWritten - Len(logFile) + i
  /\ lastEntry # 0 => Len(logFile) > 0 /\ entries[lastEntry].first.id <= logFile[1].id
  /\ \A r \in Readers : reader[r] # "idle" =>
       \A i \in 1..Len(look[r].lines) :
         look[r].lines[i].id = look[r].lines[1].id + i - 1 /\ look[r].lines[i].id <= linesWritten

WholeFile == IF torn THEN Len(logFile) - 1 ELSE Len(logFile)

\* The rows of an entry end where its position is, and go back far enough.
EntryOK(e, lines, whole) ==
  /\ e.pos <= whole /\ Len(e.rows) <= e.pos
  /\ \A i \in 1..Len(e.rows) : e.rows[i] = lines[e.pos - Len(e.rows) + i]
  /\ Len(e.rows) + (whole - e.pos) >= Least(whole, TailRows) - 1

TailOK ==
  \A r \in Readers :
    /\ lastEntry # 0 /\ SameFile(entries[lastEntry]) => EntryOK(entries[lastEntry], logFile, WholeFile)
    /\ reader[r] # "idle" =>
         /\ look[r].entry = lastEntry /\ EntryOK(entries[lastEntry], look[r].lines, WholeRows(r))
         /\ SameFile(entries[lastEntry]) =>
              /\ Len(look[r].lines) <= Len(logFile) /\ WholeRows(r) <= WholeFile
              /\ \A i \in 1..Len(look[r].lines) : look[r].lines[i] = logFile[i]
    /\ reader[r] = "read" => chunk[r] = SubSeq(look[r].lines, Entry(r).pos + 1, WholeRows(r))
    /\ reader[r] = "returned" => Entry(r).pos = WholeRows(r) /\ result[r] = Entry(r).rows

\* A row that is chosen was in the log, without one after it that says its gate was used.
ChosenOK ==
  \A r \in Readers : \A row \in chosen[r] :
    \E k \in 1..WholeRows(r) :
      /\ look[r].lines[k] = row
      /\ \A j \in (k + 1)..WholeRows(r) :
           ~(look[r].lines[j].outcome = "authorized" /\ look[r].lines[j].gate = row.gate)

InView(row) ==
  \/ \E i \in 1..Len(logFile) : row = logFile[i]
  \/ \E r \in Readers : reader[r] # "idle" /\ \E i \in 1..Len(look[r].lines) : row = look[r].lines[i]

\* While a gate has no grant, a block after its last use is one that was not paid with yet.
PaidOK ==
  \A g \in Gates :
    /\ uses[g] + (IF grant[g] = {} THEN 0 ELSE 1) <= askings[g] + late[g]
    /\ lastUse[g] <= linesWritten
    /\ \A row \in LogRows : InView(row) =>
         /\ row.id = lastUse[g] => row.outcome = "authorized" /\ row.gate = g
         /\ grant[g] = {} /\ row.gate = g /\ row.v2 /\ row.outcome = "blocked" /\ row.id > lastUse[g] =>
              uses[g] < askings[g] + late[g]

AloneOK == FileOK /\ TailOK /\ ChosenOK /\ PaidOK

-----------------------------------------------------------------------------
(* Types and fresh grants *)

\* At first there is no row, no look and no grant.
LEMMA AuthzBegins == AuthzInit => AuthzTypes /\ FreshOK /\ AloneOK
<1> SUFFICES ASSUME AuthzInit PROVE AuthzTypes /\ FreshOK /\ AloneOK OBVIOUS
<1>0. /\ logFile = <<>> /\ torn = FALSE /\ inode = 1 /\ linesWritten = 0 /\ rotated = 0 /\ entries = <<>> /\ lastEntry = 0
      /\ reader = [r \in Readers |-> "idle"] /\ look = [r \in Readers |-> <<>>] /\ chunk = [r \in Readers |-> <<>>]
      /\ result = [r \in Readers |-> <<>>] /\ authzTime = 0 /\ asked = [r \in Readers |-> "none"]
      /\ chosen = [r \in Readers |-> {}] /\ grant = [g \in Gates |-> {}] /\ askings = [g \in Gates |-> 0]
      /\ uses = [g \in Gates |-> 0] /\ lastUse = [g \in Gates |-> 0] /\ late = [g \in Gates |-> 0]
  BY DEF AuthzInit, LogInit
<1>1. AuthzTypeOK
  <2>1. MaxAuthzTime \in Nat /\ MaxLines \in Nat /\ MaxRotates \in Nat BY AuthzAssumption, LogAssumption
  <2>2. Cardinality({}) = 0 BY FS_EmptySet
  <2>3. (\A r \in Readers : chosen[r] = {}) /\ \A g \in Gates : grant[g] = {} BY <1>0
  <2>4. asked \in [Readers -> Gates \cup {"none"}] BY <1>0
  <2>5. Len(entries) = 0 /\ (\A i \in 1..Len(entries) : FALSE) /\ lastEntry \in 0..Len(entries) BY <1>0
  <2>6. linesWritten \in 0..MaxLines /\ rotated \in 0..MaxRotates /\ authzTime \in 0..MaxAuthzTime BY <1>0, <2>1
  <2>7. logFile \in Seq(LogRows) /\ torn \in BOOLEAN
    <3>1. <<>> \in Seq(LogRows) OBVIOUS
    <3>2. logFile \in Seq(LogRows) BY <1>0, <3>1, Zenon
    <3> QED BY <1>0, <3>2
  <2> QED BY <1>0, <2>1, <2>2, <2>3, <2>4, <2>5, <2>6, <2>7 DEF AuthzTypeOK
<1>2. AuthzTypes BY <1>0, <1>1 DEF AuthzTypes
<1>3. FreshOK BY <1>0 DEF FreshOK
<1>4. FileOK
  <2>1. Len(logFile) = 0 /\ \A i \in 1..Len(logFile) : FALSE BY <1>0
  <2> QED BY <1>0, <2>1 DEF FileOK
<1>5. TailOK /\ ChosenOK BY <1>0 DEF TailOK, ChosenOK
<1>6. PaidOK
  <2>1. \A i \in 1..Len(logFile) : FALSE BY <1>0
  <2>2. \A row : ~InView(row) BY <1>0, <2>1 DEF InView
  <2> QED BY <1>0, <2>2 DEF PaidOK
<1> QED BY <1>2, <1>3, <1>4, <1>5, <1>6 DEF AloneOK

\* The numbers and the sequences among the types.
LEMMA AuthzNumbers ==
  ASSUME AuthzTypes
  PROVE  /\ authzTime \in 0..MaxAuthzTime /\ linesWritten \in 0..MaxLines /\ rotated \in 0..MaxRotates
         /\ inode \in Nat /\ torn \in BOOLEAN /\ lastEntry \in 0..Len(entries)
         /\ logFile \in Seq(LogRows) /\ Len(logFile) \in Nat
         /\ entries \in Seq(LogEntries) /\ Len(entries) \in Nat
         /\ lastEntry # 0 => lastEntry \in 1..Len(entries) /\ entries[lastEntry] \in LogEntries
<1>1. /\ authzTime \in 0..MaxAuthzTime /\ linesWritten \in 0..MaxLines /\ rotated \in 0..MaxRotates
      /\ inode \in Nat /\ torn \in BOOLEAN /\ lastEntry \in 0..Len(entries)
      /\ logFile \in Seq(LogRows) /\ entries \in Seq(LogEntries)
  BY Zenon DEF AuthzTypes, AuthzTypeOK
<1>2. Len(logFile) \in Nat /\ Len(entries) \in Nat BY <1>1
<1>3. lastEntry # 0 => lastEntry \in 1..Len(entries) BY <1>1, <1>2
<1>4. lastEntry # 0 => entries[lastEntry] \in LogEntries BY <1>1, <1>3, ElementOfSeq
<1> QED BY <1>1, <1>2, <1>3, <1>4

\* A row that is written now.
LEMMA RowIsTyped ==
  ASSUME AuthzTypes, NEW g \in Gates, NEW v2 \in BOOLEAN, NEW o \in {"blocked", "authorized"}, linesWritten < MaxLines
  PROVE  /\ Row(g, v2, o) \in LogRows /\ Row(g, v2, o).id = linesWritten + 1 /\ Row(g, v2, o).at = authzTime
         /\ Row(g, v2, o).gate = g /\ Row(g, v2, o).v2 = v2 /\ Row(g, v2, o).outcome = o
<1>1. linesWritten + 1 \in 1..MaxLines /\ authzTime \in 0..MaxAuthzTime
  BY AuthzNumbers, LogAssumption, AuthzAssumption
<1> QED BY <1>1 DEF Row, LogRows

\* The hooks change the file; what a thread has seen of it stays.
LEMMA HooksAreTyped ==
  ASSUME AuthzTypes, UNCHANGED readVars, UNCHANGED <<authzTime, asked, chosen>>,
         linesWritten' \in 0..MaxLines, rotated' \in 0..MaxRotates, logFile' \in Seq(LogRows), torn' \in BOOLEAN,
         inode' \in Nat, grant' \in [Gates -> SUBSET Grants], \A g \in Gates : grant'[g] = grant[g] \/ grant'[g] = {},
         askings' \in [Gates -> Nat], uses' \in [Gates -> Nat], lastUse' \in [Gates -> Nat], late' \in [Gates -> Nat]
  PROVE  AuthzTypes'
<1>1. \A g \in Gates : grant'[g] \subseteq Grants /\ Cardinality(grant'[g]) <= 1
  <2> SUFFICES ASSUME NEW g \in Gates PROVE grant'[g] \subseteq Grants /\ Cardinality(grant'[g]) <= 1 OBVIOUS
  <2>1. CASE grant'[g] = grant[g] BY <2>1 DEF AuthzTypes, AuthzTypeOK
  <2>2. CASE grant'[g] = {} BY <2>2, FS_EmptySet
  <2> QED BY <2>1, <2>2
<1>2. AuthzTypeOK' BY <1>1 DEF AuthzTypes, AuthzTypeOK, readVars
<1> QED BY <1>2 DEF AuthzTypes, readVars

\* A block is one row more.
LEMMA BlockIsTyped == ASSUME AuthzTypes, NEW g \in Gates, NEW v2 \in BOOLEAN, Block(g, v2) PROVE AuthzTypes'
<1>1. /\ linesWritten < MaxLines /\ linesWritten' = linesWritten + 1 /\ torn' \in BOOLEAN /\ UNCHANGED <<inode, rotated, readVars>>
      /\ logFile' = Append(logFile, Row(g, v2, "blocked"))
      /\ askings' = [askings EXCEPT ![g] = @ + (IF v2 THEN 1 ELSE 0)]
      /\ UNCHANGED <<authzTime, asked, chosen, grant, uses, lastUse, late>>
  BY DEF Block, AppendRow, authzVars
<1>2. linesWritten' \in 0..MaxLines /\ rotated' \in 0..MaxRotates /\ inode' \in Nat
  BY <1>1, AuthzNumbers, LogAssumption
<1>3. logFile' \in Seq(LogRows)
  <2>1. PICK row \in LogRows : row = Row(g, v2, "blocked") BY <1>1, RowIsTyped
  <2> QED BY <1>1, <2>1, AuthzNumbers, AppendProperties
<1>4. askings' \in [Gates -> Nat] BY <1>1 DEF AuthzTypes
<1> QED BY <1>1, <1>2, <1>3, <1>4, HooksAreTyped DEF AuthzTypes

\* So is a command that takes the grant, which is gone then.
LEMMA HonourIsTyped == ASSUME AuthzTypes, NEW g \in Gates, Honour(g) PROVE AuthzTypes'
<1>1. /\ linesWritten < MaxLines /\ linesWritten' = linesWritten + 1 /\ torn' \in BOOLEAN /\ UNCHANGED <<inode, rotated, readVars>>
      /\ logFile' = Append(logFile, Row(g, TRUE, "authorized"))
      /\ grant' = [grant EXCEPT ![g] = {}] /\ uses' = [uses EXCEPT ![g] = @ + 1]
      /\ lastUse' = [lastUse EXCEPT ![g] = linesWritten + 1]
      /\ UNCHANGED <<authzTime, asked, chosen, askings, late>>
  BY DEF Honour, AppendRow
<1>2. linesWritten' \in 0..MaxLines /\ rotated' \in 0..MaxRotates /\ inode' \in Nat /\ linesWritten + 1 \in Nat
  BY <1>1, AuthzNumbers, LogAssumption
<1>3. logFile' \in Seq(LogRows)
  <2>1. TRUE \in BOOLEAN /\ Row(g, TRUE, "authorized") \in LogRows BY <1>1, RowIsTyped
  <2>2. PICK row \in LogRows : row = Row(g, TRUE, "authorized") BY <2>1
  <2>3. logFile \in Seq(LogRows) BY DEF AuthzTypes, AuthzTypeOK
  <2>4. Append(logFile, row) \in Seq(LogRows) BY <2>3
  <2> QED BY <1>1, <2>2, <2>4
<1>4. uses' \in [Gates -> Nat] /\ lastUse' \in [Gates -> Nat] BY <1>1, <1>2 DEF AuthzTypes
<1>5. grant' \in [Gates -> SUBSET Grants] /\ \A h \in Gates : grant'[h] = grant[h] \/ grant'[h] = {} BY <1>1 DEF AuthzTypes
<1> QED BY <1>1, <1>2, <1>3, <1>4, <1>5, HooksAreTyped DEF AuthzTypes

\* A line that ends, and a file that is cut down, hold rows as before.
LEMMA FileIsTyped == ASSUME AuthzTypes, Terminate \/ Rotate, UNCHANGED <<authzVars, pastVars>> PROVE AuthzTypes'
<1>1. UNCHANGED readVars /\ linesWritten' = linesWritten /\ torn' \in BOOLEAN
  BY DEF Terminate, Rotate, AuthzTypes, AuthzTypeOK
<1>2. rotated' \in 0..MaxRotates /\ inode' \in Nat
  <2>1. inode \in Nat /\ rotated \in 0..MaxRotates /\ MaxRotates \in Nat BY LogAssumption DEF AuthzTypes, AuthzTypeOK
  <2>2. CASE Terminate BY <2>1, <2>2 DEF Terminate
  <2>3. CASE Rotate
    <3>1. rotated < MaxRotates /\ rotated' = rotated + 1 /\ inode' \in {inode, inode + 1} BY <2>3 DEF Rotate
    <3> QED BY <2>1, <3>1
  <2> QED BY <2>2, <2>3
<1>3. logFile' \in Seq(LogRows)
  <2>1. CASE Terminate BY <2>1 DEF Terminate, AuthzTypes, AuthzTypeOK
  <2>2. CASE Rotate
    <3>1. PICK n \in 1..(Len(logFile) - 1) : logFile' = SubSeq(logFile, n + 1, Len(logFile)) BY <2>2 DEF Rotate
    <3>2. logFile \in Seq(LogRows) /\ n \in Nat /\ Len(logFile) \in Nat BY DEF AuthzTypes, AuthzTypeOK
    <3> QED BY <3>1, <3>2, PartOf
  <2> QED BY <2>1, <2>2
<1> QED BY <1>1, <1>2, <1>3, HooksAreTyped DEF AuthzTypes, AuthzTypeOK, authzVars, pastVars

\* A first look starts near the end of the file, and so does one at a file that shrank.
LEMMA EntriesMade ==
  ASSUME AuthzTypes, Len(logFile) > 0
  PROVE  /\ Head(logFile) = logFile[1] /\ logFile[1] \in LogRows /\ Len(logFile) \in Nat
         /\ TailStart(Len(logFile)) \in Nat /\ TailStart(Len(logFile)) < Len(logFile)
         /\ Fresh \in LogEntries /\ Fresh.inode = inode /\ Fresh.first = logFile[1]
         /\ Fresh.pos = TailStart(Len(logFile)) /\ Fresh.rows = <<>>
         /\ \A e \in LogEntries : Shrunk(e) \in LogEntries /\ Shrunk(e).rows = <<>>
<1>1. logFile \in Seq(LogRows) /\ inode \in Nat BY DEF AuthzTypes, AuthzTypeOK
<1>2. PICK n \in Nat : n = Len(logFile) BY <1>1
<1>3. Head(logFile) = logFile[1] /\ logFile[1] \in LogRows
  <2>1. 1 \in 1..n BY <1>2
  <2> QED BY <1>1, <1>2, <2>1
<1>4. TailStart(n) \in Nat /\ TailStart(n) < n BY <1>2, LogAssumption DEF TailStart, Least
<1>5. <<>> \in Seq(LogRows) OBVIOUS
<1>6. PICK k \in Nat : k = TailStart(n) BY <1>4
<1>7. Fresh = [inode |-> inode, first |-> logFile[1], pos |-> k, rows |-> <<>>] BY <1>2, <1>3, <1>6 DEF Fresh
<1>8. ASSUME NEW e \in LogEntries PROVE Shrunk(e) \in LogEntries /\ Shrunk(e).rows = <<>>
  <2>1. Shrunk(e) = [e EXCEPT !.rows = <<>>, !.pos = k] BY <1>2, <1>6 DEF Shrunk
  <2> QED BY <1>5, <2>1 DEF LogEntries
<1> QED BY <1>1, <1>2, <1>3, <1>4, <1>5, <1>6, <1>7, <1>8 DEF LogEntries

\* The entry a look takes: a new one, the one that speaks of the file, or that one started over.
LEMMA LookTakes ==
  ASSUME AuthzTypes, NEW r \in Readers, Look(r)
  PROVE  /\ reader[r] = "idle" /\ Len(logFile) > 0 /\ logFile \in Seq(LogRows)
         /\ entries' \in Seq(LogEntries) /\ lastEntry' \in 1..Len(entries') /\ Len(entries) \in Nat
         /\ Len(entries) <= Len(entries') /\ Len(entries') \in Nat
         /\ \A i \in 1..Len(entries') : Len(entries'[i].rows) <= Ring
         /\ \/ (lastEntry = 0 \/ ~SameFile(entries[lastEntry])) /\ entries'[lastEntry'] = Fresh
            \/ /\ lastEntry # 0 /\ SameFile(entries[lastEntry]) /\ lastEntry' = lastEntry
               /\ entries'[lastEntry'] = IF Len(logFile) < entries[lastEntry].pos
                                         THEN Shrunk(entries[lastEntry]) ELSE entries[lastEntry]
         /\ look' = [look EXCEPT ![r] = [entry |-> lastEntry', lines |-> logFile, torn |-> torn]]
         /\ reader' = [reader EXCEPT ![r] = "looked"] /\ UNCHANGED <<fileVars, chunk, result>>
<1>1. /\ logFile \in Seq(LogRows) /\ entries \in Seq(LogEntries) /\ lastEntry \in 0..Len(entries)
      /\ \A i \in 1..Len(entries) : Len(entries[i].rows) <= Ring
  BY DEF AuthzTypes, AuthzTypeOK
<1>2. Len(logFile) > 0 BY <1>1 DEF Look
<1>3. PICK n \in Nat : n = Len(entries) BY <1>1
<1>4. Len(<<>>) = 0 /\ 0 <= Ring BY LogAssumption
<1>5. CASE lastEntry = 0 \/ ~SameFile(entries[lastEntry])
  <2>1. entries' = Append(entries, Fresh) /\ lastEntry' = n + 1 BY <1>3, <1>5 DEF Look
  <2>2. PICK e \in LogEntries : e = Fresh /\ e.rows = <<>> BY <1>2, EntriesMade
  <2>3. /\ entries' \in Seq(LogEntries) /\ Len(entries') = n + 1 /\ entries'[n + 1] = Fresh
        /\ \A i \in 1..n : entries'[i] = entries[i]
    BY <1>1, <1>3, <2>1, <2>2
  <2>4. \A i \in 1..Len(entries') : Len(entries'[i].rows) <= Ring
    <3> SUFFICES ASSUME NEW i \in 1..(n + 1) PROVE Len(entries'[i].rows) <= Ring BY <2>3
    <3>1. CASE i = n + 1 BY <1>4, <2>2, <2>3, <3>1
    <3>2. CASE i \in 1..n BY <1>1, <1>3, <2>3, <3>2
    <3> QED BY <3>1, <3>2
  <2> QED BY <1>1, <1>2, <1>3, <1>5, <2>1, <2>3, <2>4 DEF Look
<1>6. CASE lastEntry # 0 /\ SameFile(entries[lastEntry])
  <2>1. /\ lastEntry' = lastEntry /\ lastEntry \in 1..n
        /\ entries' = IF Len(logFile) < entries[lastEntry].pos
                      THEN [entries EXCEPT ![lastEntry] = Shrunk(@)] ELSE entries
    BY <1>1, <1>3, <1>6 DEF Look
  <2>2. PICK e \in LogEntries : e = Shrunk(entries[lastEntry]) /\ e.rows = <<>>
    <3>1. entries[lastEntry] \in LogEntries BY <1>1, <1>3, <2>1
    <3> QED BY <1>2, <3>1, EntriesMade
  <2>3. CASE Len(logFile) < entries[lastEntry].pos
    <3>1. entries' = [entries EXCEPT ![lastEntry] = e] BY <2>1, <2>2, <2>3
    <3>2. /\ entries' \in Seq(LogEntries) /\ Len(entries') = n /\ entries'[lastEntry] = e
          /\ \A i \in 1..n : i # lastEntry => entries'[i] = entries[i]
      BY <1>1, <1>3, <2>1, <3>1
    <3>3. \A i \in 1..Len(entries') : Len(entries'[i].rows) <= Ring
      <4> SUFFICES ASSUME NEW i \in 1..n PROVE Len(entries'[i].rows) <= Ring BY <3>2
      <4>1. CASE i = lastEntry BY <1>4, <2>2, <3>2, <4>1
      <4>2. CASE i # lastEntry BY <1>1, <1>3, <3>2, <4>2
      <4> QED BY <4>1, <4>2
    <3> QED BY <1>1, <1>2, <1>3, <1>6, <2>1, <2>2, <2>3, <3>2, <3>3 DEF Look
  <2>4. CASE ~(Len(logFile) < entries[lastEntry].pos)
    <3>1. entries' = entries BY <2>1, <2>4
    <3> QED BY <1>1, <1>2, <1>3, <1>6, <2>1, <2>4, <3>1 DEF Look
  <2> QED BY <2>3, <2>4
<1> QED BY <1>5, <1>6

\* What a thread has looked at is part of a log.
LEMMA LookIsTyped ==
  ASSUME AuthzTypes, NEW r \in Readers, reader[r] # "idle"
  PROVE  /\ look[r].lines \in Seq(LogRows) /\ Len(look[r].lines) \in Nat /\ Len(look[r].lines) > 0
         /\ WholeRows(r) \in Nat /\ WholeRows(r) <= Len(look[r].lines)
         /\ Entry(r) \in LogEntries /\ Entry(r).pos \in Nat /\ Entry(r).rows \in Seq(LogRows)
         /\ look[r].entry \in 1..Len(entries) /\ entries \in Seq(LogEntries)
<1>1. /\ look[r] \in [entry : Nat, lines : Seq(LogRows), torn : BOOLEAN]
      /\ look[r].entry \in 1..Len(entries) /\ Len(look[r].lines) > 0 /\ entries \in Seq(LogEntries)
  BY DEF AuthzTypes
<1>2. look[r].lines \in Seq(LogRows) /\ Len(look[r].lines) \in Nat BY <1>1
<1>3. WholeRows(r) \in Nat /\ WholeRows(r) <= Len(look[r].lines) BY <1>1, <1>2 DEF WholeRows
<1>4. Entry(r) \in LogEntries BY <1>1 DEF Entry
<1>5. Entry(r).pos \in Nat /\ Entry(r).rows \in Seq(LogRows) BY <1>4 DEF LogEntries
<1> QED BY <1>1, <1>2, <1>3, <1>4, <1>5

\* What a thread reads, and what its entry becomes when it returns.
LEMMA ReadTakes ==
  ASSUME AuthzTypes, NEW r \in Readers, Read(r)
  PROVE  /\ reader[r] = "looked" /\ chunk' \in [Readers -> Seq(LogRows)]
         /\ chunk'[r] = SubSeq(look[r].lines, Entry(r).pos + 1, WholeRows(r))
         /\ \A x \in Readers : x # r => chunk'[x] = chunk[x]
         /\ reader' = [reader EXCEPT ![r] = "read"] /\ UNCHANGED <<fileVars, entries, lastEntry, look, result>>
<1>1. /\ reader[r] = "looked" /\ chunk' = [chunk EXCEPT ![r] = SubSeq(look[r].lines, Entry(r).pos + 1, WholeRows(r))]
      /\ reader' = [reader EXCEPT ![r] = "read"] /\ UNCHANGED <<fileVars, entries, lastEntry, look, result>>
  BY DEF Read
<1>2. SubSeq(look[r].lines, Entry(r).pos + 1, WholeRows(r)) \in Seq(LogRows) BY <1>1, LookIsTyped, PartOf
<1>3. chunk \in [Readers -> Seq(LogRows)] BY DEF AuthzTypes
<1> QED BY <1>1, <1>2, <1>3

\* On return the entry is moved past what was read, with its newest rows.
LEMMA ReturnMoves ==
  ASSUME AuthzTypes, NEW r \in Readers, Return(r)
  PROVE  /\ reader[r] = "read" /\ chunk[r] \in Seq(LogRows) /\ entries' \in Seq(LogEntries) /\ Len(entries') = Len(entries)
         /\ entries'[look[r].entry].pos = Entry(r).pos + Len(chunk[r])
         /\ entries'[look[r].entry].rows = Kept(Entry(r).rows \o chunk[r])
         /\ entries'[look[r].entry].inode = Entry(r).inode /\ entries'[look[r].entry].first = Entry(r).first
         /\ \A i \in 1..Len(entries') : Len(entries'[i].rows) <= Ring
         /\ result' \in [Readers -> Seq(LogRows)] /\ result'[r] = Kept(Entry(r).rows \o chunk[r])
         /\ \A x \in Readers : x # r => result'[x] = result[x]
         /\ chunk' = [chunk EXCEPT ![r] = <<>>] /\ reader' = [reader EXCEPT ![r] = "returned"]
         /\ UNCHANGED <<fileVars, lastEntry, look>>
<1>1. /\ reader[r] = "read" /\ result' = [result EXCEPT ![r] = Kept(Entry(r).rows \o chunk[r])]
      /\ entries' = [entries EXCEPT ![look[r].entry] =
                       [Entry(r) EXCEPT !.pos = @ + Len(chunk[r]), !.rows = Kept(@ \o chunk[r])]]
      /\ chunk' = [chunk EXCEPT ![r] = <<>>] /\ reader' = [reader EXCEPT ![r] = "returned"]
      /\ UNCHANGED <<fileVars, lastEntry, look>>
  BY DEF Return
<1>2. /\ chunk[r] \in Seq(LogRows) /\ result \in [Readers -> Seq(LogRows)] /\ entries \in Seq(LogEntries)
      /\ \A i \in 1..Len(entries) : Len(entries[i].rows) <= Ring
  BY DEF AuthzTypes, AuthzTypeOK
<1> DEFINE n == look[r].entry
<1>3. n \in 1..Len(entries) BY <1>1, LookIsTyped
<1>4. PICK e \in LogEntries : e = entries[n] /\ e = Entry(r) BY <1>2, <1>3 DEF Entry
<1>5. PICK k \in Seq(LogRows) : k = Kept(e.rows \o chunk[r]) /\ Len(k) <= Ring
  <2>1. e.rows \o chunk[r] \in Seq(LogRows) /\ Len(e.rows \o chunk[r]) \in Nat BY <1>2 DEF LogEntries
  <2>2. Ring \in Nat BY LogAssumption
  <2>3. PICK s \in Seq(LogRows) : s = e.rows \o chunk[r] /\ Len(s) \in Nat BY <2>1
  <2>4. LastRows(s, Ring) \in Seq(LogRows) /\ Len(LastRows(s, Ring)) = Least(Ring, Len(s)) BY <2>2, LastOf
  <2>5. Least(Ring, Len(s)) <= Ring BY <2>2, <2>3, LeastOf
  <2> QED BY <2>3, <2>4, <2>5 DEF Kept
<1>6. PICK m \in Nat : m = e.pos + Len(chunk[r]) BY <1>2 DEF LogEntries
<1>7. PICK f \in LogEntries : f = [e EXCEPT !.pos = m, !.rows = k] BY DEF LogEntries
<1>8. f.pos = m /\ f.rows = k /\ f.inode = e.inode /\ f.first = e.first BY <1>7 DEF LogEntries
<1>9. entries' = [entries EXCEPT ![n] = f]
  <2>1. [e EXCEPT !.pos = @ + Len(chunk[r]), !.rows = Kept(@ \o chunk[r])] = f BY <1>5, <1>6, <1>7 DEF LogEntries
  <2>2. entries' = [entries EXCEPT ![n] = [e EXCEPT !.pos = @ + Len(chunk[r]), !.rows = Kept(@ \o chunk[r])]]
    BY <1>1, <1>4, Zenon
  <2> QED BY <2>1, <2>2, Zenon
<1> HIDE DEF n
<1>10. /\ entries' \in Seq(LogEntries) /\ Len(entries') = Len(entries) /\ entries'[n] = f
       /\ \A i \in 1..Len(entries) : i # n => entries'[i] = entries[i]
  BY <1>2, <1>3, <1>9
<1>11. \A i \in 1..Len(entries') : Len(entries'[i].rows) <= Ring
  <2> SUFFICES ASSUME NEW i \in 1..Len(entries) PROVE Len(entries'[i].rows) <= Ring BY <1>10
  <2>1. CASE i = n BY <1>5, <1>8, <1>10, <2>1
  <2>2. CASE i # n BY <1>2, <1>10, <2>2
  <2> QED BY <2>1, <2>2
<1>12. result' = [result EXCEPT ![r] = k] BY <1>1, <1>4, <1>5
<1>13. result' \in [Readers -> Seq(LogRows)] /\ result'[r] = k /\ \A x \in Readers : x # r => result'[x] = result[x]
  BY <1>2, <1>12
<1> QED BY <1>1, <1>2, <1>3, <1>4, <1>5, <1>6, <1>8, <1>10, <1>11, <1>13 DEF n

\* A thread looks, reads and returns: rows and entries stay what they are.
LEMMA AskIsTyped == ASSUME AuthzTypes, NEW r \in Readers, NEW g \in Gates \cup {"none"}, Ask(r, g) PROVE AuthzTypes'
<1>1. /\ Look(r) /\ asked' = [asked EXCEPT ![r] = g]
      /\ UNCHANGED <<authzTime, chosen, grant, askings, uses, lastUse, late>>
  BY DEF Ask, pastVars
<1>2. /\ reader[r] = "idle" /\ Len(logFile) > 0 /\ logFile \in Seq(LogRows)
      /\ entries' \in Seq(LogEntries) /\ lastEntry' \in 1..Len(entries') /\ Len(entries) \in Nat
      /\ Len(entries) <= Len(entries') /\ Len(entries') \in Nat
      /\ \A i \in 1..Len(entries') : Len(entries'[i].rows) <= Ring
      /\ look' = [look EXCEPT ![r] = [entry |-> lastEntry', lines |-> logFile, torn |-> torn]]
      /\ reader' = [reader EXCEPT ![r] = "looked"] /\ UNCHANGED <<fileVars, chunk, result>>
  BY <1>1, LookTakes
<1>3. asked' \in [Readers -> Gates \cup {"none"}] BY <1>1 DEF AuthzTypes, AuthzTypeOK
<1>4. \A i \in 1..Len(entries') : entries'[i].rows \in Seq(LogRows) /\ entries'[i].pos \in Nat
  <2> SUFFICES ASSUME NEW i \in 1..Len(entries') PROVE entries'[i].rows \in Seq(LogRows) /\ entries'[i].pos \in Nat
    OBVIOUS
  <2>1. entries'[i] \in LogEntries BY <1>2
  <2> QED BY <2>1 DEF LogEntries
<1>5. lastEntry' \in 0..Len(entries') BY <1>2
<1>6. AuthzTypeOK' BY <1>1, <1>2, <1>3, <1>4, <1>5 DEF AuthzTypes, AuthzTypeOK, fileVars
<1>7. look' = [x \in Readers |-> look'[x]] BY <1>2 DEF AuthzTypes
<1>8. reader' \in [Readers -> {"idle", "looked", "read", "returned"}] BY <1>2 DEF AuthzTypes
<1>9. ASSUME NEW x \in Readers, reader'[x] # "idle"
      PROVE  /\ look'[x] \in [entry : Nat, lines : Seq(LogRows), torn : BOOLEAN]
             /\ look'[x].entry \in 1..Len(entries') /\ Len(look'[x].lines) > 0
  <2>1. CASE x = r
    <3>1. torn \in BOOLEAN /\ lastEntry' \in Nat BY <1>2 DEF AuthzTypes, AuthzTypeOK
    <3>2. look'[x] = [entry |-> lastEntry', lines |-> logFile, torn |-> torn] BY <1>2, <2>1 DEF AuthzTypes
    <3> QED BY <1>2, <3>1, <3>2
  <2>2. CASE x # r
    <3>1. look'[x] = look[x] /\ reader[x] # "idle" BY <1>2, <1>9, <2>2 DEF AuthzTypes
    <3>2. look[x].entry \in 1..Len(entries) BY <3>1 DEF AuthzTypes
    <3>3. look[x].entry \in 1..Len(entries') BY <1>2, <3>2
    <3> QED BY <3>1, <3>3 DEF AuthzTypes
  <2> QED BY <2>1, <2>2
<1> QED BY <1>1, <1>2, <1>6, <1>7, <1>8, <1>9 DEF AuthzTypes, fileVars

\* Reading and returning keep the types.
LEMMA ReadIsTyped ==
  ASSUME AuthzTypes, NEW r \in Readers, Read(r) \/ Return(r), UNCHANGED <<authzVars, pastVars>>
  PROVE  AuthzTypes'
<1>1. /\ UNCHANGED <<authzTime, asked, chosen, grant, askings, uses, lastUse, late>>
      /\ UNCHANGED <<logFile, torn, inode, linesWritten, rotated, lastEntry, look>>
      /\ reader[r] \in {"looked", "read"} /\ reader' \in [Readers -> {"idle", "looked", "read", "returned"}]
      /\ \A x \in Readers : reader'[x] # "idle" => reader[x] # "idle"
  <2>1. CASE Read(r) BY <2>1 DEF authzVars, pastVars, fileVars, Read, AuthzTypes
  <2>2. CASE Return(r) BY <2>2 DEF authzVars, pastVars, fileVars, Return, AuthzTypes
  <2> QED BY <2>1, <2>2
<1>2. /\ entries' \in Seq(LogEntries) /\ Len(entries') = Len(entries) /\ chunk' \in [Readers -> Seq(LogRows)]
      /\ result' \in [Readers -> Seq(LogRows)]
      /\ \A i \in 1..Len(entries') : Len(entries'[i].rows) <= Ring
  <2>1. CASE Read(r) BY <2>1, ReadTakes DEF AuthzTypes, AuthzTypeOK
  <2>2. CASE Return(r)
    <3>1. <<>> \in Seq(LogRows) OBVIOUS
    <3>2. chunk' \in [Readers -> Seq(LogRows)]
      <4>1. chunk \in [Readers -> Seq(LogRows)] BY DEF AuthzTypes
      <4>2. chunk' = [chunk EXCEPT ![r] = <<>>] BY <2>2, ReturnMoves
      <4>3. PICK c \in Seq(LogRows) : c = <<>> BY <3>1
      <4> QED BY <4>1, <4>2, <4>3
    <3> QED BY <2>2, <3>2, ReturnMoves
  <2> QED BY <2>1, <2>2
<1>3. \A i \in 1..Len(entries') : entries'[i].rows \in Seq(LogRows) /\ entries'[i].pos \in Nat
  <2> SUFFICES ASSUME NEW i \in 1..Len(entries') PROVE entries'[i].rows \in Seq(LogRows) /\ entries'[i].pos \in Nat
    OBVIOUS
  <2>1. entries'[i] \in LogEntries BY <1>2
  <2> QED BY <2>1 DEF LogEntries
<1>4. AuthzTypeOK' BY <1>1, <1>2, <1>3 DEF AuthzTypes, AuthzTypeOK
<1> QED BY <1>1, <1>2, <1>4 DEF AuthzTypes

\* There is one latest block of a gate at most.
LEMMA GrantableIsOne ==
  ASSUME AuthzTypes, NEW log \in Seq(LogRows), NEW g
  PROVE  /\ Grantable(log, g) \subseteq LogRows /\ Cardinality(Grantable(log, g)) <= 1
         /\ \A row \in Grantable(log, g) :
              \E i \in 1..Len(log) : row = log[i] /\ row.outcome = "blocked" /\ row.gate = g /\ Pending(log, i)
<1>1. \A row \in Grantable(log, g) :
        \E i \in 1..Len(log) : /\ row = log[i] /\ row.outcome = "blocked" /\ row.gate = g /\ Pending(log, i)
                               /\ \A k \in Blocks(log, g) : k <= i
  BY DEF Grantable, Blocks
<1>2. \A row \in Grantable(log, g) : row \in LogRows BY <1>1
<1>3. Grantable(log, g) = {} \/ \E row : Grantable(log, g) = {row}
  <2>1. ASSUME NEW x \in Grantable(log, g), NEW y \in Grantable(log, g) PROVE x = y
    <3>1. PICK i \in 1..Len(log) : x = log[i] /\ i \in Blocks(log, g) /\ \A k \in Blocks(log, g) : k <= i
      BY DEF Grantable, Blocks
    <3>2. PICK j \in 1..Len(log) : y = log[j] /\ j \in Blocks(log, g) /\ \A k \in Blocks(log, g) : k <= j
      BY DEF Grantable, Blocks
    <3>3. i <= j /\ j <= i /\ i \in Int /\ j \in Int BY <3>1, <3>2
    <3> QED BY <3>1, <3>2, <3>3
  <2> QED BY <2>1
<1>4. Cardinality(Grantable(log, g)) <= 1
  <2>1. CASE Grantable(log, g) = {} BY <2>1, FS_EmptySet
  <2>2. CASE \E row : Grantable(log, g) = {row}
    <3>1. PICK row : Grantable(log, g) = {row} BY <2>2
    <3>2. Cardinality({row}) = 1 BY FS_Singleton
    <3> QED BY <3>1, <3>2
  <2> QED BY <1>3, <2>1, <2>2
<1> QED BY <1>1, <1>2, <1>4

\* Of what a thread has decided only the choice, the grants and its place change.
LEMMA RequestIsTyped ==
  ASSUME AuthzTypes, UNCHANGED <<fileVars, entries, lastEntry, chunk>>, authzTime' = authzTime,
         asked' \in [Readers -> Gates \cup {"none"}], chosen' \in [Readers -> SUBSET LogRows],
         \A r \in Readers : Cardinality(chosen'[r]) <= 1,
         grant' \in [Gates -> SUBSET Grants], \A g \in Gates : Cardinality(grant'[g]) <= 1,
         reader' \in [Readers -> {"idle", "looked", "read", "returned"}],
         look' = [r \in Readers |-> look'[r]], result' \in [Readers -> Seq(LogRows)],
         \A r \in Readers : reader'[r] # "idle" => reader[r] # "idle" /\ look'[r] = look[r],
         askings' \in [Gates -> Nat], uses' \in [Gates -> Nat], lastUse' \in [Gates -> Nat], late' \in [Gates -> Nat]
  PROVE  AuthzTypes'
<1>1. AuthzTypeOK' BY DEF AuthzTypes, AuthzTypeOK, fileVars
<1> QED BY <1>1 DEF AuthzTypes, fileVars

\* A decision is for one row at most.
LEMMA DecideIsTyped == ASSUME AuthzTypes, NEW r \in Readers, Decide(r) PROVE AuthzTypes'
<1>1. /\ chosen' = [chosen EXCEPT ![r] = Grantable(result[r], asked[r])]
      /\ UNCHANGED <<fileVars, readVars, authzTime, asked, grant, pastVars>>
  BY DEF Decide
<1>2. result[r] \in Seq(LogRows) BY DEF AuthzTypes
<1>3. Grantable(result[r], asked[r]) \subseteq LogRows /\ Cardinality(Grantable(result[r], asked[r])) <= 1
  BY <1>2, GrantableIsOne
<1>4. chosen' \in [Readers -> SUBSET LogRows] /\ \A x \in Readers : Cardinality(chosen'[x]) <= 1
  BY <1>1, <1>3 DEF AuthzTypes, AuthzTypeOK
<1>5. UNCHANGED <<entries, lastEntry, reader, look, chunk, result, askings, uses, lastUse, late>>
  BY <1>1 DEF readVars, pastVars
<1> QED BY <1>1, <1>4, <1>5, RequestIsTyped DEF AuthzTypes, AuthzTypeOK

\* A thread that leaves forgets what it saw.
LEMMA LeaveForgets ==
  ASSUME AuthzTypes, NEW r \in Readers, Done(r)
  PROVE  /\ reader[r] = "returned" /\ UNCHANGED <<fileVars, entries, lastEntry, chunk>>
         /\ reader' \in [Readers -> {"idle", "looked", "read", "returned"}] /\ look' = [x \in Readers |-> look'[x]]
         /\ result' \in [Readers -> Seq(LogRows)] /\ asked' \in [Readers -> Gates \cup {"none"}]
         /\ chosen' \in [Readers -> SUBSET LogRows] /\ \A x \in Readers : Cardinality(chosen'[x]) <= 1
         /\ reader'[r] = "idle" /\ chosen'[r] = {}
         /\ \A x \in Readers : x # r => /\ reader'[x] = reader[x] /\ look'[x] = look[x] /\ result'[x] = result[x]
                                        /\ asked'[x] = asked[x] /\ chosen'[x] = chosen[x]
<1>1. /\ reader[r] = "returned" /\ reader' = [reader EXCEPT ![r] = "idle"] /\ look' = [look EXCEPT ![r] = <<>>]
      /\ result' = [result EXCEPT ![r] = <<>>] /\ UNCHANGED <<fileVars, entries, lastEntry, chunk>>
      /\ asked' = [asked EXCEPT ![r] = "none"] /\ chosen' = [chosen EXCEPT ![r] = {}]
  BY DEF Done, Leave
<1>2. <<>> \in Seq(LogRows) OBVIOUS
<1>3. result' \in [Readers -> Seq(LogRows)] BY <1>1, <1>2 DEF AuthzTypes
<1>4. Cardinality({}) <= 1 BY FS_EmptySet
<1>5. \A x \in Readers : Cardinality(chosen'[x]) <= 1 BY <1>1, <1>4 DEF AuthzTypes, AuthzTypeOK
<1>6. asked' \in [Readers -> Gates \cup {"none"}] /\ chosen' \in [Readers -> SUBSET LogRows]
  BY <1>1 DEF AuthzTypes, AuthzTypeOK
<1> QED BY <1>1, <1>3, <1>5, <1>6, ZenonT(60) DEF AuthzTypes, AuthzTypeOK

\* A request that ends without a grant keeps the types.
LEMMA FinishIsTyped == ASSUME AuthzTypes, NEW r \in Readers, Finish(r) PROVE AuthzTypes'
<1>1. Done(r) /\ UNCHANGED <<authzTime, grant, askings, uses, lastUse, late>> BY DEF Finish, pastVars
<1>2. /\ UNCHANGED <<fileVars, entries, lastEntry, chunk>>
      /\ reader' \in [Readers -> {"idle", "looked", "read", "returned"}] /\ look' = [x \in Readers |-> look'[x]]
      /\ result' \in [Readers -> Seq(LogRows)] /\ asked' \in [Readers -> Gates \cup {"none"}]
      /\ chosen' \in [Readers -> SUBSET LogRows] /\ (\A x \in Readers : Cardinality(chosen'[x]) <= 1)
      /\ \A x \in Readers : reader'[x] # "idle" => reader[x] # "idle" /\ look'[x] = look[x]
  BY <1>1, LeaveForgets
<1> QED BY <1>1, <1>2, RequestIsTyped DEF AuthzTypes, AuthzTypeOK

\* A grant that is written is the only one of its gate.
LEMMA GrantIsTyped ==
  ASSUME AuthzTypes, NEW row \in LogRows
  PROVE  /\ {[row |-> row, mtime |-> authzTime]} \in SUBSET Grants
         /\ Cardinality({[row |-> row, mtime |-> authzTime]}) <= 1 /\ row.gate \in Gates
<1>1. authzTime \in 0..MaxAuthzTime BY DEF AuthzTypes, AuthzTypeOK
<1>2. Cardinality({[row |-> row, mtime |-> authzTime]}) = 1 BY FS_Singleton
<1> QED BY <1>1, <1>2 DEF Grants, LogRows

\* So does one that ends with a grant.
LEMMA WriteIsTyped == ASSUME AuthzTypes, NEW r \in Readers, WriteGrant(r) PROVE AuthzTypes'
<1>0. PICK row \in chosen[r] :
        /\ grant' = [grant EXCEPT ![row.gate] = {[row |-> row, mtime |-> authzTime]}]
        /\ late' = [late EXCEPT ![row.gate] = @ + (IF Overtaken(r, row.gate) /\ grant[row.gate] = {} THEN 1 ELSE 0)]
        /\ Done(r) /\ UNCHANGED <<authzTime, askings, uses, lastUse>>
  BY DEF WriteGrant
<1>1. row \in LogRows BY DEF AuthzTypes
<1>2. /\ UNCHANGED <<fileVars, entries, lastEntry, chunk>>
      /\ reader' \in [Readers -> {"idle", "looked", "read", "returned"}] /\ look' = [x \in Readers |-> look'[x]]
      /\ result' \in [Readers -> Seq(LogRows)] /\ asked' \in [Readers -> Gates \cup {"none"}]
      /\ chosen' \in [Readers -> SUBSET LogRows] /\ (\A x \in Readers : Cardinality(chosen'[x]) <= 1)
      /\ \A x \in Readers : reader'[x] # "idle" => reader[x] # "idle" /\ look'[x] = look[x]
  BY <1>0, LeaveForgets
<1>3. PICK y \in SUBSET Grants : y = {[row |-> row, mtime |-> authzTime]} /\ Cardinality(y) <= 1
  BY <1>1, GrantIsTyped
<1>4. grant' = [grant EXCEPT ![row.gate] = y] BY <1>0, <1>3
<1>5. grant' \in [Gates -> SUBSET Grants] /\ \A g \in Gates : Cardinality(grant'[g]) <= 1
  BY <1>3, <1>4 DEF AuthzTypes, AuthzTypeOK
<1>6. late' \in [Gates -> Nat]
  <2>1. PICK d \in Nat : d = IF Overtaken(r, row.gate) /\ grant[row.gate] = {} THEN 1 ELSE 0 OBVIOUS
  <2>2. late' = [late EXCEPT ![row.gate] = @ + d] BY <1>0, <2>1
  <2>3. late \in [Gates -> Nat] BY DEF AuthzTypes
  <2>4. \A g \in Gates : late[g] + d \in Nat BY <2>3
  <2> QED BY <2>2, <2>3, <2>4
<1> QED BY <1>0, <1>2, <1>5, <1>6, RequestIsTyped DEF AuthzTypes

\* And so does the clock.
LEMMA TickIsTyped == ASSUME AuthzTypes, AuthzTick PROVE AuthzTypes'
<1>1. authzTime' \in 0..MaxAuthzTime BY AuthzAssumption DEF AuthzTypes, AuthzTypeOK, AuthzTick
<1>2. AuthzTypeOK' BY <1>1 DEF AuthzTypes, AuthzTypeOK, AuthzTick, fileVars, readVars
<1> QED BY <1>2 DEF AuthzTypes, AuthzTick, fileVars, readVars, pastVars

\* Every step keeps the types.
LEMMA AuthzStaysTyped == ASSUME AuthzTypes, [AuthzNext]_allVars PROVE AuthzTypes'
<1>1. CASE AuthzTick BY <1>1, TickIsTyped
<1>2. ASSUME NEW g \in Gates, Honour(g) PROVE AuthzTypes' BY <1>2, HonourIsTyped
<1>3. ASSUME NEW g \in Gates, NEW v2 \in BOOLEAN, Block(g, v2) PROVE AuthzTypes' BY <1>3, BlockIsTyped
<1>4. CASE (Terminate \/ Rotate) /\ UNCHANGED <<authzVars, pastVars>> BY <1>4, FileIsTyped
<1>5. ASSUME NEW r \in Readers, NEW g \in Gates \cup {"none"}, Ask(r, g) PROVE AuthzTypes' BY <1>5, AskIsTyped
<1>6. ASSUME NEW r \in Readers, (Read(r) \/ Return(r)) /\ UNCHANGED <<authzVars, pastVars>> PROVE AuthzTypes'
  BY <1>6, ReadIsTyped
<1>7. ASSUME NEW r \in Readers, Decide(r) PROVE AuthzTypes' BY <1>7, DecideIsTyped
<1>8. ASSUME NEW r \in Readers, Finish(r) PROVE AuthzTypes' BY <1>8, FinishIsTyped
<1>9. ASSUME NEW r \in Readers, WriteGrant(r) PROVE AuthzTypes' BY <1>9, WriteIsTyped
<1>10. CASE UNCHANGED allVars
  <2>1. UNCHANGED <<logFile, torn, inode, linesWritten, rotated, entries, lastEntry, reader, look, chunk, result>>
    BY <1>10 DEF allVars, fileVars, readVars
  <2>2. UNCHANGED <<authzTime, asked, chosen, grant, askings, uses, lastUse, late>>
    BY <1>10 DEF allVars, authzVars, pastVars
  <2>3. AuthzTypeOK' BY <2>1, <2>2 DEF AuthzTypes, AuthzTypeOK
  <2> QED BY <2>1, <2>2, <2>3 DEF AuthzTypes
<1> QED BY <1>1, <1>2, <1>3, <1>4, <1>5, <1>6, <1>7, <1>8, <1>9, <1>10 DEF AuthzNext

\* What was chosen and granted stays fresh while neither it nor the time changes.
LEMMA FreshStays ==
  ASSUME FreshOK, authzTime' = authzTime, UNCHANGED asked,
         \A r \in Readers : chosen'[r] \subseteq chosen[r] /\ (chosen'[r] # {} => reader'[r] = reader[r]),
         \A g \in Gates : grant'[g] \subseteq grant[g]
  PROVE  FreshOK'
BY DEF FreshOK

\* The types and what is fresh go together through every step.
LEMMA FreshStep == ASSUME AuthzTypes, FreshOK, [AuthzNext]_allVars PROVE FreshOK'
<1>1. CASE AuthzTick
  <2>1. /\ UNCHANGED <<grant, chosen>> /\ \A r \in Readers : reader[r] = "idle"
    BY <1>1 DEF AuthzTick
  <2>2. \A r \in Readers : chosen[r] = {}
    <3>1. ASSUME NEW r \in Readers, chosen[r] # {} PROVE FALSE
      <4>1. reader[r] = "returned" BY <3>1 DEF FreshOK
      <4> QED BY <2>1, <4>1
    <3> QED BY <3>1
  <2> QED BY <2>1, <2>2 DEF FreshOK
<1>2. ASSUME NEW g \in Gates, Honour(g) PROVE FreshOK'
  <2>1. UNCHANGED <<authzTime, asked, chosen, readVars>> /\ grant' = [grant EXCEPT ![g] = {}]
    BY <1>2 DEF Honour, AppendRow
  <2>2. \A h \in Gates : grant'[h] \subseteq grant[h] BY <2>1 DEF AuthzTypes
  <2>3. reader' = reader BY <2>1 DEF readVars
  <2> QED BY <2>1, <2>2, <2>3, FreshStays
<1>3. ASSUME NEW g \in Gates, NEW v2 \in BOOLEAN, Block(g, v2) PROVE FreshOK'
  <2>1. UNCHANGED <<authzTime, asked, chosen, grant, reader>> BY <1>3 DEF Block, AppendRow, readVars, authzVars
  <2> QED BY <2>1, FreshStays
<1>4. CASE (Terminate \/ Rotate) /\ UNCHANGED <<authzVars, pastVars>>
  <2>1. UNCHANGED <<authzTime, asked, chosen, grant, reader>>
    BY <1>4 DEF Terminate, Rotate, readVars, authzVars
  <2> QED BY <2>1, FreshStays
<1>5. ASSUME NEW r \in Readers, NEW g \in Gates \cup {"none"}, Ask(r, g) PROVE FreshOK'
  <2>1. /\ UNCHANGED <<authzTime, chosen, grant>> /\ reader[r] = "idle" /\ reader' = [reader EXCEPT ![r] = "looked"]
        /\ asked' = [asked EXCEPT ![r] = g]
    BY <1>5 DEF Ask, Look
  <2>2. \A x \in Readers : x # r => reader'[x] = reader[x] /\ asked'[x] = asked[x]
    BY <2>1 DEF AuthzTypes, AuthzTypeOK
  <2>3. chosen[r] = {} BY <2>1 DEF FreshOK
  <2> QED BY <2>1, <2>2, <2>3 DEF FreshOK
<1>6. ASSUME NEW r \in Readers, (Read(r) \/ Return(r)) /\ UNCHANGED <<authzVars, pastVars>> PROVE FreshOK'
  <2>1. /\ UNCHANGED <<authzTime, asked, chosen, grant>> /\ reader[r] \in {"looked", "read"}
        /\ \E p \in {"read", "returned"} : reader' = [reader EXCEPT ![r] = p]
    BY <1>6 DEF Read, Return, authzVars
  <2>2. chosen[r] = {} BY <2>1 DEF FreshOK
  <2>3. \A x \in Readers : x # r => reader'[x] = reader[x] BY <2>1 DEF AuthzTypes
  <2> QED BY <2>1, <2>2, <2>3, FreshStays
<1>7. ASSUME NEW r \in Readers, Decide(r) PROVE FreshOK'
  <2>1. /\ reader[r] = "returned" /\ chosen' = [chosen EXCEPT ![r] = Grantable(result[r], asked[r])]
        /\ UNCHANGED <<authzTime, asked, grant, reader>>
    BY <1>7 DEF Decide, readVars
  <2>2. ASSUME NEW row \in Grantable(result[r], asked[r])
        PROVE  /\ row.gate = asked[r] /\ row.v2 /\ row.outcome = "blocked" /\ authzTime - row.at <= PendingWindow
    <3>1. PICK i \in 1..Len(result[r]) : row = result[r][i] /\ row.outcome = "blocked" /\ row.gate = asked[r]
                                         /\ Pending(result[r], i)
      <4>1. result[r] \in Seq(LogRows) BY DEF AuthzTypes
      <4> QED BY <2>2, <4>1, GrantableIsOne
    <3> QED BY <3>1 DEF Pending
  <2>3. chosen'[r] = Grantable(result[r], asked[r]) /\ \A x \in Readers : x # r => chosen'[x] = chosen[x]
    BY <2>1 DEF AuthzTypes
  <2> QED BY <2>1, <2>2, <2>3 DEF FreshOK
<1>8. ASSUME NEW r \in Readers, Finish(r) PROVE FreshOK'
  <2>1. /\ UNCHANGED <<authzTime, grant>> /\ chosen'[r] = {}
        /\ \A x \in Readers : x # r => reader'[x] = reader[x] /\ asked'[x] = asked[x] /\ chosen'[x] = chosen[x]
    BY <1>8, LeaveForgets DEF Finish
  <2> QED BY <2>1 DEF FreshOK
<1>9. ASSUME NEW r \in Readers, WriteGrant(r) PROVE FreshOK'
  <2>0. PICK row \in chosen[r] :
          grant' = [grant EXCEPT ![row.gate] = {[row |-> row, mtime |-> authzTime]}] /\ Done(r) /\ UNCHANGED authzTime
    BY <1>9 DEF WriteGrant
  <2>1. /\ chosen'[r] = {}
        /\ \A x \in Readers : x # r => reader'[x] = reader[x] /\ asked'[x] = asked[x] /\ chosen'[x] = chosen[x]
    BY <2>0, LeaveForgets
  <2>2. row.v2 /\ row.outcome = "blocked" /\ authzTime - row.at <= PendingWindow BY DEF FreshOK
  <2>3. ASSUME NEW g \in Gates, NEW x \in grant'[g]
        PROVE  x.row.gate = g /\ x.row.v2 /\ x.row.outcome = "blocked" /\ x.mtime - x.row.at <= PendingWindow
    <3>1. CASE g = row.gate
      <4>1. x = [row |-> row, mtime |-> authzTime] BY <2>0, <2>3, <3>1 DEF AuthzTypes
      <4> QED BY <2>2, <3>1, <4>1
    <3>2. CASE g # row.gate
      <4>1. x \in grant[g] BY <2>0, <2>3, <3>2 DEF AuthzTypes
      <4> QED BY <4>1 DEF FreshOK
    <3> QED BY <3>1, <3>2
  <2> QED BY <2>0, <2>1, <2>3 DEF FreshOK
<1>10. CASE UNCHANGED allVars BY <1>10 DEF FreshOK, allVars, authzVars, readVars
<1> QED BY <1>1, <1>2, <1>3, <1>4, <1>5, <1>6, <1>7, <1>8, <1>9, <1>10 DEF AuthzNext

\* A grant that may still be taken answers a block of its own gate, a window and a grant's life ago at most.
LEMMA FreshIsEnough == ASSUME AuthzTypes, FreshOK PROVE GrantIsFresh
<1> SUFFICES ASSUME NEW g \in Gates, NEW x \in grant[g], authzTime - x.mtime <= GrantTTL
             PROVE  /\ x.row.gate = g /\ x.row.v2 /\ x.row.outcome = "blocked"
                    /\ authzTime - x.row.at <= PendingWindow + GrantTTL
  BY DEF GrantIsFresh
<1>1. x.row.gate = g /\ x.row.v2 /\ x.row.outcome = "blocked" /\ x.mtime - x.row.at <= PendingWindow BY DEF FreshOK
<1>2. x \in Grants /\ authzTime \in Nat BY AuthzAssumption DEF AuthzTypes, AuthzTypeOK
<1>3. x.mtime \in Nat /\ x.row.at \in Nat BY <1>2, AuthzAssumption DEF Grants, LogRows
<1>4. PendingWindow \in Nat /\ GrantTTL \in Nat BY AuthzAssumption
<1> QED BY <1>1, <1>2, <1>3, <1>4

\* Whatever the threads do, the state has its types and every grant is of a fresh block.
THEOREM AuthorizationInvariance == AuthzSpec => [](AuthzTypes /\ FreshOK)
<1>1. AuthzInit => AuthzTypes /\ FreshOK BY AuthzBegins
<1>2. AuthzTypes /\ FreshOK /\ [AuthzNext]_allVars => (AuthzTypes /\ FreshOK)' BY AuthzStaysTyped, FreshStep
<1> QED BY <1>1, <1>2, PTL DEF AuthzSpec

\* The file, the cache, the requests and the grants keep their types (ops_authorize).
THEOREM AuthorizationTypes == AuthzSpec => []AuthzTypeOK
<1>1. AuthzTypes /\ FreshOK => AuthzTypeOK BY DEF AuthzTypes
<1> QED BY <1>1, AuthorizationInvariance, PTL

\* With any number of request threads, a grant a command may still take answers a recent
\* block of its own gate, by a hook of the second version (_authz_request_rows).
THEOREM GrantsAreFresh == AuthzSpec => []GrantIsFresh
<1>1. AuthzTypes /\ FreshOK => GrantIsFresh BY FreshIsEnough
<1> QED BY <1>1, AuthorizationInvariance, PTL

-----------------------------------------------------------------------------
(* The entry of a thread that is alone *)

\* What an entry says of a log it says of one that goes on from there.
LEMMA EntryGrows ==
  ASSUME NEW e \in LogEntries, NEW s \in Seq(LogRows), NEW t \in Seq(LogRows), NEW m \in Nat, NEW n \in Nat,
         m <= n, EntryOK(e, s, m), \A i \in 1..m : t[i] = s[i]
  PROVE  EntryOK(e, t, n)
<1>1. e.pos \in Nat /\ e.rows \in Seq(LogRows) /\ Len(e.rows) \in Nat BY DEF LogEntries
<1>2. /\ e.pos <= m /\ Len(e.rows) <= e.pos /\ Len(e.rows) + (m - e.pos) >= Least(m, TailRows) - 1
      /\ \A i \in 1..Len(e.rows) : e.rows[i] = s[e.pos - Len(e.rows) + i]
  BY DEF EntryOK
<1>3. \A i \in 1..Len(e.rows) : e.pos - Len(e.rows) + i \in 1..m BY <1>1, <1>2, SMTT(60)
<1>4. Len(e.rows) + (n - e.pos) >= Least(n, TailRows) - 1 BY <1>1, <1>2, LogAssumption, SMTT(60) DEF Least
<1>5. e.pos <= n BY <1>1, <1>2
<1> QED BY <1>2, <1>3, <1>4, <1>5 DEF EntryOK

\* A new entry goes back as far as a first look.
LEMMA FreshEntry ==
  ASSUME AuthzTypes, Len(logFile) > 0
  PROVE  WholeFile \in Nat /\ WholeFile <= Len(logFile) /\ EntryOK(Fresh, logFile, WholeFile)
<1>1. PICK n \in Nat : n = Len(logFile) /\ n > 0 BY EntriesMade
<1>2. WholeFile \in {n - 1, n} BY <1>1 DEF WholeFile
<1>3. Fresh.pos = TailStart(n) /\ Fresh.rows = <<>> BY <1>1, EntriesMade
<1>4. Len(Fresh.rows) = 0 BY <1>3
<1>5. TailStart(n) <= n - 1 /\ TailStart(n) >= 0 /\ \A w \in {n - 1, n} : w - TailStart(n) >= Least(w, TailRows) - 1
  BY <1>1, LogAssumption DEF TailStart, Least
<1>6. PICK k \in Nat : k = TailStart(n) BY <1>1, EntriesMade
<1> QED BY <1>1, <1>2, <1>3, <1>4, <1>5, <1>6 DEF EntryOK

\* An entry that is moved to the end of what was seen has its last rows.
LEMMA EntryMoves ==
  ASSUME NEW e \in LogEntries, NEW f \in LogEntries, NEW s \in Seq(LogRows), NEW m \in Nat, m <= Len(s),
         EntryOK(e, s, m), NEW c \in Seq(LogRows), c = SubSeq(s, e.pos + 1, m),
         f.pos = e.pos + Len(c), f.rows = Kept(e.rows \o c)
  PROVE  f.pos = m /\ EntryOK(f, s, m)
<1>1. PICK p \in Nat, a \in Seq(LogRows) : p = e.pos /\ a = e.rows BY DEF LogEntries
<1>2. PICK k \in Nat : k = Len(a) BY <1>1
<1>3. /\ p <= m /\ k <= p /\ k + (m - p) >= Least(m, TailRows) - 1
      /\ \A i \in 1..k : a[i] = s[(p - k) + i]
  BY <1>1, <1>2 DEF EntryOK
<1>0. PICK d \in Nat : d = m - p BY <1>3
<1>4. Len(c) = d /\ \A i \in 1..d : c[i] = s[p + i]
  <2>1. c = SubSeq(s, p + 1, m) BY <1>1
  <2>2. p <= m BY <1>3
  <2>3. Len(SubSeq(s, p + 1, m)) = m - p /\ \A i \in 1..(m - p) : SubSeq(s, p + 1, m)[i] = s[p + i]
    BY <2>2, PartOf
  <2> QED BY <1>0, <2>1, <2>3
<1>5. f.pos = m BY <1>0, <1>1, <1>4
<1> DEFINE b == a \o c
<1>6. /\ b \in Seq(LogRows) /\ Len(b) = k + d /\ \A i \in 1..k : b[i] = a[i]
      /\ \A i \in (k + 1)..(k + d) : b[i] = c[i - k]
  <2>1. a \o c \in Seq(LogRows) /\ Len(a \o c) = Len(a) + Len(c) OBVIOUS
  <2>2. \A i \in 1..(k + d) : (a \o c)[i] = IF i <= Len(a) THEN a[i] ELSE c[i - Len(a)]
    <3>1. \A i \in 1..(Len(a) + Len(c)) : (a \o c)[i] = IF i <= Len(a) THEN a[i] ELSE c[i - Len(a)]
      BY <1>1, JoinOf
    <3> QED BY <1>2, <1>4, <3>1, Zenon
  <2>3. \A i \in 1..k : i \in 1..(k + d) OBVIOUS
  <2>4. \A i \in (k + 1)..(k + d) : i \in 1..(k + d) /\ ~(i <= k) OBVIOUS
  <2>5. \A i \in 1..k : b[i] = a[i]
    <3> SUFFICES ASSUME NEW i \in 1..k PROVE (a \o c)[i] = a[i] OBVIOUS
    <3>1. i <= Len(a) BY <1>2
    <3> QED BY <2>2, <2>3, <3>1
  <2>6. \A i \in (k + 1)..(k + d) : b[i] = c[i - k]
    <3> SUFFICES ASSUME NEW i \in (k + 1)..(k + d) PROVE (a \o c)[i] = c[i - k] OBVIOUS
    <3>1. ~(i <= Len(a)) BY <1>2
    <3> QED BY <1>2, <2>2, <2>4, <3>1
  <2> QED BY <1>2, <1>4, <2>1, <2>5, <2>6
<1>61. f.rows = Kept(b) BY <1>1
<1> HIDE DEF b
<1>7. \A i \in 1..(k + d) : b[i] = s[(p - k) + i]
  <2> SUFFICES ASSUME NEW i \in 1..(k + d) PROVE b[i] = s[(p - k) + i] OBVIOUS
  <2>1. CASE i <= k
    <3>1. i \in 1..k /\ b[i] = a[i] BY <1>2, <1>3, <1>6, <2>1
    <3> QED BY <1>3, <3>1
  <2>2. CASE i > k
    <3>1. i - k \in 1..d /\ i \in (k + 1)..(k + d) BY <2>2
    <3>4. b[i] = c[i - k] BY <1>6, <3>1
    <3>2. c[i - k] = s[p + (i - k)] BY <1>4, <3>1
    <3>3. p + (i - k) = (p - k) + i BY <1>2, <1>3
    <3> QED BY <3>2, <3>3, <3>4
  <2> QED BY <2>1, <2>2
<1>8. PICK q \in Nat : q = Least(Ring, Len(b)) /\ q <= k + d /\ q <= Ring /\ (q = Ring \/ q = k + d)
  <2>1. Ring \in Nat /\ k + d \in Nat BY LogAssumption
  <2>2. Least(Ring, k + d) \in Nat /\ Least(Ring, k + d) <= k + d /\ Least(Ring, k + d) <= Ring
        /\ (Least(Ring, k + d) = Ring \/ Least(Ring, k + d) = k + d)
    BY <2>1, LeastOf
  <2> QED BY <1>6, <2>2
<1>9. Len(f.rows) = q /\ \A i \in 1..q : f.rows[i] = b[(k + d) - q + i]
  <2>1. f.rows = LastRows(b, Ring) /\ Ring \in Nat BY <1>61, LogAssumption DEF Kept
  <2>2. Len(LastRows(b, Ring)) = q /\ \A i \in 1..q : LastRows(b, Ring)[i] = b[Len(b) - q + i]
    <3>1. b \in Seq(LogRows) BY <1>6
    <3>2. /\ Len(LastRows(b, Ring)) = Least(Ring, Len(b))
          /\ \A i \in 1..Len(LastRows(b, Ring)) : LastRows(b, Ring)[i] = b[Len(b) - Least(Ring, Len(b)) + i]
      BY <2>1, <3>1, LastOf, Zenon
    <3> QED BY <1>8, <3>2, Zenon
  <2> QED BY <1>6, <2>1, <2>2
<1>10. \A i \in 1..q : f.rows[i] = s[m - q + i]
  <2> SUFFICES ASSUME NEW i \in 1..q PROVE f.rows[i] = s[m - q + i] OBVIOUS
  <2>0. (k + d) - q + i >= 1 /\ (k + d) - q + i <= k + d /\ (k + d) - q + i \in Int BY <1>8, SMTT(60)
  <2>1. (k + d) - q + i \in 1..(k + d) /\ (p - k) + ((k + d) - q + i) = m - q + i BY <1>0, <2>0
  <2> QED BY <1>7, <1>9, <2>1
<1>11. q <= m /\ q >= Least(m, TailRows) - 1
  <2>1. Least(m, TailRows) <= TailRows /\ TailRows <= Ring /\ Least(m, TailRows) \in Nat BY LeastOf, LogAssumption
  <2>2. Ring \in Nat /\ TailRows \in Nat BY LogAssumption
  <2> QED BY <1>0, <1>3, <1>8, <2>1, <2>2, SMTT(60)
<1>12. EntryOK(f, s, m)
  <2>1. f.pos <= m /\ Len(f.rows) <= f.pos BY <1>5, <1>9, <1>11
  <2>2. \A i \in 1..Len(f.rows) : f.rows[i] = s[f.pos - Len(f.rows) + i] BY <1>5, <1>9, <1>10
  <2>3. m - f.pos = 0 /\ Len(f.rows) + (m - f.pos) = q BY <1>5, <1>9
  <2>4. Len(f.rows) + (m - f.pos) >= Least(m, TailRows) - 1 BY <1>11, <2>3
  <2> QED BY <2>1, <2>2, <2>4 DEF EntryOK
<1> QED BY <1>5, <1>12

\* A file that goes on after what was there, or is another one, leaves a thread and its entry what they were.
LEMMA TailSeesFile ==
  ASSUME AuthzTypes, AuthzTypes', FileOK, TailOK, UNCHANGED readVars,
         lastEntry # 0 =>
           \/ ~SameFile(entries[lastEntry])'
           \/ /\ SameFile(entries[lastEntry]) /\ Len(logFile) <= Len(logFile') /\ WholeFile <= WholeFile'
              /\ \A i \in 1..Len(logFile) : logFile'[i] = logFile[i]
  PROVE  TailOK'
<1>1. UNCHANGED <<entries, lastEntry, reader, look, chunk, result>> BY DEF readVars
<1>2. /\ logFile \in Seq(LogRows) /\ logFile' \in Seq(LogRows) /\ Len(logFile) \in Nat /\ Len(logFile') \in Nat
      /\ entries \in Seq(LogEntries) /\ lastEntry \in 0..Len(entries)
  <2>1. logFile' \in Seq(LogRows) BY Zenon DEF AuthzTypes, AuthzTypeOK
  <2> QED BY <2>1, AuthzNumbers, LenProperties
<1>3. ASSUME lastEntry # 0, SameFile(entries[lastEntry])'
      PROVE  /\ SameFile(entries[lastEntry]) /\ Len(logFile) <= Len(logFile') /\ WholeFile <= WholeFile'
             /\ WholeFile \in Nat /\ WholeFile' \in Nat /\ entries[lastEntry] \in LogEntries
             /\ WholeFile <= Len(logFile) /\ \A i \in 1..Len(logFile) : logFile'[i] = logFile[i]
  <2>1. /\ SameFile(entries[lastEntry]) /\ Len(logFile) <= Len(logFile') /\ WholeFile <= WholeFile'
        /\ \A i \in 1..Len(logFile) : logFile'[i] = logFile[i]
    BY <1>3
  <2>2. Len(logFile) > 0 BY <1>3 DEF FileOK
  <2>3. WholeFile \in Nat /\ WholeFile <= Len(logFile) BY <1>2, <2>2 DEF WholeFile
  <2>4. WholeFile' \in Nat
    <3>1. Len(logFile') > 0 BY <1>2, <2>1, <2>2
    <3> QED BY <1>2, <3>1 DEF WholeFile
  <2>5. entries[lastEntry] \in LogEntries BY <1>2, <1>3
  <2> QED BY <2>1, <2>3, <2>4, <2>5
<1>4. ASSUME lastEntry # 0, SameFile(entries[lastEntry])', NEW r \in Readers
      PROVE  EntryOK(entries[lastEntry], logFile', WholeFile')
  <2>1. EntryOK(entries[lastEntry], logFile, WholeFile) BY <1>3, <1>4 DEF TailOK
  <2>2. \A i \in 1..WholeFile : logFile'[i] = logFile[i]
    <3>1. \A i \in 1..WholeFile : i \in 1..Len(logFile) BY <1>2, <1>3, <1>4
    <3> QED BY <1>3, <1>4, <3>1
  <2>3. PICK e \in LogEntries : e = entries[lastEntry] BY <1>3, <1>4
  <2>4. PICK m \in Nat, n \in Nat : m = WholeFile /\ n = WholeFile' /\ m <= n BY <1>3, <1>4
  <2>5. EntryOK(e, logFile', n) BY <1>2, <2>1, <2>2, <2>3, <2>4, EntryGrows
  <2> QED BY <2>3, <2>4, <2>5
<1>5. ASSUME NEW r \in Readers, reader[r] # "idle", SameFile(entries[lastEntry])'
      PROVE  /\ Len(look[r].lines) <= Len(logFile') /\ WholeRows(r) <= WholeFile'
             /\ \A i \in 1..Len(look[r].lines) : look[r].lines[i] = logFile'[i]
  <2>1. lastEntry # 0
    <3>1. look[r].entry \in 1..Len(entries) BY <1>5 DEF AuthzTypes
    <3>2. look[r].entry = lastEntry BY <1>5 DEF TailOK
    <3> QED BY <3>1, <3>2
  <2>2. /\ Len(look[r].lines) <= Len(logFile) /\ WholeRows(r) <= WholeFile
        /\ \A i \in 1..Len(look[r].lines) : look[r].lines[i] = logFile[i]
    BY <1>3, <1>5, <2>1 DEF TailOK
  <2>3. Len(look[r].lines) \in Nat /\ WholeRows(r) \in Nat BY <1>5, LookIsTyped
  <2>4. \A i \in 1..Len(look[r].lines) : i \in 1..Len(logFile) BY <1>2, <2>2, <2>3
  <2>5. Len(look[r].lines) <= Len(logFile') /\ WholeRows(r) <= WholeFile' BY <1>2, <1>3, <1>5, <2>1, <2>2, <2>3
  <2> QED BY <1>3, <1>5, <2>1, <2>2, <2>4, <2>5
<1>6. \A r \in Readers : WholeRows(r)' = WholeRows(r) /\ Entry(r)' = Entry(r) BY <1>1 DEF WholeRows, Entry
<1> QED BY <1>1, <1>4, <1>5, <1>6 DEF TailOK

\* A row that is appended is the newest, and a reader sees it or not.
LEMMA AppendKeepsTail ==
  ASSUME AuthzTypes, AuthzTypes', FileOK, TailOK, NEW row \in LogRows, row.id = linesWritten + 1, AppendRow(row)
  PROVE  /\ FileOK' /\ TailOK' /\ linesWritten' = linesWritten + 1
         /\ \A x : InView(x)' => InView(x) \/ x = row
<1>1. /\ ~torn /\ linesWritten' = linesWritten + 1 /\ logFile' = Append(logFile, row)
      /\ UNCHANGED <<inode, entries, lastEntry, reader, look, chunk, result>> /\ UNCHANGED readVars
  BY DEF AppendRow, readVars
<1>2. logFile \in Seq(LogRows) /\ linesWritten \in Nat /\ torn' \in BOOLEAN
  BY LogAssumption DEF AuthzTypes, AuthzTypeOK
<1>3. PICK n \in Nat : n = Len(logFile) BY <1>2
<1>4. Len(logFile') = n + 1 /\ logFile'[n + 1] = row /\ \A i \in 1..n : logFile'[i] = logFile[i]
  BY <1>1, <1>2, <1>3
<1>5. lastEntry # 0 => n > 0 BY <1>3 DEF FileOK
<1>6. FileOK'
  <2>1. n <= linesWritten /\ \A i \in 1..n : logFile[i].id = linesWritten - n + i BY <1>3 DEF FileOK
  <2>2. \A i \in 1..(n + 1) : logFile'[i].id = linesWritten' - (n + 1) + i
    <3> SUFFICES ASSUME NEW i \in 1..(n + 1) PROVE logFile'[i].id = linesWritten' - (n + 1) + i OBVIOUS
    <3>1. CASE i = n + 1 BY <1>1, <1>2, <1>4, <3>1
    <3>2. CASE i \in 1..n
      <4>1. logFile'[i].id = linesWritten - n + i BY <1>4, <2>1, <3>2
      <4> QED BY <1>1, <1>2, <4>1
    <3> QED BY <3>1, <3>2
  <2>3. lastEntry # 0 => entries[lastEntry].first.id <= logFile'[1].id
    <3>1. n > 0 => logFile'[1] = logFile[1] BY <1>4
    <3> QED BY <1>5, <3>1 DEF FileOK
  <2>4. ASSUME NEW r \in Readers, reader[r] # "idle", NEW i \in 1..Len(look[r].lines)
        PROVE  look[r].lines[i].id = look[r].lines[1].id + i - 1 /\ look[r].lines[i].id <= linesWritten'
    <3>1. look[r].lines[i].id = look[r].lines[1].id + i - 1 /\ look[r].lines[i].id <= linesWritten
      BY <2>4 DEF FileOK
    <3>2. look[r].lines[i].id \in Nat
      <4>1. look[r].lines \in Seq(LogRows) BY <2>4, LookIsTyped
      <4>2. look[r].lines[i] \in LogRows BY <4>1
      <4> QED BY <4>2, LogAssumption DEF LogRows
    <3> QED BY <1>1, <1>2, <3>1, <3>2
  <2>5. Len(logFile') <= linesWritten' /\ Len(logFile') > 0 BY <1>1, <1>2, <1>4, <2>1
  <2>6. \A i \in 1..Len(logFile') : logFile'[i].id = linesWritten' - Len(logFile') + i BY <1>4, <2>2
  <2>7. \A r \in Readers : reader'[r] # "idle" => \A i \in 1..Len(look'[r].lines) :
          look'[r].lines[i].id = look'[r].lines[1].id + i - 1 /\ look'[r].lines[i].id <= linesWritten'
    BY <1>1, <2>4
  <2>8. lastEntry' # 0 => entries'[lastEntry'].first.id <= logFile'[1].id BY <1>1, <2>3
  <2> QED BY <2>5, <2>6, <2>7, <2>8 DEF FileOK
<1>7. TailOK'
  <2>1. ASSUME lastEntry # 0
        PROVE  /\ SameFile(entries[lastEntry])' => SameFile(entries[lastEntry])
               /\ Len(logFile) <= Len(logFile') /\ WholeFile <= WholeFile'
               /\ \A i \in 1..Len(logFile) : logFile'[i] = logFile[i]
    <3>1. Head(logFile') = Head(logFile) BY <1>2, <1>3, <1>4, <1>5, <2>1, EntriesMade, AuthzTypes'
    <3>2. SameFile(entries[lastEntry])' => SameFile(entries[lastEntry]) BY <1>1, <3>1 DEF SameFile
    <3>3. WholeFile = n /\ WholeFile' \in {n, n + 1}
      <4>1. WholeFile = n BY <1>1, <1>3 DEF WholeFile
      <4>2. WholeFile' \in {n, n + 1} BY <1>4 DEF WholeFile
      <4> QED BY <4>1, <4>2
    <3> QED BY <1>3, <1>4, <3>2, <3>3
  <2> QED BY <1>1, <2>1, TailSeesFile
<1>8. ASSUME NEW x, InView(x)' PROVE InView(x) \/ x = row
  <2>1. CASE \E i \in 1..Len(logFile') : x = logFile'[i]
    <3>1. PICK i \in 1..(n + 1) : x = logFile'[i] BY <1>4, <2>1
    <3>2. CASE i = n + 1 BY <1>4, <3>1, <3>2
    <3>3. CASE i \in 1..n BY <1>3, <1>4, <3>1, <3>3 DEF InView
    <3> QED BY <3>2, <3>3
  <2>2. CASE \E r \in Readers : reader[r] # "idle" /\ \E i \in 1..Len(look[r].lines) : x = look[r].lines[i]
    BY <2>2 DEF InView
  <2> QED BY <1>1, <1>8, <2>1, <2>2 DEF InView
<1> QED BY <1>1, <1>6, <1>7, <1>8

\* A file that is rotated is another one: its first row is a later one.
LEMMA RotateKeepsTail ==
  ASSUME AuthzTypes, AuthzTypes', FileOK, TailOK, Terminate \/ Rotate
  PROVE  /\ FileOK' /\ TailOK' /\ linesWritten' = linesWritten
         /\ \A x : InView(x)' => InView(x)
<1>1. UNCHANGED readVars /\ UNCHANGED <<entries, lastEntry, reader, look, linesWritten>>
  BY DEF Terminate, Rotate, readVars
<1>2. logFile \in Seq(LogRows) /\ linesWritten \in Nat BY LogAssumption DEF AuthzTypes, AuthzTypeOK
<1>3. PICK n \in Nat : n = Len(logFile) BY <1>2
<1>4. \A r \in Readers : reader'[r] # "idle" => \A i \in 1..Len(look'[r].lines) :
        look'[r].lines[i].id = look'[r].lines[1].id + i - 1 /\ look'[r].lines[i].id <= linesWritten'
  BY <1>1 DEF FileOK
<1>5. CASE Terminate
  <2>1. torn /\ torn' = FALSE /\ logFile' = logFile /\ inode' = inode BY <1>5 DEF Terminate
  <2>2. FileOK'
    <3>1. /\ Len(logFile') <= linesWritten' /\ (torn' => Len(logFile') > 0)
          /\ \A i \in 1..Len(logFile') : logFile'[i].id = linesWritten' - Len(logFile') + i
          /\ lastEntry' # 0 => Len(logFile') > 0 /\ entries'[lastEntry'].first.id <= logFile'[1].id
      BY <1>1, <2>1 DEF FileOK
    <3> QED BY <1>4, <3>1 DEF FileOK
  <2>3. WholeFile <= WholeFile' BY <1>3, <2>1 DEF WholeFile
  <2>4. lastEntry # 0 /\ SameFile(entries[lastEntry])' => SameFile(entries[lastEntry])
    BY <1>1, <2>1 DEF SameFile
  <2>5. TailOK' BY <1>1, <1>3, <2>1, <2>3, <2>4, TailSeesFile
  <2> QED BY <1>1, <2>1, <2>2, <2>5 DEF InView
<1>6. CASE Rotate
  <2>1. PICK c \in 1..(n - 1) : logFile' = SubSeq(logFile, c + 1, n) BY <1>3, <1>6 DEF Rotate
  <2>2. PICK d \in Nat : d = n - c /\ d > 0 BY <2>1
  <2>3. Len(logFile') = d /\ \A i \in 1..d : logFile'[i] = logFile[c + i]
    <3>1. c \in Nat /\ c <= n /\ n <= Len(logFile) BY <1>3, <2>1
    <3>2. /\ Len(SubSeq(logFile, c + 1, n)) = n - c
          /\ \A i \in 1..(n - c) : SubSeq(logFile, c + 1, n)[i] = logFile[c + i]
      BY <1>2, <3>1, PartOf
    <3> QED BY <2>1, <2>2, <3>2
  <2>4. \A i \in 1..d : c + i \in 1..n BY <2>1, <2>2
  <2>5. n <= linesWritten /\ \A i \in 1..n : logFile[i].id = linesWritten - n + i BY <1>3 DEF FileOK
  <2>6. \A i \in 1..d : logFile'[i].id = linesWritten - d + i
    <3> SUFFICES ASSUME NEW i \in 1..d PROVE logFile'[i].id = linesWritten - d + i OBVIOUS
    <3>1. logFile'[i].id = linesWritten - n + (c + i) BY <2>3, <2>4, <2>5
    <3> QED BY <1>2, <2>1, <2>2, <3>1, SMTT(60)
  <2>7. lastEntry # 0 => entries[lastEntry].first.id < logFile'[1].id
    <3> SUFFICES ASSUME lastEntry # 0 PROVE entries[lastEntry].first.id < logFile'[1].id OBVIOUS
    <3>1. entries[lastEntry].first.id <= logFile[1].id BY DEF FileOK
    <3>2. logFile[1].id = linesWritten - n + 1 /\ logFile'[1].id = linesWritten - d + 1 BY <2>1, <2>2, <2>5, <2>6
    <3>3. entries[lastEntry].first.id \in Nat
      <4>2. entries[lastEntry] \in LogEntries BY AuthzNumbers
      <4>3. entries[lastEntry].first \in LogRows BY <4>2 DEF LogEntries
      <4> QED BY <4>3, LogAssumption DEF LogRows
    <3> QED BY <1>2, <2>1, <2>2, <3>1, <3>2, <3>3
  <2>8. lastEntry # 0 => entries[lastEntry].first.id <= logFile'[1].id
    <3>1. lastEntry # 0 => entries[lastEntry].first.id \in Nat /\ logFile'[1].id \in Nat
      <4>2. lastEntry # 0 => entries[lastEntry] \in LogEntries BY AuthzNumbers
      <4>3. lastEntry # 0 => entries[lastEntry].first \in LogRows BY <4>2 DEF LogEntries
      <4>0. logFile' \in Seq(LogRows) BY Zenon DEF AuthzTypes, AuthzTypeOK
      <4>4. logFile' \in Seq(LogRows) /\ 1 \in 1..Len(logFile') BY <2>2, <2>3, <4>0
      <4>5. logFile'[1] \in LogRows BY <4>4
      <4> QED BY <4>3, <4>5, LogAssumption DEF LogRows
    <3> QED BY <2>7, <3>1
  <2>9. FileOK'
    <3>1. Len(logFile') <= linesWritten' /\ Len(logFile') > 0 BY <1>1, <1>2, <2>1, <2>2, <2>3, <2>5
    <3>2. \A i \in 1..Len(logFile') : logFile'[i].id = linesWritten' - Len(logFile') + i BY <1>1, <2>3, <2>6
    <3>3. lastEntry' # 0 => entries'[lastEntry'].first.id <= logFile'[1].id BY <1>1, <2>8
    <3> QED BY <1>4, <3>1, <3>2, <3>3 DEF FileOK
  <2>10. lastEntry # 0 => ~SameFile(entries[lastEntry])'
    <3>1. Head(logFile') = logFile'[1]
      <4>1. Len(logFile') > 0 BY <2>2, <2>3
      <4>2. logFile' \in Seq(LogRows) BY DEF AuthzTypes, AuthzTypeOK
      <4> QED BY <4>1, <4>2
    <3>2. lastEntry # 0 /\ SameFile(entries[lastEntry])' => entries[lastEntry].first = logFile'[1]
      BY <1>1, <3>1 DEF SameFile
    <3>3. lastEntry # 0 => logFile'[1].id \in Nat
      <4>0. logFile' \in Seq(LogRows) BY Zenon DEF AuthzTypes, AuthzTypeOK
      <4>1. logFile' \in Seq(LogRows) /\ 1 \in 1..Len(logFile') BY <2>2, <2>3, <4>0
      <4>2. logFile'[1] \in LogRows BY <4>1
      <4> QED BY <4>2, LogAssumption DEF LogRows
    <3> QED BY <2>7, <3>2, <3>3
  <2>11. TailOK' BY <1>1, <2>10, TailSeesFile
  <2>12. \A x : InView(x)' => InView(x)
    <3> SUFFICES ASSUME NEW x, InView(x)' PROVE InView(x) OBVIOUS
    <3>1. CASE \E i \in 1..Len(logFile') : x = logFile'[i]
      <4>1. PICK i \in 1..d : x = logFile'[i] BY <2>3, <3>1
      <4>2. x = logFile[c + i] /\ c + i \in 1..Len(logFile) BY <1>3, <2>3, <2>4, <4>1
      <4> QED BY <4>2 DEF InView
    <3>2. CASE \E r \in Readers : reader'[r] # "idle" /\ \E i \in 1..Len(look'[r].lines) : x = look'[r].lines[i]
      BY <1>1, <3>2 DEF InView
    <3> QED BY <3>1, <3>2 DEF InView
  <2> QED BY <1>1, <2>9, <2>11, <2>12
<1> QED BY <1>5, <1>6

\* A thread that looks, alone, takes an entry that speaks of what it sees.
LEMMA LookKeepsTail ==
  ASSUME NEW p, Readers = {p}, AuthzTypes, AuthzTypes', FileOK, TailOK, Look(p)
  PROVE  FileOK' /\ TailOK' /\ \A x : InView(x)' => InView(x)
<1>1. /\ reader[p] = "idle" /\ Len(logFile) > 0 /\ logFile \in Seq(LogRows) /\ entries' \in Seq(LogEntries)
      /\ lastEntry' \in 1..Len(entries')
      /\ \/ (lastEntry = 0 \/ ~SameFile(entries[lastEntry])) /\ entries'[lastEntry'] = Fresh
         \/ /\ lastEntry # 0 /\ SameFile(entries[lastEntry]) /\ lastEntry' = lastEntry
            /\ entries'[lastEntry'] = IF Len(logFile) < entries[lastEntry].pos
                                      THEN Shrunk(entries[lastEntry]) ELSE entries[lastEntry]
      /\ look' = [look EXCEPT ![p] = [entry |-> lastEntry', lines |-> logFile, torn |-> torn]]
      /\ reader' = [reader EXCEPT ![p] = "looked"] /\ UNCHANGED <<fileVars, chunk, result>>
  BY LookTakes
<1>2. PICK e \in LogEntries : e = entries'[lastEntry'] BY <1>1
<1>3. UNCHANGED <<logFile, torn, inode, linesWritten>> BY <1>1 DEF fileVars
<1>4. WholeFile \in Nat /\ WholeFile <= Len(logFile) /\ EntryOK(Fresh, logFile, WholeFile) BY <1>1, FreshEntry
<1>5. EntryOK(e, logFile, WholeFile) /\ e.first.id <= logFile[1].id
  <2>1. CASE e = Fresh
    <3>1. e.first = logFile[1] /\ logFile[1] \in LogRows BY <1>1, <2>1, EntriesMade
    <3>2. logFile[1].id <= logFile[1].id BY <3>1, LogAssumption DEF LogRows
    <3> QED BY <1>4, <2>1, <3>1, <3>2
  <2>2. CASE lastEntry # 0 /\ SameFile(entries[lastEntry]) /\ lastEntry' = lastEntry
             /\ e = IF Len(logFile) < entries[lastEntry].pos THEN Shrunk(entries[lastEntry]) ELSE entries[lastEntry]
    <3>1. EntryOK(entries[lastEntry], logFile, WholeFile) BY <2>2 DEF TailOK
    <3>2. entries[lastEntry].pos <= WholeFile BY <3>1 DEF EntryOK
    <3>3. entries[lastEntry].pos \in Nat
      <4>2. entries[lastEntry] \in LogEntries BY <2>2, AuthzNumbers
      <4> QED BY <4>2 DEF LogEntries
    <3>4. ~(Len(logFile) < entries[lastEntry].pos) BY <1>1, <1>4, <3>2, <3>3
    <3>5. e = entries[lastEntry] BY <2>2, <3>4
    <3> QED BY <2>2, <3>1, <3>5 DEF FileOK
  <2> QED BY <1>1, <1>2, <2>1, <2>2
<1>6. reader'[p] = "looked" /\ look'[p] = [entry |-> lastEntry', lines |-> logFile, torn |-> torn]
  BY <1>1 DEF AuthzTypes
<1>7. look'[p].entry = lastEntry' /\ look'[p].lines = logFile /\ WholeRows(p)' = WholeFile
  BY <1>6 DEF WholeRows, WholeFile
<1>8. WholeFile' = WholeFile BY <1>3 DEF WholeFile
<1>9. TailOK'
  <2>1. EntryOK(entries'[lastEntry'], logFile', WholeFile') BY <1>2, <1>3, <1>5, <1>8
  <2>2. EntryOK(entries'[lastEntry'], look'[p].lines, WholeRows(p)') BY <1>2, <1>5, <1>7
  <2>3. /\ Len(look'[p].lines) <= Len(logFile') /\ WholeRows(p)' <= WholeFile'
        /\ \A i \in 1..Len(look'[p].lines) : look'[p].lines[i] = logFile'[i]
    BY <1>1, <1>3, <1>4, <1>7, <1>8
  <2> QED BY <1>6, <1>7, <2>1, <2>2, <2>3 DEF TailOK
<1>10. FileOK'
  <2>1. Len(logFile) <= linesWritten /\ \A i \in 1..Len(logFile) : logFile[i].id = linesWritten - Len(logFile) + i
    BY DEF FileOK
  <2>2. lastEntry' # 0 => entries'[lastEntry'].first.id <= logFile'[1].id BY <1>2, <1>3, <1>5
  <2>3. \A r \in Readers : reader'[r] # "idle" => \A i \in 1..Len(look'[r].lines) :
          look'[r].lines[i].id = look'[r].lines[1].id + i - 1 /\ look'[r].lines[i].id <= linesWritten'
    <3> SUFFICES ASSUME NEW i \in 1..Len(logFile)
                 PROVE  logFile[i].id = logFile[1].id + i - 1 /\ logFile[i].id <= linesWritten
      BY <1>3, <1>7
    <3>1. Len(logFile) \in Nat /\ linesWritten \in Nat BY <1>1, LogAssumption DEF AuthzTypes, AuthzTypeOK
    <3>2. logFile[i].id = linesWritten - Len(logFile) + i /\ logFile[1].id = linesWritten - Len(logFile) + 1
      BY <1>1, <2>1, <3>1
    <3> QED BY <2>1, <3>1, <3>2
  <2>4. /\ Len(logFile') <= linesWritten' /\ Len(logFile') > 0
        /\ \A i \in 1..Len(logFile') : logFile'[i].id = linesWritten' - Len(logFile') + i
    BY <1>1, <1>3, <2>1
  <2> QED BY <2>2, <2>3, <2>4 DEF FileOK
<1>11. \A x : InView(x)' => InView(x) BY <1>3, <1>7 DEF InView
<1> QED BY <1>9, <1>10, <1>11

\* What is in view stays while the file, the looks and the places stay.
LEMMA FileStays ==
  ASSUME FileOK, UNCHANGED <<logFile, torn, linesWritten, lastEntry, look>>,
         \A r \in Readers : reader'[r] # "idle" => reader[r] # "idle",
         lastEntry # 0 => entries'[lastEntry].first = entries[lastEntry].first
  PROVE  FileOK' /\ \A x : InView(x)' => InView(x)
<1>1. /\ Len(logFile') <= linesWritten' /\ (torn' => Len(logFile') > 0)
      /\ \A i \in 1..Len(logFile') : logFile'[i].id = linesWritten' - Len(logFile') + i
      /\ lastEntry' # 0 => Len(logFile') > 0 /\ entries'[lastEntry'].first.id <= logFile'[1].id
  BY DEF FileOK
<1>2. \A r \in Readers : reader'[r] # "idle" => \A i \in 1..Len(look'[r].lines) :
        look'[r].lines[i].id = look'[r].lines[1].id + i - 1 /\ look'[r].lines[i].id <= linesWritten'
  BY DEF FileOK
<1> QED BY <1>1, <1>2 DEF FileOK, InView

\* A thread that reads, alone, reads on from where its entry stands.
LEMMA ReadKeepsTail ==
  ASSUME NEW p, Readers = {p}, AuthzTypes, AuthzTypes', FileOK, TailOK, Read(p)
  PROVE  FileOK' /\ TailOK' /\ \A x : InView(x)' => InView(x)
<1>1. /\ reader[p] = "looked" /\ chunk'[p] = SubSeq(look[p].lines, Entry(p).pos + 1, WholeRows(p))
      /\ reader' = [reader EXCEPT ![p] = "read"] /\ UNCHANGED <<fileVars, entries, lastEntry, look, result>>
  BY ReadTakes
<1>2. reader'[p] = "read" /\ UNCHANGED <<logFile, torn, inode, linesWritten>> BY <1>1 DEF AuthzTypes, fileVars
<1>3. FileOK' /\ \A x : InView(x)' => InView(x) BY <1>1, <1>2, FileStays
<1>4. /\ WholeRows(p)' = WholeRows(p) /\ Entry(p)' = Entry(p) /\ WholeFile' = WholeFile
      /\ lastEntry # 0 => (SameFile(entries[lastEntry])' <=> SameFile(entries[lastEntry]))
  BY <1>1, <1>2 DEF WholeRows, Entry, WholeFile, SameFile
<1>5. lastEntry # 0
  <2>1. look[p].entry \in 1..Len(entries) BY <1>1, LookIsTyped
  <2>2. look[p].entry = lastEntry BY <1>1 DEF TailOK
  <2> QED BY <2>1, <2>2
<1>6. /\ SameFile(entries[lastEntry]) => EntryOK(entries[lastEntry], logFile, WholeFile)
      /\ look[p].entry = lastEntry /\ EntryOK(entries[lastEntry], look[p].lines, WholeRows(p))
      /\ SameFile(entries[lastEntry]) =>
           /\ Len(look[p].lines) <= Len(logFile) /\ WholeRows(p) <= WholeFile
           /\ \A i \in 1..Len(look[p].lines) : look[p].lines[i] = logFile[i]
  BY <1>1, <1>5 DEF TailOK
<1>7. TailOK' BY <1>1, <1>2, <1>4, <1>5, <1>6 DEF TailOK
<1> QED BY <1>3, <1>7

\* A thread that returns, alone, has moved its entry to the end of what it saw.
LEMMA ReturnKeepsTail ==
  ASSUME NEW p, Readers = {p}, AuthzTypes, AuthzTypes', FileOK, TailOK, Return(p)
  PROVE  FileOK' /\ TailOK' /\ \A x : InView(x)' => InView(x)
<1>1. /\ reader[p] = "read" /\ chunk[p] \in Seq(LogRows) /\ entries' \in Seq(LogEntries) /\ Len(entries') = Len(entries)
      /\ entries'[look[p].entry].pos = Entry(p).pos + Len(chunk[p])
      /\ entries'[look[p].entry].rows = Kept(Entry(p).rows \o chunk[p])
      /\ entries'[look[p].entry].inode = Entry(p).inode /\ entries'[look[p].entry].first = Entry(p).first
      /\ result'[p] = Kept(Entry(p).rows \o chunk[p])
      /\ reader' = [reader EXCEPT ![p] = "returned"] /\ UNCHANGED <<fileVars, lastEntry, look>>
  BY ReturnMoves
<1>2. reader'[p] = "returned" /\ UNCHANGED <<logFile, torn, inode, linesWritten>> BY <1>1 DEF AuthzTypes, fileVars
<1>3. /\ look[p].entry = lastEntry /\ EntryOK(entries[lastEntry], look[p].lines, WholeRows(p))
      /\ chunk[p] = SubSeq(look[p].lines, Entry(p).pos + 1, WholeRows(p))
      /\ SameFile(entries[lastEntry]) =>
           /\ Len(look[p].lines) <= Len(logFile) /\ WholeRows(p) <= WholeFile
           /\ \A i \in 1..Len(look[p].lines) : look[p].lines[i] = logFile[i]
  BY <1>1 DEF TailOK
<1>4. /\ look[p].lines \in Seq(LogRows) /\ WholeRows(p) \in Nat /\ WholeRows(p) <= Len(look[p].lines)
      /\ look[p].entry \in 1..Len(entries) /\ Len(look[p].lines) \in Nat
  BY <1>1, LookIsTyped
<1>5. PICK e \in LogEntries : e = Entry(p) /\ e = entries[lastEntry] BY <1>1, <1>3, LookIsTyped DEF Entry
<1>6. PICK f \in LogEntries : f = entries'[lastEntry] BY <1>1, <1>3, <1>4
<1>7. /\ f.pos = e.pos + Len(chunk[p]) /\ f.rows = Kept(e.rows \o chunk[p]) /\ f.inode = e.inode /\ f.first = e.first
  BY <1>1, <1>3, <1>5, <1>6
<1>8. PICK s \in Seq(LogRows), m \in Nat : s = look[p].lines /\ m = WholeRows(p) /\ m <= Len(s) BY <1>4
<1>9. EntryOK(e, s, m) /\ chunk[p] = SubSeq(s, e.pos + 1, m) BY <1>3, <1>5, <1>8
<1>10. f.pos = m /\ EntryOK(f, s, m)
  <2>1. PICK c \in Seq(LogRows) : c = chunk[p] BY <1>1
  <2>2. c = SubSeq(s, e.pos + 1, m) /\ f.pos = e.pos + Len(c) /\ f.rows = Kept(e.rows \o c) BY <1>7, <1>9, <2>1
  <2> QED BY <1>8, <1>9, <2>2, EntryMoves, ZenonT(60)
<1>11. lastEntry # 0 BY <1>3, <1>4
<1>12. FileOK' /\ \A x : InView(x)' => InView(x)
  <2>1. entries'[lastEntry].first = entries[lastEntry].first BY <1>5, <1>6, <1>7
  <2>2. \A r \in Readers : reader'[r] # "idle" => reader[r] # "idle" BY <1>1
  <2> QED BY <1>1, <1>2, <2>1, <2>2, FileStays
<1>13. SameFile(f)' <=> SameFile(e) BY <1>2, <1>7 DEF SameFile
<1>14. SameFile(e) => EntryOK(f, logFile, WholeFile) /\ WholeFile' = WholeFile
  <2> SUFFICES ASSUME SameFile(e) PROVE EntryOK(f, logFile, WholeFile) /\ WholeFile' = WholeFile OBVIOUS
  <2>1. Len(s) <= Len(logFile) /\ m <= WholeFile /\ \A i \in 1..Len(s) : s[i] = logFile[i] BY <1>3, <1>5, <1>8
  <2>2. logFile \in Seq(LogRows) BY DEF AuthzTypes, AuthzTypeOK
  <2>3. WholeFile \in Nat
    <3>1. Len(logFile) > 0 BY <1>11 DEF FileOK
    <3> QED BY <3>1, FreshEntry
  <2>4. \A i \in 1..m : logFile[i] = s[i] BY <1>8, <2>1
  <2>5. EntryOK(f, logFile, WholeFile) BY <1>10, <2>1, <2>2, <2>3, <2>4, EntryGrows
  <2> QED BY <1>2, <2>5 DEF WholeFile
<1>15. /\ WholeRows(p)' = m /\ Entry(p)' = f /\ look'[p].entry = lastEntry' /\ look'[p].lines = s
       /\ entries'[lastEntry'] = f /\ result'[p] = f.rows
  BY <1>1, <1>3, <1>5, <1>6, <1>7, <1>8 DEF WholeRows, Entry
<1>16. TailOK'
  <2>1. SameFile(f)' => /\ EntryOK(f, logFile', WholeFile')
                        /\ Len(s) <= Len(logFile') /\ m <= WholeFile' /\ \A i \in 1..Len(s) : s[i] = logFile'[i]
    BY <1>2, <1>3, <1>5, <1>8, <1>13, <1>14
  <2> QED BY <1>2, <1>10, <1>15, <2>1 DEF TailOK
<1> QED BY <1>12, <1>16

\* A thread that only decides or leaves does not touch the file nor its entry.
LEMMA LeaveKeepsTail ==
  ASSUME NEW p, Readers = {p}, AuthzTypes, AuthzTypes', FileOK, TailOK, UNCHANGED <<fileVars, entries, lastEntry, chunk>>,
         reader[p] = "returned", reader'[p] = "idle" \/ UNCHANGED <<reader, look, result>>
  PROVE  FileOK' /\ TailOK' /\ \A x : InView(x)' => InView(x)
<1>1. UNCHANGED <<logFile, torn, inode, linesWritten>> BY DEF fileVars
<1>2. /\ WholeFile' = WholeFile
      /\ lastEntry # 0 => (SameFile(entries[lastEntry])' <=> SameFile(entries[lastEntry]))
  BY <1>1 DEF WholeFile, SameFile
<1>3. CASE reader'[p] = "idle"
  <2>1. /\ Len(logFile') <= linesWritten' /\ (torn' => Len(logFile') > 0)
        /\ \A i \in 1..Len(logFile') : logFile'[i].id = linesWritten' - Len(logFile') + i
        /\ lastEntry' # 0 => Len(logFile') > 0 /\ entries'[lastEntry'].first.id <= logFile'[1].id
    BY <1>1 DEF FileOK
  <2>2. FileOK' BY <1>3, <2>1 DEF FileOK
  <2>3. lastEntry # 0 /\ SameFile(entries[lastEntry]) => EntryOK(entries[lastEntry], logFile, WholeFile) BY DEF TailOK
  <2>4. TailOK' BY <1>1, <1>2, <1>3, <2>3 DEF TailOK
  <2> QED BY <1>1, <1>3, <2>2, <2>4 DEF InView
<1>4. CASE UNCHANGED <<reader, look, result>>
  <2>1. FileOK' /\ \A x : InView(x)' => InView(x) BY <1>1, <1>4, FileStays
  <2>2. UNCHANGED readVars BY <1>4 DEF readVars
  <2>3. lastEntry # 0 => \/ ~SameFile(entries[lastEntry])'
                         \/ /\ SameFile(entries[lastEntry]) /\ Len(logFile) <= Len(logFile') /\ WholeFile <= WholeFile'
                            /\ \A i \in 1..Len(logFile) : logFile'[i] = logFile[i]
    <3>1. Len(logFile) \in Nat BY DEF AuthzTypes, AuthzTypeOK
    <3>2. lastEntry # 0 => WholeFile \in Nat BY FreshEntry DEF FileOK
    <3> QED BY <1>1, <1>2, <3>1, <3>2
  <2> QED BY <2>1, <2>2, <2>3, TailSeesFile
<1> QED BY <1>3, <1>4

-----------------------------------------------------------------------------
(* One block, one command *)

\* A choice stands as long as what the thread saw does.
LEMMA ChoiceStays ==
  ASSUME ChosenOK, \A r \in Readers : chosen'[r] # {} => chosen'[r] = chosen[r] /\ look'[r] = look[r]
  PROVE  ChosenOK'
<1> SUFFICES ASSUME NEW r \in Readers, NEW row \in chosen'[r]
             PROVE  \E k \in 1..WholeRows(r)' :
                      /\ look'[r].lines[k] = row
                      /\ \A j \in (k + 1)..WholeRows(r)' :
                           ~(look'[r].lines[j].outcome = "authorized" /\ look'[r].lines[j].gate = row.gate)
  BY DEF ChosenOK
<1>1. row \in chosen[r] /\ look'[r] = look[r] OBVIOUS
<1>2. WholeRows(r)' = WholeRows(r) BY <1>1 DEF WholeRows
<1> QED BY <1>1, <1>2 DEF ChosenOK

\* The block that is decided on is in the log without a later row that says its gate was used:
\* the rows of a lone thread go to the end of what it saw.
LEMMA ChoiceIsLast ==
  ASSUME NEW p, Readers = {p}, AuthzTypes, TailOK, Decide(p)
  PROVE  ChosenOK'
<1>1. /\ reader[p] = "returned" /\ chosen' = [chosen EXCEPT ![p] = Grantable(result[p], asked[p])]
      /\ UNCHANGED look
  BY DEF Decide, readVars
<1>2. WholeRows(p)' = WholeRows(p) /\ chosen'[p] = Grantable(result[p], asked[p])
  BY <1>1 DEF WholeRows, AuthzTypes
<1>3. /\ result[p] = Entry(p).rows /\ Entry(p).pos = WholeRows(p) /\ Entry(p) = entries[lastEntry]
      /\ EntryOK(entries[lastEntry], look[p].lines, WholeRows(p))
  BY <1>1 DEF TailOK, Entry
<1>4. PICK w \in Nat : w = WholeRows(p) BY <1>1, LookIsTyped
<1>5. PICK s \in Seq(LogRows) : s = result[p] BY DEF AuthzTypes
<1>6. PICK n \in Nat : n = Len(s) OBVIOUS
<1>7. n <= w /\ \A i \in 1..n : s[i] = look[p].lines[w - n + i] BY <1>3, <1>4, <1>5, <1>6 DEF EntryOK
<1>8. PICK d \in Nat : d = w - n BY <1>7
<1> SUFFICES ASSUME NEW row \in Grantable(s, asked[p])
             PROVE  \E k \in 1..w :
                      /\ look[p].lines[k] = row
                      /\ \A j \in (k + 1)..w :
                           ~(look[p].lines[j].outcome = "authorized" /\ look[p].lines[j].gate = row.gate)
  BY <1>1, <1>2, <1>4, <1>5 DEF ChosenOK
<1>9. PICK i \in 1..n : row = s[i] /\ Pending(s, i) BY <1>6, GrantableIsOne
<1>10. d + i \in 1..w /\ look[p].lines[d + i] = row BY <1>7, <1>8, <1>9
<1>11. ASSUME NEW j \in (d + i + 1)..w
       PROVE  ~(look[p].lines[j].outcome = "authorized" /\ look[p].lines[j].gate = row.gate)
  <2>1. j - d \in (i + 1)..n /\ w - n + (j - d) = j BY <1>8
  <2>2. j - d \in 1..n BY <2>1
  <2>3. s[j - d] = look[p].lines[j] BY <1>7, <2>1, <2>2
  <2>4. ~(s[j - d].outcome = "authorized" /\ s[j - d].gate = s[i].gate) BY <1>6, <1>9, <2>1 DEF Pending
  <2> QED BY <1>9, <2>3, <2>4
<1> QED BY <1>10, <1>11

\* What was paid for stays so while no gate is used and nothing new comes in view.
LEMMA PaidStays ==
  ASSUME PaidOK, UNCHANGED <<uses, grant, askings, late, lastUse, linesWritten>>, \A x : InView(x)' => InView(x)
  PROVE  PaidOK'
BY DEF PaidOK

\* What is counted, and the number of a line.
LEMMA CountsAreTyped ==
  ASSUME AuthzTypes
  PROVE  /\ linesWritten \in Nat /\ askings \in [Gates -> Nat] /\ uses \in [Gates -> Nat] /\ late \in [Gates -> Nat]
         /\ lastUse \in [Gates -> Nat] /\ grant \in [Gates -> SUBSET Grants] /\ \A x \in LogRows : x.id \in Nat
<1>1. linesWritten \in Nat BY LogAssumption DEF AuthzTypes, AuthzTypeOK
<1>2. \A x \in LogRows : x.id \in Nat BY LogAssumption DEF LogRows
<1>3. /\ askings \in [Gates -> Nat] /\ uses \in [Gates -> Nat] /\ late \in [Gates -> Nat]
      /\ lastUse \in [Gates -> Nat] /\ grant \in [Gates -> SUBSET Grants]
  BY DEF AuthzTypes
<1> QED BY <1>1, <1>2, <1>3

\* A row in view is of a line that was written.
LEMMA ViewIsOld ==
  ASSUME AuthzTypes, FileOK, NEW x, InView(x)
  PROVE  x \in LogRows /\ x.id \in Nat /\ x.id <= linesWritten
<1>1. linesWritten \in Nat /\ logFile \in Seq(LogRows) /\ Len(logFile) \in Nat
  BY LogAssumption DEF AuthzTypes, AuthzTypeOK
<1>2. \A y \in LogRows : y.id \in Nat BY LogAssumption DEF LogRows
<1>3. CASE \E i \in 1..Len(logFile) : x = logFile[i]
  <2>1. PICK i \in 1..Len(logFile) : x = logFile[i] BY <1>3
  <2>2. x \in LogRows BY <1>1, <2>1
  <2>3. x.id = linesWritten - Len(logFile) + i BY <2>1 DEF FileOK
  <2> QED BY <1>1, <1>2, <2>2, <2>3
<1>4. CASE \E r \in Readers : reader[r] # "idle" /\ \E i \in 1..Len(look[r].lines) : x = look[r].lines[i]
  <2>1. PICK r \in Readers : reader[r] # "idle" /\ \E i \in 1..Len(look[r].lines) : x = look[r].lines[i] BY <1>4
  <2>2. PICK i \in 1..Len(look[r].lines) : x = look[r].lines[i] BY <2>1
  <2>3. look[r].lines \in Seq(LogRows) BY <2>1, LookIsTyped
  <2>4. x \in LogRows BY <2>2, <2>3
  <2>5. x.id <= linesWritten BY <2>1, <2>2 DEF FileOK
  <2> QED BY <1>2, <2>4, <2>5
<1> QED BY <1>3, <1>4 DEF InView

\* A block pays for one command more than were let through.
LEMMA BlockPays ==
  ASSUME AuthzTypes, AuthzTypes', FileOK, TailOK, PaidOK, NEW g \in Gates, NEW v2 \in BOOLEAN, Block(g, v2)
  PROVE  FileOK' /\ TailOK' /\ PaidOK'
<1>1. /\ AppendRow(Row(g, v2, "blocked")) /\ linesWritten < MaxLines
      /\ askings' = [askings EXCEPT ![g] = @ + (IF v2 THEN 1 ELSE 0)]
      /\ UNCHANGED <<grant, uses, lastUse, late>>
  BY DEF Block, AppendRow, authzVars
<1>2. PICK row \in LogRows : /\ row = Row(g, v2, "blocked") /\ row.id = linesWritten + 1 /\ row.gate = g
                             /\ row.v2 = v2 /\ row.outcome = "blocked"
  BY <1>1, RowIsTyped
<1>3. /\ FileOK' /\ TailOK' /\ linesWritten' = linesWritten + 1 /\ \A x : InView(x)' => InView(x) \/ x = row
  BY <1>1, <1>2, AppendKeepsTail
<1>4. /\ linesWritten \in Nat /\ askings \in [Gates -> Nat] /\ uses \in [Gates -> Nat] /\ late \in [Gates -> Nat]
      /\ lastUse \in [Gates -> Nat]
  BY CountsAreTyped
<1>5. PICK d \in Nat : d = (IF v2 THEN 1 ELSE 0) /\ askings' = [askings EXCEPT ![g] = @ + d]
  BY <1>1
<1>6. askings'[g] = askings[g] + d /\ \A h \in Gates : h # g => askings'[h] = askings[h] BY <1>4, <1>5
<1>7. \A h \in Gates : askings'[h] \in Nat /\ askings'[h] >= askings[h]
  <2> SUFFICES ASSUME NEW h \in Gates PROVE askings'[h] \in Nat /\ askings'[h] >= askings[h] OBVIOUS
  <2>1. askings[h] \in Nat BY <1>4
  <2> QED BY <1>6, <2>1
<1> SUFFICES ASSUME NEW h \in Gates
             PROVE  /\ uses[h] + (IF grant[h] = {} THEN 0 ELSE 1) <= askings'[h] + late[h]
                    /\ lastUse[h] <= linesWritten'
                    /\ \A x \in LogRows : InView(x)' =>
                         /\ x.id = lastUse[h] => x.outcome = "authorized" /\ x.gate = h
                         /\ grant[h] = {} /\ x.gate = h /\ x.v2 /\ x.outcome = "blocked" /\ x.id > lastUse[h] =>
                              uses[h] < askings'[h] + late[h]
  BY <1>1, <1>3 DEF PaidOK
<1>8. /\ uses[h] + (IF grant[h] = {} THEN 0 ELSE 1) <= askings[h] + late[h] /\ lastUse[h] <= linesWritten
      /\ uses[h] \in Nat /\ askings[h] \in Nat /\ late[h] \in Nat /\ lastUse[h] \in Nat
      /\ askings'[h] \in Nat /\ askings'[h] >= askings[h]
  BY <1>4, <1>7 DEF PaidOK
<1>9. uses[h] + (IF grant[h] = {} THEN 0 ELSE 1) <= askings'[h] + late[h] BY <1>8
<1>10. ASSUME NEW x \in LogRows, InView(x)'
       PROVE  /\ x.id = lastUse[h] => x.outcome = "authorized" /\ x.gate = h
              /\ grant[h] = {} /\ x.gate = h /\ x.v2 /\ x.outcome = "blocked" /\ x.id > lastUse[h] =>
                   uses[h] < askings'[h] + late[h]
  <2>1. CASE InView(x)
    <3>1. /\ x.id = lastUse[h] => x.outcome = "authorized" /\ x.gate = h
          /\ grant[h] = {} /\ x.gate = h /\ x.v2 /\ x.outcome = "blocked" /\ x.id > lastUse[h] =>
               uses[h] < askings[h] + late[h]
      BY <2>1 DEF PaidOK
    <3> QED BY <1>8, <3>1
  <2>2. CASE x = row
    <3>1. x.id # lastUse[h] BY <1>2, <1>4, <1>8, <2>2
    <3>2. x.gate = h /\ x.v2 => askings'[h] = askings[h] + 1 BY <1>2, <1>5, <1>6, <2>2
    <3>3. grant[h] = {} => uses[h] <= askings[h] + late[h] BY <1>8
    <3>4. grant[h] = {} /\ x.gate = h /\ x.v2 => uses[h] < askings'[h] + late[h] BY <1>8, <3>2, <3>3
    <3> QED BY <3>1, <3>4
  <2> QED BY <1>3, <1>10, <2>1, <2>2
<1>11. lastUse[h] <= linesWritten' BY <1>3, <1>4, <1>8
<1> QED BY <1>9, <1>10, <1>11

\* A command that takes the grant is the one that was paid for.
LEMMA HonourPays ==
  ASSUME AuthzTypes, AuthzTypes', FileOK, TailOK, PaidOK, NEW g \in Gates, Honour(g)
  PROVE  FileOK' /\ TailOK' /\ PaidOK'
<1>1. /\ AppendRow(Row(g, TRUE, "authorized")) /\ linesWritten < MaxLines /\ grant[g] # {}
      /\ grant' = [grant EXCEPT ![g] = {}] /\ uses' = [uses EXCEPT ![g] = @ + 1]
      /\ lastUse' = [lastUse EXCEPT ![g] = linesWritten + 1] /\ UNCHANGED <<askings, late>>
  BY DEF Honour, AppendRow
<1>2. PICK row \in LogRows : /\ row = Row(g, TRUE, "authorized") /\ row.id = linesWritten + 1 /\ row.gate = g
                             /\ row.outcome = "authorized"
  <2>1. TRUE \in BOOLEAN /\ "authorized" \in {"blocked", "authorized"} OBVIOUS
  <2>2. /\ Row(g, TRUE, "authorized") \in LogRows /\ Row(g, TRUE, "authorized").id = linesWritten + 1
        /\ Row(g, TRUE, "authorized").gate = g /\ Row(g, TRUE, "authorized").outcome = "authorized"
    BY <1>1, <2>1, RowIsTyped, ZenonT(60)
  <2> QED BY <2>2, Zenon
<1>3. /\ FileOK' /\ TailOK' /\ linesWritten' = linesWritten + 1 /\ \A x : InView(x)' => InView(x) \/ x = row
  BY <1>1, <1>2, AppendKeepsTail
<1>4. /\ linesWritten \in Nat /\ askings \in [Gates -> Nat] /\ uses \in [Gates -> Nat] /\ late \in [Gates -> Nat]
      /\ lastUse \in [Gates -> Nat] /\ grant \in [Gates -> SUBSET Grants] /\ \A x \in LogRows : x.id \in Nat
  BY CountsAreTyped
<1>5. /\ grant'[g] = {} /\ uses'[g] = uses[g] + 1 /\ lastUse'[g] = linesWritten + 1
      /\ \A h \in Gates : h # g => grant'[h] = grant[h] /\ uses'[h] = uses[h] /\ lastUse'[h] = lastUse[h]
  BY <1>1, <1>4
<1> SUFFICES ASSUME NEW h \in Gates
             PROVE  /\ uses'[h] + (IF grant'[h] = {} THEN 0 ELSE 1) <= askings[h] + late[h]
                    /\ lastUse'[h] <= linesWritten'
                    /\ \A x \in LogRows : InView(x)' =>
                         /\ x.id = lastUse'[h] => x.outcome = "authorized" /\ x.gate = h
                         /\ grant'[h] = {} /\ x.gate = h /\ x.v2 /\ x.outcome = "blocked" /\ x.id > lastUse'[h] =>
                              uses'[h] < askings[h] + late[h]
  BY <1>1, <1>3 DEF PaidOK
<1>6. /\ uses[h] + (IF grant[h] = {} THEN 0 ELSE 1) <= askings[h] + late[h] /\ lastUse[h] <= linesWritten
      /\ uses[h] \in Nat /\ askings[h] \in Nat /\ late[h] \in Nat /\ lastUse[h] \in Nat
  BY <1>4 DEF PaidOK
<1>7. ASSUME NEW x \in LogRows, InView(x)' PROVE x = row \/ (InView(x) /\ x.id \in Nat /\ x.id <= linesWritten)
  BY <1>3, <1>7, ViewIsOld
<1>8. CASE h = g
  <2>1. uses'[h] + (IF grant'[h] = {} THEN 0 ELSE 1) <= askings[h] + late[h] BY <1>1, <1>5, <1>6, <1>8
  <2>2. ASSUME NEW x \in LogRows, InView(x)'
        PROVE  /\ x.id = lastUse'[h] => x.outcome = "authorized" /\ x.gate = h
               /\ ~(x.id > lastUse'[h])
    <3>1. CASE x = row
      <4>1. x.id = linesWritten + 1 /\ x.outcome = "authorized" /\ x.gate = h BY <1>2, <1>8, <3>1
      <4>2. lastUse'[h] = linesWritten + 1 BY <1>5, <1>8
      <4> QED BY <1>4, <4>1, <4>2
    <3>2. CASE x.id \in Nat /\ x.id <= linesWritten BY <1>4, <1>5, <1>8, <3>2
    <3> QED BY <1>7, <2>2, <3>1, <3>2
  <2>3. lastUse'[h] <= linesWritten' BY <1>3, <1>4, <1>5, <1>8
  <2> QED BY <2>1, <2>2, <2>3
<1>9. CASE h # g
  <2>1. grant'[h] = grant[h] /\ uses'[h] = uses[h] /\ lastUse'[h] = lastUse[h] BY <1>5, <1>9
  <2>2. ASSUME NEW x \in LogRows, InView(x)'
        PROVE  /\ x.id = lastUse[h] => x.outcome = "authorized" /\ x.gate = h
               /\ grant[h] = {} /\ x.gate = h /\ x.v2 /\ x.outcome = "blocked" /\ x.id > lastUse[h] =>
                    uses[h] < askings[h] + late[h]
    <3>1. CASE x = row
      <4>1. x.gate # h BY <1>2, <1>9, <3>1
      <4>2. x.id # lastUse[h]
        <5>1. x.id = linesWritten + 1 BY <1>2, <3>1
        <5> QED BY <1>4, <1>6, <5>1
      <4> QED BY <4>1, <4>2
    <3>2. CASE InView(x) BY <3>2 DEF PaidOK
    <3> QED BY <1>7, <2>2, <3>1, <3>2
  <2>3. lastUse[h] <= linesWritten' BY <1>3, <1>4, <1>6
  <2> QED BY <1>6, <2>1, <2>2, <2>3
<1> QED BY <1>8, <1>9

\* A grant that is written, and was not overtaken, answers a block that was not answered yet.
LEMMA WritePays ==
  ASSUME NEW p, Readers = {p}, AuthzTypes, AuthzTypes', FreshOK, FileOK, ChosenOK, PaidOK, WriteGrant(p),
         \A x : InView(x)' => InView(x)
  PROVE  PaidOK'
<1>0. PICK row \in chosen[p] :
        /\ grant' = [grant EXCEPT ![row.gate] = {[row |-> row, mtime |-> authzTime]}]
        /\ late' = [late EXCEPT ![row.gate] = @ + (IF Overtaken(p, row.gate) /\ grant[row.gate] = {} THEN 1 ELSE 0)]
        /\ Done(p) /\ UNCHANGED <<askings, uses, lastUse>>
  BY DEF WriteGrant
<1>1. row \in LogRows /\ row.v2 /\ row.outcome = "blocked" /\ reader[p] = "returned"
  BY DEF AuthzTypes, FreshOK
<1>2. PICK g \in Gates : g = row.gate BY <1>1 DEF LogRows
<1>3. /\ linesWritten \in Nat /\ askings \in [Gates -> Nat] /\ uses \in [Gates -> Nat] /\ late \in [Gates -> Nat]
      /\ lastUse \in [Gates -> Nat] /\ grant \in [Gates -> SUBSET Grants] /\ \A x \in LogRows : x.id \in Nat
  BY CountsAreTyped
<1>4. PICK d \in Nat : d = IF Overtaken(p, g) /\ grant[g] = {} THEN 1 ELSE 0 OBVIOUS
<1>5. late' = [late EXCEPT ![g] = @ + d] BY <1>0, <1>2, <1>4
<1>6. /\ late'[g] = late[g] + d /\ grant'[g] # {}
      /\ \A h \in Gates : h # g => grant'[h] = grant[h] /\ late'[h] = late[h]
  BY <1>0, <1>2, <1>3, <1>5
<1>7. linesWritten' = linesWritten BY <1>0, LeaveForgets DEF fileVars
<1>8. uses[g] + 1 <= askings[g] + late'[g]
  <2>1. /\ uses[g] + (IF grant[g] = {} THEN 0 ELSE 1) <= askings[g] + late[g]
        /\ uses[g] \in Nat /\ askings[g] \in Nat /\ late[g] \in Nat /\ lastUse[g] \in Nat
    BY <1>3 DEF PaidOK
  <2>2. CASE grant[g] # {} BY <1>6, <2>1, <2>2
  <2>3. CASE grant[g] = {} /\ Overtaken(p, g) BY <1>4, <1>6, <2>1, <2>3
  <2>4. CASE grant[g] = {} /\ ~Overtaken(p, g)
    <3>1. PICK k \in 1..WholeRows(p) :
            /\ look[p].lines[k] = row
            /\ \A j \in (k + 1)..WholeRows(p) :
                 ~(look[p].lines[j].outcome = "authorized" /\ look[p].lines[j].gate = row.gate)
      BY DEF ChosenOK
    <3>2. /\ look[p].lines \in Seq(LogRows) /\ WholeRows(p) \in Nat /\ WholeRows(p) <= Len(look[p].lines)
          /\ Len(look[p].lines) \in Nat
      BY <1>1, LookIsTyped
    <3>3. PICK w \in Nat, s \in Seq(LogRows) : w = WholeRows(p) /\ s = look[p].lines /\ w <= Len(s) BY <3>2
    <3>4. \A i \in 1..w : i \in 1..Len(s) /\ s[i] \in LogRows /\ InView(s[i])
      <4> SUFFICES ASSUME NEW i \in 1..w PROVE i \in 1..Len(s) /\ s[i] \in LogRows /\ InView(s[i]) OBVIOUS
      <4>1. i \in 1..Len(s) BY <3>3
      <4> QED BY <1>1, <3>3, <4>1 DEF InView
    <3>5. PICK a \in Int : \A i \in 1..w : s[i].id = a + i
      <4>1. \A i \in 1..w : s[i].id = s[1].id + i - 1 BY <1>1, <3>3, <3>4 DEF FileOK
      <4>2. 1 \in 1..w BY <3>1, <3>3
      <4>3. PICK n \in Nat : n = s[1].id BY <1>3, <3>4, <4>2
      <4>4. PICK m \in Int : m = n - 1 OBVIOUS
      <4>5. \A i \in 1..w : s[i].id = m + i
        <5> SUFFICES ASSUME NEW i \in 1..w PROVE s[i].id = m + i OBVIOUS
        <5>1. s[i].id = n + i - 1 BY <4>1, <4>3
        <5> QED BY <4>4, <5>1
      <4> QED BY <4>5
    <3>6. lastUse[g] <= a + w
      <4>1. ~(lastUse[g] > s[w].id) BY <2>4, <3>3 DEF Overtaken
      <4>2. w \in 1..w BY <3>1, <3>3
      <4> QED BY <2>1, <3>5, <4>1, <4>2
    <3>7. row.id = a + k /\ k \in 1..w BY <3>1, <3>3, <3>5
    <3>8. row.id > lastUse[g]
      <4> SUFFICES ASSUME ~(row.id > lastUse[g]) PROVE FALSE OBVIOUS
      <4>1. PICK j \in k..w : j = lastUse[g] - a BY <2>1, <3>6, <3>7
      <4>2. j \in 1..w /\ s[j].id = lastUse[g] BY <2>1, <3>5, <3>7, <4>1, SMTT(60)
      <4>3. s[j].outcome = "authorized" /\ s[j].gate = g BY <3>4, <4>2 DEF PaidOK
      <4>4. CASE j = k BY <1>1, <3>1, <3>3, <4>3, <4>4
      <4>5. CASE j # k
        <5>1. j \in (k + 1)..w BY <3>7, <4>1, <4>5
        <5> QED BY <1>2, <3>1, <3>3, <4>3, <5>1
      <4> QED BY <4>4, <4>5
    <3>9. InView(row) BY <3>1, <3>3, <3>4
    <3>10. uses[g] < askings[g] + late[g] BY <1>1, <1>2, <2>4, <3>8, <3>9 DEF PaidOK
    <3> QED BY <1>6, <2>1, <3>10
  <2> QED BY <2>2, <2>3, <2>4
<1> SUFFICES ASSUME NEW h \in Gates
             PROVE  /\ uses[h] + (IF grant'[h] = {} THEN 0 ELSE 1) <= askings[h] + late'[h]
                    /\ lastUse[h] <= linesWritten
                    /\ \A x \in LogRows : InView(x)' =>
                         /\ x.id = lastUse[h] => x.outcome = "authorized" /\ x.gate = h
                         /\ grant'[h] = {} /\ x.gate = h /\ x.v2 /\ x.outcome = "blocked" /\ x.id > lastUse[h] =>
                              uses[h] < askings[h] + late'[h]
  BY <1>0, <1>7 DEF PaidOK
<1>9. CASE h = g BY <1>6, <1>8, <1>9 DEF PaidOK
<1>10. CASE h # g BY <1>6, <1>10 DEF PaidOK
<1> QED BY <1>9, <1>10

\* The inductive invariant of a lone reader.
AloneInv == AuthzTypes /\ FreshOK /\ AloneOK

\* Every step of a lone thread and of the hooks keeps the rows at the end of the file, and every
\* command paid for.
LEMMA AloneStep ==
  ASSUME NEW p, Readers = {p}, AloneInv, [AuthzNext]_allVars
  PROVE  AloneInv'
<1>0. AuthzTypes /\ FreshOK /\ FileOK /\ TailOK /\ ChosenOK /\ PaidOK BY DEF AloneInv, AloneOK
<1>1. AuthzTypes' /\ FreshOK' BY <1>0, AuthzStaysTyped, FreshStep
<1>2. CASE AuthzTick
  <2>1. UNCHANGED <<readVars, logFile, torn, inode, linesWritten, chosen, grant, askings, uses, lastUse, late>>
    BY <1>2 DEF AuthzTick, fileVars, pastVars
  <2>2. UNCHANGED <<entries, lastEntry, reader, look, chunk, result>> BY <2>1 DEF readVars
  <2>3. FileOK' BY <1>0, <2>1, <2>2 DEF FileOK
  <2>4. TailOK' BY <1>0, <2>1, <2>2 DEF TailOK, Entry, WholeRows, WholeFile, SameFile
  <2>5. ChosenOK' BY <1>0, <2>1, <2>2 DEF ChosenOK, WholeRows
  <2>6. PaidOK'
    <3>1. \A x : InView(x)' => InView(x) BY <2>1, <2>2 DEF InView
    <3> QED BY <1>0, <2>1, <3>1, PaidStays
  <2> QED BY <1>1, <2>3, <2>4, <2>5, <2>6 DEF AloneInv, AloneOK
<1>3. ASSUME NEW g \in Gates, Honour(g) PROVE AloneInv'
  <2>1. UNCHANGED <<chosen, look>> BY <1>3 DEF Honour, AppendRow, readVars
  <2>2. ChosenOK' BY <1>0, <2>1, ChoiceStays
  <2>3. FileOK' /\ TailOK' /\ PaidOK' BY <1>0, <1>1, <1>3, HonourPays
  <2> QED BY <1>1, <2>2, <2>3 DEF AloneInv, AloneOK
<1>4. ASSUME NEW g \in Gates, NEW v2 \in BOOLEAN, Block(g, v2) PROVE AloneInv'
  <2>1. UNCHANGED <<chosen, look>> BY <1>4 DEF Block, AppendRow, readVars, authzVars
  <2>2. ChosenOK' BY <1>0, <2>1, ChoiceStays
  <2>3. FileOK' /\ TailOK' /\ PaidOK' BY <1>0, <1>1, <1>4, BlockPays
  <2> QED BY <1>1, <2>2, <2>3 DEF AloneInv, AloneOK
<1>5. CASE (Terminate \/ Rotate) /\ UNCHANGED <<authzVars, pastVars>>
  <2>1. UNCHANGED <<chosen, look, grant, askings, uses, lastUse, late>>
    BY <1>5 DEF Terminate, Rotate, readVars, authzVars, pastVars
  <2>2. FileOK' /\ TailOK' /\ linesWritten' = linesWritten /\ \A x : InView(x)' => InView(x)
    BY <1>0, <1>1, <1>5, RotateKeepsTail
  <2>3. ChosenOK' /\ PaidOK' BY <1>0, <2>1, <2>2, ChoiceStays, PaidStays
  <2> QED BY <1>1, <2>2, <2>3 DEF AloneInv, AloneOK
<1>6. ASSUME NEW g \in Gates \cup {"none"}, Ask(p, g) PROVE AloneInv'
  <2>1. /\ Look(p) /\ UNCHANGED <<chosen, grant, askings, uses, lastUse, late>> BY <1>6 DEF Ask, pastVars
  <2>2. FileOK' /\ TailOK' /\ \A x : InView(x)' => InView(x) BY <1>0, <1>1, <2>1, LookKeepsTail
  <2>3. reader[p] = "idle" /\ linesWritten' = linesWritten BY <2>1 DEF Look, fileVars
  <2>4. chosen'[p] = {} BY <1>0, <2>1, <2>3 DEF FreshOK
  <2>5. ChosenOK' BY <2>4 DEF ChosenOK
  <2>6. PaidOK' BY <1>0, <2>1, <2>2, <2>3, PaidStays
  <2> QED BY <1>1, <2>2, <2>5, <2>6 DEF AloneInv, AloneOK
<1>7. CASE (Read(p) \/ Return(p)) /\ UNCHANGED <<authzVars, pastVars>>
  <2>1. UNCHANGED <<chosen, look, grant, askings, uses, lastUse, late, linesWritten>>
    BY <1>7 DEF Read, Return, authzVars, pastVars, fileVars
  <2>2. FileOK' /\ TailOK' /\ \A x : InView(x)' => InView(x)
    BY <1>0, <1>1, <1>7, ReadKeepsTail, ReturnKeepsTail
  <2>3. ChosenOK' /\ PaidOK' BY <1>0, <2>1, <2>2, ChoiceStays, PaidStays
  <2> QED BY <1>1, <2>2, <2>3 DEF AloneInv, AloneOK
<1>8. CASE Decide(p)
  <2>1. /\ reader[p] = "returned" /\ UNCHANGED <<fileVars, entries, lastEntry, chunk, reader, look, result>>
        /\ UNCHANGED <<grant, askings, uses, lastUse, late, linesWritten>>
    BY <1>8 DEF Decide, readVars, pastVars, fileVars
  <2>2. FileOK' /\ TailOK' /\ \A x : InView(x)' => InView(x) BY <1>0, <1>1, <2>1, LeaveKeepsTail
  <2>3. ChosenOK' BY <1>0, <1>8, ChoiceIsLast
  <2>4. PaidOK' BY <1>0, <2>1, <2>2, PaidStays
  <2> QED BY <1>1, <2>2, <2>3, <2>4 DEF AloneInv, AloneOK
<1>9. CASE Finish(p) \/ WriteGrant(p)
  <2>1. Done(p) BY <1>9 DEF Finish, WriteGrant
  <2>2. /\ reader[p] = "returned" /\ reader'[p] = "idle" /\ chosen'[p] = {}
        /\ UNCHANGED <<fileVars, entries, lastEntry, chunk>>
    BY <1>0, <2>1, LeaveForgets
  <2>3. FileOK' /\ TailOK' /\ \A x : InView(x)' => InView(x) BY <1>0, <1>1, <2>2, LeaveKeepsTail
  <2>4. ChosenOK' BY <2>2 DEF ChosenOK
  <2>5. CASE Finish(p)
    <3>1. UNCHANGED <<grant, askings, uses, lastUse, late, linesWritten>>
      BY <2>2, <2>5 DEF Finish, pastVars, fileVars
    <3>2. PaidOK' BY <1>0, <2>3, <3>1, PaidStays
    <3> QED BY <1>1, <2>3, <2>4, <3>2 DEF AloneInv, AloneOK
  <2>6. CASE WriteGrant(p)
    <3>1. PaidOK' BY <1>0, <1>1, <2>3, <2>6, WritePays
    <3> QED BY <1>1, <2>3, <2>4, <3>1 DEF AloneInv, AloneOK
  <2> QED BY <1>9, <2>5, <2>6
<1>10. CASE UNCHANGED allVars
  <2>1. UNCHANGED <<logFile, torn, inode, linesWritten, chosen, grant, askings, uses, lastUse, late>>
    BY <1>10 DEF allVars, fileVars, authzVars, pastVars
  <2>2. UNCHANGED <<entries, lastEntry, reader, look, chunk, result>> BY <1>10 DEF allVars, readVars
  <2>3. FileOK' BY <1>0, <2>1, <2>2 DEF FileOK
  <2>4. TailOK' BY <1>0, <2>1, <2>2 DEF TailOK, Entry, WholeRows, WholeFile, SameFile
  <2>5. ChosenOK' BY <1>0, <2>1, <2>2 DEF ChosenOK, WholeRows
  <2>6. PaidOK'
    <3>1. \A x : InView(x)' => InView(x) BY <2>1, <2>2 DEF InView
    <3> QED BY <1>0, <2>1, <3>1, PaidStays
  <2> QED BY <1>1, <2>3, <2>4, <2>5, <2>6 DEF AloneInv, AloneOK
<1> QED BY <1>2, <1>3, <1>4, <1>5, <1>6, <1>7, <1>8, <1>9, <1>10 DEF AuthzNext

\* The rows of a thread that has returned are the end of what it looked at.
LEMMA TailIsReturned ==
  ASSUME AuthzTypes, TailOK
  PROVE  RowsAreTheTail
<1> SUFFICES ASSUME NEW r \in Readers, reader[r] = "returned"
             PROVE  /\ IsSuffix(result[r], SubSeq(look[r].lines, 1, WholeRows(r)))
                    /\ Len(result[r]) >= Least(Len(SubSeq(look[r].lines, 1, WholeRows(r))), TailRows) - 1
  BY DEF RowsAreTheTail
<1>1. /\ result[r] = Entry(r).rows /\ Entry(r).pos = WholeRows(r) /\ Entry(r) = entries[lastEntry]
      /\ EntryOK(entries[lastEntry], look[r].lines, WholeRows(r))
  BY DEF TailOK, Entry
<1>2. PICK w \in Nat, s \in Seq(LogRows) : w = WholeRows(r) /\ s = look[r].lines /\ w <= Len(s) BY LookIsTyped
<1>3. PICK t \in Seq(LogRows) : t = result[r] BY DEF AuthzTypes
<1>4. PICK n \in Nat : n = Len(t) OBVIOUS
<1>5. n <= w /\ n + (w - w) >= Least(w, TailRows) - 1 /\ \A i \in 1..n : t[i] = s[w - n + i]
  BY <1>1, <1>2, <1>3, <1>4 DEF EntryOK
<1>6. /\ SubSeq(s, 1, w) \in Seq(LogRows) /\ Len(SubSeq(s, 1, w)) = w
      /\ \A i \in 1..w : SubSeq(s, 1, w)[i] = s[i]
  BY <1>2
<1>7. PICK u \in Seq(LogRows) : u = SubSeq(s, 1, w) BY <1>6
<1>8. Len(u) = w /\ \A i \in 1..w : u[i] = s[i] BY <1>6, <1>7
<1>9. \A i \in 1..n : t[i] = u[w - n + i]
  <2> SUFFICES ASSUME NEW i \in 1..n PROVE t[i] = u[w - n + i] OBVIOUS
  <2>1. w - n + i \in 1..w BY <1>5
  <2> QED BY <1>5, <1>8, <2>1
<1>10. IsSuffix(t, u) BY <1>4, <1>5, <1>8, <1>9, SuffixOf
<1>11. n >= Least(w, TailRows) - 1 BY <1>5
<1> QED BY <1>2, <1>3, <1>4, <1>7, <1>8, <1>10, <1>11

\* What a lone request thread has read, decided and granted.
THEOREM LoneThreadInvariance == ASSUME NEW p, Readers = {p} PROVE AuthzSpec => []AloneInv
<1>1. AuthzInit => AloneInv BY AuthzBegins DEF AloneInv
<1>2. AloneInv /\ [AuthzNext]_allVars => AloneInv' BY AloneStep
<1> QED BY <1>1, <1>2, PTL DEF AuthzSpec

\* A lone reader returns the end of the file it looked at: no row twice, none left out, none of
\* an older file, and at least what a first look would read (_delete_file_rows).
THEOREM RowsReachTheEnd == ASSUME NEW p, Readers = {p} PROVE AuthzSpec => []RowsAreTheTail
<1>1. AloneInv => RowsAreTheTail BY TailIsReturned DEF AloneInv, AloneOK
<1> QED BY <1>1, LoneThreadInvariance, PTL

\* With one request thread a block lets one command through, soon: a further one only for a
\* grant that was used between that thread's look and its write (ops_authorize).
THEOREM OneCommandPerBlock == ASSUME NEW p, Readers = {p} PROVE AuthzSpec => []OneBlockOneCommand
<1>1. AloneInv => UsesArePaidFor
  <2> SUFFICES ASSUME AloneInv, NEW g \in Gates PROVE uses[g] <= askings[g] + late[g] BY DEF UsesArePaidFor
  <2>1. AuthzTypes /\ uses[g] + (IF grant[g] = {} THEN 0 ELSE 1) <= askings[g] + late[g]
    BY DEF AloneInv, AloneOK, PaidOK
  <2>2. uses[g] \in Nat /\ askings[g] \in Nat /\ late[g] \in Nat BY <2>1, CountsAreTyped
  <2> QED BY <2>1, <2>2
<1>2. AloneInv => GrantIsFresh BY FreshIsEnough DEF AloneInv
<1>3. AloneInv => OneBlockOneCommand BY <1>1, <1>2 DEF OneBlockOneCommand
<1> QED BY <1>3, LoneThreadInvariance, PTL
=============================================================================
