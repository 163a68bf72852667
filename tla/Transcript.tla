----------------------------- MODULE Transcript -----------------------------
(***************************************************************************)
(* The transcript of a session, read back page by page                     *)
(* (session_transcript).  The transcript is a file of lines to which the   *)
(* session appends.  A page is what the window of bytes before a cursor    *)
(* holds: from its first line break on, the turns of its lines, the newest *)
(* of them up to a limit.  Where the page begins is the cursor of the next *)
(* older one.                                                              *)
(***************************************************************************)
EXTENDS Integers, Sequences, FiniteSets, Functions

CONSTANTS
  ScanWindow,   \* _TRANSCRIPT_SCAN_BYTES
  PageLimit,    \* the turns of a page
  LineKinds,    \* the lines there may be: their bytes with the line break, and their turns
  MaxTurnLines, \* bound on the lines
  MaxPages      \* bound on the pages of a walk

ASSUME TranscriptAssumption ==
  /\ {ScanWindow, PageLimit, MaxPages} \subseteq Nat \ {0} /\ MaxTurnLines \in Nat
  /\ LineKinds \subseteq [len : Nat \ {0}, turns : Nat]

VARIABLES
  turnLines, \* the transcript
  partial,   \* the bytes of its last line while that is being written
  pager      \* a reader: its cursor, whether it was told of more, its pages and the lines there
             \* were when it began, and the turns it was shown, and shown again (history)

transcriptVars == <<turnLines, partial, pager>>

NoWalk == [cursor |-> -1, more |-> FALSE, pages |-> 0, base |-> 0, shown |-> {}, again |-> {}]

TranscriptTypeOK ==
  /\ Len(turnLines) <= MaxTurnLines /\ partial \in Nat
  /\ pager.pages \in 0..MaxPages /\ pager.more \in BOOLEAN

TranscriptInit == turnLines = <<>> /\ partial = 0 /\ pager = NoWalk

-----------------------------------------------------------------------------
(* The session *)

AppendLine(k) ==
  /\ partial = 0 /\ Len(turnLines) < MaxTurnLines /\ turnLines' = Append(turnLines, k)
  /\ UNCHANGED <<partial, pager>>

\* A reader may find the last line half written.
BeginLine(k, bytes) ==
  /\ partial = 0 /\ Len(turnLines) < MaxTurnLines /\ bytes < k.len
  /\ turnLines' = Append(turnLines, k) /\ partial' = bytes /\ UNCHANGED pager

EndLine == partial > 0 /\ partial' = 0 /\ UNCHANGED <<turnLines, pager>>

-----------------------------------------------------------------------------
(* One page *)

OffsetOf(i) == SumFunction([j \in 1..(i - 1) |-> turnLines[j].len])
Whole == IF partial > 0 THEN Len(turnLines) - 1 ELSE Len(turnLines)
Size == OffsetOf(Whole + 1) + partial

\* A window that does not begin the file begins after its first line break, even where it happens
\* to begin with a line; it has none when one line fills it.
Breaks(start, end) == {i \in 1..Whole : OffsetOf(i + 1) - 1 \in start..(end - 1)}
FirstOffset(start, end) ==
  IF start = 0 \/ start = end THEN start
  ELSE OffsetOf(1 + CHOOSE i \in Breaks(start, end) : \A j \in Breaks(start, end) : i <= j)

\* The lines a window that ends there holds to their end.  The last line can be read, and is not
\* yet whole, while only its line break is missing.
EndedLines(end) ==
  {i \in 1..Whole : OffsetOf(i + 1) <= end}
    \union {i \in {Whole + 1} : partial > 0 /\ partial + 1 = turnLines[i].len /\ Size <= end}

\* The turns of the lines the window holds, each with its line and its place in that.
Turns(from, end) ==
  UNION {{<<i, k>> : k \in 1..turnLines[i].turns} : i \in {j \in EndedLines(end) : OffsetOf(j) >= from}}

LaterTurn(p, q) == p[1] > q[1] \/ (p[1] = q[1] /\ p[2] > q[2])
LastTurns(parts) == {p \in parts : Cardinality({q \in parts : LaterTurn(q, p)}) < PageLimit}
FirstTurn(page) == CHOOSE p \in page : \A q \in page : ~LaterTurn(p, q)

\* Where the page begins.  Faulty variant: the byte before it.
NextCursorBefore(page, from) == (IF page # {} THEN OffsetOf(FirstTurn(page)[1]) ELSE from) - 1
NextCursor(page, from) == IF page # {} THEN OffsetOf(FirstTurn(page)[1]) ELSE from

\* The page before end.
Page(end) ==
  LET start == IF end > ScanWindow THEN end - ScanWindow ELSE 0
      from  == FirstOffset(start, end)
      page  == LastTurns(Turns(from, end))
  IN  IF start > 0 /\ Breaks(start, end) = {}
      THEN [turns |-> {}, cursor |-> start, more |-> TRUE]
      ELSE [turns |-> page, cursor |-> NextCursor(page, from), more |-> NextCursor(page, from) > 0]

ReadPage(end, base) ==
  LET got == Page(end) IN
  /\ pager' = [cursor |-> got.cursor, more |-> got.more, pages |-> pager.pages + 1, base |-> base,
               shown |-> pager.shown \union got.turns, again |-> pager.again \union (pager.shown \cap got.turns)]
  /\ UNCHANGED <<turnLines, partial>>

Open == pager.pages = 0 /\ ReadPage(Size, Whole)
Older == pager.pages > 0 /\ pager.more /\ pager.pages < MaxPages /\ ReadPage(pager.cursor, pager.base)
Close == pager.pages > 0 /\ pager' = NoWalk /\ UNCHANGED <<turnLines, partial>>

TranscriptNext ==
  \/ \E k \in LineKinds : AppendLine(k)
  \/ \E k \in LineKinds : \E bytes \in 1..k.len : BeginLine(k, bytes)
  \/ EndLine \/ Open \/ Older \/ Close

TranscriptSpec == TranscriptInit /\ [][TranscriptNext]_transcriptVars

-----------------------------------------------------------------------------
(* Properties *)

\* While the session goes on writing, a walk back shows no turn twice, and one that arrived at the
\* beginning has shown every turn there was when it began, but for those whose page began with a
\* later turn of their line: the next older page ends where that line begins.
WalkIsComplete ==
  /\ pager.again = {}
  /\ pager.pages > 0 /\ ~pager.more =>
       \A i \in 1..pager.base : \A k \in 1..turnLines[i].turns :
         \E later \in k..turnLines[i].turns : <<i, later>> \in pager.shown

\* "Scroll to load earlier turns" (ui/session.html), shown as long as there is more: a page read at
\* the cursor of the one before begins before it.
EarlierTurnsLoad ==
  [][pager.pages > 0 /\ pager'.pages > pager.pages => pager'.cursor < pager.cursor]_transcriptVars
=============================================================================
