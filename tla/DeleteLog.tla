----------------------------- MODULE DeleteLog -----------------------------
(***************************************************************************)
(* The incremental reader of a repository's hook_block_history.jsonl       *)
(* (_delete_file_rows).  Hooks append a line per decision, may be caught   *)
(* in the middle of one, and may rotate the file; every request thread and *)
(* the alert loop read it through one cache that remembers how far the     *)
(* file has been read, and of which file.                                  *)
(*                                                                         *)
(* A position counts lines, so a half written line has no length of its    *)
(* own; the first 64 bytes of a file are its first row.  No lock protects  *)
(* the cache: a reader takes its entry, reads from the entry's position    *)
(* and then moves it, in steps of their own.                               *)
(***************************************************************************)
EXTENDS Integers, Sequences, SequencesExt, FiniteSets

CONSTANTS
  Readers,   \* threads that may read at the same time
  TailRows,  \* lines a first look and a shrunk file are read back (256 KB)
  Ring,      \* rows kept per file (600)
  MaxLines,  \* bound on the lines ever written
  MaxRotates \* bound on rotations

ASSUME LogAssumption ==
  TailRows \in Nat \ {0} /\ Ring \in Nat /\ TailRows <= Ring /\ MaxLines \in Nat /\ MaxRotates \in Nat

VARIABLES
  logFile,   \* the rows of the file, the last one possibly torn
  torn,      \* whether the last row is not terminated yet
  inode,     \* which file it is; rotating in place keeps it
  linesWritten, rotated,
  entries,   \* the cache entries ever made, by their order
  lastEntry, \* the entry _DELETE_CACHE holds, 0 when none
  reader,    \* where each reader is
  look,      \* what it saw of the file and the entry it took
  chunk,     \* what it has read of the file
  result     \* what it returned last

fileVars == <<logFile, torn, inode, linesWritten, rotated>>
readVars == <<entries, lastEntry, reader, look, chunk, result>>

LogInit ==
  /\ logFile = <<>> /\ torn = FALSE /\ inode = 1 /\ linesWritten = 0 /\ rotated = 0
  /\ entries = <<>> /\ lastEntry = 0
  /\ reader = [r \in Readers |-> "idle"]
  /\ look = [r \in Readers |-> <<>>]
  /\ chunk = [r \in Readers |-> <<>>]
  /\ result = [r \in Readers |-> <<>>]

-----------------------------------------------------------------------------
(* The hooks *)

\* A hook starts a line, and finishes it.
AppendRow(row) ==
  /\ ~torn /\ linesWritten < MaxLines /\ linesWritten' = linesWritten + 1
  /\ logFile' = Append(logFile, row)
  /\ torn' \in BOOLEAN
  /\ UNCHANGED <<inode, rotated, readVars>>

Terminate ==
  /\ torn /\ torn' = FALSE
  /\ UNCHANGED <<logFile, inode, linesWritten, rotated, readVars>>

\* Only the last rows are kept, in place or in a new file.
Rotate ==
  /\ ~torn /\ rotated < MaxRotates /\ rotated' = rotated + 1
  /\ \E n \in 1..(Len(logFile) - 1) : logFile' = SubSeq(logFile, n + 1, Len(logFile))
  /\ inode' \in {inode, inode + 1}
  /\ UNCHANGED <<torn, linesWritten, readVars>>

-----------------------------------------------------------------------------
(* The reader *)

Least(a, b) == IF a < b THEN a ELSE b
LastRows(log, n) == SubSeq(log, Len(log) - Least(n, Len(log)) + 1, Len(log))

\* How many lines precede the last TailRows.
TailStart(n) == n - Least(n, TailRows)

\* The entry still speaks of this file: same inode, same first row.  Faulty variant:
\* the inode alone.
SameInode(e) == e.inode = inode
SameFile(e) == e.inode = inode /\ e.first = Head(logFile)

Fresh == [inode |-> inode, first |-> Head(logFile), pos |-> TailStart(Len(logFile)), rows |-> <<>>]
Shrunk(e) == [e EXCEPT !.rows = <<>>, !.pos = TailStart(Len(logFile))]

\* Take the size and the head of the file and the entry for it: a new one for another
\* file, one that starts over for a file that shrank.
Look(r) ==
  /\ reader[r] = "idle" /\ logFile # <<>>
  /\ IF lastEntry = 0 \/ ~SameFile(entries[lastEntry])
       THEN /\ entries' = Append(entries, Fresh)
            /\ lastEntry' = Len(entries) + 1
       ELSE /\ entries' = IF Len(logFile) < entries[lastEntry].pos
                            THEN [entries EXCEPT ![lastEntry] = Shrunk(@)] ELSE entries
            /\ lastEntry' = lastEntry
  /\ look' = [look EXCEPT ![r] = [entry |-> lastEntry', lines |-> logFile, torn |-> torn]]
  /\ reader' = [reader EXCEPT ![r] = "looked"]
  /\ UNCHANGED <<fileVars, chunk, result>>

Entry(r) == entries[look[r].entry]

\* The rows a chunk completes: all but an unterminated last one.
WholeRows(r) == IF look[r].torn THEN Len(look[r].lines) - 1 ELSE Len(look[r].lines)

\* seek to the entry's position, as it is now, and read up to the size of the look.
Read(r) ==
  /\ reader[r] = "looked"
  /\ chunk' = [chunk EXCEPT ![r] = SubSeq(look[r].lines, Entry(r).pos + 1, WholeRows(r))]
  /\ reader' = [reader EXCEPT ![r] = "read"]
  /\ UNCHANGED <<fileVars, entries, lastEntry, look, result>>

\* Faulty variant: the ring is never cut.
KeptAll(log) == log
Kept(log) == LastRows(log, Ring)

\* Move the position past the chunk, keep the newest rows, return a copy.
Return(r) ==
  /\ reader[r] = "read"
  /\ entries' = [entries EXCEPT ![look[r].entry] =
                   [Entry(r) EXCEPT !.pos = @ + Len(chunk[r]), !.rows = Kept(@ \o chunk[r])]]
  /\ result' = [result EXCEPT ![r] = Kept(Entry(r).rows \o chunk[r])]
  /\ chunk' = [chunk EXCEPT ![r] = <<>>]
  /\ reader' = [reader EXCEPT ![r] = "returned"]
  /\ UNCHANGED <<fileVars, lastEntry, look>>

\* The caller has used the rows.
Leave(r) ==
  /\ reader[r] = "returned"
  /\ reader' = [reader EXCEPT ![r] = "idle"]
  /\ look' = [look EXCEPT ![r] = <<>>]
  /\ result' = [result EXCEPT ![r] = <<>>]
  /\ UNCHANGED <<fileVars, entries, lastEntry, chunk>>

-----------------------------------------------------------------------------
(* A reader that is alone returns the end of the file it looked at: no row twice,  *)
(* none left out, none of an older file, in line order, and at least the rows a    *)
(* first look would have read.                                                     *)
RowsAreTheTail ==
  \A r \in Readers : reader[r] = "returned" =>
    LET whole == SubSeq(look[r].lines, 1, WholeRows(r))
    IN /\ IsSuffix(result[r], whole)
       /\ Len(result[r]) >= Least(Len(whole), TailRows) - 1

\* collect_delete_events: "Rows keep per-file LINE ORDER".
LineOrder ==
  \A r \in Readers : \A i, j \in 1..Len(result[r]) :
    i < j => result[r][i].id < result[r][j].id
=============================================================================
