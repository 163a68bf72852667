---------------------------- MODULE CodexSource ----------------------------
(***************************************************************************)
(* The collector of Codex sessions (collect_codex).  The honest source is  *)
(* the newest usable state_<n>.sqlite beside an index; a root without one  *)
(* is read from its index, whose times are those of creation.  Which root  *)
(* has which database is probed and the answer kept for a while, whereas   *)
(* Codex upgrades, rewrites and removes databases whenever it likes.  The  *)
(* page shows a flag that says where its rows come from.                   *)
(***************************************************************************)
EXTENDS Integers, Sequences, SequencesExt

CONSTANTS
  MaxDbTime,  \* bound on the clock
  MaxWrites,  \* bound on how often a candidate is replaced
  ProbeTtl,   \* _CODEX_DB_TTL
  WindowSecs, \* max_age_hours
  RowCap      \* max_rows_per_source

ASSUME CodexAssumption == {MaxDbTime, MaxWrites, ProbeTtl, WindowSecs, RowCap} \subseteq Nat \ {0}

VARIABLES
  dbTime, writes,
  dbs,        \* what stands at each candidate's path
  probed,     \* _codex_db_cache
  codexAt,    \* where the pass is and what it has found
  codexShown, \* the rows of the last pass, _CODEX_SOURCE and the roots it found broken (history)
  stood       \* since when a root has had files at its candidates, 0 if it has none (history)

codexVars == <<dbTime, writes, dbs, probed, codexAt, codexShown, stood>>

CodexRoots == <<"home", "synced">>
CandidateFiles == [home |-> {5, 6}, synced |-> {5}]
\* Nothing, a redirected path, a file without a usable threads table, or a database whose
\* threads were last written at that time.
IndexFiles == {<<k>> : k \in {"none", "link", "moved"}} \cup {<<"threads", t>> : t \in 1..MaxDbTime}
Usable(content) == content[1] = "threads"
NoDb == 0
Created == 1 \* the time the index knows

CodexTypeOK ==
  /\ dbTime \in 1..MaxDbTime /\ \A r \in ToSet(CodexRoots) : dbs[r] \in [CandidateFiles[r] -> IndexFiles]
  /\ \A r \in ToSet(CodexRoots) : probed[r].db \in CandidateFiles[r] \cup {NoDb}
  /\ codexShown.flag \in {"db", "index-fallback", "db-unknown"}

CodexInit ==
  /\ dbTime = 1 /\ writes = 0 /\ dbs = [r \in ToSet(CodexRoots) |-> [c \in CandidateFiles[r] |-> <<"none">>]]
  /\ probed = [r \in ToSet(CodexRoots) |-> [until |-> 0, db |-> NoDb, status |-> "absent"]]
  /\ codexAt = [place |-> "probe", root |-> 1, rows |-> {}, sawDb |-> FALSE, sawUnknown |-> FALSE,
                start |-> 1, broken |-> {}]
  /\ codexShown = [rows |-> {}, flag |-> "index-fallback", broken |-> {}]
  /\ stood = [r \in ToSet(CodexRoots) |-> 0]

Present(r) == {c \in CandidateFiles[r] : dbs[r][c][1] # "none"}
IsBroken(r) == Present(r) # {} /\ \A c \in Present(r) : ~Usable(dbs[r][c])

CodexTick ==
  /\ dbTime < MaxDbTime /\ dbTime' = dbTime + 1
  /\ UNCHANGED <<writes, dbs, probed, codexAt, codexShown, stood>>

\* Codex, a sync tool or the user replaces one candidate.
Rewrite(r, c, content) ==
  /\ writes < MaxWrites /\ writes' = writes + 1
  /\ dbs[r][c] # content /\ (Usable(content) => content[2] = dbTime)
  /\ dbs' = [dbs EXCEPT ![r][c] = content]
  /\ stood' = [stood EXCEPT ![r] = IF Present(r)' = {} THEN 0 ELSE IF @ = 0 THEN dbTime ELSE @]
  /\ UNCHANGED <<dbTime, probed, codexAt, codexShown>>

-----------------------------------------------------------------------------

Root == CodexRoots[codexAt.root]

\* The usable candidate with the freshest thread, the first in order of name among equals.
Freshest(r) ==
  LET usable == {c \in Present(r) : Usable(dbs[r][c])}
      best == {c \in usable : \A d \in usable : dbs[r][c][2] >= dbs[r][d][2]}
  IN  IF best = {} THEN NoDb ELSE CHOOSE c \in best : \A d \in best : c <= d

FreshProbe(r) ==
  [until |-> dbTime + ProbeTtl, db |-> Freshest(r),
   status |-> IF Freshest(r) # NoDb THEN "ok" ELSE IF Present(r) = {} THEN "absent" ELSE "unknown"]

\* A remembered answer stands until it expires or its path is gone or redirected.
StillGood(r) ==
  /\ probed[r].until > dbTime
  /\ probed[r].db = NoDb \/ dbs[r][probed[r].db][1] \notin {"none", "link"}

CodexProbe ==
  /\ codexAt.place = "probe"
  /\ probed' = [probed EXCEPT ![Root] = IF StillGood(Root) THEN @ ELSE FreshProbe(Root)]
  /\ codexAt' = [codexAt EXCEPT !.place = "read",
       !.start = IF codexAt.root = 1 THEN dbTime ELSE @,
       !.broken = @ \cup {r \in {Root} : IsBroken(r) /\ stood[r] + ProbeTtl <= dbTime}]
  /\ UNCHANGED <<dbTime, writes, dbs, codexShown, stood>>

Recent(ts) == ts >= codexAt.start - WindowSecs

\* Why a root is read from its index.  A database that was chosen and then cannot be read is
\* as unknown as one that could not be chosen.
Reason(r) == IF probed[r].status = "absent" THEN "index-fallback" ELSE "db-unknown"

\* _codex_db_rows: the window is part of the query, an empty answer is an answer.
CodexRead ==
  /\ codexAt.place = "read"
  /\ LET db == probed[Root].db
         content == IF db = NoDb THEN <<"none">> ELSE dbs[Root][db]
         found == IF Usable(content)
                  THEN {[root |-> Root, ts |-> ts, src |-> "db"] : ts \in {content[2]}}
                  ELSE {[root |-> Root, ts |-> Created, src |-> Reason(Root)]}
     IN  codexAt' = [codexAt EXCEPT !.rows = @ \cup {row \in found : Recent(row.ts)},
                       !.broken = {r \in @ : r = Root => IsBroken(r)},
                       !.sawDb = @ \/ Usable(content),
                       !.sawUnknown = @ \/ (~Usable(content) /\ Reason(Root) = "db-unknown"),
                       !.place = IF codexAt.root = Len(CodexRoots) THEN "show" ELSE "probe",
                       !.root = IF @ = Len(CodexRoots) THEN @ ELSE @ + 1]
  /\ UNCHANGED <<dbTime, writes, dbs, probed, codexShown, stood>>

\* The newest rows up to the cap; the root listed first wins among equals.
NewestThreads(rows) ==
  {row \in rows :
     Cardinality({o \in rows : o.ts > row.ts \/ (o.ts = row.ts /\ o.root = "home" /\ row.root # "home")})
       < RowCap}

\* From the rows that are displayed; a database nobody can read wins over everything.
\* Faulty variant: the rows decide alone.
FlagOfRows(rows) ==
  IF \E row \in rows : row.src # "db" THEN "index-fallback"
  ELSE IF rows = {} /\ ~codexAt.sawDb THEN "index-fallback" ELSE "db"
Flag(rows) ==
  IF codexAt.sawUnknown THEN "db-unknown"
  ELSE IF rows # {} /\ (\E row \in rows : row.src # "db") THEN "index-fallback"
  ELSE IF rows = {} /\ ~codexAt.sawDb THEN "index-fallback" ELSE "db"

CodexShow ==
  /\ codexAt.place = "show"
  /\ LET rows == NewestThreads(codexAt.rows)
     IN  codexShown' = [rows |-> rows, flag |-> Flag(rows), broken |-> codexAt.broken]
  /\ codexAt' = [codexAt EXCEPT !.place = "probe", !.root = 1, !.rows = {}, !.broken = {},
                                !.sawDb = FALSE, !.sawUnknown = FALSE]
  /\ UNCHANGED <<dbTime, writes, dbs, probed, stood>>

CodexNext ==
  \/ CodexTick
  \/ \E r \in ToSet(CodexRoots) : \E c \in CandidateFiles[r], content \in IndexFiles : Rewrite(r, c, content)
  \/ CodexProbe \/ CodexRead \/ CodexShow

CodexSpec == CodexInit /\ [][CodexNext]_codexVars

-----------------------------------------------------------------------------
(* Properties *)

\* "This must be LOUD": a pass that meets a root with databases and none of use says so, whatever
\* was remembered of the root and whatever the other root offers, provided that the root has had
\* databases for as long as a probe is kept; and a page that claims a database as its source
\* shows no time of creation as a time of activity.
FlagIsHonest ==
  /\ codexShown.broken # {} => codexShown.flag = "db-unknown"
  /\ codexShown.flag = "db" => \A row \in codexShown.rows : row.src = "db"
=============================================================================
