--------------------------- MODULE Authorization ---------------------------
(***************************************************************************)
(* One-shot authorizations (ops_authorize): a hook blocks a dangerous      *)
(* command and logs it; the user presses a button on the dashboard; a      *)
(* request thread reads the log, and if the latest block of that gate is   *)
(* still pending writes a grant file; the next such command takes the      *)
(* grant, and the hook logs that.  The log is read by DeleteLog's reader.  *)
(*                                                                         *)
(* Reading, deciding and writing are steps of the request thread, and the  *)
(* hooks run in between: a decision is about a log that may have moved on. *)
(* A gate's marker file has a fixed name: writing it again replaces it.    *)
(***************************************************************************)
EXTENDS DeleteLog

CONSTANTS
  Gates,         \* AUTHZ_GATES
  PendingWindow, \* _AUTHZ_PENDING_SECS
  GrantTTL,      \* how long the hooks honour a grant (_AUTHZ_TOKEN_TTL_SECS)
  MaxAuthzTime   \* bound on the clock

ASSUME AuthzAssumption ==
  PendingWindow \in Nat /\ GrantTTL \in Nat /\ MaxAuthzTime \in Nat /\ "none" \notin Gates

VARIABLES
  authzTime,
  asked,   \* the gate a request thread is asked to open, "none" for a mere look
  chosen,  \* the row it has decided to grant
  grant,   \* the grant file of each gate
  askings, \* blocks that may be granted (history)
  uses,    \* grants honoured (history)
  lastUse, \* the log line of the last one
  late     \* grants written for a row authorized since the look (history)

authzVars == <<authzTime, asked, chosen, grant>>
pastVars  == <<askings, uses, lastUse, late>>
allVars == <<fileVars, readVars, authzVars, pastVars>>

LogRows == [id : 1..MaxLines, at : 0..MaxAuthzTime, gate : Gates, v2 : BOOLEAN,
            outcome : {"blocked", "authorized"}]
Grants  == [row : LogRows, mtime : 0..MaxAuthzTime]

AuthzTypeOK ==
  /\ authzTime \in 0..MaxAuthzTime /\ linesWritten \in 0..MaxLines /\ rotated \in 0..MaxRotates
  /\ logFile \in Seq(LogRows) /\ torn \in BOOLEAN
  /\ \A i \in 1..Len(entries) :
        entries[i].rows \in Seq(LogRows) /\ entries[i].pos \in Nat /\ Len(entries[i].rows) <= Ring
  /\ lastEntry \in 0..Len(entries)
  /\ asked \in [Readers -> Gates \cup {"none"}]
  /\ \A r \in Readers : chosen[r] \subseteq LogRows /\ Cardinality(chosen[r]) <= 1
  /\ \A g \in Gates : grant[g] \subseteq Grants /\ Cardinality(grant[g]) <= 1

AuthzInit ==
  /\ LogInit
  /\ authzTime = 0
  /\ asked = [r \in Readers |-> "none"] /\ chosen = [r \in Readers |-> {}]
  /\ grant = [g \in Gates |-> {}]
  /\ askings = [g \in Gates |-> 0] /\ uses = [g \in Gates |-> 0]
  /\ lastUse = [g \in Gates |-> 0] /\ late = [g \in Gates |-> 0]

-----------------------------------------------------------------------------
(* The hooks *)

Row(g, v2, outcome) ==
  [id |-> linesWritten + 1, at |-> authzTime, gate |-> g, v2 |-> v2, outcome |-> outcome]

\* A command is blocked; a hook of the first version writes rows that are only shown.
Block(g, v2) ==
  /\ AppendRow(Row(g, v2, "blocked"))
  /\ askings' = [askings EXCEPT ![g] = @ + (IF v2 THEN 1 ELSE 0)]
  /\ UNCHANGED <<authzVars, uses, lastUse, late>>

\* A command finds a grant that is not too old, takes it and runs.
Honour(g) ==
  /\ \E x \in grant[g] : authzTime - x.mtime <= GrantTTL
  /\ AppendRow(Row(g, TRUE, "authorized"))
  /\ grant' = [grant EXCEPT ![g] = {}]
  /\ uses' = [uses EXCEPT ![g] = @ + 1]
  /\ lastUse' = [lastUse EXCEPT ![g] = linesWritten + 1]
  /\ UNCHANGED <<authzTime, asked, chosen, askings, late>>

-----------------------------------------------------------------------------
(* The request thread *)

\* A look for the status page, or for POST /api/ops/authorize.
Ask(r, g) ==
  /\ Look(r)
  /\ asked' = [asked EXCEPT ![r] = g]
  /\ UNCHANGED <<authzTime, chosen, grant, pastVars>>

Blocks(log, g) == {i \in 1..Len(log) : log[i].outcome = "blocked" /\ log[i].gate = g}

\* _authz_request_rows, by line order.  Faulty variant: the age is not looked at.
PendingAtAnyAge(log, i) ==
  /\ log[i].v2
  /\ ~\E j \in (i + 1)..Len(log) : log[j].outcome = "authorized" /\ log[j].gate = log[i].gate
Pending(log, i) ==
  /\ log[i].v2 /\ authzTime - log[i].at <= PendingWindow
  /\ ~\E j \in (i + 1)..Len(log) : log[j].outcome = "authorized" /\ log[j].gate = log[i].gate

\* The latest block of the gate, if it is pending: an older one is never granted.
Grantable(log, g) ==
  {log[i] : i \in {j \in Blocks(log, g) : Pending(log, j) /\ \A k \in Blocks(log, g) : k <= j}}

Decide(r) ==
  /\ reader[r] = "returned" /\ asked[r] # "none" /\ chosen[r] = {}
  /\ Grantable(result[r], asked[r]) # {}
  /\ chosen' = [chosen EXCEPT ![r] = Grantable(result[r], asked[r])]
  /\ UNCHANGED <<fileVars, readVars, authzTime, asked, grant, pastVars>>

Done(r) ==
  /\ Leave(r)
  /\ asked' = [asked EXCEPT ![r] = "none"]
  /\ chosen' = [chosen EXCEPT ![r] = {}]

\* The page has its rows, the request is refused, or the grant cannot be written.
Finish(r) ==
  /\ chosen[r] # {} \/ asked[r] = "none" \/ Grantable(result[r], asked[r]) = {}
  /\ Done(r)
  /\ UNCHANGED <<authzTime, grant, pastVars>>

\* The gate was opened and used after the request thread had looked at the log.
Overtaken(r, g) == lastUse[g] > look[r].lines[WholeRows(r)].id

WriteGrant(r) ==
  \E row \in chosen[r] :
    /\ grant' = [grant EXCEPT ![row.gate] = {[row |-> row, mtime |-> authzTime]}]
    /\ late' = [late EXCEPT ![row.gate] =
                   @ + (IF Overtaken(r, row.gate) /\ grant[row.gate] = {} THEN 1 ELSE 0)]
    /\ Done(r)
    /\ UNCHANGED <<authzTime, askings, uses, lastUse>>

\* A request takes no time on the scale of the window.
AuthzTick ==
  /\ authzTime < MaxAuthzTime /\ authzTime' = authzTime + 1
  /\ \A r \in Readers : reader[r] = "idle"
  /\ UNCHANGED <<fileVars, readVars, asked, chosen, grant, pastVars>>

AuthzNext ==
  \/ AuthzTick
  \/ \E g \in Gates : Honour(g) \/ \E v2 \in BOOLEAN : Block(g, v2)
  \/ (Terminate \/ Rotate) /\ UNCHANGED <<authzVars, pastVars>>
  \/ \E r \in Readers :
       \/ \E g \in Gates \cup {"none"} : Ask(r, g)
       \/ (Read(r) \/ Return(r)) /\ UNCHANGED <<authzVars, pastVars>>
       \/ Decide(r) \/ Finish(r) \/ WriteGrant(r)

AuthzSpec == AuthzInit /\ [][AuthzNext]_allVars

-----------------------------------------------------------------------------
(* Every command that runs by a grant was asked for by a block of its own: only a    *)
(* grant whose row was authorized between the request thread's look at the log and   *)
(* its write lets another one through.                                               *)
UsesArePaidFor == \A g \in Gates : uses[g] <= askings[g] + late[g]

\* A grant that a command may still take answers a block of its own gate, by a hook of
\* the second version, at most a window and a grant's life ago.
GrantIsFresh ==
  \A g \in Gates : \A x \in grant[g] : authzTime - x.mtime <= GrantTTL =>
    /\ x.row.gate = g /\ x.row.v2 /\ x.row.outcome = "blocked"
    /\ authzTime - x.row.at <= PendingWindow + GrantTTL

\* One block lets one command through, soon: the two above, of the one-shot authorization.
OneBlockOneCommand == UsesArePaidFor /\ GrantIsFresh
=============================================================================
