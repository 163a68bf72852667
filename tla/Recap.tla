------------------------------- MODULE Recap -------------------------------
(***************************************************************************)
(* The history recap: build_recap reads every transcript that may hold a   *)
(* turn of the window, while sessions go on writing, and adds up what the  *)
(* turns cost, by model, session and project; merge_recap then folds in    *)
(* the recaps that other machines have pushed, some of which run older     *)
(* code or another table of prices.                                        *)
(***************************************************************************)
EXTENDS Integers, Sequences, FiniteSetsExt

CONSTANTS
  RecapTurns, \* message ids, numbers; a turn costs its number of tokens
  Remotes,    \* what the relayed machines may have pushed
  WindowSpan, \* the window, in the clock's units
  MtimeSkew,  \* _MTIME_SKEW_S
  TopN,       \* PER_SESSION_TOP_N
  MaxHour,    \* bound on the clock
  MaxChunks   \* bound on the lines that are written

Unknown == -1 \* None, the cost of a model that has no price

\* What a machine pushes was made by the same two functions: a model is without a price in it only
\* with an unknown cost, and its rows are tagged with its name on their way in.
ASSUME RecapAssumption ==
  /\ RecapTurns \subseteq Nat /\ {WindowSpan, MtimeSkew, TopN, MaxHour, MaxChunks} \subseteq Nat
  /\ \A r \in Remotes :
       /\ r.machine \in Nat \ {0} /\ r.tokens \in Nat /\ r.cost \in Nat \union {Unknown}
       /\ r.unpriced \in BOOLEAN /\ (r.unpriced => r.cost = Unknown)
       /\ IsFiniteSet(r.sessions)
       /\ r.sessions \subseteq [machine : {r.machine}, session : {"s1", "s2"}, tokens : Nat]

VARIABLES
  hour,
  logs,   \* the lines of every transcript, each with its turn and its timestamp
  mtime,  \* of every transcript; that of a synced one may lag behind
  recap,  \* where the request is, and what it has added up
  atStart \* the lines there were when the request began (history)

recapVars == <<hour, logs, mtime, recap, atStart>>

\* A session's own transcript, one of its subagents, which is nested below the session, and a
\* session of another root.
TurnLogs == {"own", "nested", "synced"}
SessionOf == [own |-> "s1", nested |-> "s1", synced |-> "s2"]
ProjectOf == [own |-> "p1", nested |-> "p1", synced |-> "p2"]

RecapTypeOK ==
  /\ hour \in 0..MaxHour /\ \A f \in TurnLogs : logs[f] \subseteq [turn : RecapTurns, ts : 0..MaxHour]
  /\ recap.place \in {"rest", "read", "merge", "done"} /\ recap.todo \subseteq TurnLogs

NoRecap == [place |-> "rest", until |-> 0, todo |-> {}, seen |-> {}, shares |-> {}, active |-> {},
         tokens |-> 0, cost |-> 0, unpriced |-> FALSE, sessions |-> {}, merged |-> {}]

RecapInit ==
  /\ hour = 0 /\ logs = [f \in TurnLogs |-> {}] /\ mtime = [f \in TurnLogs |-> 0]
  /\ recap = NoRecap /\ atStart = {}

-----------------------------------------------------------------------------
(* Sessions write; a line repeats a turn when its answer is streamed in chunks, or when a session
   is resumed in another transcript, with its old timestamps *)

RecapTick == hour < MaxHour /\ hour' = hour + 1 /\ UNCHANGED <<logs, mtime, recap, atStart>>

RecapLines == UNION {logs[f] : f \in TurnLogs}
LineCount == Cardinality(logs["own"]) + Cardinality(logs["nested"]) + Cardinality(logs["synced"])

WriteTurn(f, turn, ts, lag) ==
  /\ LineCount < MaxChunks
  /\ ts = hour \/ [turn |-> turn, ts |-> ts] \in RecapLines
  /\ lag > 0 => f = "synced" /\ lag <= MtimeSkew
  /\ logs' = [logs EXCEPT ![f] = @ \union {[turn |-> turn, ts |-> ts]}]
  /\ mtime' = [mtime EXCEPT ![f] = hour - lag]
  /\ UNCHANGED <<hour, recap, atStart>>

-----------------------------------------------------------------------------
(* build_recap *)

\* resolve_window, and the transcripts that may hold a line of it.
MayHold(f, since) == logs[f] # {} /\ mtime[f] >= since - MtimeSkew

StartRecap ==
  /\ recap.place = "rest" /\ atStart' = RecapLines
  /\ recap' = [NoRecap EXCEPT !.place = "read", !.until = hour,
                           !.todo = {f \in TurnLogs : MayHold(f, hour - WindowSpan)}]
  /\ UNCHANGED <<hour, logs, mtime>>

InWindow(line) == line.ts <= recap.until /\ line.ts >= recap.until - WindowSpan

\* A turn that was seen in this transcript or an earlier one is not counted again.
\* Faulty variant: a turn is recognised only within its transcript.
NewOfTranscript(f) == {line.turn : line \in {l \in logs[f] : InWindow(l)}}
NewTurns(f) == NewOfTranscript(f) \ recap.seen

\* A transcript that cannot be read adds nothing.  The time of nested ones is not the owner's.
ReadTranscript(f) ==
  /\ recap.place = "read" /\ f \in recap.todo
  /\ LET new == NewTurns(f)
         share == [session |-> SessionOf[f], project |-> ProjectOf[f], log |-> f, turns |-> new]
     IN  recap' = [recap EXCEPT !.todo = @ \ {f}, !.seen = @ \union new, !.shares = @ \union {share},
                     !.active = IF f = "nested" THEN @ ELSE @ \union {l.ts : l \in {k \in logs[f] : InWindow(k)}},
                     !.tokens = @ + SumSet(new)]
  /\ UNCHANGED <<hour, logs, mtime, atStart>>

\* The tokens of a session are those of all its transcripts.
SharedTokens(shares) == SumFunction([sh \in shares |-> SumSet(sh.turns)])
SessionRows(shares, machine) ==
  {[machine |-> machine, session |-> s, tokens |-> SharedTokens({sh \in shares : sh.session = s})] :
     s \in {sh.session : sh \in shares}}

\* The first rows by their tokens, of equal ones the earlier machine's.
Larger(o, r) ==
  \/ o.tokens > r.tokens
  \/ o.tokens = r.tokens /\ o.machine < r.machine
  \/ o.tokens = r.tokens /\ o.machine = r.machine /\ o.session = "s1" /\ r.session = "s2"
Top(rows) == {r \in rows : Cardinality({o \in rows : Larger(o, r)}) < TopN}

\* Every model has a price here, or none has.
Rollup(priced) ==
  /\ recap.place = "read" /\ recap.todo = {}
  /\ recap' = [recap EXCEPT !.place = "merge",
                            !.cost = IF priced THEN recap.tokens ELSE Unknown,
                            !.unpriced = ~priced /\ recap.tokens > 0,
                            !.sessions = Top(SessionRows(recap.shares, 0))]
  /\ UNCHANGED <<hour, logs, mtime, atStart>>

-----------------------------------------------------------------------------
(* merge_recap: the machines come in the order of their names *)

MergedCost(x, y) == IF Unknown \in {x, y} THEN Unknown ELSE x + y

MergeRemote(remote) ==
  /\ recap.place = "merge" /\ \A r \in recap.merged : r.machine < remote.machine
  /\ recap' = [recap EXCEPT !.merged = @ \union {remote}, !.tokens = @ + remote.tokens,
                 !.cost = MergedCost(recap.cost, remote.cost), !.unpriced = @ \/ remote.unpriced,
                 !.sessions = Top(recap.sessions \union remote.sessions)]
  /\ UNCHANGED <<hour, logs, mtime, atStart>>

AnswerRecap ==
  /\ recap.place = "merge" /\ recap' = [recap EXCEPT !.place = "done"]
  /\ UNCHANGED <<hour, logs, mtime, atStart>>

AskAgain == recap.place = "done" /\ recap' = NoRecap /\ atStart' = {} /\ UNCHANGED <<hour, logs, mtime>>

RecapNext ==
  \/ RecapTick \/ StartRecap \/ AnswerRecap \/ AskAgain
  \/ \E f \in TurnLogs, turn \in RecapTurns, ts \in 0..MaxHour, lag \in 0..MtimeSkew :
       WriteTurn(f, turn, ts, lag)
  \/ \E f \in TurnLogs : ReadTranscript(f)
  \/ \E priced \in BOOLEAN : Rollup(priced)
  \/ \E remote \in Remotes : MergeRemote(remote)

RecapSpec == RecapInit /\ [][RecapNext]_recapVars

-----------------------------------------------------------------------------
(* Properties *)

\* What the machines that were merged pushed, and the rows of all sessions.
MergedTokens == SumFunction([r \in recap.merged |-> r.tokens])
AllRows == SessionRows(recap.shares, 0) \union UNION {r.sessions : r \in recap.merged}

\* A recap is that of the instant the request began, although the transcripts grow under it: it
\* counts every turn of the window that was written by then, none from outside, and each once,
\* whatever transcripts hold it; the rows of the sessions are the largest of all the machines'; and
\* a cost is a number only when no machine found the model without a price.
RecapIsOfItsWindow ==
  recap.place = "done" =>
    LET counted == recap.seen IN
    /\ {l.turn : l \in {k \in atStart : InWindow(k)}} \subseteq counted
    /\ \A t \in counted : \E l \in RecapLines : l.turn = t /\ InWindow(l)
    /\ recap.tokens = SumSet(counted) + MergedTokens
    /\ recap.sessions = Top(AllRows)
    /\ recap.cost # Unknown => ~recap.unpriced
=============================================================================
