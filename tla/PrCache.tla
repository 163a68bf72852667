------------------------------ MODULE PrCache ------------------------------
(***************************************************************************)
(* The open pull requests of the account and what each is stuck on         *)
(* (collect_github_prs), and the dispatch threads their heads came from    *)
(* (collect_codex_pr_provenance).  Request threads read them on demand and *)
(* keep them for some time in a cache without a lock.  They come from a    *)
(* call that takes long and may fail; a failed one shows the last good     *)
(* answer again, marked as stale.                                          *)
(***************************************************************************)
EXTENDS Integers, FiniteSets, TLC

CONSTANTS
  PrTtl,       \* the larger of poll_seconds and _PR_CACHE_TTL_FLOOR
  Pulls,       \* what GitHub may say of a pull request: its head, whether it merges and its
               \* checks; it may not have computed yet whether it merges, and a repository may
               \* have no checks
  PullThreads, \* what the local dispatch thread may be: its commit, on the branch of the pull
               \* request or another, or None
  MaxInstant,  \* bound on the clock
  MaxAsks,     \* bound on the requests
  Callers      \* the threads that ask

ASSUME PrAssumption == PrTtl \in Nat \ {0} /\ {MaxInstant, MaxAsks} \subseteq Nat

VARIABLES
  instant,
  pull,     \* the pull request as GitHub has it, None when it is closed
  thread,   \* the commit a local dispatch thread is on, None without one
  asksMade, \* the requests so far
  prCache,  \* _PR_CACHE
  caller,   \* what each thread is at
  lastSo    \* the last instant each state of it was so (history)

prVars == <<instant, pull, thread, asksMade, prCache, caller, lastSo>>

None == [none |-> TRUE]
Nothing == [available |-> FALSE, stale |-> FALSE, checked |-> -1, rows |-> {}]
NoCache == [ts |-> 0, data |-> None]
Waiting == [at |-> "idle"]

PrTypeOK ==
  /\ instant \in 0..MaxInstant /\ pull \in Pulls \union {None}
  /\ prCache.ts \in 0..MaxInstant
  /\ \A c \in Callers : caller[c].at \in {"idle", "asked", "listing", "listed", "refused",
                                      "pulls", "matched"}

PrInit ==
  /\ instant = 0 /\ pull \in Pulls \union {None} /\ asksMade = 0
  /\ thread \in PullThreads /\ prCache = NoCache /\ caller = [c \in Callers |-> Waiting]
  /\ lastSo = [p \in Pulls \union {None} |-> IF p = pull THEN 0 ELSE -1]

-----------------------------------------------------------------------------
(* GitHub *)

PrTick ==
  /\ instant < MaxInstant /\ instant' = instant + 1
  /\ lastSo' = [lastSo EXCEPT ![pull] = instant']
  /\ UNCHANGED <<pull, thread, asksMade, prCache, caller>>

PullMoves(new) ==
  /\ new # pull /\ pull' = new /\ lastSo' = [lastSo EXCEPT ![new] = instant]
  /\ UNCHANGED <<instant, thread, asksMade, prCache, caller>>

-----------------------------------------------------------------------------
(* The pull requests *)

\* A conflict blocks whatever the checks say, a failed check blocks before a running one, and
\* what is not known yet is not guessed.
PrState(p) ==
  LET red    == p.checks \in {"FAILURE", "ERROR"}
      amber  == p.checks \in {"PENDING", "EXPECTED"}
      clash  == p.merges = "CONFLICTING"
  IN  CASE clash                      -> "conflict"
        [] ~clash /\ red              -> "ci_fail"
        [] ~clash /\ amber            -> "ci"
        [] ~(clash \/ red \/ amber)   -> IF p.merges = "MERGEABLE" THEN "ready" ELSE "unknown"

PullRow(p) == [head |-> p.head, state |-> PrState(p)]

\* What a refresh gives: the account as GitHub answered, dated by the time the request began
\* with, or after a failure the last good answer marked as stale.
Good(now, p) ==
  [available |-> TRUE, stale |-> FALSE, checked |-> now, rows |-> IF p = None THEN {} ELSE {PullRow(p)}]
Failed(cached) ==
  IF cached # None /\ cached.available THEN [cached EXCEPT !.stale = TRUE] ELSE Nothing

Step(c, state) ==
  /\ caller' = [caller EXCEPT ![c] = state]
  /\ UNCHANGED <<instant, pull, thread, asksMade, lastSo>>

\* Every request reads config.json: whether the pull requests are enabled, with a scope there is.
AskPulls(c, enabled) ==
  /\ caller[c].at = "idle" /\ asksMade < MaxAsks /\ asksMade' = asksMade + 1
  /\ caller' = [caller EXCEPT ![c] = [at |-> "asked", now |-> instant, enabled |-> enabled,
                                      cached |-> prCache.data]]
  /\ UNCHANGED <<instant, pull, thread, lastSo, prCache>>

\* The time of the cache is read after its answer.
DecidePulls(c) ==
  LET own == caller[c] IN
  /\ own.at = "asked"
  /\ \/ /\ own.cached # None /\ own.now - prCache.ts < PrTtl
        /\ Step(c, [at |-> "pulls", answer |-> own.cached]) /\ UNCHANGED prCache
     \/ /\ own.cached = None \/ own.now - prCache.ts >= PrTtl
        /\ IF own.enabled
           THEN Step(c, [own EXCEPT !.at = "listing"]) /\ UNCHANGED prCache
           ELSE Step(c, [at |-> "pulls", answer |-> Nothing]) /\ prCache' = [ts |-> own.now, data |-> Nothing]

GitHubAnswers(c) ==
  LET own == caller[c] IN
  /\ own.at = "listing" /\ UNCHANGED prCache
  /\ \/ Step(c, [own EXCEPT !.at = "listed", !.cached = [read |-> pull]])
     \/ Step(c, [own EXCEPT !.at = "refused"])

StorePulls(c) ==
  LET own == caller[c]
      out == IF own.at = "listed" THEN Good(own.now, own.cached.read) ELSE Failed(own.cached)
  IN  /\ own.at \in {"listed", "refused"}
      /\ prCache' = [ts |-> own.now, data |-> out] /\ Step(c, [at |-> "pulls", answer |-> out])

\* The thread a head came from, by repository, branch and commit alone; without the three
\* nothing can be said.
Match(row) ==
  CASE thread = None -> "unverifiable"
    [] thread # None /\ ~thread.sameBranch -> "unverifiable"
    [] thread # None /\ thread.sameBranch -> IF thread.sha = row.head THEN "verified" ELSE "stale"

\* Rows that are stale are matched with nothing.
Provenance(answer) ==
  IF ~answer.available \/ answer.stale THEN {}
  ELSE {[head |-> row.head, proof |-> Match(row)] : row \in answer.rows}

MatchThreads(c) ==
  /\ caller[c].at = "pulls" /\ UNCHANGED prCache
  /\ Step(c, [at |-> "matched", answer |-> caller[c].answer, proofs |-> Provenance(caller[c].answer)])

LeaveCache(c) ==
  /\ caller[c].at \in {"pulls", "matched"}
  /\ Step(c, Waiting) /\ UNCHANGED prCache

PrNext ==
  \/ PrTick
  \/ \E p \in Pulls \union {None} : PullMoves(p)
  \/ \E c \in Callers, on \in BOOLEAN : AskPulls(c, on)
  \/ \E c \in Callers : DecidePulls(c) \/ GitHubAnswers(c) \/ StorePulls(c) \/ MatchThreads(c) \/ LeaveCache(c)

PrSpec == PrInit /\ [][PrNext]_prVars

-----------------------------------------------------------------------------
(* Properties *)

\* What is shown was so at GitHub at some time since the date it carries, however many refreshes
\* failed or overtook each other meanwhile, and a head is attributed to a thread only as of then.
ShownWasSo ==
  \A c \in Callers : caller[c].at \in {"pulls", "matched"} /\ caller[c].answer.available =>
    \E p \in Pulls \union {None} :
      /\ lastSo[p] >= caller[c].answer.checked
      /\ caller[c].answer.rows = Good(0, p).rows
      /\ caller[c].at = "matched" /\ ~caller[c].answer.stale =>
           \A proof \in caller[c].proofs : proof.proof = "verified" =>
             p # None /\ thread # None /\ p.head = thread.sha
=============================================================================
