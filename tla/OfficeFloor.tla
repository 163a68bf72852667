---------------------------- MODULE OfficeFloor ----------------------------
(***************************************************************************)
(* The office page shows what every session is doing (enrich_office_rows). *)
(* A poll reads the tail of the transcript, in which a tool call stands    *)
(* until its result is appended, and turns it into a kind of work, a room  *)
(* and a phase of a council.  Calls are short and far between compared to  *)
(* a poll, so what was seen last is shown for some seconds more.  Every    *)
(* request polls in a thread of its own, with the time it took when it     *)
(* began.                                                                  *)
(***************************************************************************)
EXTENDS Integers, FiniteSets

CONSTANTS
  Debounce,  \* _WORK_KIND_DEBOUNCE_S
  BridgeTtl, \* _COUNCIL_BRIDGE_TTL
  MaxMoment, \* bound on the clock
  Pollers    \* the threads that poll

ASSUME FloorAssumption == {Debounce, BridgeTtl} \subseteq Nat \ {0} /\ MaxMoment \in Nat

VARIABLES
  moment,
  liveTail,  \* the last tool call of the tail and whether it has its result
  asking,    \* the session waits for its user
  helper,    \* the bridge has a helper running
  workCache, \* _WORK_KIND_CACHE of the session
  bridge,    \* _council_bridge_cache
  poll,      \* the time each poll began with, Never if it is none
  figure,    \* what the last poll drew
  seenAt,    \* the last time a poll saw each detail of work, none for standby (history)
  goneAt     \* the last time no helper ran (history)

floorVars == <<moment, liveTail, asking, helper, workCache, bridge, poll, figure, seenAt, goneAt>>

\* The calls as their target tells them apart: none yet, an edit of a document, any other edit or
\* command (one that runs tests has a detail of its own and is otherwise the same), and the
\* command that calls the council.
Tools == {"none", "docs", "code", "council"}
Never == -1
NoFigure == [kind |-> "none", detail |-> "none", now |-> 0, phase |-> "none"]

FloorTypeOK ==
  /\ moment \in 0..MaxMoment /\ liveTail \in [tool : Tools, done : BOOLEAN]
  /\ asking \in BOOLEAN /\ helper \in BOOLEAN
  /\ workCache.kind \in {"unknown", "working", "standby"}
  /\ figure.phase \in {"none", "await_user", "wait", "integrate"}

FloorInit ==
  /\ moment = 0 /\ liveTail = [tool |-> "none", done |-> TRUE] /\ asking = FALSE /\ helper = FALSE
  /\ workCache = [kind |-> "unknown", at |-> 0, detail |-> "none"]
  /\ bridge = [at |-> Never, running |-> FALSE]
  /\ poll = [p \in Pollers |-> Never] /\ figure = NoFigure
  /\ seenAt = [d \in {"none", "docs", "code"} |-> Never]
  /\ goneAt = 0

-----------------------------------------------------------------------------
(* The session, the bridge and the clock *)

FloorTick ==
  /\ moment < MaxMoment /\ moment' = moment + 1
  /\ goneAt' = IF helper THEN goneAt ELSE moment'
  /\ UNCHANGED <<liveTail, asking, helper, workCache, bridge, poll, figure, seenAt>>

CallTool(t) ==
  /\ liveTail.done /\ ~asking /\ liveTail' = [tool |-> t, done |-> FALSE]
  /\ UNCHANGED <<moment, asking, helper, workCache, bridge, poll, figure, seenAt, goneAt>>

ToolResult ==
  /\ ~liveTail.done /\ liveTail' = [liveTail EXCEPT !.done = TRUE]
  /\ UNCHANGED <<moment, asking, helper, workCache, bridge, poll, figure, seenAt, goneAt>>

AskUser ==
  /\ liveTail.done /\ asking' = ~asking
  /\ UNCHANGED <<moment, liveTail, helper, workCache, bridge, poll, figure, seenAt, goneAt>>

\* A council's helper outlives the call that started it.
HelperRuns ==
  /\ helper' = ~helper /\ (~helper => liveTail.tool = "council")
  /\ goneAt' = moment
  /\ UNCHANGED <<moment, liveTail, asking, workCache, bridge, poll, figure, seenAt>>

-----------------------------------------------------------------------------
(* A poll *)

BeginPoll(p) ==
  /\ poll[p] = Never /\ poll' = [poll EXCEPT ![p] = moment]
  /\ UNCHANGED <<moment, liveTail, asking, helper, workCache, bridge, figure, seenAt, goneAt>>

OfficeWorkDetail(t) == IF t = "council" THEN "code" ELSE t

\* _debounced_work_kind, under its lock.  Faulty variant: the kind is held, its detail is not.
HeldWithoutDetail(sighted, now) ==
  IF workCache.kind \notin {"unknown", sighted.kind} /\ now - workCache.at < Debounce
  THEN [workCache EXCEPT !.detail = "none"] ELSE [kind |-> sighted.kind, at |-> now, detail |-> sighted.detail]
Debounced(sighted, now) ==
  IF workCache.kind \notin {"unknown", sighted.kind} /\ now - workCache.at < Debounce
  THEN workCache ELSE [kind |-> sighted.kind, at |-> now, detail |-> sighted.detail]

\* The bridge is asked once for all rows of some seconds.
HelperAsOf(now) ==
  IF bridge.at # Never /\ now - bridge.at \in 0..(BridgeTtl - 1) THEN bridge
  ELSE [at |-> now, running |-> helper]

\* claude_live_tail: the newest call of a tool, and no result newer than it.
UnderWay == liveTail.tool # "none" /\ ~liveTail.done

\* _council_state: the session's user comes first, then a call or a helper that is under way.
CouncilPhase(detail, running) ==
  IF liveTail.tool # "council" THEN "none"
  ELSE IF asking THEN "await_user"
  ELSE IF UnderWay \/ running THEN "wait"
  ELSE IF detail # "code" THEN "integrate" ELSE "none"

FloorLater(a, b) == IF a > b THEN a ELSE b

\* _work_kind_for_local and _council_state: a call under way is work; the kind and the detail
\* shown are the debounced ones.
FinishPoll(p) ==
  /\ poll[p] # Never
  /\ LET now == poll[p]
         sighted == [kind |-> IF UnderWay THEN "working" ELSE "standby",
                     detail |-> IF UnderWay THEN OfficeWorkDetail(liveTail.tool) ELSE "none"]
         held == Debounced(sighted, now)
         detail == IF held.kind = "working" THEN held.detail ELSE "none"
         consult == liveTail.tool = "council" /\ ~asking /\ liveTail.done
         answered == IF consult THEN HelperAsOf(now) ELSE bridge
     IN  /\ workCache' = held /\ bridge' = answered
         /\ figure' = [kind |-> held.kind, detail |-> detail, now |-> now,
                       phase |-> CouncilPhase(detail, consult /\ answered.running)]
         /\ seenAt' = [seenAt EXCEPT ![sighted.detail] = FloorLater(@, now)]
  /\ poll' = [poll EXCEPT ![p] = Never]
  /\ UNCHANGED <<moment, liveTail, asking, helper, goneAt>>

FloorNext ==
  \/ FloorTick \/ \E t \in Tools \ {"none"} : CallTool(t)
  \/ ToolResult \/ AskUser \/ HelperRuns
  \/ \E p \in Pollers : BeginPoll(p) \/ FinishPoll(p)

FloorSpec == FloorInit /\ [][FloorNext]_floorVars

-----------------------------------------------------------------------------
(* Properties *)

\* What is drawn was seen a moment ago: work always comes with the detail that says which room,
\* and was seen by a poll that began less than Debounce before, and a council
\* is said to integrate only if its call is over and no helper ran at some time that recent.
DrawnWasSeen ==
  figure.kind # "none" =>
    /\ figure.kind = "working" => figure.detail # "none"
    /\ seenAt[figure.detail] > figure.now - Debounce
    /\ figure.phase = "integrate" => goneAt > figure.now - BridgeTtl
=============================================================================
