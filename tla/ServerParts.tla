---------------------------- MODULE ServerParts ----------------------------
(***************************************************************************)
(* The parts of the server that keep what they know to themselves: caches, *)
(* collectors, operations, the phone's conversation and the pages' routes. *)
(* No variable of one is read or written by another, so an invariant of    *)
(* one holds in the server if it holds of the one by itself: focus says    *)
(* which of them a behaviour is about, and the others rest.                *)
(***************************************************************************)
EXTENDS Authorization, SessionScan, CodexSource, CodexPoll, Cockpit, Transcript, HandoffBoard,
        ServiceOps, AlertMarks, KbCounter, PrCache, BridgeLog, OfficeFloor, OfficeScan,
        HttpServer, WorkflowClient, PhoneControl, HandoffRun, Showcase, HooksScan,
        HooksHistory, Recap

VARIABLE focus

partsVars ==
  <<focus, allVars, scanVars, codexVars, pollVars, cockpitVars, transcriptVars, boardVars,
    opsVars, marksVars, kbVars, prVars, bridgeVars, floorVars, officeScanVars, httpVars,
    workflowVars, phoneVars, handoffVars, showVars, hooksVars, historyVars, recapVars>>

Parts ==
  {"log", "scan", "codex", "poll", "cockpit", "transcript", "board", "ops", "marks", "kb",
   "pulls", "bridge", "floor", "office", "http", "workflow", "phone", "handoff", "showcase",
   "hooks", "history", "recap"}

\* A part that rests starts in one of its initial states.
Rests(part) == focus # part

PartsInit ==
  /\ focus \in Parts
  /\ AuthzInit
  /\ ScanInit
  /\ CodexInit
  /\ PollInit /\ (Rests("poll") => setup.present)
  /\ CockpitInit /\ (Rests("cockpit") => ide = Away)
  /\ TranscriptInit
  /\ BoardInit /\ (Rests("board") => ticket = CHOOSE t \in Tickets : TRUE)
  /\ OpsInit
  /\ MarksInit
  /\ KbInit
  /\ PrInit /\ (Rests("pulls") => pull = None /\ thread = CHOOSE t \in PullThreads : TRUE)
  /\ BridgeInit /\ bridgeRecord = CHOOSE b \in [BridgeLogs -> BridgeRecords] : IsInjective(b)
  /\ FloorInit
  /\ OfficeScanInit
  /\ HttpInit /\ (Rests("http") => keyword = NoToken)
  /\ WorkflowInit /\ instance = (CHOOSE i \in Instances : TRUE)  \* the instances are alike
  /\ (Rests("workflow") => settings.pin = Unpinned /\ settings.command)
  /\ PhoneInit /\ (Rests("phone") => roots = <<>> /\ speaks)
  /\ HandoffInit /\ (Rests("handoff") => named)
  /\ ShowInit
  /\ HooksInit /\ (Rests("hooks") => ~deployed.optedOut)
  /\ HistoryInit
  /\ RecapInit

\* The others rest.
Only(part) ==
  /\ UNCHANGED focus
  /\ IF part = "log" THEN TRUE ELSE UNCHANGED allVars
  /\ IF part = "scan" THEN TRUE ELSE UNCHANGED scanVars
  /\ IF part = "codex" THEN TRUE ELSE UNCHANGED codexVars
  /\ IF part = "poll" THEN TRUE ELSE UNCHANGED pollVars
  /\ IF part = "cockpit" THEN TRUE ELSE UNCHANGED cockpitVars
  /\ IF part = "transcript" THEN TRUE ELSE UNCHANGED transcriptVars
  /\ IF part = "board" THEN TRUE ELSE UNCHANGED boardVars
  /\ IF part = "ops" THEN TRUE ELSE UNCHANGED opsVars
  /\ IF part = "marks" THEN TRUE ELSE UNCHANGED marksVars
  /\ IF part = "kb" THEN TRUE ELSE UNCHANGED kbVars
  /\ IF part = "pulls" THEN TRUE ELSE UNCHANGED prVars
  /\ IF part = "bridge" THEN TRUE ELSE UNCHANGED bridgeVars
  /\ IF part = "floor" THEN TRUE ELSE UNCHANGED floorVars
  /\ IF part = "office" THEN TRUE ELSE UNCHANGED officeScanVars
  /\ IF part = "http" THEN TRUE ELSE UNCHANGED httpVars
  /\ IF part = "workflow" THEN TRUE ELSE UNCHANGED workflowVars
  /\ IF part = "phone" THEN TRUE ELSE UNCHANGED phoneVars
  /\ IF part = "handoff" THEN TRUE ELSE UNCHANGED handoffVars
  /\ IF part = "showcase" THEN TRUE ELSE UNCHANGED showVars
  /\ IF part = "hooks" THEN TRUE ELSE UNCHANGED hooksVars
  /\ IF part = "history" THEN TRUE ELSE UNCHANGED historyVars
  /\ IF part = "recap" THEN TRUE ELSE UNCHANGED recapVars

LogPart == focus = "log" /\ AuthzNext /\ Only("log")
ScanPart == focus = "scan" /\ ScanNext /\ Only("scan")
CodexPart == focus = "codex" /\ CodexNext /\ Only("codex")
PollPart == focus = "poll" /\ PollNext /\ Only("poll")
CockpitPart == focus = "cockpit" /\ CockpitNext /\ Only("cockpit")
TranscriptPart == focus = "transcript" /\ TranscriptNext /\ Only("transcript")
BoardPart == focus = "board" /\ BoardNext /\ Only("board")
OpsPart == focus = "ops" /\ OpsNext /\ Only("ops")
MarksPart == focus = "marks" /\ MarksNext /\ Only("marks")
KbPart == focus = "kb" /\ KbNext /\ Only("kb")
PullsPart == focus = "pulls" /\ PrNext /\ Only("pulls")
BridgePart == focus = "bridge" /\ BridgeNext /\ Only("bridge")
FloorPart == focus = "floor" /\ FloorNext /\ Only("floor")
OfficePart == focus = "office" /\ OfficeScanNext /\ Only("office")
HttpPart == focus = "http" /\ HttpNext /\ Only("http")
WorkflowPart == focus = "workflow" /\ WorkflowNext /\ Only("workflow")
PhonePart == focus = "phone" /\ PhoneNext /\ Only("phone")
HandoffPart == focus = "handoff" /\ HandoffNext /\ Only("handoff")
ShowcasePart == focus = "showcase" /\ ShowNext /\ Only("showcase")
HooksPart == focus = "hooks" /\ HooksNext /\ Only("hooks")
HistoryPart == focus = "history" /\ HistoryNext /\ Only("history")
RecapPart == focus = "recap" /\ RecapNext /\ Only("recap")

PartsNext ==
  \/ LogPart \/ ScanPart \/ CodexPart \/ PollPart \/ CockpitPart \/ TranscriptPart
  \/ BoardPart \/ OpsPart \/ MarksPart \/ KbPart \/ PullsPart \/ BridgePart \/ FloorPart
  \/ OfficePart \/ HttpPart \/ WorkflowPart \/ PhonePart \/ HandoffPart \/ ShowcasePart
  \/ HooksPart \/ HistoryPart \/ RecapPart

PartsSpec == PartsInit /\ [][PartsNext]_partsVars

-----------------------------------------------------------------------------
(* Properties *)

\* The types of the part a behaviour is about, and of each cache, queue and ring that it does not
\* outgrow its cap.
PartTypes ==
  CASE focus = "log" -> AuthzTypeOK
    [] focus = "scan" -> ScanTypeOK
    [] focus = "codex" -> CodexTypeOK
    [] focus = "poll" -> PollTypeOK
    [] focus = "cockpit" -> CockpitTypeOK
    [] focus = "transcript" -> TranscriptTypeOK
    [] focus = "ops" -> OpsTypeOK
    [] focus = "marks" -> MarksTypeOK
    [] focus = "kb" -> KbTypeOK
    [] focus = "pulls" -> PrTypeOK
    [] focus = "bridge" -> BridgeTypeOK
    [] focus = "floor" -> FloorTypeOK
    [] focus = "office" -> OfficeScanTypeOK
    [] focus = "http" -> HttpTypeOK
    [] focus = "workflow" -> WorkflowTypeOK
    [] focus = "phone" -> PhoneTypeOK
    [] focus = "handoff" -> HandoffTypeOK
    [] focus = "hooks" -> HooksTypeOK
    [] focus = "history" -> HistoryTypeOK
    [] focus = "recap" -> RecapTypeOK
    [] OTHER -> TRUE

\* The two snapshots of the pages' counters, of the knowledge base and of the pull requests: each
\* shows what was so within its time to live, though threads refresh them side by side.
CountersWereSo == ShownIsRecent /\ ShownWasSo

\* The two listings of sessions, of this machine's cockpit and of a far machine's push: what they
\* say of a session was so while they were made, and what they leave out was not to be in them.
ListingsWereSo == CardsWereSo /\ RowsWereSo
=============================================================================
