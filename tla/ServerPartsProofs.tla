------------------------- MODULE ServerPartsProofs -------------------------
(***************************************************************************)
(* What the parts of the server guarantee by themselves holds in the       *)
(* server, whatever the other parts do meanwhile.                          *)
(***************************************************************************)
EXTENDS ServerParts, AuthorizationProofs, OperationsProofs, CollectorsProofs, ReadersProofs

-----------------------------------------------------------------------------
(* A part in the server *)

\* No part touches what another one knows.
LEMMA PartsStayApart ==
  ASSUME [PartsNext]_partsVars
  PROVE  /\ [AuthzNext]_allVars /\ [HttpNext]_httpVars /\ [OpsNext]_opsVars
         /\ [WorkflowNext]_workflowVars /\ [HandoffNext]_handoffVars /\ [PhoneNext]_phoneVars
         /\ [PollNext]_pollVars /\ [PrNext]_prVars /\ [KbNext]_kbVars /\ [MarksNext]_marksVars
         /\ [ScanNext]_scanVars /\ [CodexNext]_codexVars /\ [FloorNext]_floorVars
         /\ [HistoryNext]_historyVars /\ [OfficeScanNext]_officeScanVars /\ [CockpitNext]_cockpitVars
         /\ [HooksNext]_hooksVars /\ [RecapNext]_recapVars /\ [BridgeNext]_bridgeVars
         /\ [TranscriptNext]_transcriptVars /\ [BoardNext]_boardVars
<1>1. CASE LogPart BY <1>1 DEF LogPart, Only
<1>2. CASE ScanPart BY <1>2 DEF ScanPart, Only
<1>3. CASE CodexPart BY <1>3 DEF CodexPart, Only
<1>4. CASE PollPart BY <1>4 DEF PollPart, Only
<1>5. CASE CockpitPart BY <1>5 DEF CockpitPart, Only
<1>6. CASE TranscriptPart BY <1>6 DEF TranscriptPart, Only
<1>7. CASE BoardPart BY <1>7 DEF BoardPart, Only
<1>8. CASE OpsPart BY <1>8 DEF OpsPart, Only
<1>9. CASE MarksPart BY <1>9 DEF MarksPart, Only
<1>10. CASE KbPart BY <1>10 DEF KbPart, Only
<1>11. CASE PullsPart BY <1>11 DEF PullsPart, Only
<1>12. CASE BridgePart BY <1>12 DEF BridgePart, Only
<1>13. CASE FloorPart BY <1>13 DEF FloorPart, Only
<1>14. CASE OfficePart BY <1>14 DEF OfficePart, Only
<1>15. CASE HttpPart BY <1>15 DEF HttpPart, Only
<1>16. CASE WorkflowPart BY <1>16 DEF WorkflowPart, Only
<1>17. CASE PhonePart BY <1>17 DEF PhonePart, Only
<1>18. CASE HandoffPart BY <1>18 DEF HandoffPart, Only
<1>19. CASE ShowcasePart BY <1>19 DEF ShowcasePart, Only
<1>20. CASE HooksPart BY <1>20 DEF HooksPart, Only
<1>21. CASE HistoryPart BY <1>21 DEF HistoryPart, Only
<1>22. CASE RecapPart BY <1>22 DEF RecapPart, Only
<1>23. CASE UNCHANGED partsVars BY <1>23 DEF partsVars
<1> QED BY <1>1, <1>2, <1>3, <1>4, <1>5, <1>6, <1>7, <1>8, <1>9, <1>10, <1>11, <1>12,
         <1>13, <1>14, <1>15, <1>16, <1>17, <1>18, <1>19, <1>20, <1>21, <1>22, <1>23, Zenon DEF PartsNext

\* So the server, seen from one of them, is that part.
LEMMA PartsAreThemselves ==
  /\ PartsSpec => AuthzSpec
  /\ PartsSpec => HttpSpec
  /\ PartsSpec => OpsSpec
  /\ PartsSpec => WorkflowSpec
  /\ PartsSpec => HandoffSpec
  /\ PartsSpec => PhoneSpec
  /\ PartsSpec => PollSpec
  /\ PartsSpec => PrSpec
  /\ PartsSpec => KbSpec
  /\ PartsSpec => MarksSpec
  /\ PartsSpec => ScanSpec
  /\ PartsSpec => CodexSpec
  /\ PartsSpec => FloorSpec
  /\ PartsSpec => HistorySpec
  /\ PartsSpec => OfficeScanSpec
  /\ PartsSpec => CockpitSpec
  /\ PartsSpec => HooksSpec
  /\ PartsSpec => RecapSpec
  /\ PartsSpec => BridgeSpec
  /\ PartsSpec => TranscriptSpec
  /\ PartsSpec => BoardSpec
<1>1. PartsInit => /\ AuthzInit /\ HttpInit /\ OpsInit /\ WorkflowInit /\ HandoffInit
                   /\ PhoneInit /\ PollInit /\ PrInit /\ KbInit /\ MarksInit
                   /\ ScanInit /\ CodexInit /\ FloorInit /\ HistoryInit /\ OfficeScanInit
                   /\ CockpitInit /\ HooksInit /\ RecapInit /\ BridgeInit
                   /\ TranscriptInit /\ BoardInit
  BY DEF PartsInit
<1>2. [PartsNext]_partsVars => [AuthzNext]_allVars BY PartsStayApart
<1>3. [PartsNext]_partsVars => [HttpNext]_httpVars BY PartsStayApart
<1>4. [PartsNext]_partsVars => [OpsNext]_opsVars BY PartsStayApart
<1>5. [PartsNext]_partsVars => [WorkflowNext]_workflowVars BY PartsStayApart
<1>6. [PartsNext]_partsVars => [HandoffNext]_handoffVars BY PartsStayApart
<1>7. [PartsNext]_partsVars => [PhoneNext]_phoneVars BY PartsStayApart
<1>8. [PartsNext]_partsVars => [PollNext]_pollVars BY PartsStayApart
<1>9. [PartsNext]_partsVars => [PrNext]_prVars BY PartsStayApart
<1>10. [PartsNext]_partsVars => [KbNext]_kbVars BY PartsStayApart
<1>11. [PartsNext]_partsVars => [MarksNext]_marksVars BY PartsStayApart
<1>12. PartsSpec => AuthzSpec BY <1>1, <1>2, PTL DEF PartsSpec, AuthzSpec
<1>13. PartsSpec => HttpSpec BY <1>1, <1>3, PTL DEF PartsSpec, HttpSpec
<1>14. PartsSpec => OpsSpec BY <1>1, <1>4, PTL DEF PartsSpec, OpsSpec
<1>15. PartsSpec => WorkflowSpec BY <1>1, <1>5, PTL DEF PartsSpec, WorkflowSpec
<1>16. PartsSpec => HandoffSpec BY <1>1, <1>6, PTL DEF PartsSpec, HandoffSpec
<1>17. PartsSpec => PhoneSpec BY <1>1, <1>7, PTL DEF PartsSpec, PhoneSpec
<1>18. PartsSpec => PollSpec BY <1>1, <1>8, PTL DEF PartsSpec, PollSpec
<1>19. PartsSpec => PrSpec BY <1>1, <1>9, PTL DEF PartsSpec, PrSpec
<1>20. PartsSpec => KbSpec BY <1>1, <1>10, PTL DEF PartsSpec, KbSpec
<1>21. PartsSpec => MarksSpec BY <1>1, <1>11, PTL DEF PartsSpec, MarksSpec
<1>22. [PartsNext]_partsVars => [ScanNext]_scanVars BY PartsStayApart
<1>23. [PartsNext]_partsVars => [CodexNext]_codexVars BY PartsStayApart
<1>24. PartsSpec => ScanSpec BY <1>1, <1>22, PTL DEF PartsSpec, ScanSpec
<1>25. PartsSpec => CodexSpec BY <1>1, <1>23, PTL DEF PartsSpec, CodexSpec
<1>26. [PartsNext]_partsVars => [FloorNext]_floorVars BY PartsStayApart
<1>27. [PartsNext]_partsVars => [HistoryNext]_historyVars BY PartsStayApart
<1>28. [PartsNext]_partsVars => [OfficeScanNext]_officeScanVars BY PartsStayApart
<1>29. PartsSpec => FloorSpec BY <1>1, <1>26, PTL DEF PartsSpec, FloorSpec
<1>30. PartsSpec => HistorySpec BY <1>1, <1>27, PTL DEF PartsSpec, HistorySpec
<1>31. PartsSpec => OfficeScanSpec BY <1>1, <1>28, PTL DEF PartsSpec, OfficeScanSpec
<1>32. [PartsNext]_partsVars => [CockpitNext]_cockpitVars BY PartsStayApart
<1>33. PartsSpec => CockpitSpec BY <1>1, <1>32, PTL DEF PartsSpec, CockpitSpec
<1>34. [PartsNext]_partsVars => [HooksNext]_hooksVars BY PartsStayApart
<1>35. PartsSpec => HooksSpec BY <1>1, <1>34, PTL DEF PartsSpec, HooksSpec
<1>36. [PartsNext]_partsVars => [RecapNext]_recapVars BY PartsStayApart
<1>37. PartsSpec => RecapSpec BY <1>1, <1>36, PTL DEF PartsSpec, RecapSpec
<1>38. [PartsNext]_partsVars => [BridgeNext]_bridgeVars BY PartsStayApart
<1>39. PartsSpec => BridgeSpec BY <1>1, <1>38, PTL DEF PartsSpec, BridgeSpec
<1>40. [PartsNext]_partsVars => [TranscriptNext]_transcriptVars BY PartsStayApart
<1>41. PartsSpec => TranscriptSpec BY <1>1, <1>40, PTL DEF PartsSpec, TranscriptSpec
<1>42. [PartsNext]_partsVars => [BoardNext]_boardVars BY PartsStayApart
<1>43. PartsSpec => BoardSpec BY <1>1, <1>42, PTL DEF PartsSpec, BoardSpec
<1> QED BY <1>12, <1>13, <1>14, <1>15, <1>16, <1>17, <1>18, <1>19, <1>20, <1>21, <1>24, <1>25,
         <1>29, <1>30, <1>31, <1>33, <1>35, <1>37, <1>39, <1>41, <1>43

-----------------------------------------------------------------------------
(* In the server *)

\* With any number of request threads, a grant a command may still take answers a recent block of
\* its own gate by a hook of the second version (ops_authorize), whatever else the server does.
THEOREM GrantsFreshInServer == PartsSpec => []GrantIsFresh
<1>1. PartsSpec => AuthzSpec BY PartsAreThemselves
<1>2. AuthzSpec => []GrantIsFresh BY GrantsAreFresh
<1> QED BY <1>1, <1>2, PTL

\* With one request thread on the cache of the log, what it returns is the end of the file
\* (_delete_file_rows), and a block lets one command through for each time it was authorized.
THEOREM LogInServer ==
  ASSUME NEW p, Readers = {p}
  PROVE  PartsSpec => []RowsAreTheTail /\ []OneBlockOneCommand
<1>1. PartsSpec => AuthzSpec BY PartsAreThemselves
<1>2. AuthzSpec => []RowsAreTheTail BY RowsReachTheEnd
<1>3. AuthzSpec => []OneBlockOneCommand BY OneCommandPerBlock
<1> QED BY <1>1, <1>2, <1>3, PTL

\* An operation ran only for a page that this run of the server had sent (do_POST, the token).
THEOREM OperationsInServer == PartsSpec => []OperationsAreOfThisRun
<1>1. PartsSpec => HttpSpec BY PartsAreThemselves
<1>2. HttpSpec => [](HttpTypeOK /\ OperationsAreOfThisRun) BY OperationsHavePages
<1> QED BY <1>1, <1>2, PTL

\* What a kill ends was listed as killable, or its pid was used again since; and no kept listing
\* shows it once the kill was answered (ops_kill, list_services).
THEOREM KillsInServer == PartsSpec => []KillsAreJustified
<1>1. PartsSpec => OpsSpec BY PartsAreThemselves
<1>2. OpsSpec => []KillsAreJustified BY KillsWereListed
<1> QED BY <1>1, <1>2, PTL

\* What the page asked of the workflow host is done at most once, on the instance it had inspected,
\* through all the repeats of the client's threads.
THEOREM WorkInServer == PartsSpec => []WorkIsDoneOnce
<1>1. PartsSpec => WorkflowSpec BY PartsAreThemselves
<1>2. WorkflowSpec => []WorkIsDoneOnce BY WorkOnce
<1> QED BY <1>1, <1>2, PTL

\* What a cleared context held is in its hand-off note, through second taps and ended scripts.
THEOREM HandoffInServer == PartsSpec => []ClearedIsNoted
<1>1. PartsSpec => HandoffSpec BY PartsAreThemselves
<1>2. HandoffSpec => []ClearedIsNoted BY ContextIsNoted
<1> QED BY <1>1, <1>2, PTL

\* What the phone is told of a session it asked for is so, and the session runs once.
THEOREM PhoneInServer == PartsSpec => []PhoneIsToldTheTruth
<1>1. PartsSpec => PhoneSpec BY PartsAreThemselves
<1>2. PhoneSpec => []PhoneIsToldTheTruth BY TruthOnThePhone
<1> QED BY <1>1, <1>2, PTL

\* What the pages show of sessions, of the dispatch poll, of the pull requests and of the knowledge
\* base was so, and a row of the hooks' log is announced again only for a lapse: the guarantees of
\* the collectors and their caches, together.
THEOREM PagesInServer ==
  PartsSpec => [](RowsAreOfTheSession /\ FlagIsHonest /\ CardIsHonest /\ CountersWereSo /\ AnnouncedOnce)
<1>1. PartsSpec => ScanSpec BY PartsAreThemselves
<1>2. PartsSpec => CodexSpec BY PartsAreThemselves
<1>3. PartsSpec => PollSpec BY PartsAreThemselves
<1>4. PartsSpec => PrSpec BY PartsAreThemselves
<1>5. PartsSpec => KbSpec BY PartsAreThemselves
<1>6. PartsSpec => MarksSpec BY PartsAreThemselves
<1>7. ScanSpec => []RowsAreOfTheSession BY RowsAreTheSessions
<1>8. CodexSpec => []FlagIsHonest BY FlagWasHonest
<1>9. PollSpec => []CardIsHonest BY CalmCardsAreHonest
<1>10. PrSpec => []ShownWasSo BY PullsWereSo
<1>11. KbSpec => []ShownIsRecent BY CountsWereRecent
<1>12. MarksSpec => []AnnouncedOnce BY RowsAnnouncedOnce
<1>13. ShownIsRecent /\ ShownWasSo => CountersWereSo BY DEF CountersWereSo
<1> QED BY <1>1, <1>2, <1>3, <1>4, <1>5, <1>6, <1>7, <1>8, <1>9, <1>10, <1>11, <1>12, <1>13, PTL

\* What the office draws was seen less than the debounce before, and a point of the source's curve
\* whose day is over is the commit of that day for good: whatever the other threads do meanwhile.
THEOREM OfficeInServer == PartsSpec => [](DrawnWasSeen /\ PastPointsStay)
<1>1. PartsSpec => FloorSpec BY PartsAreThemselves
<1>2. PartsSpec => HistorySpec BY PartsAreThemselves
<1>3. FloorSpec => []DrawnWasSeen BY FiguresWereSeen
<1>4. HistorySpec => [](HistoryTypeOK /\ PastPointsStay) BY CurveStays
<1> QED BY <1>1, <1>2, <1>3, <1>4, PTL

\* A card of the cockpit shows what was so of its session while the request ran, and a session is left
\* out for a reason; a row a far machine pushed was so between the begin of its push and its landing.
THEOREM ListingsInServer == PartsSpec => []ListingsWereSo
<1>1. PartsSpec => CockpitSpec BY PartsAreThemselves
<1>2. PartsSpec => OfficeScanSpec BY PartsAreThemselves
<1>3. CockpitSpec => []CardsWereSo BY CardsAreSo
<1>4. OfficeScanSpec => [](OfficeScanTypeOK /\ RowsWereSo) BY PushedRowsWereSo
<1>5. CardsWereSo /\ RowsWereSo => ListingsWereSo BY DEF ListingsWereSo
<1> QED BY <1>1, <1>2, <1>3, <1>4, <1>5, PTL

\* What is read of a file that others write is a whole: a recap counts each turn of its window once
\* (recap.py), a row of the bridge's log is shown, cut off by the cap or was bad (bridge_status), a
\* walk back over a transcript shows every turn (session_transcript), and a ticket's units are the
\* gaps it names (handoff_units).
THEOREM ReadersInServer ==
  PartsSpec => [](RecapIsOfItsWindow /\ RowsAreAccountedFor /\ WalkIsComplete /\ UnitsAreTheGaps)
<1>1. PartsSpec => RecapSpec BY PartsAreThemselves
<1>2. PartsSpec => BridgeSpec BY PartsAreThemselves
<1>3. PartsSpec => TranscriptSpec BY PartsAreThemselves
<1>4. PartsSpec => BoardSpec BY PartsAreThemselves
<1>5. RecapSpec => [](RecapTypeOK /\ RecapIsOfItsWindow) BY RecapCounts
<1>6. BridgeSpec => [](BridgeTypeOK /\ RowsAreAccountedFor) BY BridgeAccounts
<1>7. TranscriptSpec => [](TranscriptTypeOK /\ WalkIsComplete) BY WalksAreComplete
<1>8. BoardSpec => []UnitsAreTheGaps BY BoardRollsUpTheGaps
<1> QED BY <1>1, <1>2, <1>3, <1>4, <1>5, <1>6, <1>7, <1>8, PTL

\* Every part keeps its types, and no cache, queue or ring outgrows its cap.
THEOREM TypesInServer == PartsSpec => []PartTypes
<1>1. PartsSpec => []AuthzTypeOK
  <2>1. PartsSpec => AuthzSpec BY PartsAreThemselves
  <2>2. AuthzSpec => []AuthzTypeOK BY AuthorizationTypes
  <2> QED BY <2>1, <2>2, PTL
<1>2. PartsSpec => []ScanTypeOK
  <2>1. PartsSpec => ScanSpec BY PartsAreThemselves
  <2>2. ScanSpec => []ScanTypeOK BY ScanIsTyped
  <2> QED BY <2>1, <2>2, PTL
<1>3. PartsSpec => []CodexTypeOK
  <2>1. PartsSpec => CodexSpec BY PartsAreThemselves
  <2>2. CodexSpec => []CodexTypeOK BY CodexIsTyped
  <2> QED BY <2>1, <2>2, PTL
<1>4. PartsSpec => []PollTypeOK
  <2>1. PartsSpec => PollSpec BY PartsAreThemselves
  <2>2. PollSpec => []PollTypeOK BY PollIsTyped
  <2> QED BY <2>1, <2>2, PTL
<1>5. PartsSpec => []CockpitTypeOK
  <2>1. PartsSpec => CockpitSpec BY PartsAreThemselves
  <2>2. CockpitSpec => []CockpitTypeOK BY CockpitIsTyped
  <2> QED BY <2>1, <2>2, PTL
<1>6. PartsSpec => []TranscriptTypeOK
  <2>1. PartsSpec => TranscriptSpec BY PartsAreThemselves
  <2>2. TranscriptSpec => [](TranscriptTypeOK /\ WalkIsComplete) BY WalksAreComplete
  <2> QED BY <2>1, <2>2, PTL
<1>7. PartsSpec => []OpsTypeOK
  <2>1. PartsSpec => OpsSpec BY PartsAreThemselves
  <2>2. OpsSpec => []OpsTypeOK BY OpsAreTyped
  <2> QED BY <2>1, <2>2, PTL
<1>8. PartsSpec => []MarksTypeOK
  <2>1. PartsSpec => MarksSpec BY PartsAreThemselves
  <2>2. MarksSpec => []MarksTypeOK BY MarksAreTyped
  <2> QED BY <2>1, <2>2, PTL
<1>9. PartsSpec => []KbTypeOK
  <2>1. PartsSpec => KbSpec BY PartsAreThemselves
  <2>2. KbSpec => []KbTypeOK BY CounterIsTyped
  <2> QED BY <2>1, <2>2, PTL
<1>10. PartsSpec => []PrTypeOK
  <2>1. PartsSpec => PrSpec BY PartsAreThemselves
  <2>2. PrSpec => []PrTypeOK BY PullsAreTyped
  <2> QED BY <2>1, <2>2, PTL
<1>11. PartsSpec => []BridgeTypeOK
  <2>1. PartsSpec => BridgeSpec BY PartsAreThemselves
  <2>2. BridgeSpec => [](BridgeTypeOK /\ RowsAreAccountedFor) BY BridgeAccounts
  <2> QED BY <2>1, <2>2, PTL
<1>12. PartsSpec => []FloorTypeOK
  <2>1. PartsSpec => FloorSpec BY PartsAreThemselves
  <2>2. FloorSpec => []FloorTypeOK BY FloorIsTyped
  <2> QED BY <2>1, <2>2, PTL
<1>13. PartsSpec => []OfficeScanTypeOK
  <2>1. PartsSpec => OfficeScanSpec BY PartsAreThemselves
  <2>2. OfficeScanSpec => [](OfficeScanTypeOK /\ RowsWereSo) BY PushedRowsWereSo
  <2> QED BY <2>1, <2>2, PTL
<1>14. PartsSpec => []HttpTypeOK
  <2>1. PartsSpec => HttpSpec BY PartsAreThemselves
  <2>2. HttpSpec => [](HttpTypeOK /\ OperationsAreOfThisRun) BY OperationsHavePages
  <2> QED BY <2>1, <2>2, PTL
<1>15. PartsSpec => []WorkflowTypeOK
  <2>1. PartsSpec => WorkflowSpec BY PartsAreThemselves
  <2>2. WorkflowSpec => []WorkflowTypeOK BY WorkIsTyped
  <2> QED BY <2>1, <2>2, PTL
<1>16. PartsSpec => []PhoneTypeOK
  <2>1. PartsSpec => PhoneSpec BY PartsAreThemselves
  <2>2. PhoneSpec => []PhoneTypeOK BY PhoneIsTyped
  <2> QED BY <2>1, <2>2, PTL
<1>17. PartsSpec => []HandoffTypeOK
  <2>1. PartsSpec => HandoffSpec BY PartsAreThemselves
  <2>2. HandoffSpec => []HandoffTypeOK BY HandoffIsTyped
  <2> QED BY <2>1, <2>2, PTL
<1>18. PartsSpec => []HooksTypeOK
  <2>1. PartsSpec => HooksSpec BY PartsAreThemselves
  <2>2. HooksSpec => []HooksTypeOK BY InventoryIsTyped
  <2> QED BY <2>1, <2>2, PTL
<1>19. PartsSpec => []HistoryTypeOK
  <2>1. PartsSpec => HistorySpec BY PartsAreThemselves
  <2>2. HistorySpec => [](HistoryTypeOK /\ PastPointsStay) BY CurveStays
  <2> QED BY <2>1, <2>2, PTL
<1>20. PartsSpec => []RecapTypeOK
  <2>1. PartsSpec => RecapSpec BY PartsAreThemselves
  <2>2. RecapSpec => [](RecapTypeOK /\ RecapIsOfItsWindow) BY RecapCounts
  <2> QED BY <2>1, <2>2, PTL
<1>21. /\ AuthzTypeOK /\ ScanTypeOK /\ CodexTypeOK /\ PollTypeOK /\ CockpitTypeOK
       /\ TranscriptTypeOK /\ OpsTypeOK /\ MarksTypeOK /\ KbTypeOK /\ PrTypeOK
       /\ BridgeTypeOK /\ FloorTypeOK /\ OfficeScanTypeOK /\ HttpTypeOK /\ WorkflowTypeOK
       /\ PhoneTypeOK /\ HandoffTypeOK /\ HooksTypeOK /\ HistoryTypeOK /\ RecapTypeOK
       => PartTypes
  BY Zenon DEF PartTypes
<1> QED BY <1>1, <1>2, <1>3, <1>4, <1>5, <1>6, <1>7, <1>8, <1>9, <1>10,
         <1>11, <1>12, <1>13, <1>14, <1>15, <1>16, <1>17, <1>18, <1>19, <1>20, <1>21, PTL
=============================================================================
