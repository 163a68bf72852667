# AI session monitor: models, checks and proofs

`monitor.py` is a dashboard server for AI coding sessions: it reads the traces
that Claude, Codex and other command-line agents leave on a machine, shows them
in a browser, tells the owner's phone when a session stops or asks something,
shows the sessions of other machines, and lets the owner act from the dashboard
or the phone.  This directory holds TLA+ models of the parts of it that keep
state, read what others are writing, or act on what may have changed; the TLC
configurations that check them; and TLAPS proofs that most of what the runs check
holds for every value of the constants.

## 1. Inventory

One process, a `ThreadingHTTPServer` with six daemon threads (`main`): the alert
loop, the relay puller, the Telegram poller, the remote command executor, the
hooks snapshot loop and the Codex ledger poll.  Every HTTP request and many
Telegram commands get threads of their own.  They share `_state/monitor.db`
(SQLite, one writer at a time, five seconds of waiting), files under `_state/`,
and module-level caches, most of them without locks.

| Component | State | Operations | Talks to | What is hard | What makes it right |
|---|---|---|---|---|---|
| Command channel (`command.py`, `command_drop.py`, `cmd_executor_loop`, `_run_remote_command_async`) | `cmd/` and `ack/` files in a synced folder, table `executed_commands` | publish, validate, run once, ack, poll, collect | other machines through Syncthing | redelivery, stale pass clock, crash between run and record, skewed clocks | a command runs only where it is addressed, no more often than is paid for by lost records; acks tell the truth |
| Office relay (`office_push.py`, `office.py`, `_office_pull_once`, `load_office_snapshot`) | ntfy topic, `_state/office/<machine>.json` and its mtime | scan, push, poll, show | ntfy | rows read while sessions write; loss, replay, delay, failing writes, clocks | a row was so while it was read; replays change nothing, the newest wins, an old snapshot stops being shown as running |
| Alert engine (`update_and_alert`, `detect_and_notify_flips`, `detect_and_offer_handoff`, `alert_executed_deletes`, `alert_authz_pending`) | tables `sessions`, `mode_flips`, `handoff_offers`; two watermark files | one cycle of four stages, one round per watermark | session collectors, Telegram, ntfy | message sent before it is remembered, cooldown, failing cycles, a post that is tried twice | each change is announced, once, and a standing wait is never swallowed |
| Delete log and authorization (`_delete_file_rows`, `ops_authorize`) | `hook_block_history.jsonl`, `_DELETE_CACHE`, grant files | read the tail, list pending, grant | shell hooks in other processes | torn lines, rotation, unlocked cache, decision on a log that moved on | rows are the tail of the log; a grant is paid for by a block |
| Preset launch (`ops_launch_preset`, `_run_launch_preset_async`) | table `spawns`, session registry | request, spawn, bind | terminal, Claude's session files, SQLite lock | resent requests, restarts, lock time-outs, late sessions | no agent opened twice, rows bind to their own session, every row settles |
| Telegram control (`tg_poll_loop`, `_tg_handle_callback`, `_tg_handle_message`, `ops_handoff`, `ops_showcase_*`) | `tg_offset.json`, Telegram's queue, tabs, lock files, a git repository | poll, handle, save; open, close, switch, hand over, deploy | Telegram, PowerShell scripts in terminal tabs, git | restart inside a batch, second poller, two taps, the user typing meanwhile, scripts ended by a timeout | nothing lost, repeats paid for; the phone is told what is so; a cleared context is in its note |
| Codex dispatch poll (`codex_poll_loop`, `codex_poll_snapshot`) | `codex_poll.json` | sweep when due, read back | external script, ledger | failing sweeps, unwritten records, changed settings | the card never claims what was not seen |
| Codex source (`collect_codex`, `_codex_db_*`) | probe cache, source flag | probe, read, show | Codex's databases and index | an upgrade under the probe, one broken root of two | the flag says where the rows came from and what is broken |
| Session collectors (`collect_claude`, `cockpit_cards`, `session_detail`, `session_transcript`) | task cache | scan, list, page back | transcripts, markers | files that grow between two reads | what is shown was so at some instant of the pass |
| Office enrichment (`enrich_office_rows`, `_work_kind_for`, `_council_phase`) | `_WORK_KIND_CACHE`, bridge cache | poll | transcripts | short calls, threads with older clocks | what is drawn was seen a moment ago |
| CLI bridge (`collect_cli_bridge`) | `_cli_recent_cache` | list, screen, parse | logs of a dispatcher | logs written, pruned and replaced by links meanwhile | nothing dropped silently, nothing foreign shown |
| PR and knowledge-base caches (`collect_github_prs`, `collect_kb_today`) | `_PR_CACHE`, `_KB_CACHE` | refresh when due | `gh`, git | refreshes side by side, failing ones | an answer is not older than it claims |
| Services and tasks (`list_services`, `ops_kill`, `ops_task`) | `_svc_cache` | list, kill, run | operating system | pid reuse, a listing kept over a kill | only what was listed as killable is killed |
| Handoff board (`collect_handoff`) | none | classify, count, list | tickets | examples in code, nested sections | units are the gaps of the ticket |
| HTTP server (`do_GET`, `do_POST`, configuration, token) | CSRF token of the run | guard, route | all of the above | old pages after a restart, a configuration being edited | an operation runs only for a page of this run |
| Workflow client (`workflow_client.py`, `ui/workflows.js`) | request kept by the page | inspect, make, repeat, resolve | external service | an answer unknown after a timeout, another instance behind the same host | work is done once, where it was meant |
| Hooks audit (`hooks_audit.py`) | source index, history file, daily snapshots | scan, walk history, snapshot | git, deployed hooks | files vanish while they are judged, merges with old dates | a past day's point stays; "divergent" means never in the source |
| Recap (`recap.py`) | none | build, merge | transcripts, far machines | transcripts grow, turns repeated in two files | every turn of the window once |
| User interface pages, desktop tools | none | - | - | - | - |

`PROJECT.json` lists the same components with what is modelled of each, and under
`hazards` the places in the code where something can go wrong that a test would
hardly reach, with the properties that cover them.

## 2. Modules

### Specifications with runs of their own

| Module | Models | How it corresponds to the code |
|---|---|---|
| `RemoteControl` | what a phone user is promised of a remote command | abstract: asked, performed once, told once |
| `CommandChannel` (`MCCommandChannel`, `CommandChannelProofs`) | the command channel | a pass of `process_pending` is `StartPass`, then per file `Reject`, `Reack`, or `Dispatch` / `Record` / `AckRun` (the three places a crash can fall between), then `EndPass`, which is `gc`; the hub thread is `Publish`, `HubPoll`, `HubGiveUp`; Syncthing is `Deliver` and `DeliverAck` |
| `AlertEngine` (`MCAlertEngine`, `AlertEngineProofs`) | the alert loop | `StartCycle`, `Handle` per row, `Commit` per stage, `Raise`; `News` is what a stage sends, `Stored` what it writes |
| `ServerThreads` (`ServerThreadsProofs`) | the three threads below, one at a time | `focus` says which part a behaviour is about |
| `TgPoll` | the Telegram poller | `Load`, `PollAnswered` / `PollRefused` / `PollFailed`, `Handle` per update, `Save`; `Raise` is the `except` of the loop |
| `OfficeRelay` | the relay | `Push` is `push_once`, `Pull` is `_office_pull_once` (a poll cut short by a failing write is `Pull` with fewer machines), `IsStale` is the override of `load_office_snapshot` |
| `PresetLaunch` | a preset launch | `Submit` is `ops_launch_preset` up to the start of the thread; `Spawn`, `Note`, `OpenWindow`, `Bind`, `CloseWindow` are the thread; `LockedOut` is an UPDATE that raises |
| `ServerParts` (`MCServerParts`, `ServerPartsProofs`) | the twenty-two parts below, one at a time | as `ServerThreads`; safety only |

### The parts of `ServerParts`

| Module | Models | State and actions, and the code they stand for |
|---|---|---|
| `DeleteLog`, `Authorization` | the incremental reader; requests, grants, hooks | `Look` (stat, open, entry), `Read` (seek and read), `Return` (move the position) are the points of `_delete_file_rows` between which another thread can run; `Ask`, `Decide`, `WriteGrant` are `ops_authorize`; `Block` and `Honour` are the hook, external |
| `AlertMarks` | the two announcers of log rows | `LoadMarks`, `Post` per row, `SaveMarks` of a round; `markEvents`, `marks`, with `Post("late")` the answer that came after the timeout |
| `SessionScan` | the row of a Claude session | `Stat`, `ReadMarker`, `ScanTail`, `StatTasks`, `ParseTasks`, `KeepParse`: the reads of `collect_claude` in their order, the session writing between any two |
| `Cockpit` | `cockpit_cards`, `session_detail` | `AskCards`, `ReadPending`, `ReadBell`, `ReadVendor`, `ReadTask`, `FindIde`, `LookIde`, `CutCards` |
| `Transcript` (`MCTranscript`) | paging a transcript back | `Open`, `Older`, `Close` are requests of `session_transcript`; lines have a length in bytes and a number of turns, `AppendLine`, `BeginLine`, `EndLine` write them |
| `CodexSource` | `collect_codex` | `CodexProbe` (`_codex_db_for` of each root), `CodexRead`, `CodexShow`; `Rewrite` is Codex |
| `CodexPoll` | `codex_poll_loop` and its card | `BeginSweep`, `ScriptEnds`, `ReadBack`, `WriteRecord`; `State` is what the card says |
| `HandoffBoard` | `collect_handoff` | one ticket is written line by line; `TicketProgress`, `HandoffUnits`, `HandoffClassify`, `Listed` are folds and operators on its lines, `CollectHandoff` applies them |
| `ServiceOps` | `list_services`, `ops_kill`, `ops_task` | `AskListing` / `TakeListing` / `KeepListing` / `ShowListing`, `Kill`, `Task`; processes come and go by `StartProcess`, `ExitProcess` |
| `KbCounter`, `PrCache` | the two caches of counters | each refresh is split where another thread can run: look, count or call, stamp, keep |
| `BridgeLog` | `collect_cli_bridge` | `Begin` (list), `Screen`, `Parse`, `FinishRead`, `GiveBack` of each request; `WriteLog`, `SwapForLink` by others |
| `OfficeFloor` | `enrich_office_rows` | `BeginPoll` takes the time, `FinishPoll` reads the tail, debounces and draws; `Debounced`, `UnderWay`, `CouncilPhase` are its helpers |
| `OfficeScan` | what a far machine pushes | `BeginPush`, `StatSeat`, `AskSeat`, `MakeSeatRow`, `SendPush` of `office_push.py`; `Believe` is the check of the signature at home |
| `HttpServer` | `Handler` | `Accept` (parse and load the configuration), `Guards`, then `Operate` or `Route`; `EditConfig`, `EditLocal`, `ServerRestarts` in between |
| `WorkflowClient` | the workflow page and client | `InspectHost`, `MakeRequest`, `RetryRequest`, `ResolveRequest`, `ReloadPage` of the page; `AdmitRequest`, `LookupWork`, `SubmitWork` of the server's thread; the service is external |
| `PhoneControl` | texts and taps | one action per text (`OfferFolders`, `OfferPhrases`, `ListSessions`, `Resume`, `OpenSession`, `CloseSession` with `Click` and `CheckClosed`, `BeginSwitch` / `EndSwitch`), and the thread that opens a session (`Launch`, `TabOpens`, `ConnectSession`) |
| `HandoffRun` | a session handed over to itself | the script step by step: `Tap`, `AskForNote`, `SeeNote`, `ReadIdle`, `Clear`, `TellToRead`, `GiveUp` (an error at any step, or the timeout), `DropLock` |
| `Showcase` | the portfolio from the phone | `Check`, `Preview`, `DeployPage(step)`, where `step` is the one that fails |
| `HooksScan` | the judgement of a deployed hook | `BeginScan` (`_index_cached`), `BuildSourceIndex`, `KeepIndex`, `ListDeployed`, `ReadDeployed`, `JudgeHook` |
| `HooksHistory` | the source curve and the snapshots | `BeginWalk`, `LookUp`, `Walk`, `AbandonWalk`, `SnapshotIfDue` |
| `Recap` | `build_recap`, `merge_recap` | `StartRecap`, `ReadTranscript` per file, `Rollup`, `MergeRemote` per machine, `AnswerRecap` |

Operators named in a comment as a *faulty variant* are not used by a module.  Each
stands beside the operator it is a plausible mistake of, and shows that the
properties notice it: replacing the one by the other violates the property named in
`PROJECT.json` under `mutants`.

The proofs about the parts are in `AuthorizationProofs` (with `DeleteLog`), in
`OperationsProofs` (`HttpServer`, `ServiceOps`, `WorkflowClient`, `HandoffRun`,
`PhoneControl`), in `CollectorsProofs` (`SessionScan`, `CodexSource`, `Cockpit`,
`OfficeFloor`, `HooksScan`, `HooksHistory`, `OfficeScan`, `PrCache`, `CodexPoll`,
`KbCounter`, `AlertMarks`) and in `ReadersProofs` (`Recap`, `BridgeLog`, `Transcript`,
`HandoffBoard`); `ServerPartsProofs` carries all of them over to `ServerParts`.

### Why the parts are checked one at a time

No variable of a part of `ServerParts` or `ServerThreads` is read or written by another
(every module declares its own), and no part waits for another.  A behaviour of all of
them, restricted to the variables of one, is a behaviour of that one with stuttering, so
a property over the variables of one part holds in the composition if it holds while the
others rest.  The product itself would only repeat that at a price no model checker
could pay; what interacts in the code is inside one module.  That each part behaves in
the composition as it does alone is proved of the threads (`ThreadsAreThemselves`) and of
the parts with a proof (`PartsAreThemselves`).  A resting part
keeps one of its initial states, and `PartTypes` states the types of the part a
behaviour is about.

### Abstractions

* A signature is who signed; JSON, HMAC and formatting are left out.  A file that
  is not signed with the shared key is one by a spoke outside `Keyed`.
* Time is a bounded counter.  The scale differs by module and is named there: a
  cycle of the alert loop and an authorization request take no time on the scale of
  the cooldown and the window; in `PresetLaunch` a unit is much longer than the 3 s
  between two lookups, and waiting for the lock (5 s at most) takes no time; in the
  collectors the clock moves with every write, so that no two writes share an mtime.
* A transcript is the records, each with what a reader tells apart: a question, an
  answer, a task call, a turn with a price.  In `Transcript` it is lines with a length,
  since there the arithmetic of the offsets is what can go wrong.
* A log position counts lines.  A file is never empty when it is looked at: for an
  empty file the cache entry would remember an empty prefix, which every later file
  has.
* SQLite: in `AlertEngine` a transaction is a private copy of the tables that
  becomes the tables or is dropped; in `PresetLaunch` there is one write lock, taken
  by the first UPDATE and released by the commit.
* A fresh `CC-<hex>` name of a pane never repeats, and a launch id comes with the
  same agents whenever it is sent (the dashboard makes a new one per click).
* git is its mainline: commits by their dates, the branch merged into it, and what is
  checked out.

## 3. Runs

`tlc -config <run>.cfg <module>` for each run.  Bounds are constants named
`Max...`; the cfg files give them.

| Run | Module | What it checks and shows |
|---|---|---|
| `command_safety` | `MCCommandChannel` | two commands, an executing spoke and the hub, redelivery, one failed pass: acks and reports tell the truth (`AckTruth`, `OkReportMeansRun`), a rejection is final |
| `command_faults` | `MCCommandChannel` | two spokes, one with another key and clocks apart, a restart: only the addressee acts, reruns are paid for, garbage collection is harmless, the channel implements `RemoteControl`; the hub always answers and every delivered command gets its ack (`NothingHangs`) |
| `alert_loop` | `MCAlertEngine` | one local session, four units of time, a cooldown of three, one failing stage: the committed messages are exactly those the committed looks call for (`ChangesAreAnnounced`), the quiet alert is paced but never lost, a standing wait is announced |
| `server_threads` | `ServerThreads` | Telegram poll: two updates, two faults, a rival that comes and goes; relay: loss, one repeat, a clock set back, polls cut short; launch: two requests, one restart, a busy database.  Nothing lost, repeats paid for, demotion only by refusals, snapshots only move forward, no agent opened twice; and with fair threads updates are handled, news arrives, launches settle |
| `server_parts` | `MCServerParts` | the parts of the table above, each with the property named for it below |
| `command_cached_ack` | `MCCommandChannel` | violation: an executed command's ack is overwritten by "expired" |
| `office_false_running` | `OfficeRelay` | violation: a machine that died is shown as running longer than the stale time |
| `alert_once` | `MCAlertEngine` | violation: one stop is alerted twice after a rollback |
| `log_order` | `Authorization` | violation: two readers break the line order of the cache |
| `transcript_stuck` | `MCTranscript` | violation: a record longer than the window hides every turn before it |
| `showcase_unpushed` | `Showcase` | violation: "up to date" is reported of a site whose last push failed |
| `hooks_divergent` | `HooksScan` | violation: a hook of the source branch is called divergent while another commit is checked out |

### The properties of `server_parts`

| Part | Property | In a sentence |
|---|---|---|
| all | `PartTypes` | types, and no cache, ring or queue outgrows its cap |
| delete log | `RowsAreTheTail` | a reader alone returns the end of the log as it looked at it, in line order, over rotation and torn lines |
| authorization | `OneBlockOneCommand` | a command that runs by a grant was paid for by a block of its own; a grant is fresh |
| alert marks | `AnnouncedOnce` | a row is announced again only for a lapse, and a marked one reached the phone |
| session rows | `RowsAreOfTheSession` | a kept parse is that of the file; a row that waits did wait at some instant of its pass |
| cockpit, far scan | `ListingsWereSo` | cards and pushed rows were so while they were made; what is left out had no place |
| transcript | `WalkIsComplete` | a walk back shows no turn twice, and one that arrives has shown every turn but those of a line whose later turns filled a page |
| Codex source | `FlagIsHonest` | a broken root is announced, a time of creation never passes for one of activity |
| Codex poll | `CardIsHonest` | a failed or partial sweep never looks like a quiet day |
| handoff board | `UnitsAreTheGaps` | the fold over lines gives what the structure of the ticket says |
| services | `KillsAreJustified` | a kill ends what was listed as killable, and the next listing shows it |
| counters | `CountersWereSo` | each snapshot was so within its time to live, though refreshes overtake each other |
| CLI bridge | `RowsAreAccountedFor` | each log listed is shown or counted for its reason; extracts are of their log |
| office floor | `DrawnWasSeen` | what is drawn was seen less than the debounce ago, with its detail |
| HTTP | `OperationsAreOfThisRun` | an operation ran only for a page this run of the server had sent |
| workflow | `WorkIsDoneOnce` | a request is done at most once, on the instance that was inspected |
| phone | `PhoneIsToldTheTruth` | what was opened, closed, not opened or locked out is so |
| handover | `ClearedIsNoted` | a cleared context is in its note, over two taps, typing and timeouts |
| hooks history | `PastPointsStay` | a past day's point is the mainline's commit at its noon, whatever is merged later |
| recap | `RecapIsOfItsWindow` | every turn of the window once, sums of all machines, no cost where one is unknown |

### Bounds

The bounds let the interesting cases happen: a command outlives its time to live
and the collector's age inside `MaxTime`, the cooldown fits into the clock with a
unit to spare, the ring of the log is shorter than the log and longer than the
tail, a bind window runs out with time left (the clock of `PresetLaunch` is bounded
only once no window is open).  Caches have a time to live of one and a clock that reaches it, so
that an entry is fresh, kept and expired in turn; each cap is one below what can be
written, so that it cuts; one log at most is replaced by a link (`MaxSwaps`); in `Transcript` there is a line longer than the window and one
with two turns.  The parts with shared caches have two threads, and
one process where two would only repeat each other (`Pollers`, `Senders` and
`Scanners` in this run; `hooks_divergent` has two).  One fault of each kind is
enough for the first deviation from the normal course and two, where they are cheap, for
their combination.  Old daily snapshots are pruned by `SnapshotIfDue`, but the clock of
this run is too short for one to be that old.  The relayed stage of the alert loop
applies the operators of the local one to another set of sessions, and no run
has sessions in that set.  `server_parts` has no deadlock check: a part whose clock and
inputs are used up stops.

### Disagreements between code and comments

The seven violation runs each check a sentence of the source that the code does not
keep; `PROJECT.json` quotes the sentence under `findings`.  The passing runs state
what holds instead: `RunsPaidByLapses` and `AckTruth` beside `command_cached_ack`,
`SnapshotsMoveForward` beside `office_false_running`, `QuietIsPacedNotLost` (over committed
messages) beside `alert_once`, `RowsAreTheTail` (one reader) beside `log_order`,
`WalkIsComplete` (walks that arrive at the beginning) beside `transcript_stuck`, `PastPointsStay` (which
does name the branch) beside `hooks_divergent`.

Three more sentences are weakened in the same way without a run of their own:
`tg_poll_loop` says taps are never replayed on restart, where `RepeatsArePaidFor`
says once per fault; `_run_launch_preset_async` says every terminal state lands in
the row, where `LaunchSettles` excepts a thread lost to a restart or to the lock;
`_http_post` promises at most one delivery, where `AnnouncedOnce` counts an answer that
came too late as a lapse.

### Fairness

* `CommandChannel`: the clock, each hub thread's two actions and each executor loop
  are weakly fair: the loops catch every exception and never end, and the hub
  thread's loop is bounded by its deadline.  Syncthing, failures and restarts owe
  nothing.
* `AlertEngine`: the steps of a cycle and the clock are weakly fair, and a unit of
  time contains a cycle (`poll_seconds` is shorter than the unit).
* `ServerThreads`, relay: a complete poll is weakly fair, because the puller catches
  every exception and polls again.  The topic owes nothing.
* `ServerThreads`, launch: the steps of a thread are strongly fair (it sleeps and goes
  on; when it needs the lock it gets it if the lock comes free again and again),
  `LockedOut`, the end of an alert transaction and the clock weakly.
* `ServerThreads`, Telegram: a round of the loop is weakly fair, whatever the answers
  are: three refusals end it, and failures are counted as faults.

Each fairness condition is on the variables of its own part, so a part that rests owes
nothing.  `ServerParts` has only safety properties and no fairness: its operations end
with their request, and what would make one wait for ever (a subprocess, a socket) has a
timeout in the code.

## 4. Proofs

`CommandChannelProofs` proves for every set of commands and spokes, every skew and
every bound:

* `TypeCorrect`: `TypeOK` is invariant;
* `Invariance`: the strengthening `IInv` is inductive.  `TypeOK` and the properties
  alone are not: that an ack or a hub report tells the truth depends on what a pass
  in progress has in hand.  `IInv` adds what is known at each program counter of a
  pass (a dispatch in progress is of a command addressed to this spoke, which it has
  not recorded; a recorded one is in the ledger with the result in hand), that
  ledger and runs agree, and that acks at the hub came from acks written by a spoke;
* from it `AcksTellTheTruth`, `ReportsAreBacked`, `OthersKeepOut`,
  `RerunsArePaidFor`, and the action properties `RejectionsAreFinal` and
  `GcIsHarmless`;
* `ChannelImplementsRemoteControl`: `Spec` implies `RemoteControl`'s specification
  under the refinement mapping in `CommandChannel` - every step maps to a step of
  the abstract one or to a stutter.

`ServerThreadsProofs` proves of launches, for any agents, requests, restarts and sessions:
`LaunchTypes`, `OnePaneEach`, `BindingsAreOwn` and the action property
`SettledStaysSettled`, from `LaunchIInv`.  What makes the properties inductive is what a
thread knows: up to the window every row of the launch reads "launching" and from then on
the uncommitted copy equals the table (`CommitInv`); a pane is of an agent that is no
longer to be spawned (`PaneInv`); what the thread has still to note or to bind is about
its own panes (`OpenedInv`, `WaitInv`).  `NothingSeenIsGivenUp` (`WindowInv`) has the
hypothesis `BindWindow > 0`: the loop of `_run_launch_preset_async` tests the deadline
before it looks, so with `launch_bind_window_secs` = 0 it gives up rows it never looked for.

It proves of the Telegram poll, for every number of updates, faults and overlaps, of
`TgSafety`, which is `TgSpec` without its fairness:

* `TypesHold`: `TgTypeOK` is invariant.  The one fact about sets it needs, that the
  least update of a batch exists, comes from the well-foundedness of `<` on `Nat`;
* `NothingIsLost` and `RepeatsPaid` from the invariant `PollInv`.  Neither property is
  inductive: between `Handle` and `Save` the thread's own offset is ahead of the file,
  so `PollInv` states both of that offset as well, adds that a batch has no gap above
  the offset (so handling its least update cannot skip one), and that only an update
  the round has already passed may be one ahead of the number of faults;
* `DemotionEarned` from `Streak`: the counter of refusals counts the last answers.

And of the relay, for any machines, windows and clocks,
`FalseRunningEnds` and `SnapshotsAdvance` from `RelayIInv` (a message arrived before now
and a snapshot landed while its message was in the window), and then that the server's
threads are the three modules (`ThreadsAreThemselves`), from which every safety property
of `server_threads` follows for the server.

`AlertEngineProofs` proves `AlertTypesHold`, `EveryChangeIsAnnounced` and
`QuietAlertsArePaced` for any sessions, cooldown and number of failing cycles, from
`AlertIInv`.  The properties speak of committed looks and messages, and a cycle has four
transactions: `OpenOK` says how the private tables, the messages sent and the looks of an
open stage relate to the committed ones, `StageOK` that each stage looks once per cycle,
and `SessionsOK`, `FlipsOK`, `OffersOK` what each table holds of the last committed look.

`AuthorizationProofs` proves `AuthorizationTypes` and `GrantsAreFresh` for any gates,
windows, readers and rotations.  `RowsReachTheEnd` and `OneCommandPerBlock` have the
hypothesis that one thread reads the log (`Readers = {p}`, as in `server_parts`): the cache is
unlocked, and two readers repeat or omit rows, which `log_order` shows.  Their invariant
says that the entry, the position and the rows in the reader's hand are a segment of one
generation of the file, at every point of `_delete_file_rows`.

`OperationsProofs` proves, for any browsers, processes, requests and hosts:

* `OperationsHavePages`: a request past the guards carries this run's token;
* `KillsWereListed`: process numbers only grow, a listing is of the past, and a request
  that is about to keep its listing shows nothing that was ended;
* `WorkOnce`: one payload per key is ever in a page, a call or the service, addressed
  to the host it was inspected at;
* `ContextIsNoted`: each run has a note of its own path, and the note it has seen covers
  the context from its prompt on;
* `TruthOnThePhone`: what a thread has found out about the tab in its hand stays true
  until it says so.

`CollectorsProofs` proves, each for all values of the constants of its module:

* `PullsWereSo`: an answer carries a time at which it was so, whoever refreshed it, and
  `lastSo` of a state only grows;
* `CalmCardsAreHonest`: a sweep holds what the ledger held when it began, and a successful
  one has a verdict on all of it;
* `CountsWereRecent`: each count in a thread's hand is between those of two moments; a
  torn cache (one thread's list under another's time) is excluded, as in the property;
* `RowsAnnouncedOnce`: what a round has posted is not below the saved mark unless it was
  delivered or refused twice, and each delivery beyond the first has its lapse;
* `RowsAreTheSessions`: the clock moves with every write, so an unchanged mtime is an
  unchanged file, also for the parse kept by another pass;
* `FlagWasHonest`: each root's remembered probe agrees with its databases or is younger
  than its time to live;
* `FiguresWereSeen`: what the two memories hold was seen when they say, a helper that
  was not running had ended by then, and work always has its detail;
* `CurveStays`: every point of a walk is the mainline's last commit by that noon as of
  when it was made or since the walk's head was taken, commits only come later than the
  noons that have passed, and what is on the disk was made by such a walk;
* `PushedRowsWereSo`: a row in the making was so at instants since its push began, sessions
  passed over were out of the window then, and an envelope keeps both for good;
* `CardsAreSo`: what a request of the cockpit has read, and each marker it has yet to read,
  agrees with an instant since it began (`GlanceOK`); a session it leaves out had stopped,
  was too old, or had as many newer ones above it as are read or shown.  Where times are
  equal the lists come in any order.

`ReadersProofs` is about the four loops that read a file of any length, each proved for
every file and all values of the constants.  The prover cannot use the library's induction
theorems, which take an operator as a parameter; so induction is said of sets
(`NumbersByInduction`: a set of numbers that holds 0, and with a number the next, holds all),
which follows from the well-foundedness of `<`, and the sum of a finite set
(`SumsExist`) and what a loop holds after each line (`ScanStepByStep`) are got from it.

* `RecapCounts`: what is still to be counted is in a transcript still to be read
  (`TurnsAreFound`), what was counted is added up once in the total and in the rows of its
  session (`TurnsAreAdded`), and the largest rows of two machines are among the largest of
  each (`TopOfTop`), so that lists that were cut can be merged;
* `BridgeAccounts`: the listed logs still to be looked at are newer than none that is
  shown, and the counters and what is still to do add up to what was listed (`ReadCounts`,
  `ReadOrder`); a cache holds under a key only an extract of that key's log, which none of
  the writes of the directory changes;
* `WalksAreComplete`: of every line that ends behind the cursor, as each of its turns, that
  turn or a later one was shown, and what was shown lies behind the cursor
  (`WalkGoesBack`).  The rest is arithmetic of the offsets: they grow with the lines, and
  what is appended moves none of them;
* `BoardRollsUpTheGaps`: after n lines the loop of `handoff_units` is inside of a fence, in
  a gap and in a Status section exactly when the lines up to there say so, its counters say
  which boxes the last gap has, and its units those of the earlier ones (`ScanSays`), by
  induction on n.

`ServerPartsProofs` proves `PartsStayApart` and `PartsAreThemselves`: a step of the server
is a step of one part or a stutter for it, so that all of the above holds in the server
(`OperationsInServer`, `KillsInServer`, `WorkInServer`, `HandoffInServer`, `PhoneInServer`,
`PagesInServer`, `OfficeInServer`, `ListingsInServer`, `ReadersInServer`, `LogInServer`,
`GrantsFreshInServer`).  `TypesInServer` is `PartTypes`: most parts have it from the
invariant of their property (`OpsAreTyped`, `MarksAreTyped` and so on), the hooks scan, of
which no other invariant is checked, from one of its own (`InventoryIsTyped`).

The assumptions are the modules' `ASSUME`s, which TLC evaluates in every run.  Most say
that bounds are natural numbers.  The others: in `CommandChannel` commands are natural
numbers (their order stands for the order of file names), skews are integers, and the
time to live is no longer than the collector's age, as the code's defaults (120 s and
3600 s) have it; in `PresetLaunch` no launch is named like the other holders of the lock,
in `HandoffRun` no run like the free lock, there are finitely many, and a context may grow
by one at least (`MaxWork`, as it holds one thing at first); in `KbCounter`
files are sources or cards; in `Cockpit` there are finitely many sessions, none named like
another vendor's; `HttpServer` has at least one run; in `BridgeLog` a poll may show one
log at least, and a time is a finite number; in `Transcript` windows and pages hold something
and a line has a byte at least, its line break; in `Recap` a far machine's rows are its own and
finitely many, and it sends no cost where it reports a model without a price.

Only model-checked is liveness (`NothingHangs`, `StandingWaitIsAnnounced`,
`UpdateIsHandled`, `NewsArrives`, `LaunchSettles`), which is out of the prover's reach.
Every invariant that a passing run checks is proved.

## 5. Not modelled, and why

* The pages under `ui/` render; what a page may post is in `PresetLaunch`,
  `Authorization`, `WorkflowClient` and `HttpServer`, and the paging of `session.html`
  is in `Transcript`.
* `tools/preflight_ui.py`, `ui_browser_smoke.py`, `office2_zone_liveness.py` and
  `depersonalise.py` run once over the sources and print a verdict: they hold no state
  beside the server, and their detail is patterns of text.
* `collect_authz_grants` derives the state of an old grant from a file that a later
  grant of the same gate replaces; it is a read of one file at a time and changes nothing.
* Subagent trees, token statistics, labels, project names, knowledge-base links,
  totals of hook lines, time distribution and text blocks of the recap: pure functions
  of one file whose detail is text.
* Names, seats, pets and rooms of the office pages, the layout of terminal panes.
* Codex bridge peers, the backup log and the check of an openable path: single reads.
* Telegram, the hooks, Syncthing, git, GitHub, Windows Terminal and the Dispatch service
  are not of this repository; their contract is what the modelled
  code relies on, and they appear as external actions.

What the models leave out of a modelled component is said at its entry in
`PROJECT.json`.

## 6. Plan

Done: the command channel, its refinement and its proofs; alert engine and marks;
the three threads with their liveness and the proofs of all of their safety; the
collectors, caches, operations and conversations of `ServerParts`, and the proofs of
section 4, which cover every invariant of the runs.

Next, in this order:

1. An abstract notifier that announces each change once, implemented by `AlertEngine` up
   to its stray messages; an at-least-once mailbox, implemented by `TgPoll`.
2. The page of old grants, with the audit log `ops_authorize` appends to.
3. A history of the snapshots long enough for pruning, with a clock of its own.
