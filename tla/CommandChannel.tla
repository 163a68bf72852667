--------------------------- MODULE CommandChannel ---------------------------
(***************************************************************************)
(* The remote command channel (command.py, command_drop.py and the two     *)
(* threads of monitor.py that use them).                                   *)
(*                                                                         *)
(* A hub publishes a signed command file into a folder that Syncthing      *)
(* replicates to every spoke.  Each spoke polls its replica in passes:     *)
(* validate, consult the executed-command ledger, dispatch, record, write  *)
(* an ack file; then delete old files.  One hub thread per command polls   *)
(* the ack replica until an ack turns up or its own deadline passes.       *)
(*                                                                         *)
(* A pass reads the folder and the clock once, at its start, and a dispatch*)
(* may take minutes, so everything a pass decides later is decided on a    *)
(* stale folder and a stale clock.  The folder may redeliver a file that   *)
(* was deleted.  A pass may be cut short anywhere, by an exception (the    *)
(* loop swallows it) or by a restart: only the ledger and the files stay.  *)
(***************************************************************************)
EXTENDS Integers, FiniteSets

CONSTANTS
  Cmds,       \* command ids, ordered as their file names sort
  Spokes,     \* machines that run the executor loop on the shared folder
  Keyed,      \* the spokes whose office_cmd_secret is the hub's
  Skew,       \* offset of each spoke's clock from the hub's
  TTL,        \* DEFAULT_TTL_SECS
  AckTimeout, \* cmd_ack_timeout
  GcAge,      \* gc's older_than_secs
  MaxTime,    \* bound on the clock
  MaxErrors,  \* bound on passes cut short by an exception
  MaxRestarts \* bound on spoke restarts

ASSUME CmdsAssumption  == Cmds \subseteq Nat
ASSUME KeyedAssumption == Keyed \subseteq Spokes
ASSUME SkewAssumption  == Skew \in [Spokes -> Int]
ASSUME TimeAssumption  ==
  /\ TTL \in Nat \ {0} /\ AckTimeout \in Nat /\ GcAge \in Nat /\ TTL <= GcAge
  /\ MaxTime \in Nat /\ MaxErrors \in Nat /\ MaxRestarts \in Nat

\* What a dispatch returns; "fail" stands for every result other than "ok".
Results == {"ok", "fail"}

VARIABLES
  now,        \* the hub's clock
  target,     \* target_machine of each command
  wellFormed, \* whether its args pass _validate_args
  issued,     \* issued_at, also the mtime of the command file
  hub,        \* what the hub's thread for the command has done so far
  hubAck,     \* the hub's replica of ack/<cmd_id>.json
  inbox,      \* each spoke's replica of cmd/
  ack,        \* each spoke's replica of ack/
  ackTime,    \* mtime of those ack files, on the spoke's clock
  pc,         \* where each spoke's pass stands
  batch,      \* files the pass has read and not yet handled
  passTime,   \* the clock as the pass read it (0 between passes)
  outcome,    \* result of the dispatch in progress ("none" outside one)
  ledger,     \* executed_commands, per spoke
  errors, restarts,
  runs,       \* history: how often each spoke dispatched each command
  lapsed      \* history: dispatches whose record never happened

hubVars   == <<target, wellFormed, issued, hub, hubAck>>
fileVars  == <<inbox, ack, ackTime>>
passVars  == <<pc, batch, passTime, outcome>>
faultVars == <<errors, restarts>>
vars == <<now, hubVars, fileVars, passVars, ledger, faultVars, runs, lapsed>>

HubStates == {"unsent", "waiting", "ok", "notok", "silent", "lost"}
NoAck == [by |-> "nobody", result |-> "none"]

TypeOK ==
  /\ now \in 0..MaxTime
  /\ target \in [Cmds -> Spokes]
  /\ wellFormed \in [Cmds -> BOOLEAN]
  /\ issued \in [Cmds -> Nat]
  /\ hub \in [Cmds -> HubStates]
  /\ hubAck \in [Cmds -> [by : Spokes, result : Results \cup {"rejected"}] \cup {NoAck}]
  /\ inbox \in [Spokes -> SUBSET Cmds]
  /\ ack \in [Spokes -> [Cmds -> Results \cup {"rejected", "none"}]]
  /\ ackTime \in [Spokes -> [Cmds -> Int]]
  /\ pc \in [Spokes -> {"idle", "scan", "ran", "recorded"}]
  /\ batch \in [Spokes -> SUBSET Cmds]
  /\ passTime \in [Spokes -> Int]
  /\ outcome \in [Spokes -> Results \cup {"none"}]
  /\ ledger \in [Spokes -> [Cmds -> Results \cup {"none"}]]
  /\ errors \in 0..MaxErrors
  /\ restarts \in 0..MaxRestarts
  /\ runs \in [Spokes -> [Cmds -> Nat]]
  /\ lapsed \in [Spokes -> [Cmds -> Nat]]

SpokeNow(s) == now + Skew[s]
Expires(c)  == issued[c] + TTL

\* Faulty variant: the deadline is computed afresh in every turn of the wait.
DeadlineSliding(c) == now + AckTimeout
Deadline(c) == issued[c] + AckTimeout

Init ==
  /\ now = 0
  /\ target \in [Cmds -> Spokes]
  /\ wellFormed \in [Cmds -> BOOLEAN]
  /\ issued = [c \in Cmds |-> 0]
  /\ hub = [c \in Cmds |-> "unsent"]
  /\ hubAck = [c \in Cmds |-> NoAck]
  /\ inbox = [s \in Spokes |-> {}]
  /\ ack = [s \in Spokes |-> [c \in Cmds |-> "none"]]
  /\ ackTime = [s \in Spokes |-> [c \in Cmds |-> 0]]
  /\ pc = [s \in Spokes |-> "idle"]
  /\ batch = [s \in Spokes |-> {}]
  /\ passTime = [s \in Spokes |-> 0]
  /\ outcome = [s \in Spokes |-> "none"]
  /\ ledger = [s \in Spokes |-> [c \in Cmds |-> "none"]]
  /\ errors = 0 /\ restarts = 0
  /\ runs = [s \in Spokes |-> [c \in Cmds |-> 0]]
  /\ lapsed = [s \in Spokes |-> [c \in Cmds |-> 0]]

-----------------------------------------------------------------------------
(* The hub: one thread per command *)

\* make_command and publish_command.  Commands are issued early enough for
\* their deadline to fall inside the bounded clock.
Publish(c) ==
  /\ hub[c] = "unsent" /\ now + AckTimeout <= MaxTime
  /\ hub' = [hub EXCEPT ![c] = "waiting"]
  /\ issued' = [issued EXCEPT ![c] = now]
  /\ UNCHANGED <<now, target, wellFormed, hubAck, fileVars, passVars, ledger,
                 faultVars, runs, lapsed>>

\* Faulty variant: every ack of a run counts as success.
ReportAnyRun(a) == IF a.result # "rejected" THEN "ok" ELSE "notok"
Report(a) == IF a.result = "ok" THEN "ok" ELSE "notok"

\* poll_acks drops an ack the hub's key did not sign.
HubPoll(c) ==
  /\ hub[c] = "waiting" /\ now < Deadline(c)
  /\ hubAck[c].by \in Keyed
  /\ hub' = [hub EXCEPT ![c] = Report(hubAck[c])]
  /\ UNCHANGED <<now, target, wellFormed, issued, hubAck, fileVars, passVars,
                 ledger, faultVars, runs, lapsed>>

HubGiveUp(c) ==
  /\ hub[c] = "waiting" /\ now >= Deadline(c)
  /\ hub' = [hub EXCEPT ![c] = "silent"]
  /\ UNCHANGED <<now, target, wellFormed, issued, hubAck, fileVars, passVars,
                 ledger, faultVars, runs, lapsed>>

\* The waiting threads are daemons: a hub restart ends them without a report.
HubRestart ==
  /\ \E c \in Cmds : hub[c] = "waiting"
  /\ hub' = [c \in Cmds |-> IF hub[c] = "waiting" THEN "lost" ELSE hub[c]]
  /\ UNCHANGED <<now, target, wellFormed, issued, hubAck, fileVars, passVars,
                 ledger, faultVars, runs, lapsed>>

-----------------------------------------------------------------------------
(* Syncthing: delay, overtaking, and redelivery of a deleted file *)

Deliver(s, c) ==
  /\ hub[c] # "unsent" /\ c \notin inbox[s]
  /\ inbox' = [inbox EXCEPT ![s] = @ \cup {c}]
  /\ UNCHANGED <<now, hubVars, ack, ackTime, passVars, ledger, faultVars, runs, lapsed>>

\* The newest version of an ack file replaces the hub's; older ones are skipped.
DeliverAck(s, c) ==
  /\ ack[s][c] # "none" /\ hubAck[c] # [by |-> s, result |-> ack[s][c]]
  /\ hubAck' = [hubAck EXCEPT ![c] = [by |-> s, result |-> ack[s][c]]]
  /\ UNCHANGED <<now, target, wellFormed, issued, hub, fileVars, passVars, ledger,
                 faultVars, runs, lapsed>>

-----------------------------------------------------------------------------
(* The spoke: one pass of process_pending after another *)

\* Faulty variants: the expiry comparison turned round; expiry checked before
\* the addressee; a malformed command passed over without an ack.
VerdictEarly(s, c, t) ==
  IF s \notin Keyed       THEN "bad-signature" ELSE
  IF target[c] # s        THEN "wrong-target"  ELSE
  IF t <= Expires(c)      THEN "expired"       ELSE
  IF ~wellFormed[c]       THEN "bad-args"      ELSE "valid"
VerdictExpiryFirst(s, c, t) ==
  IF s \notin Keyed       THEN "bad-signature" ELSE
  IF t > Expires(c)       THEN "expired"       ELSE
  IF target[c] # s        THEN "wrong-target"  ELSE
  IF ~wellFormed[c]       THEN "bad-args"      ELSE "valid"

\* validate: the order of its checks, on the clock the pass read.
Verdict(s, c, t) ==
  IF s \notin Keyed       THEN "bad-signature" ELSE
  IF target[c] # s        THEN "wrong-target"  ELSE
  IF t > Expires(c)       THEN "expired"       ELSE
  IF ~wellFormed[c]       THEN "bad-args"      ELSE "valid"

StartPass(s) ==
  /\ pc[s] = "idle"
  /\ pc' = [pc EXCEPT ![s] = "scan"]
  /\ batch' = [batch EXCEPT ![s] = inbox[s]]
  /\ passTime' = [passTime EXCEPT ![s] = SpokeNow(s)]
  /\ UNCHANGED <<now, hubVars, fileVars, outcome, ledger, faultVars, runs, lapsed>>

\* Files are handled in the order of their names.
IsNext(s, c) == c \in batch[s] /\ \A d \in batch[s] : c <= d

\* Ledger.seen.  Faulty variants: a failed run is not remembered; nothing is.
SeenOk(s, c) == ledger[s][c] = "ok"
SeenNever(s, c) == FALSE
Seen(s, c) == ledger[s][c] # "none"

WriteAck(s, c, r) ==
  /\ ack' = [ack EXCEPT ![s][c] = r]
  /\ ackTime' = [ackTime EXCEPT ![s][c] = SpokeNow(s)]

Reject(s, c) ==
  /\ pc[s] = "scan" /\ IsNext(s, c)
  /\ Verdict(s, c, passTime[s]) # "valid"
  /\ IF Verdict(s, c, passTime[s]) = "wrong-target"
       THEN UNCHANGED <<ack, ackTime>>
       ELSE WriteAck(s, c, "rejected")
  /\ batch' = [batch EXCEPT ![s] = @ \ {c}]
  /\ UNCHANGED <<now, hubVars, inbox, pc, passTime, outcome, ledger, faultVars,
                 runs, lapsed>>

\* run_once on a command the ledger holds: its cached result is acked again.
Reack(s, c) ==
  /\ pc[s] = "scan" /\ IsNext(s, c)
  /\ Verdict(s, c, passTime[s]) = "valid" /\ Seen(s, c)
  /\ WriteAck(s, c, ledger[s][c])
  /\ batch' = [batch EXCEPT ![s] = @ \ {c}]
  /\ UNCHANGED <<now, hubVars, inbox, pc, passTime, outcome, ledger, faultVars,
                 runs, lapsed>>

\* run_once on a new command: the side effect happens here, the record later.
Dispatch(s, c) ==
  /\ pc[s] = "scan" /\ IsNext(s, c)
  /\ Verdict(s, c, passTime[s]) = "valid" /\ ~Seen(s, c)
  /\ runs' = [runs EXCEPT ![s][c] = @ + 1]
  /\ \E r \in Results : outcome' = [outcome EXCEPT ![s] = r]
  /\ pc' = [pc EXCEPT ![s] = "ran"]
  /\ UNCHANGED <<now, hubVars, fileVars, batch, passTime, ledger, faultVars, lapsed>>

\* Ledger.record.  Faulty variant: the insert is never committed.
RecordedNot(s, c) == ledger
Recorded(s, c) == [ledger EXCEPT ![s][c] = outcome[s]]

Record(s, c) ==
  /\ pc[s] = "ran" /\ IsNext(s, c)
  /\ ledger' = Recorded(s, c)
  /\ pc' = [pc EXCEPT ![s] = "recorded"]
  /\ UNCHANGED <<now, hubVars, fileVars, batch, passTime, outcome, faultVars,
                 runs, lapsed>>

AckRun(s, c) ==
  /\ pc[s] = "recorded" /\ IsNext(s, c)
  /\ WriteAck(s, c, outcome[s])
  /\ batch' = [batch EXCEPT ![s] = @ \ {c}]
  /\ pc' = [pc EXCEPT ![s] = "scan"]
  /\ outcome' = [outcome EXCEPT ![s] = "none"]
  /\ UNCHANGED <<now, hubVars, inbox, passTime, ledger, faultVars, runs, lapsed>>

\* gc follows every complete pass, on a clock read afresh.
\* Faulty variant: a file is old as soon as the command's lifetime is over.
OldAtTTL(s, mtime) == SpokeNow(s) - mtime >= TTL
Old(s, mtime) == SpokeNow(s) - mtime > GcAge

EndPass(s) ==
  /\ pc[s] = "scan" /\ batch[s] = {}
  /\ pc' = [pc EXCEPT ![s] = "idle"]
  /\ inbox' = [inbox EXCEPT ![s] = {c \in @ : ~Old(s, issued[c])}]
  /\ ack' = [ack EXCEPT ![s] =
               [c \in Cmds |-> IF Old(s, ackTime[s][c]) THEN "none" ELSE ack[s][c]]]
  /\ passTime' = [passTime EXCEPT ![s] = 0]
  /\ UNCHANGED <<now, hubVars, ackTime, batch, outcome, ledger, faultVars, runs, lapsed>>

-----------------------------------------------------------------------------
(* Passes cut short *)

DropPass(s) ==
  /\ pc[s] # "idle"
  /\ pc' = [pc EXCEPT ![s] = "idle"]
  /\ batch' = [batch EXCEPT ![s] = {}]
  /\ lapsed' = [lapsed EXCEPT ![s] =
       [c \in Cmds |-> IF pc[s] = "ran" /\ IsNext(s, c) THEN @[c] + 1 ELSE @[c]]]
  /\ passTime' = [passTime EXCEPT ![s] = 0]
  /\ outcome' = [outcome EXCEPT ![s] = "none"]
  /\ UNCHANGED <<now, hubVars, fileVars, ledger, runs>>

\* Any exception ends the pass: the ledger's database locked for more than
\* sqlite's five seconds, an ack file Syncthing holds open, a dispatch that raises.
PassFails(s) ==
  /\ errors < MaxErrors /\ errors' = errors + 1
  /\ DropPass(s) /\ UNCHANGED restarts

SpokeRestart(s) ==
  /\ restarts < MaxRestarts /\ restarts' = restarts + 1
  /\ DropPass(s) /\ UNCHANGED errors

Tick ==
  /\ now < MaxTime
  /\ now' = now + 1
  /\ UNCHANGED <<hubVars, fileVars, passVars, ledger, faultVars, runs, lapsed>>

SpokeStep(s) ==
  \/ StartPass(s) \/ EndPass(s)
  \/ \E c \in Cmds : Reject(s, c) \/ Reack(s, c) \/ Dispatch(s, c) \/ Record(s, c) \/ AckRun(s, c)

Next ==
  \/ Tick
  \/ \E c \in Cmds : Publish(c) \/ HubPoll(c) \/ HubGiveUp(c)
  \/ HubRestart
  \/ \E s \in Spokes, c \in Cmds : Deliver(s, c) \/ DeliverAck(s, c)
  \/ \E s \in Spokes : SpokeStep(s) \/ PassFails(s) \/ SpokeRestart(s)

Spec == Init /\ [][Next]_vars

\* The clock advances, each hub thread and each executor loop keeps running;
\* Syncthing, restarts and errors owe nothing.
Fairness ==
  /\ WF_vars(Tick)
  /\ \A c \in Cmds : WF_vars(HubPoll(c)) /\ WF_vars(HubGiveUp(c))
  /\ \A s \in Spokes : WF_vars(SpokeStep(s))

FairSpec == Spec /\ Fairness

-----------------------------------------------------------------------------
(* What the channel guarantees *)

\* An ack that claims an execution, on the spoke or already replicated to the
\* hub, carries the result the spoke's ledger holds: record comes before the ack,
\* and no later run, redelivery or restart changes what was recorded.
AckTruth ==
  \A c \in Cmds :
    /\ \A s \in Spokes : ack[s][c] \in Results => ledger[s][c] = ack[s][c]
    /\ hubAck[c].result \in Results => ledger[hubAck[c].by][c] = hubAck[c].result

\* "Only-ack-not-proxy": the hub reports success only for a command that its
\* addressee, and nobody else, has run and recorded as ok.
OkReportMeansRun ==
  \A c \in Cmds : hub[c] = "ok" =>
    /\ ledger[target[c]][c] = "ok" /\ runs[target[c]][c] > 0
    /\ \A s \in Spokes \ {target[c]} : runs[s][c] = 0

\* A spoke that shares the key leaves another machine's command alone: it never
\* runs it and never writes an ack that would replace the addressee's, not even
\* when the command is expired or malformed.
OnlyAddresseeActs ==
  \A s \in Keyed, c \in Cmds : target[c] # s => runs[s][c] = 0 /\ ack[s][c] = "none"

\* Exactly-once execution, as far as the code carries it: every dispatch of a
\* command after its first is paid for by an earlier dispatch whose record was
\* lost; without such a loss redelivery and re-scanning never run it twice.
RunsPaidByLapses ==
  \A s \in Spokes, c \in Cmds : runs[s][c] <= 1 + lapsed[s][c]

\* Once a spoke has acked a command as rejected it never runs it, however stale
\* the clock of a later pass or long a dispatch in between.
RejectionIsFinal ==
  [][\A s \in Spokes, c \in Cmds : ack[s][c] = "rejected" => runs'[s][c] = runs[s][c]]_vars

\* The lazy GC never deletes a command its spoke could still run.
GcSparesLive ==
  [][\A s \in Spokes, c \in Cmds :
       c \in inbox[s] /\ c \notin inbox'[s] => SpokeNow(s) > Expires(c)]_vars

\* Every command the hub sends is reported on: by its ack, or as unanswered
\* once the deadline has passed.
HubAlwaysAnswers ==
  \A c \in Cmds : hub[c] = "waiting" ~> hub[c] # "waiting"

\* A command file that reaches its addressee is acked there (or is old enough to
\* be deleted), although passes fail and the commands before it take their time.
DeliveredIsAnswered ==
  \A s \in Keyed, c \in Cmds :
    c \in inbox[s] /\ target[c] = s ~> ack[s][c] # "none" \/ c \notin inbox[s]

\* Nothing is left hanging, neither the user at the hub nor a command at its spoke.
NothingHangs == HubAlwaysAnswers /\ DeliveredIsAnswered

\* The channel implements the remote control a phone user is promised, with the
\* ledger as the record of what was performed.
Remote == INSTANCE RemoteControl
            WITH asked  <- {c \in Cmds : hub[c] # "unsent"},
                 result <- [c \in Cmds |-> ledger[target[c]][c]],
                 told   <- [c \in Cmds |-> IF hub[c] \in {"unsent", "waiting"}
                                             THEN "nothing" ELSE hub[c]]
ImplementsRemoteControl == Remote!Spec

-----------------------------------------------------------------------------
(* What the source says and the code does not keep *)

\* command_drop.py: "A re-synced duplicate file returns the cached ack and
\* re-writes it (idempotent)" - an executed command's ack carries its result.
CachedAckReturned ==
  \A s \in Spokes, c \in Cmds :
    ledger[s][c] # "none" /\ ack[s][c] # "none" => ack[s][c] = ledger[s][c]
=============================================================================
