------------------------ MODULE CommandChannelProofs ------------------------
(***************************************************************************)
(* What CommandChannel guarantees for every set of commands and spokes,    *)
(* every clock skew and every bound.                                       *)
(***************************************************************************)
EXTENDS CommandChannel, TLAPS

\* The types of the constants.
LEMMA SetupTyped ==
  /\ Cmds \subseteq Nat /\ Keyed \subseteq Spokes /\ Skew \in [Spokes -> Int]
  /\ TTL \in Nat \ {0} /\ AckTimeout \in Nat /\ GcAge \in Nat /\ TTL <= GcAge
  /\ MaxTime \in Nat /\ MaxErrors \in Nat /\ MaxRestarts \in Nat
BY CmdsAssumption, KeyedAssumption, SkewAssumption, TimeAssumption

\* One command at most is the next of a pass.
LEMMA NextIsUnique ==
  ASSUME NEW s \in Spokes, NEW c \in Cmds, NEW d \in Cmds, IsNext(s, c), IsNext(s, d)
  PROVE  c = d
BY SetupTyped DEF IsNext

-----------------------------------------------------------------------------
(* Types *)

\* Initial states are well typed.
LEMMA TypeInit == Init => TypeOK
BY SetupTyped DEF Init, TypeOK, HubStates, Results, NoAck

\* Steps of the hub and of Syncthing keep the types.
LEMMA TypeHub ==
  ASSUME TypeOK, NEW c \in Cmds, NEW s \in Spokes,
         \/ Publish(c) \/ HubPoll(c) \/ HubGiveUp(c) \/ HubRestart
         \/ Deliver(s, c) \/ DeliverAck(s, c) \/ Tick
  PROVE  TypeOK'
<1> USE SetupTyped DEF TypeOK, HubStates, Results, NoAck, hubVars, fileVars, passVars, faultVars
<1>1. CASE Publish(c) BY <1>1 DEF Publish
<1>2. CASE HubPoll(c) BY <1>2 DEF HubPoll, Report
<1>3. CASE HubGiveUp(c) BY <1>3 DEF HubGiveUp
<1>4. CASE HubRestart BY <1>4 DEF HubRestart
<1>5. CASE Deliver(s, c) BY <1>5 DEF Deliver
<1>6. CASE DeliverAck(s, c) BY <1>6 DEF DeliverAck
<1>7. CASE Tick BY <1>7 DEF Tick
<1> QED BY <1>1, <1>2, <1>3, <1>4, <1>5, <1>6, <1>7

\* Steps of a spoke, failures included, keep the types.
LEMMA TypeSpoke ==
  ASSUME TypeOK, NEW s \in Spokes, SpokeStep(s) \/ PassFails(s) \/ SpokeRestart(s)
  PROVE  TypeOK'
<1> USE SetupTyped DEF TypeOK, Results, hubVars, fileVars, passVars, faultVars
<1>0. SpokeNow(s) \in Int BY DEF SpokeNow
<1>1. CASE StartPass(s) BY <1>0, <1>1 DEF StartPass
<1>2. CASE EndPass(s) BY <1>2 DEF EndPass, Old, SpokeNow
<1>3. ASSUME NEW c \in Cmds, Reject(s, c) PROVE TypeOK'
  <2>1. CASE WriteAck(s, c, "rejected") BY <1>0, <1>3, <2>1 DEF Reject, WriteAck
  <2>2. CASE UNCHANGED <<ack, ackTime>> BY <1>3, <2>2 DEF Reject
  <2> QED BY <1>3, <2>1, <2>2 DEF Reject
<1>4. ASSUME NEW c \in Cmds, Reack(s, c) PROVE TypeOK'
  BY <1>0, <1>4 DEF Reack, WriteAck, Seen
<1>5. ASSUME NEW c \in Cmds, Dispatch(s, c) PROVE TypeOK'
  BY <1>5 DEF Dispatch
<1>6. ASSUME NEW c \in Cmds, Record(s, c) PROVE TypeOK'
  BY <1>6 DEF Record, Recorded
<1>7. ASSUME NEW c \in Cmds, AckRun(s, c) PROVE TypeOK'
  BY <1>0, <1>7 DEF AckRun, WriteAck
<1>8. CASE PassFails(s) BY <1>8 DEF PassFails, DropPass
<1>9. CASE SpokeRestart(s) BY <1>9 DEF SpokeRestart, DropPass
<1> QED BY <1>1, <1>2, <1>3, <1>4, <1>5, <1>6, <1>7, <1>8, <1>9 DEF SpokeStep

HubSide ==
  \/ Tick \/ HubRestart
  \/ \E c \in Cmds : Publish(c) \/ HubPoll(c) \/ HubGiveUp(c)
  \/ \E s \in Spokes, c \in Cmds : Deliver(s, c) \/ DeliverAck(s, c)
SpokeSide(s) == SpokeStep(s) \/ PassFails(s) \/ SpokeRestart(s)

\* A step is one of the hub and the sync, or one of a spoke.
LEMMA NextSplits == Next => HubSide \/ \E s \in Spokes : SpokeSide(s)
BY DEF Next, HubSide, SpokeSide

\* The hub and the sync keep the types.
LEMMA TypeHubSide == ASSUME TypeOK, HubSide PROVE TypeOK'
<1>1. ASSUME NEW c \in Cmds, Publish(c) \/ HubPoll(c) \/ HubGiveUp(c) PROVE TypeOK'
  <2>1. target[c] \in Spokes BY DEF TypeOK
  <2> QED BY <1>1, <2>1, TypeHub
<1>2. ASSUME NEW s \in Spokes, NEW c \in Cmds, Deliver(s, c) \/ DeliverAck(s, c)
      PROVE TypeOK'
  BY <1>2, TypeHub
<1>3. CASE HubRestart
  <2>1. PICK c \in Cmds : hub[c] = "waiting" BY <1>3 DEF HubRestart
  <2>2. target[c] \in Spokes BY DEF TypeOK
  <2> QED BY <1>3, <2>1, <2>2, TypeHub
<1>4. CASE Tick
  BY <1>4, SetupTyped DEF Tick, TypeOK, hubVars, fileVars, passVars, faultVars
<1> QED BY <1>1, <1>2, <1>3, <1>4 DEF HubSide

\* Type correctness: no step of hub, folder or spoke leaves the declared types.
THEOREM TypeCorrect == Spec => []TypeOK
<1>1. Init => TypeOK BY TypeInit
<1>2. TypeOK /\ [Next]_vars => TypeOK'
  <2> SUFFICES ASSUME TypeOK, [Next]_vars PROVE TypeOK' OBVIOUS
  <2>1. CASE Next
    <3>1. ASSUME NEW s \in Spokes, SpokeSide(s) PROVE TypeOK'
      BY <3>1, TypeSpoke DEF SpokeSide
    <3> QED BY <2>1, <3>1, TypeHubSide, NextSplits
  <2>2. CASE UNCHANGED vars
    BY <2>2 DEF TypeOK, vars, hubVars, fileVars, passVars, faultVars
  <2> QED BY <2>1, <2>2
<1> QED BY <1>1, <1>2, PTL DEF Spec

-----------------------------------------------------------------------------
(* The inductive invariant, part by part *)

\* Nothing is on a spoke before the hub has published it.
SentInv ==
  \A s \in Spokes, c \in Cmds :
    c \in inbox[s] \cup batch[s] \/ ack[s][c] # "none" \/ ledger[s][c] # "none"
      => hub[c] # "unsent"

\* The books of one spoke: a run is either in the ledger, in progress, or lapsed;
\* whatever it has in hand or has run was addressed to it.
LedgerInv ==
  \A s \in Spokes, c \in Cmds :
    /\ runs[s][c] = lapsed[s][c] +
         (IF ledger[s][c] # "none" \/ (pc[s] = "ran" /\ IsNext(s, c)) THEN 1 ELSE 0)
    /\ pc[s] = "ran" /\ IsNext(s, c) => ledger[s][c] = "none" /\ outcome[s] \in Results
    /\ pc[s] = "recorded" /\ IsNext(s, c) =>
         ledger[s][c] = outcome[s] /\ outcome[s] \in Results
    /\ (pc[s] \in {"ran", "recorded"} /\ IsNext(s, c)) \/ runs[s][c] > 0 =>
         target[c] = s /\ s \in Keyed

\* Acks: they tell the ledger's truth, a keyed spoke writes only its own, and the
\* hub's "ok" rests on one.
AckInv ==
  /\ AckTruth
  /\ \A s \in Keyed, c \in Cmds : ack[s][c] # "none" => target[c] = s
  /\ \A c \in Cmds : hub[c] = "ok" => ledger[target[c]][c] = "ok"

\* A rejection was right on the clock of its pass and stays right on every later
\* clock, since passes read the clock in order.
VoidInv ==
  /\ \A s \in Spokes : IF pc[s] = "idle" THEN batch[s] = {} ELSE passTime[s] <= SpokeNow(s)
  /\ \A s \in Keyed, c \in Cmds : ack[s][c] = "rejected" =>
       \/ ~wellFormed[c]
       \/ /\ SpokeNow(s) > Expires(c)
          /\ c \in batch[s] => passTime[s] > Expires(c)

IInv == TypeOK /\ SentInv /\ LedgerInv /\ AckInv /\ VoidInv

-----------------------------------------------------------------------------
(* What each side leaves alone *)

\* The hub, the folder and the clock touch nothing a spoke keeps but its inbox, and
\* publish a command only once.
LEMMA HubSideFrame ==
  ASSUME TypeOK, HubSide
  PROVE  /\ UNCHANGED <<target, wellFormed, pc, batch, passTime, outcome, ledger,
                        runs, lapsed, ack>>
         /\ now' \in Int /\ now <= now'
         /\ \A c \in Cmds : hub[c] # "unsent" => hub'[c] # "unsent" /\ issued'[c] = issued[c]
<1> DEFINE Goal == /\ UNCHANGED <<target, wellFormed, pc, batch, passTime, outcome, ledger,
                                  runs, lapsed, ack>>
                   /\ now' \in Int /\ now <= now'
                   /\ \A c \in Cmds : hub[c] # "unsent" =>
                        hub'[c] # "unsent" /\ issued'[c] = issued[c]
<1> USE DEF TypeOK, hubVars, fileVars, passVars, faultVars
<1>1. CASE Tick BY <1>1 DEF Tick
<1>2. CASE HubRestart BY <1>2 DEF HubRestart
<1>3. ASSUME NEW c \in Cmds, Publish(c) PROVE Goal BY <1>3 DEF Publish
<1>4. ASSUME NEW c \in Cmds, HubPoll(c) PROVE Goal BY <1>4 DEF HubPoll, Report
<1>5. ASSUME NEW c \in Cmds, HubGiveUp(c) PROVE Goal BY <1>5 DEF HubGiveUp
<1>6. ASSUME NEW s \in Spokes, NEW c \in Cmds, Deliver(s, c) PROVE Goal BY <1>6 DEF Deliver
<1>7. ASSUME NEW s \in Spokes, NEW c \in Cmds, DeliverAck(s, c) PROVE Goal
  BY <1>7 DEF DeliverAck
<1> QED BY <1>1, <1>2, <1>3, <1>4, <1>5, <1>6, <1>7 DEF HubSide

\* A spoke touches nothing of the hub's, and nothing of another spoke's.
LEMMA SpokeSideFrame ==
  ASSUME TypeOK, NEW s \in Spokes, SpokeSide(s), NEW t \in Spokes
  PROVE  /\ UNCHANGED <<now, target, wellFormed, issued, hub, hubAck>>
         /\ t # s => /\ pc'[t] = pc[t] /\ batch'[t] = batch[t] /\ passTime'[t] = passTime[t]
                     /\ outcome'[t] = outcome[t] /\ ledger'[t] = ledger[t]
                     /\ runs'[t] = runs[t] /\ lapsed'[t] = lapsed[t]
                     /\ ack'[t] = ack[t] /\ inbox'[t] = inbox[t]
<1> DEFINE Goal == /\ UNCHANGED <<now, target, wellFormed, issued, hub, hubAck>>
                   /\ t # s => /\ pc'[t] = pc[t] /\ batch'[t] = batch[t]
                               /\ passTime'[t] = passTime[t]
                               /\ outcome'[t] = outcome[t] /\ ledger'[t] = ledger[t]
                               /\ runs'[t] = runs[t] /\ lapsed'[t] = lapsed[t]
                               /\ ack'[t] = ack[t] /\ inbox'[t] = inbox[t]
<1> USE DEF TypeOK, hubVars, fileVars, passVars, faultVars
<1>1. CASE StartPass(s) BY <1>1 DEF StartPass
<1>2. CASE EndPass(s) BY <1>2 DEF EndPass
<1>3. ASSUME NEW c \in Cmds, Reject(s, c) PROVE Goal
  <2>1. CASE WriteAck(s, c, "rejected") BY <1>3, <2>1 DEF Reject, WriteAck
  <2>2. CASE UNCHANGED <<ack, ackTime>> BY <1>3, <2>2 DEF Reject
  <2> QED BY <1>3, <2>1, <2>2 DEF Reject
<1>4. ASSUME NEW c \in Cmds, Reack(s, c) PROVE Goal BY <1>4 DEF Reack, WriteAck
<1>5. ASSUME NEW c \in Cmds, Dispatch(s, c) PROVE Goal BY <1>5 DEF Dispatch
<1>6. ASSUME NEW c \in Cmds, Record(s, c) PROVE Goal BY <1>6 DEF Record, Recorded
<1>7. ASSUME NEW c \in Cmds, AckRun(s, c) PROVE Goal BY <1>7 DEF AckRun, WriteAck
<1>8. CASE PassFails(s) BY <1>8 DEF PassFails, DropPass
<1>9. CASE SpokeRestart(s) BY <1>9 DEF SpokeRestart, DropPass
<1> QED BY <1>1, <1>2, <1>3, <1>4, <1>5, <1>6, <1>7, <1>8, <1>9 DEF SpokeSide, SpokeStep

-----------------------------------------------------------------------------
(* SentInv *)

\* The hub and the sync bring nothing to a spoke that was not sent.
LEMMA SentHub == ASSUME TypeOK, SentInv, HubSide PROVE SentInv'
<1> SUFFICES ASSUME NEW s \in Spokes, NEW c \in Cmds,
                    \/ c \in inbox'[s] \cup batch'[s]
                    \/ ack'[s][c] # "none" \/ ledger'[s][c] # "none"
             PROVE  hub'[c] # "unsent"
  BY DEF SentInv
<1>1. CASE inbox' = inbox BY <1>1, HubSideFrame DEF SentInv
<1>2. ASSUME NEW t \in Spokes, NEW d \in Cmds, Deliver(t, d) PROVE hub'[c] # "unsent"
  BY <1>2 DEF Deliver, SentInv, TypeOK, hubVars, passVars
<1> QED
  BY <1>1, <1>2 DEF HubSide, Tick, HubRestart, Publish, HubPoll, HubGiveUp, DeliverAck, fileVars

\* A spoke has nothing that was not sent.
LEMMA SentSpoke == ASSUME TypeOK, SentInv, NEW s \in Spokes, SpokeSide(s) PROVE SentInv'
<1> SUFFICES ASSUME NEW t \in Spokes, NEW d \in Cmds,
                    \/ d \in inbox'[t] \cup batch'[t]
                    \/ ack'[t][d] # "none" \/ ledger'[t][d] # "none"
             PROVE  hub'[d] # "unsent"
  BY DEF SentInv
<1> DEFINE Goal == hub'[d] # "unsent"
<1>0. hub' = hub BY SpokeSideFrame
<1>a. CASE t # s BY <1>0, <1>a, SpokeSideFrame DEF SentInv
<1>b. CASE t = s
  <2> USE <1>0, <1>b DEF TypeOK, SentInv, hubVars, fileVars, passVars, faultVars
  <2>1. CASE StartPass(s) BY <2>1 DEF StartPass
  <2>2. CASE EndPass(s) BY <2>2 DEF EndPass
  <2>3. ASSUME NEW c \in Cmds, Reject(s, c) PROVE Goal
    <3>1. CASE WriteAck(s, c, "rejected") BY <2>3, <3>1 DEF Reject, WriteAck, IsNext
    <3>2. CASE UNCHANGED <<ack, ackTime>> BY <2>3, <3>2 DEF Reject
    <3> QED BY <2>3, <3>1, <3>2 DEF Reject
  <2>4. ASSUME NEW c \in Cmds, Reack(s, c) PROVE Goal BY <2>4 DEF Reack, WriteAck, IsNext
  <2>5. ASSUME NEW c \in Cmds, Dispatch(s, c) PROVE Goal BY <2>5 DEF Dispatch
  <2>6. ASSUME NEW c \in Cmds, Record(s, c) PROVE Goal BY <2>6 DEF Record, Recorded, IsNext
  <2>7. ASSUME NEW c \in Cmds, AckRun(s, c) PROVE Goal BY <2>7 DEF AckRun, WriteAck, IsNext
  <2>8. CASE PassFails(s) BY <2>8 DEF PassFails, DropPass
  <2>9. CASE SpokeRestart(s) BY <2>9 DEF SpokeRestart, DropPass
  <2> QED BY <2>1, <2>2, <2>3, <2>4, <2>5, <2>6, <2>7, <2>8, <2>9 DEF SpokeSide, SpokeStep
<1> QED BY <1>a, <1>b

-----------------------------------------------------------------------------
(* LedgerInv *)

\* No ledger is touched by the hub and the sync.
LEMMA LedgerHub == ASSUME TypeOK, LedgerInv, HubSide PROVE LedgerInv'
BY HubSideFrame DEF LedgerInv, IsNext

\* A spoke runs nothing that its ledger has a result of, and records what it ran.
LEMMA LedgerSpoke ==
  ASSUME TypeOK, LedgerInv, NEW s \in Spokes, SpokeSide(s)
  PROVE  LedgerInv'
<1> DEFINE Books(t, d) ==
      /\ runs[t][d] = lapsed[t][d] +
           (IF ledger[t][d] # "none" \/ (pc[t] = "ran" /\ IsNext(t, d)) THEN 1 ELSE 0)
      /\ pc[t] = "ran" /\ IsNext(t, d) => ledger[t][d] = "none" /\ outcome[t] \in Results
      /\ pc[t] = "recorded" /\ IsNext(t, d) =>
           ledger[t][d] = outcome[t] /\ outcome[t] \in Results
      /\ (pc[t] \in {"ran", "recorded"} /\ IsNext(t, d)) \/ runs[t][d] > 0 =>
           target[d] = t /\ t \in Keyed
<1> SUFFICES ASSUME NEW t \in Spokes, NEW d \in Cmds PROVE Books(t, d)'
  BY DEF LedgerInv
<1>0. Books(t, d) BY DEF LedgerInv
<1>a. CASE t # s BY <1>0, <1>a, SpokeSideFrame DEF IsNext
<1>b. CASE t = s
  <2> USE <1>0, <1>b DEF TypeOK, hubVars, fileVars, passVars, faultVars
  <2>1. CASE StartPass(s) BY <2>1 DEF StartPass
  <2>2. CASE EndPass(s) BY <2>2 DEF EndPass
  <2>3. ASSUME NEW c \in Cmds, Reject(s, c) PROVE Books(t, d)'
    BY <2>3 DEF Reject
  <2>4. ASSUME NEW c \in Cmds, Reack(s, c) PROVE Books(t, d)'
    BY <2>4 DEF Reack
  <2>5. ASSUME NEW c \in Cmds, Dispatch(s, c) PROVE Books(t, d)'
    <3>1. IsNext(s, d) => c = d BY <2>5, NextIsUnique DEF Dispatch
    <3>2. IsNext(s, d)' = IsNext(s, d) BY <2>5 DEF Dispatch, IsNext
    <3>3. target[c] = s /\ s \in Keyed BY <2>5 DEF Dispatch, Verdict
    <3> QED BY <2>5, <3>1, <3>2, <3>3 DEF Dispatch, Seen
  <2>6. ASSUME NEW c \in Cmds, Record(s, c) PROVE Books(t, d)'
    <3>1. IsNext(s, d) => c = d BY <2>6, NextIsUnique DEF Record
    <3>2. IsNext(s, d)' = IsNext(s, d) BY <2>6 DEF Record, IsNext
    <3>3. Books(s, c) BY DEF LedgerInv
    <3> QED BY <2>6, <3>1, <3>2, <3>3 DEF Record, Recorded, Results
  <2>7. ASSUME NEW c \in Cmds, AckRun(s, c) PROVE Books(t, d)'
    BY <2>7 DEF AckRun
  <2>8. ASSUME DropPass(s) PROVE Books(t, d)'
    BY <2>8 DEF DropPass
  <2> QED BY <2>1, <2>2, <2>3, <2>4, <2>5, <2>6, <2>7, <2>8
          DEF SpokeSide, SpokeStep, PassFails, SpokeRestart
<1> QED BY <1>a, <1>b

-----------------------------------------------------------------------------
(* AckInv *)

\* The hub takes acks as they are.
LEMMA AckHub == ASSUME TypeOK, LedgerInv, AckInv, HubSide PROVE AckInv'
<1> USE DEF TypeOK
<1>1. /\ \A s \in Spokes, c \in Cmds : ack'[s][c] \in Results => ledger'[s][c] = ack'[s][c]
      /\ \A s \in Keyed, c \in Cmds : ack'[s][c] # "none" => target'[c] = s
  BY HubSideFrame DEF AckInv, AckTruth
<1>2. ASSUME NEW c \in Cmds
      PROVE  hubAck'[c].result \in Results => ledger'[hubAck'[c].by][c] = hubAck'[c].result
  <2>1. CASE hubAck' = hubAck BY <2>1, HubSideFrame DEF AckInv, AckTruth
  <2>2. ASSUME NEW s \in Spokes, NEW d \in Cmds, DeliverAck(s, d)
        PROVE  hubAck'[c].result \in Results => ledger'[hubAck'[c].by][c] = hubAck'[c].result
    BY <2>2 DEF DeliverAck, AckInv, AckTruth, fileVars, passVars
  <2> QED BY <2>1, <2>2
          DEF HubSide, Tick, HubRestart, Publish, HubPoll, HubGiveUp, Deliver, hubVars
<1>3. ASSUME NEW c \in Cmds, hub'[c] = "ok" PROVE ledger'[target'[c]][c] = "ok"
  <2>1. CASE hub[c] = "ok" BY <2>1, HubSideFrame DEF AckInv
  <2>2. CASE hub[c] # "ok"
    <3>1. PICK d \in Cmds : HubPoll(d)
      BY <1>3, <2>2, ZenonT(60) DEF HubSide, Tick, HubRestart, Publish, HubGiveUp, Deliver, DeliverAck, hubVars
    <3>2. c = d /\ hubAck[c].result = "ok" /\ hubAck[c].by \in Keyed
      BY <1>3, <2>2, <3>1 DEF HubPoll, Report
    <3>3. hubAck[c].by \in Spokes /\ ledger[hubAck[c].by][c] = "ok"
      BY <3>2, SetupTyped DEF AckInv, AckTruth, Results
    <3>4. PICK s \in Spokes : s = hubAck[c].by /\ ledger[s][c] = "ok" BY <3>3
    <3>5. runs[s][c] = lapsed[s][c] + 1 /\ (runs[s][c] > 0 => target[c] = s)
      BY <3>4 DEF LedgerInv
    <3>6. lapsed[s][c] \in Nat OBVIOUS
    <3>7. target[c] = s BY <3>5, <3>6
    <3> QED BY <3>4, <3>7, HubSideFrame
  <2> QED BY <2>1, <2>2
<1> QED BY <1>1, <1>2, <1>3 DEF AckInv, AckTruth

\* What a ledger holds it keeps.
LEMMA LedgerStable ==
  ASSUME TypeOK, LedgerInv, NEW s \in Spokes, SpokeSide(s),
         NEW t \in Spokes, NEW d \in Cmds, ledger[t][d] # "none"
  PROVE  ledger'[t][d] = ledger[t][d]
<1> USE DEF TypeOK, hubVars, fileVars, passVars, faultVars
<1>1. ASSUME NEW c \in Cmds, Record(s, c) PROVE ledger'[t][d] = ledger[t][d]
  BY <1>1 DEF Record, Recorded, LedgerInv
<1> QED BY <1>1 DEF SpokeSide, SpokeStep, PassFails, SpokeRestart, DropPass, StartPass,
        EndPass, Reject, Reack, Dispatch, AckRun

\* A spoke acks a result only from its ledger.
LEMMA AckSpoke ==
  ASSUME TypeOK, LedgerInv, AckInv, NEW s \in Spokes, SpokeSide(s)
  PROVE  AckInv'
<1> USE DEF TypeOK
<1>0. UNCHANGED <<target, hub, hubAck>> BY SpokeSideFrame
<1>1. ASSUME NEW c \in Cmds, hubAck'[c].result \in Results
      PROVE  ledger'[hubAck'[c].by][c] = hubAck'[c].result
  <2>1. hubAck[c] \in [by : Spokes, result : Results \cup {"rejected"}]
    BY <1>0, <1>1 DEF Results, NoAck
  <2>2. ledger[hubAck[c].by][c] = hubAck[c].result BY <1>0, <1>1 DEF AckInv, AckTruth
  <2>3. PICK t \in Spokes : t = hubAck[c].by BY <2>1
  <2>4. ledger'[t][c] = ledger[t][c] BY <1>0, <1>1, <2>2, <2>3, LedgerStable DEF Results
  <2> QED BY <1>0, <2>2, <2>3, <2>4
<1>2. ASSUME NEW c \in Cmds, hub'[c] = "ok" PROVE ledger'[target'[c]][c] = "ok"
  <2>1. PICK t \in Spokes : t = target[c] OBVIOUS
  <2>2. ledger[t][c] = "ok" BY <1>0, <1>2, <2>1 DEF AckInv
  <2>3. ledger'[t][c] = ledger[t][c] BY <2>1, <2>2, LedgerStable
  <2> QED BY <1>0, <2>1, <2>2, <2>3
<1>3. ASSUME NEW t \in Spokes, NEW d \in Cmds
      PROVE  /\ ack'[t][d] \in Results => ledger'[t][d] = ack'[t][d]
             /\ t \in Keyed /\ ack'[t][d] # "none" => target'[d] = t
  <2> DEFINE Goal == /\ ack'[t][d] \in Results => ledger'[t][d] = ack'[t][d]
                     /\ t \in Keyed /\ ack'[t][d] # "none" => target'[d] = t
  <2>0. /\ ack[t][d] \in Results => ledger[t][d] = ack[t][d]
        /\ t \in Keyed /\ ack[t][d] # "none" => target[d] = t
    BY DEF AckInv, AckTruth
  <2>a. CASE t # s \/ ack'[t][d] \in {ack[t][d], "none"}
    <3>1. ack'[t][d] \in {ack[t][d], "none"} BY <2>a, SpokeSideFrame
    <3> QED BY <1>0, <2>0, <3>1, LedgerStable DEF Results
  <2>b. CASE t = s /\ ack'[t][d] \notin {ack[t][d], "none"}
    <3> USE <1>0, <2>b DEF hubVars, fileVars, passVars, faultVars
    <3>1. ASSUME NEW c \in Cmds, Reject(s, c) PROVE Goal
      <4>1. WriteAck(s, c, "rejected") /\ Verdict(s, c, passTime[s]) # "wrong-target"
        BY <3>1 DEF Reject
      <4>2. c = d /\ ack'[t][d] = "rejected" BY <4>1 DEF WriteAck
      <4> QED BY <4>1, <4>2 DEF Verdict, Results
    <3>2. ASSUME NEW c \in Cmds, Reack(s, c) PROVE Goal
      BY <3>2 DEF Reack, WriteAck, Verdict
    <3>3. ASSUME NEW c \in Cmds, AckRun(s, c) PROVE Goal
      BY <3>3 DEF AckRun, WriteAck, LedgerInv
    <3> QED BY <3>1, <3>2, <3>3 DEF SpokeSide, SpokeStep, PassFails, SpokeRestart, DropPass,
            StartPass, EndPass, Dispatch, Record
  <2> QED BY <2>a, <2>b
<1> QED BY <1>1, <1>2, <1>3, SetupTyped DEF AckInv, AckTruth

-----------------------------------------------------------------------------
(* VoidInv *)

\* Time that passes makes no void command valid again.
LEMMA VoidHub == ASSUME TypeOK, SentInv, VoidInv, HubSide PROVE VoidInv'
<1> USE SetupTyped, HubSideFrame DEF TypeOK, SpokeNow
<1>1. ASSUME NEW s \in Spokes
      PROVE  IF pc'[s] = "idle" THEN batch'[s] = {} ELSE passTime'[s] <= SpokeNow(s)'
  <2>1. now \in Int /\ now' \in Int /\ now <= now' /\ Skew[s] \in Int /\ passTime[s] \in Int
    OBVIOUS
  <2>2. pc' = pc /\ batch' = batch /\ passTime' = passTime OBVIOUS
  <2>3. IF pc[s] = "idle" THEN batch[s] = {} ELSE passTime[s] <= now + Skew[s] BY DEF VoidInv
  <2> QED BY <2>1, <2>2, <2>3
<1>2. ASSUME NEW s \in Keyed, NEW c \in Cmds, ack'[s][c] = "rejected"
      PROVE  \/ ~wellFormed'[c]
             \/ /\ SpokeNow(s)' > Expires(c)'
                /\ c \in batch'[s] => passTime'[s] > Expires(c)'
  <2>1. Expires(c)' = Expires(c) BY <1>2 DEF SentInv, Expires
  <2>2. Expires(c) \in Int BY DEF Expires
  <2> QED BY <1>2, <2>1, <2>2 DEF VoidInv
<1> QED BY <1>1, <1>2 DEF VoidInv

\* A spoke rejects only what it will not find valid later.
LEMMA VoidSpoke ==
  ASSUME TypeOK, VoidInv, NEW s \in Spokes, SpokeSide(s)
  PROVE  VoidInv'
<1> USE SetupTyped DEF TypeOK, hubVars, fileVars, passVars, faultVars
<1>0. UNCHANGED <<now, target, wellFormed, issued>> BY SpokeSideFrame
<1>c. ASSUME NEW t \in Spokes PROVE SpokeNow(t) \in Int /\ SpokeNow(t)' = SpokeNow(t)
  BY <1>0 DEF SpokeNow
<1>e. ASSUME NEW d \in Cmds PROVE Expires(d) \in Int /\ Expires(d)' = Expires(d)
  BY <1>0 DEF Expires
<1>1. ASSUME NEW t \in Spokes
      PROVE  IF pc'[t] = "idle" THEN batch'[t] = {} ELSE passTime'[t] <= SpokeNow(t)'
  <2>a. CASE t # s BY <2>a, <1>c, SpokeSideFrame DEF VoidInv
  <2>b. CASE t = s
    BY <2>b, <1>c DEF VoidInv, SpokeSide, SpokeStep, PassFails, SpokeRestart, DropPass,
         StartPass, EndPass, Reject, Reack, Dispatch, Record, AckRun
  <2> QED BY <2>a, <2>b
<1>2. ASSUME NEW t \in Keyed, NEW d \in Cmds, ack'[t][d] = "rejected"
      PROVE  \/ ~wellFormed'[d]
             \/ /\ SpokeNow(t)' > Expires(d)'
                /\ d \in batch'[t] => passTime'[t] > Expires(d)'
  <2> DEFINE Goal == \/ ~wellFormed'[d]
                     \/ /\ SpokeNow(t)' > Expires(d)'
                        /\ d \in batch'[t] => passTime'[t] > Expires(d)'
  <2>t. t \in Spokes OBVIOUS
  <2>a. CASE t # s BY <2>a, <2>t, <1>0, <1>c, <1>e, <1>2, SpokeSideFrame DEF VoidInv
  <2>b. CASE t = s /\ ack[t][d] = "rejected"
    <3>1. \/ ~wellFormed[d]
          \/ SpokeNow(s) > Expires(d) /\ (d \in batch[s] => passTime[s] > Expires(d))
      BY <2>b DEF VoidInv
    <3>2. \/ batch'[s] \subseteq batch[s] /\ passTime'[s] = passTime[s]
          \/ batch'[s] = {}
          \/ passTime'[s] = SpokeNow(s)
      BY <2>b DEF SpokeSide, SpokeStep, PassFails, SpokeRestart, DropPass,
           StartPass, EndPass, Reject, Reack, Dispatch, Record, AckRun
    <3> QED BY <2>b, <1>0, <1>c, <1>e, <3>1, <3>2
  <2>c. CASE t = s /\ ack[t][d] # "rejected"
    <3> USE <2>c, <1>2
    <3>1. ASSUME NEW c \in Cmds, Reject(s, c) PROVE Goal
      <4>1. WriteAck(s, c, "rejected") /\ Verdict(s, c, passTime[s]) \notin {"wrong-target", "valid"}
        BY <3>1 DEF Reject
      <4>2. c = d /\ d \notin batch'[s] BY <3>1, <4>1 DEF Reject, WriteAck
      <4>3. ~wellFormed[d] \/ passTime[s] > Expires(d) BY <4>1, <4>2 DEF Verdict
      <4>4. passTime[s] <= SpokeNow(s) BY <3>1 DEF VoidInv, Reject
      <4> QED BY <4>2, <4>3, <4>4, <1>0, <1>c, <1>e
    <3>2. ASSUME NEW c \in Cmds, Reack(s, c) PROVE FALSE
      BY <3>2 DEF Reack, WriteAck, Seen, Results
    <3>3. ASSUME NEW c \in Cmds, AckRun(s, c) PROVE FALSE
      BY <3>3 DEF AckRun, WriteAck, Results
    <3> QED BY <3>1, <3>2, <3>3 DEF SpokeSide, SpokeStep, PassFails, SpokeRestart, DropPass,
            StartPass, EndPass, Dispatch, Record
  <2> QED BY <2>a, <2>b, <2>c
<1> QED BY <1>1, <1>2 DEF VoidInv

-----------------------------------------------------------------------------
(* The theorems *)

\* The strengthened invariant holds at first.
LEMMA InvInit == Init => IInv
<1> SUFFICES ASSUME Init PROVE IInv OBVIOUS
<1>1. TypeOK BY TypeInit
<1>2. SentInv BY DEF Init, SentInv
<1>3. LedgerInv BY DEF Init, LedgerInv
<1>4. AckInv BY SetupTyped DEF Init, AckInv, AckTruth, Results, NoAck
<1>5. VoidInv BY SetupTyped DEF Init, VoidInv
<1> QED BY <1>1, <1>2, <1>3, <1>4, <1>5 DEF IInv

\* The inductive invariant holds in every state of the channel.
THEOREM Invariance == Spec => []IInv
<1>1. IInv /\ [Next]_vars => IInv'
  <2> SUFFICES ASSUME IInv, [Next]_vars PROVE IInv' OBVIOUS
  <2>1. CASE Next
    <3>1. CASE HubSide
      BY <3>1, TypeHubSide, SentHub, LedgerHub, AckHub, VoidHub DEF IInv
    <3>2. ASSUME NEW s \in Spokes, SpokeSide(s) PROVE IInv'
      <4>1. TypeOK' BY <3>2, TypeSpoke DEF IInv, SpokeSide
      <4> QED BY <3>2, <4>1, SentSpoke, LedgerSpoke, AckSpoke, VoidSpoke DEF IInv
    <3> QED BY <2>1, <3>1, <3>2, NextSplits
  <2>2. CASE UNCHANGED vars
    <3> USE <2>2 DEF vars, hubVars, fileVars, passVars, faultVars
    <3>1. TypeOK' BY DEF IInv, TypeOK
    <3>2. SentInv' BY DEF IInv, SentInv
    <3>3. LedgerInv' BY DEF IInv, LedgerInv, IsNext
    <3>4. AckInv' BY DEF IInv, AckInv, AckTruth
    <3>5. VoidInv' BY DEF IInv, VoidInv, SpokeNow, Expires
    <3> QED BY <3>1, <3>2, <3>3, <3>4, <3>5 DEF IInv
  <2> QED BY <2>1, <2>2
<1> QED BY <1>1, InvInit, PTL DEF Spec

\* Every ack that claims an execution carries what the ledger recorded.
THEOREM AcksTellTheTruth == Spec => []AckTruth
<1>1. IInv => AckTruth BY DEF IInv, AckInv
<1> QED BY <1>1, Invariance, PTL

\* The hub reports success only for commands their addressee alone ran and recorded.
THEOREM ReportsAreBacked == Spec => []OkReportMeansRun
<1>1. IInv => OkReportMeansRun
  <2> SUFFICES ASSUME IInv, NEW c \in Cmds, hub[c] = "ok"
               PROVE  /\ ledger[target[c]][c] = "ok" /\ runs[target[c]][c] > 0
                      /\ \A s \in Spokes \ {target[c]} : runs[s][c] = 0
    BY DEF OkReportMeansRun
  <2> USE DEF IInv, TypeOK
  <2>1. ledger[target[c]][c] = "ok" BY DEF AckInv
  <2>2. PICK t \in Spokes : t = target[c] OBVIOUS
  <2>3. ledger[t][c] # "none" /\ lapsed[t][c] \in Nat BY <2>1, <2>2
  <2>5. runs[t][c] = lapsed[t][c] + 1 BY <2>3 DEF LedgerInv
  <2>4. ASSUME NEW s \in Spokes \ {target[c]} PROVE runs[s][c] = 0
    <3>1. runs[s][c] \in Nat OBVIOUS
    <3>2. runs[s][c] > 0 => target[c] = s BY DEF LedgerInv
    <3> QED BY <3>1, <3>2
  <2> QED BY <2>1, <2>2, <2>3, <2>4, <2>5
<1> QED BY <1>1, Invariance, PTL

\* A machine that shares the key never runs or acks another machine's command.
THEOREM OthersKeepOut == Spec => []OnlyAddresseeActs
<1>1. IInv => OnlyAddresseeActs
  <2> SUFFICES ASSUME IInv, NEW s \in Keyed, NEW c \in Cmds, target[c] # s
               PROVE  runs[s][c] = 0 /\ ack[s][c] = "none"
    BY DEF OnlyAddresseeActs
  <2>1. s \in Spokes BY SetupTyped
  <2>2. runs[s][c] \in Nat BY <2>1 DEF IInv, TypeOK
  <2>3. ~(runs[s][c] > 0) BY <2>1 DEF IInv, LedgerInv
  <2>4. ack[s][c] = "none" BY DEF IInv, AckInv
  <2> QED BY <2>2, <2>3, <2>4
<1> QED BY <1>1, Invariance, PTL

\* Exactly-once execution up to lost records: the runs of a command exceed one only
\* by the dispatches whose record a failure or a restart prevented.
THEOREM RerunsArePaidFor == Spec => []RunsPaidByLapses
<1>1. IInv => RunsPaidByLapses
  <2> SUFFICES ASSUME IInv, NEW s \in Spokes, NEW c \in Cmds
               PROVE  runs[s][c] <= 1 + lapsed[s][c]
    BY DEF RunsPaidByLapses
  <2>1. runs[s][c] \in Nat /\ lapsed[s][c] \in Nat BY DEF IInv, TypeOK
  <2>2. runs[s][c] \in {lapsed[s][c], lapsed[s][c] + 1} BY <2>1 DEF IInv, LedgerInv
  <2> QED BY <2>1, <2>2
<1> QED BY <1>1, Invariance, PTL

\* A command acked as rejected is never run afterwards.
THEOREM RejectionsAreFinal == Spec => RejectionIsFinal
<1>1. IInv /\ [Next]_vars =>
        [\A s \in Spokes, c \in Cmds : ack[s][c] = "rejected" => runs'[s][c] = runs[s][c]]_vars
  <2> SUFFICES ASSUME IInv, Next, NEW t \in Spokes, NEW d \in Cmds, ack[t][d] = "rejected"
               PROVE  runs'[t][d] = runs[t][d]
    BY DEF vars
  <2>1. CASE HubSide BY <2>1, HubSideFrame DEF IInv
  <2>2. ASSUME NEW s \in Spokes, SpokeSide(s) PROVE runs'[t][d] = runs[t][d]
    <3>1. CASE t # s BY <2>2, <3>1, SpokeSideFrame DEF IInv
    <3>2. ASSUME NEW c \in Cmds, Dispatch(s, c), t = s PROVE c # d
      <4>1. s \in Keyed /\ wellFormed[c] /\ ~(passTime[s] > Expires(c)) /\ c \in batch[s]
        BY <3>2 DEF Dispatch, Verdict, IsNext
      <4> QED BY <3>2, <4>1 DEF IInv, VoidInv
    <3>3. ASSUME NEW c \in Cmds, Dispatch(s, c), t = s PROVE runs'[t][d] = runs[t][d]
      BY <3>2, <3>3 DEF Dispatch, IInv, TypeOK
    <3> QED BY <2>2, <3>1, <3>3 DEF SpokeSide, SpokeStep, PassFails, SpokeRestart, DropPass,
            StartPass, EndPass, Reject, Reack, Record, AckRun
  <2> QED BY <2>1, <2>2, NextSplits
<1> QED BY <1>1, Invariance, PTL DEF Spec, RejectionIsFinal

\* The GC never deletes a command that its spoke could still run.
THEOREM GcIsHarmless == Spec => GcSparesLive
<1>1. IInv /\ [Next]_vars =>
        [\A s \in Spokes, c \in Cmds :
           c \in inbox[s] /\ c \notin inbox'[s] => SpokeNow(s) > Expires(c)]_vars
  <2> SUFFICES ASSUME IInv, Next, NEW t \in Spokes, NEW d \in Cmds,
                      d \in inbox[t], d \notin inbox'[t]
               PROVE  SpokeNow(t) > Expires(d)
    BY DEF vars
  <2> USE DEF IInv, TypeOK
  <2>1. CASE HubSide
    <3>1. ASSUME NEW s \in Spokes, NEW c \in Cmds, Deliver(s, c) PROVE d \in inbox'[t]
      BY <3>1 DEF Deliver
    <3> QED BY <2>1, <3>1 DEF HubSide, Tick, HubRestart, Publish, HubPoll, HubGiveUp,
            DeliverAck, hubVars, fileVars
  <2>2. ASSUME NEW s \in Spokes, SpokeSide(s) PROVE SpokeNow(t) > Expires(d)
    <3>1. t = s BY <2>2, SpokeSideFrame
    <3>2. EndPass(s)
      BY <2>2, <3>1 DEF SpokeSide, SpokeStep, PassFails, SpokeRestart, DropPass, StartPass,
         Reject, Reack, Dispatch, Record, AckRun, fileVars
    <3>3. Old(s, issued[d]) BY <3>1, <3>2 DEF EndPass
    <3>4. SpokeNow(s) \in Int /\ issued[d] \in Int BY SetupTyped DEF SpokeNow
    <3> QED BY <3>1, <3>3, <3>4, SetupTyped DEF Old, Expires
  <2> QED BY <2>1, <2>2, NextSplits
<1> QED BY <1>1, Invariance, PTL DEF Spec, GcSparesLive

-----------------------------------------------------------------------------
(* The channel implements RemoteControl *)

Asked  == {c \in Cmds : hub[c] # "unsent"}
Result == [c \in Cmds |-> ledger[target[c]][c]]
Told   == [c \in Cmds |-> IF hub[c] \in {"unsent", "waiting"} THEN "nothing" ELSE hub[c]]

\* A step of the hub or the sync is one of the abstract remote control, or a stutter.
LEMMA HubSideRefines ==
  ASSUME IInv, IInv', HubSide
  PROVE  Remote!Next \/ UNCHANGED <<Asked, Result, Told>>
<1> DEFINE Goal == Remote!Next \/ UNCHANGED <<Asked, Result, Told>>
<1> USE DEF Asked, Result, Told
<1>r. Result' = Result BY HubSideFrame DEF IInv
<1>1. ASSUME NEW c \in Cmds, Publish(c) PROVE Goal
  <2>1. hub[c] = "unsent" /\ hub' = [hub EXCEPT ![c] = "waiting"] BY <1>1 DEF Publish
  <2>2. Asked' = Asked \cup {c} /\ c \notin Asked BY <2>1 DEF IInv, TypeOK
  <2>3. Told' = Told BY <2>1 DEF IInv, TypeOK
  <2> QED BY <1>r, <2>2, <2>3 DEF Remote!Next, Remote!Ask
<1>2. ASSUME NEW c \in Cmds, HubPoll(c) \/ HubGiveUp(c) PROVE Goal
  <2>1. PICK v \in {"ok", "notok", "silent"} :
          hub[c] = "waiting" /\ hub' = [hub EXCEPT ![c] = v]
    BY <1>2 DEF HubPoll, HubGiveUp, Report
  <2>2. Asked' = Asked /\ c \in Asked BY <2>1 DEF IInv, TypeOK
  <2>3. Told[c] = "nothing" /\ Told' = [Told EXCEPT ![c] = v] BY <2>1 DEF IInv, TypeOK
  <2>4. v = "ok" => Result[c] = "ok"
    <3>1. v = "ok" => hub'[c] = "ok" BY <2>1 DEF IInv, TypeOK
    <3>2. v = "ok" => ledger'[target'[c]][c] = "ok" BY <3>1 DEF IInv, AckInv
    <3>3. Result'[c] = ledger'[target'[c]][c] OBVIOUS
    <3> QED BY <3>2, <3>3, <1>r
  <2> QED BY <1>r, <2>2, <2>3, <2>4 DEF Remote!Next, Remote!Tell
<1>3. CASE HubRestart
  <2>1. hub' = [c \in Cmds |-> IF hub[c] = "waiting" THEN "lost" ELSE hub[c]]
    BY <1>3 DEF HubRestart
  <2>2. Asked' = Asked BY <2>1
  <2>3. Told' = [c \in Cmds |-> IF c \in Asked /\ Told[c] = "nothing" THEN "lost" ELSE Told[c]]
    <3>1. ASSUME NEW c \in Cmds
          PROVE  (IF hub'[c] \in {"unsent", "waiting"} THEN "nothing" ELSE hub'[c])
                   = IF c \in Asked /\ Told[c] = "nothing" THEN "lost" ELSE Told[c]
      <4>1. CASE hub[c] = "waiting" BY <2>1, <4>1
      <4>2. CASE hub[c] = "unsent" BY <2>1, <4>2
      <4>3. CASE hub[c] \in {"ok", "notok", "silent", "lost"} BY <2>1, <4>3
      <4> QED BY <4>1, <4>2, <4>3 DEF IInv, TypeOK, HubStates
    <3> QED BY <3>1
  <2> QED BY <1>r, <2>2, <2>3 DEF Remote!Next, Remote!Forget
<1>4. CASE hub' = hub BY <1>4, <1>r
<1> QED BY <1>1, <1>2, <1>3, <1>4 DEF HubSide, Tick, Deliver, DeliverAck, hubVars

\* So is a step of a spoke.
LEMMA SpokeSideRefines ==
  ASSUME IInv, NEW s \in Spokes, SpokeSide(s)
  PROVE  Remote!Next \/ UNCHANGED <<Asked, Result, Told>>
<1> USE DEF Asked, Result, Told
<1>1. UNCHANGED <<hub, target>> BY SpokeSideFrame DEF IInv
<1>2. ASSUME NEW c \in Cmds, Record(s, c) PROVE Remote!Next
  <2>1. target[c] = s /\ ledger[s][c] = "none" /\ outcome[s] \in {"ok", "fail"}
    BY <1>2 DEF Record, IInv, LedgerInv, Results
  <2>2. c \in Asked BY <1>2 DEF Record, IsNext, IInv, SentInv
  <2>3. Result' = [Result EXCEPT ![c] = outcome[s]]
    BY <1>1, <1>2, <2>1 DEF Record, Recorded, IInv, TypeOK
  <2> QED BY <1>1, <2>1, <2>2, <2>3 DEF Remote!Next, Remote!Perform
<1>3. CASE ledger' = ledger BY <1>1, <1>3
<1> QED BY <1>2, <1>3 DEF SpokeSide, SpokeStep, PassFails, SpokeRestart, DropPass, StartPass,
        EndPass, Reject, Reack, Dispatch, AckRun

\* The whole channel, with its delays, redeliveries, failures and restarts, is an
\* implementation of the remote control a user is promised.
THEOREM ChannelImplementsRemoteControl == Spec => ImplementsRemoteControl
<1>1. Init => Remote!Init
  BY DEF Init, Remote!Init
<1>2. IInv /\ IInv' /\ [Next]_vars => [Remote!Next]_<<Asked, Result, Told>>
  <2> SUFFICES ASSUME IInv, IInv', [Next]_vars
               PROVE  Remote!Next \/ UNCHANGED <<Asked, Result, Told>>
    OBVIOUS
  <2>1. CASE UNCHANGED vars BY <2>1 DEF vars, hubVars, Asked, Result, Told
  <2>2. CASE Next BY <2>2, NextSplits, HubSideRefines, SpokeSideRefines
  <2> QED BY <2>1, <2>2
<1> QED BY <1>1, <1>2, Invariance, PTL DEF Spec, ImplementsRemoteControl, Remote!Spec, Asked, Result, Told
=============================================================================
