--------------------------- MODULE WorkflowClient ---------------------------
(***************************************************************************)
(* Work given to the Dispatch service of a host (workflow_client.request)  *)
(* from the page of workflows.  The service is a program that is run once  *)
(* per request, perhaps on another machine: it does a request of one       *)
(* identity once, and says which instance it is.  A request that outlives  *)
(* its timeout may have been done, or be done later; the page keeps it and *)
(* repeats it as it was.  The host may come to be another instance, and    *)
(* the settings may be edited, between a request and its repetition.       *)
(***************************************************************************)
EXTENDS Integers, FiniteSets

CONSTANTS
  Instances,   \* the instances of Dispatch the host may be
  Repos,       \* the repositories
  Threads,     \* the requests the server handles at one time
  MaxMade,     \* bound on the requests the page makes
  MaxRepeated, \* bound on their repetitions
  MaxChanges   \* bound on the changes of settings and instance

ASSUME WorkflowAssumption == {MaxMade, MaxRepeated, MaxChanges} \subseteq Nat

VARIABLES
  settings,  \* of the host: the pinned instance, whether a command is set, the repositories allowed
  instance,  \* what the host is
  performed, \* what the service did: the request and the instance
  unawaited, \* requests the service has and nobody waits for
  client,    \* the page: the identity it inspected, the request it keeps, the works it lists
  calls,     \* the server's threads
  made, repeated, changes

workflowVars == <<settings, instance, performed, unawaited, client, calls, made, repeated, changes>>

Unpinned == "none"
NoPayload == [op |-> "none"]
NoCall == [at |-> "free"]
\* asked: the identity the page had inspected when it made the request (history).
Payloads == [op : {"create", "action"}, id : 1..MaxMade, work : 1..MaxMade, repo : Repos,
             expected : Instances \union {Unpinned}, asked : Instances \union {Unpinned}]

WorkflowTypeOK ==
  /\ settings \in [pin : Instances \union {Unpinned}, command : BOOLEAN, allowed : SUBSET Repos]
  /\ instance \in Instances /\ unawaited \subseteq Payloads
  /\ \A p \in performed : p.request \in Payloads /\ p.at \in Instances
  /\ client.identity \in Instances \union {Unpinned} /\ client.pending \in Payloads \union {NoPayload}
  /\ \A t \in Threads : calls[t].at \in {"free", "arrived", "lookup", "submit"}

WorkflowInit ==
  /\ instance \in Instances /\ performed = {} /\ unawaited = {} /\ made = 0 /\ repeated = 0 /\ changes = 0
  /\ settings \in [pin : {instance, Unpinned}, command : BOOLEAN, allowed : {Repos}]
  /\ client = [identity |-> Unpinned, pending |-> NoPayload, shown |-> {}]
  /\ calls = [t \in Threads |-> NoCall]

-----------------------------------------------------------------------------
(* The service, and the host *)

IsThere(work, i) == \E p \in performed : p.at = i /\ p.request.op = "create" /\ p.request.id = work
RepoOf(work) == (CHOOSE p \in performed : p.request.op = "create" /\ p.request.id = work).request.repo

\* What is expected of another instance is refused, and so is an action on a work it does not have.
Accepts(payload) ==
  /\ payload.expected \in {instance, Unpinned}
  /\ payload.op = "action" => IsThere(payload.work, instance)

\* A request done before is answered again and not done again.
DoneWith(payload) ==
  IF \E p \in performed : p.at = instance /\ p.request.id = payload.id THEN performed
  ELSE performed \union {[request |-> payload, at |-> instance]}

ServiceIsLate(payload) ==
  /\ unawaited' = unawaited \ {payload}
  /\ performed' = IF Accepts(payload) THEN DoneWith(payload) ELSE performed
  /\ UNCHANGED <<settings, instance, client, calls, made, repeated, changes>>

HostChanges ==
  /\ changes < MaxChanges /\ changes' = changes + 1
  /\ \/ instance' \in Instances \ {instance} /\ UNCHANGED settings
     \/ (\E pin \in Instances \union {Unpinned} : settings' = [settings EXCEPT !.pin = pin])
        /\ UNCHANGED instance
     \/ (\E repos \in SUBSET Repos : settings' = [settings EXCEPT !.allowed = repos]) /\ UNCHANGED instance
  /\ UNCHANGED <<performed, unawaited, client, calls, made, repeated>>

-----------------------------------------------------------------------------
(* The page *)

Carry(t, payload) == calls' = [calls EXCEPT ![t] = [at |-> "arrived", payload |-> payload, heard |-> TRUE]]

\* Two other identities, the pinned one and the one the page inspected.  Faulty variant: the pinned
\* one is taken without a look at the other.
DiffersNever(pin, expected) == FALSE
Differs(pin, expected) == pin # Unpinned /\ expected # Unpinned /\ pin # expected
Expected(pin, expected) == IF pin # Unpinned THEN pin ELSE expected

\* The capabilities and the list are asked for with the identity the page has; of the works listed
\* those of the repositories allowed are shown.
InspectHost ==
  /\ settings.command /\ ~Differs(settings.pin, client.identity)
  /\ Expected(settings.pin, client.identity) \in {instance, Unpinned}
  /\ client' = [client EXCEPT !.identity = instance]
  /\ UNCHANGED <<settings, instance, performed, unawaited, calls, made, repeated, changes>>

RefreshList ==
  /\ settings.command /\ ~Differs(settings.pin, client.identity)
  /\ Expected(settings.pin, client.identity) \in {instance, Unpinned}
  /\ client' = [client EXCEPT !.shown =
       {w \in 1..MaxMade : IsThere(w, instance) /\ RepoOf(w) \in settings.allowed}]
  /\ UNCHANGED <<settings, instance, performed, unawaited, calls, made, repeated, changes>>

\* A work is created only on a host inspected; another request only while none is kept.
MakeRequest(t, op, work, repo) ==
  LET payload == [op |-> op, id |-> made + 1, work |-> work, repo |-> repo,
                 expected |-> client.identity, asked |-> client.identity] IN
  /\ made < MaxMade /\ client.pending = NoPayload /\ calls[t] = NoCall /\ made' = made + 1
  /\ \/ op = "create" /\ client.identity # Unpinned /\ work = made + 1
     \/ op = "action" /\ work \in client.shown /\ repo = RepoOf(work)
  /\ client' = [client EXCEPT !.pending = payload] /\ Carry(t, payload)
  /\ UNCHANGED <<settings, instance, performed, unawaited, repeated, changes>>

\* What is kept is sent as it was, its first sending ended or not.
RetryRequest(t) ==
  /\ client.pending # NoPayload /\ calls[t] = NoCall /\ repeated < MaxRepeated /\ repeated' = repeated + 1
  /\ Carry(t, client.pending)
  /\ UNCHANGED <<settings, instance, performed, unawaited, client, made, changes>>

ResolveRequest ==
  /\ client.pending # NoPayload /\ client' = [client EXCEPT !.pending = NoPayload]
  /\ UNCHANGED <<settings, instance, performed, unawaited, calls, made, repeated, changes>>

\* The kept request outlives the page in the browser's storage; the answers to come do not reach it.
ReloadPage ==
  /\ client' = [client EXCEPT !.shown = {}, !.identity =
                  IF client.pending = NoPayload THEN Unpinned ELSE client.pending.expected]
  /\ calls' = [t \in Threads |-> IF calls[t] = NoCall THEN NoCall ELSE [calls[t] EXCEPT !.heard = FALSE]]
  /\ UNCHANGED <<settings, instance, performed, unawaited, made, repeated, changes>>

-----------------------------------------------------------------------------
(* workflow_client.request: a thread of the server; the settings are read once *)

\* Any success the page hears of ends what it keeps.
AnswerCall(t, code) ==
  /\ calls' = [calls EXCEPT ![t] = NoCall]
  /\ client' = IF code = 200 /\ calls[t].heard THEN [client EXCEPT !.pending = NoPayload] ELSE client

AdmitRequest(t) ==
  LET payload == calls[t].payload
      expected == Expected(settings.pin, payload.expected)
      code == IF Differs(settings.pin, payload.expected) \/ expected = Unpinned THEN 409
              ELSE IF ~settings.command THEN 503
              ELSE IF payload.op = "create" /\ payload.repo \notin settings.allowed THEN 403 ELSE 0 IN
  /\ calls[t].at = "arrived"
  /\ \/ code # 0 /\ AnswerCall(t, code)
     \/ /\ code = 0 /\ UNCHANGED client
        /\ calls' = [calls EXCEPT ![t] =
             [at |-> IF payload.op = "action" THEN "lookup" ELSE "submit", heard |-> calls[t].heard,
              payload |-> [payload EXCEPT !.expected = expected], allowed |-> settings.allowed]]
  /\ UNCHANGED <<settings, instance, performed, unawaited, made, repeated, changes>>

\* The work must be there, in a repository allowed; the service may not answer.
LookupWork(t) ==
  LET payload == calls[t].payload IN
  /\ calls[t].at = "lookup"
  /\ \/ AnswerCall(t, 503)
     \/ Accepts(payload) /\ RepoOf(payload.work) \notin calls[t].allowed /\ AnswerCall(t, 403)
     \/ /\ Accepts(payload) /\ RepoOf(payload.work) \in calls[t].allowed
        /\ calls' = [calls EXCEPT ![t].at = "submit"] /\ UNCHANGED client
  /\ UNCHANGED <<settings, instance, performed, unawaited, made, repeated, changes>>

\* The answer comes; or the service has done it and none comes; or it has not yet, and may still.
SubmitWork(t) ==
  LET payload == calls[t].payload IN
  /\ calls[t].at = "submit"
  /\ \/ Accepts(payload) /\ performed' = DoneWith(payload) /\ UNCHANGED unawaited
        /\ \E code \in {200, 503, 504} : AnswerCall(t, code)
     \/ ~Accepts(payload) /\ AnswerCall(t, 409) /\ UNCHANGED <<performed, unawaited>>
     \/ AnswerCall(t, 504) /\ unawaited' = unawaited \union {payload} /\ UNCHANGED performed
     \/ AnswerCall(t, 503) /\ UNCHANGED <<performed, unawaited>>
  /\ UNCHANGED <<settings, instance, made, repeated, changes>>

WorkflowNext ==
  \/ \E payload \in unawaited : ServiceIsLate(payload)
  \/ HostChanges \/ InspectHost \/ RefreshList \/ ResolveRequest \/ ReloadPage
  \/ \E t \in Threads, op \in {"create", "action"}, work \in 1..MaxMade, repo \in Repos :
       MakeRequest(t, op, work, repo)
  \/ \E t \in Threads : RetryRequest(t) \/ AdmitRequest(t) \/ LookupWork(t) \/ SubmitWork(t)

WorkflowSpec == WorkflowInit /\ [][WorkflowNext]_workflowVars

-----------------------------------------------------------------------------
(* Properties *)

\* What the page asked for is done at most once, on one instance, and on the one it had inspected
\* when it asked; whatever was repeated, answered late or never, and whatever the host became.
WorkIsDoneOnce ==
  \A p \in performed :
    /\ \A q \in performed : p.request.id = q.request.id => p = q
    /\ p.request.asked \in {p.at, Unpinned}
    /\ p.request.op = "action" => IsThere(p.request.work, p.at)
=============================================================================
