-------------------------- MODULE OperationsProofs --------------------------
(***************************************************************************)
(* What the operations of the server guarantee, for every number of        *)
(* browsers, threads, processes and hosts: POSTs are of the run of the     *)
(* server that sent their page, what is killed was listed as killable, and *)
(* a work given to Dispatch is done once.                                  *)
(***************************************************************************)
EXTENDS HttpServer, ServiceOps, WorkflowClient, HandoffRun, PhoneControl,
        FiniteSetTheorems, TLAPS

-----------------------------------------------------------------------------
(* The HTTP server *)

HttpRequests ==
  [at : {"accepted", "guards", "route", "op"}, post : BOOLEAN, route : GetRoutes \union {"op"},
   given : Tokens \union {NoToken}, csrf : Nat]
HttpOutcomes == [code : Int] \union [code : Int, op : Nat, run : Nat]

\* No page and no request is of a run to come, and what is past the guards is of this one.
HttpIInv ==
  /\ HttpTypeOK
  /\ request \in [Browsers -> {Unasked} \union HttpRequests]
  /\ httpOutcome \in [Browsers -> HttpOutcomes]
  /\ \A b \in Browsers : pageRun[b] <= run
  /\ \A b \in Browsers : request[b] # Unasked => request[b].csrf <= pageRun[b]
  /\ \A b \in Browsers : request[b].at = "op" => request[b].csrf = run
  /\ OperationsAreOfThisRun

\* Where a request goes on to, only its place changes.
LEMMA MovedRequest ==
  ASSUME NEW r \in HttpRequests, NEW place \in {"accepted", "guards", "route", "op"}
  PROVE  /\ [r EXCEPT !.at = place] \in HttpRequests
         /\ [r EXCEPT !.at = place].csrf = r.csrf /\ [r EXCEPT !.at = place].at = place
BY DEF HttpRequests

\* A request that is answered leaves nothing behind but its code.
LEMMA AnswersAreNoOperations ==
  ASSUME HttpIInv, NEW b \in Browsers, NEW code \in Int, Answer(b, code),
         UNCHANGED <<config, keyword, run, edits, requests>>,
         pageRun' = pageRun \/ pageRun' = [pageRun EXCEPT ![b] = run]
  PROVE  HttpIInv'
<1> USE DEF HttpIInv, HttpTypeOK, Unasked, HttpRequests, HttpOutcomes
<1>1. \A c \in Browsers : pageRun'[c] \in 0..MaxRuns /\ pageRun'[c] <= run' /\ pageRun[c] <= pageRun'[c] OBVIOUS
<1>2. pageRun' \in [Browsers -> 0..MaxRuns] OBVIOUS
<1>3. request' \in [Browsers -> {Unasked} \union HttpRequests] /\ \A c \in Browsers :
        request'[c] = Unasked \/ request'[c] = request[c]
  BY DEF Answer
<1>4. \A c \in Browsers : httpOutcome'[c] = [code |-> code] \/ httpOutcome'[c] = httpOutcome[c]
  BY DEF Answer
<1>5. httpOutcome' \in [Browsers -> HttpOutcomes] BY DEF Answer
<1>6. OperationsAreOfThisRun' BY <1>1, <1>4 DEF OperationsAreOfThisRun
<1> QED BY <1>1, <1>2, <1>3, <1>5, <1>6

\* A request that goes on is where it goes to, as it was.
LEMMA GoesOn ==
  ASSUME HttpIInv, NEW b \in Browsers, NEW place \in {"accepted", "guards", "route", "op"},
         request[b] # Unasked, Go(b, [request[b] EXCEPT !.at = place]),
         place = "op" => request[b].csrf = run,
         UNCHANGED <<config, keyword, run, edits, requests, pageRun>>
  PROVE  HttpIInv'
<1> DEFINE r == [request[b] EXCEPT !.at = place]
<1>1. r \in HttpRequests /\ r.csrf = request[b].csrf /\ r.at = place
  BY MovedRequest DEF HttpIInv
<1>2. request' = [request EXCEPT ![b] = r] BY DEF Go
<1> HIDE DEF r
<1>3. httpOutcome' = httpOutcome BY DEF Go
<1>4. OperationsAreOfThisRun' BY <1>3 DEF OperationsAreOfThisRun, HttpIInv
<1>5. HttpTypeOK' BY <1>1, <1>2 DEF HttpIInv, HttpTypeOK, HttpRequests
<1> QED BY <1>1, <1>2, <1>3, <1>4, <1>5 DEF HttpIInv, HttpRequests, Unasked

\* Nobody has a page yet.
LEMMA HttpBegins == HttpInit => HttpIInv
BY HttpAssumption DEF HttpInit, HttpIInv, HttpTypeOK, Unasked, NoOutcome, HttpOutcomes, OperationsAreOfThisRun

\* No step lets a request past the guards that is of another run, a restart ends those that are.
LEMMA HttpStep == ASSUME HttpIInv, [HttpNext]_httpVars PROVE HttpIInv'
<1>0. run \in Nat /\ MaxRuns \in Nat /\ pageRun \in [Browsers -> 0..MaxRuns]
  BY HttpAssumption DEF HttpIInv, HttpTypeOK
<1>1. ASSUME NEW content \in {"good", "half", "gone"}, EditConfig(content) PROVE HttpIInv'
  BY <1>1 DEF EditConfig, HttpIInv, HttpTypeOK, OperationsAreOfThisRun
<1>2. ASSUME NEW t \in Tokens \union {NoToken}, EditLocal(t) PROVE HttpIInv'
  BY <1>2 DEF EditLocal, HttpIInv, HttpTypeOK, OperationsAreOfThisRun
<1>3. CASE ServerRestarts
  <2>1. run' = run + 1 /\ run' \in 1..MaxRuns BY <1>0, <1>3 DEF ServerRestarts
  <2>2. \A b \in Browsers : request'[b] = Unasked BY <1>3 DEF ServerRestarts
  <2>3. \A b \in Browsers : httpOutcome'[b] = [code |-> 0] \/ httpOutcome'[b] = httpOutcome[b]
    BY <1>3 DEF ServerRestarts
  <2>4. httpOutcome' \in [Browsers -> HttpOutcomes] BY <1>3 DEF ServerRestarts, HttpOutcomes, HttpIInv
  <2>5. request' \in [Browsers -> {Unasked}] BY <1>3 DEF ServerRestarts
  <2>6. pageRun' = pageRun /\ UNCHANGED <<config, keyword>> BY <1>3 DEF ServerRestarts
  <2>7. OperationsAreOfThisRun' BY <2>3, <2>6 DEF OperationsAreOfThisRun, HttpIInv
  <2> QED BY <1>0, <2>1, <2>2, <2>4, <2>5, <2>6, <2>7 DEF HttpIInv, HttpTypeOK, Unasked
<1>4. ASSUME NEW b \in Browsers, NEW post \in BOOLEAN, NEW route \in GetRoutes \union {"op"},
             NEW given \in Tokens \union {NoToken}, NEW ours \in BOOLEAN,
             Send(b, post, route, given, ours)
      PROVE  HttpIInv'
  <2> DEFINE r == [at |-> "accepted", post |-> post, route |-> route, given |-> given,
                   csrf |-> IF ours THEN pageRun[b] ELSE 0]
  <2>1. r \in HttpRequests /\ r.at = "accepted" /\ r.csrf <= pageRun[b]
    BY <1>0 DEF HttpRequests
  <2>2. request' = [request EXCEPT ![b] = r] BY <1>4 DEF Send
  <2> HIDE DEF r
  <2>3. httpOutcome' = [httpOutcome EXCEPT ![b] = NoOutcome] BY <1>4 DEF Send
  <2>4. httpOutcome' \in [Browsers -> HttpOutcomes] BY <2>3 DEF HttpIInv, HttpOutcomes, NoOutcome
  <2>5. UNCHANGED <<config, keyword, run, pageRun>> BY <1>4 DEF Send
  <2>6. OperationsAreOfThisRun' BY <2>3, <2>5 DEF OperationsAreOfThisRun, HttpIInv, NoOutcome
  <2>7. HttpTypeOK' BY <2>1, <2>2, <2>5 DEF HttpIInv, HttpTypeOK
  <2> QED BY <2>1, <2>2, <2>4, <2>5, <2>6, <2>7 DEF HttpIInv, Unasked
<1>5. ASSUME NEW b \in Browsers, Accept(b) PROVE HttpIInv'
  <2>1. CASE \E code \in Int : Answer(b, code) BY <1>5, <2>1, AnswersAreNoOperations DEF Accept
  <2>2. CASE ~\E code \in Int : Answer(b, code)
    <3> DEFINE place == IF request[b].post THEN "guards" ELSE "route"
    <3>1. request[b] # Unasked BY <1>5 DEF Accept, Unasked
    <3>2. Go(b, [request[b] EXCEPT !.at = place]) BY <1>5, <2>2 DEF Accept, Reset
    <3>3. place \in {"guards", "route"} OBVIOUS
    <3> HIDE DEF place
    <3> QED BY <1>5, <3>1, <3>2, <3>3, GoesOn DEF Accept
  <2> QED BY <2>1, <2>2
<1>6. ASSUME NEW b \in Browsers, Guards(b) PROVE HttpIInv'
  <2>1. CASE \E code \in Int : Answer(b, code) BY <1>6, <2>1, AnswersAreNoOperations DEF Guards
  <2>2. CASE ~\E code \in Int : Answer(b, code)
    <3>1. request[b] # Unasked BY <1>6 DEF Guards, Unasked
    <3>2. request[b].csrf = run /\ Go(b, [request[b] EXCEPT !.at = "op"])
      BY <1>6, <2>2 DEF Guards, CsrfOk
    <3> QED BY <1>6, <3>1, <3>2, GoesOn DEF Guards
  <2> QED BY <2>1, <2>2
<1>7. ASSUME NEW b \in Browsers, Operate(b) PROVE HttpIInv'
  <2> DEFINE out == [code |-> 200, op |-> request[b].csrf, run |-> run]
  <2>1. request[b] # Unasked BY <1>7 DEF Operate, Unasked
  <2>2. request[b].csrf = run /\ request[b].csrf <= pageRun[b] BY <1>7, <2>1 DEF Operate, HttpIInv
  <2>3. out \in HttpOutcomes /\ out.op = out.run /\ out.op <= pageRun[b] BY <1>0, <2>2 DEF HttpOutcomes
  <2>4. httpOutcome' = [httpOutcome EXCEPT ![b] = out] BY <1>7 DEF Operate
  <2> HIDE DEF out
  <2>5. request' = [request EXCEPT ![b] = Unasked] /\ UNCHANGED <<config, keyword, run, pageRun>>
    BY <1>7 DEF Operate
  <2>6. OperationsAreOfThisRun' BY <1>0, <2>3, <2>4, <2>5 DEF OperationsAreOfThisRun, HttpIInv, HttpOutcomes
  <2>7. HttpTypeOK' BY <2>5 DEF HttpIInv, HttpTypeOK, Unasked
  <2> QED BY <2>3, <2>4, <2>5, <2>6, <2>7 DEF HttpIInv, Unasked
<1>8. ASSUME NEW b \in Browsers, Route(b) PROVE HttpIInv'
  <2>1. PICK code \in Int : Answer(b, code) BY <1>8 DEF Route, Reset
  <2> QED BY <1>8, <2>1, AnswersAreNoOperations DEF Route
<1>9. CASE UNCHANGED httpVars
  BY <1>9 DEF httpVars, HttpIInv, HttpTypeOK, OperationsAreOfThisRun
<1> QED BY <1>1, <1>2, <1>3, <1>4, <1>5, <1>6, <1>7, <1>8, <1>9 DEF HttpNext

\* monitor.py's check of the CSRF token: an operation ran only for a page of the same run of the
\* server, whatever restarts and edits of the configuration came between the page and the POST.
THEOREM OperationsHavePages == HttpSpec => [](HttpTypeOK /\ OperationsAreOfThisRun)
<1>1. HttpInit => HttpIInv BY HttpBegins
<1>2. HttpIInv /\ [HttpNext]_httpVars => HttpIInv' BY HttpStep
<1>3. HttpIInv => HttpTypeOK /\ OperationsAreOfThisRun BY DEF HttpIInv
<1> QED BY <1>1, <1>2, <1>3, PTL DEF HttpSpec

-----------------------------------------------------------------------------
(* Killing a process *)

OpsProcesses == [program : Programs \union {"none"}, nr : Nat]
Listings == [at : Nat, known : BOOLEAN, ports : [Pids -> OpsProcesses]]

\* A listing is of now or earlier: a pid it shows a process for has that one or a later one or none.
IsPast(data) ==
  \A p \in Pids : /\ data.ports[p].nr <= starts
                  /\ process[p] # NoProcess =>
                       process[p].nr > data.ports[p].nr \/ process[p] = data.ports[p]

\* Processes are told apart by their numbers, and what was killed runs no more.
OpsIInv ==
  /\ seconds \in Nat /\ starts \in Nat /\ process \in [Pids -> OpsProcesses]
  /\ \A p \in Pids : process[p].nr <= starts /\ (process[p].nr = 0 <=> process[p] = NoProcess)
  /\ \A p, q \in Pids : process[p].nr = process[q].nr /\ process[p] # NoProcess => p = q
  /\ listing \in Listings /\ IsPast(listing)
  /\ opsRequest \in [Requests -> [place : {"idle", "list", "keep", "act", "forget"}, data : Listings]]
  /\ \A r \in Requests : IsPast(opsRequest[r].data)
  /\ \A k \in killed : k.hit.nr \in 1..starts /\ \A p \in Pids : process[p].nr # k.hit.nr
  /\ gone \subseteq {k.hit.nr : k \in killed}
  /\ \A r \in Requests : opsRequest[r].place = "keep" => \A nr \in gone : ~Shows(opsRequest[r].data, nr)
  /\ KillsAreJustified

\* At first no request holds a listing.
LEMMA OpsBegins == OpsInit => OpsIInv
<1> SUFFICES ASSUME OpsInit PROVE OpsIInv OBVIOUS
<1>1. NoListing \in Listings /\ NoProcess \in OpsProcesses BY DEF NoListing, Listings, NoProcess, OpsProcesses
<1>2. IsPast(NoListing) BY DEF IsPast, OpsInit, NoListing, NoProcess
<1>3. KillsAreJustified BY DEF OpsInit, KillsAreJustified, NoListing
<1> QED BY <1>1, <1>2, <1>3 DEF OpsInit, OpsIInv, NoRequest, NoProcess, Shows

\* Where a request goes on to, it keeps its listing.
LEMMA MovedOpsRequest ==
  ASSUME OpsIInv, NEW r \in Requests, NEW place \in {"idle", "list", "keep", "act", "forget"},
         opsRequest' = [opsRequest EXCEPT ![r].place = place]
  PROVE  \A q \in Requests : opsRequest'[q].data = opsRequest[q].data
           /\ opsRequest'[q].place = (IF q = r THEN place ELSE opsRequest[q].place)
           /\ opsRequest' \in [Requests -> [place : {"idle", "list", "keep", "act", "forget"}, data : Listings]]
<1> DEFINE Recs == [place : {"idle", "list", "keep", "act", "forget"}, data : Listings]
<1>1. \A x \in Recs : [x EXCEPT !.place = place] \in Recs /\ [x EXCEPT !.place = place].data = x.data
        /\ [x EXCEPT !.place = place].place = place
  OBVIOUS
<1>2. opsRequest[r] \in Recs /\ opsRequest \in [Requests -> Recs] BY DEF OpsIInv
<1>3. PICK x \in Recs : x = [opsRequest[r] EXCEPT !.place = place] BY <1>1, <1>2
<1>4. opsRequest' = [opsRequest EXCEPT ![r] = x] BY <1>3
<1>5. x.data = opsRequest[r].data /\ x.place = place BY <1>1, <1>2, <1>3
<1> HIDE DEF Recs
<1> QED BY <1>2, <1>4, <1>5 DEF Recs

\* As long as processes, what was killed and the kept listing stay, requests change only themselves.
LEMMA RequestsOnly ==
  ASSUME OpsIInv, UNCHANGED <<process, starts, listing, killed, gone>>, seconds' \in Nat,
         opsRequest' \in [Requests -> [place : {"idle", "list", "keep", "act", "forget"}, data : Listings]],
         \A r \in Requests : IsPast(opsRequest'[r].data),
         \A r \in Requests : opsRequest'[r].place = "keep" => \A nr \in gone : ~Shows(opsRequest'[r].data, nr)
  PROVE  OpsIInv'
<1>1. KillsAreJustified' BY DEF OpsIInv, KillsAreJustified
<1>2. IsPast(listing)' BY DEF OpsIInv, IsPast
<1>3. \A r \in Requests : IsPast(opsRequest[r].data)' BY DEF IsPast
<1> QED BY <1>1, <1>2, <1>3 DEF OpsIInv, Shows

\* What runs now shows in the listing of now, and nothing that was killed does.
LEMMA OpsListsNow ==
  ASSUME OpsIInv, NEW data \in Listings, data.ports = process
  PROVE  IsPast(data) /\ \A nr \in gone : ~Shows(data, nr)
BY DEF OpsIInv, IsPast, Shows

\* What a request kills is what its listing shows at that port.
LEMMA KillStep == ASSUME OpsIInv, NEW r \in Requests, NEW p \in Pids, Kill(r, p) PROVE OpsIInv'
<1> DEFINE entry == opsRequest[r].data.ports[p]
<1>0. opsRequest[r].place = "act" /\ opsRequest[r].data \in Listings /\ entry \in OpsProcesses
      /\ process[p] \in OpsProcesses /\ UNCHANGED <<seconds, starts, listing, gone>>
      /\ IsPast(opsRequest[r].data) /\ starts \in Nat
  BY DEF Kill, OpsIInv, Listings
<1>1. CASE ~Killable(entry.program)
  <2>1. opsRequest' = [opsRequest EXCEPT ![r] = NoRequest] /\ UNCHANGED <<process, killed>> BY <1>1 DEF Kill
  <2>2. NoListing \in Listings /\ IsPast(NoListing)
    BY DEF NoListing, Listings, NoProcess, OpsProcesses, IsPast, OpsIInv
  <2>3. NoRequest.data = NoListing /\ NoRequest.place = "idle"
        /\ NoRequest \in [place : {"idle", "list", "keep", "act", "forget"}, data : Listings]
    BY <2>2 DEF NoRequest
  <2> HIDE DEF entry
  <2> QED BY <1>0, <2>1, <2>2, <2>3, RequestsOnly DEF OpsIInv
<1>2. CASE Killable(entry.program)
  <2>1. /\ process' = [process EXCEPT ![p] = NoProcess]
        /\ opsRequest' = [opsRequest EXCEPT ![r].place = "forget"]
        /\ killed' = killed \union (IF process[p] = NoProcess THEN {}
                                    ELSE {[hit |-> process[p], entry |-> entry]})
    BY <1>2 DEF Kill
  <2>2. \A q \in Requests : opsRequest'[q].data = opsRequest[q].data
          /\ opsRequest'[q].place = (IF q = r THEN "forget" ELSE opsRequest[q].place)
          /\ opsRequest' \in [Requests -> [place : {"idle", "list", "keep", "act", "forget"}, data : Listings]]
    BY <2>1, MovedOpsRequest
  <2> HIDE DEF entry
  <2>3. \A d \in Listings : IsPast(d) => IsPast(d)' BY <1>0, <2>1 DEF IsPast, OpsIInv
  <2>4. \A k \in killed' : k \in killed \/ (k = [hit |-> process[p], entry |-> entry] /\ process[p] # NoProcess)
    BY <2>1
  <2>5. \A k \in killed' : Killable(k.entry.program)
                             /\ (k.hit.program # k.entry.program => k.hit.nr > k.entry.nr)
    <3>1. process[p] # NoProcess => process[p].nr > entry.nr \/ process[p] = entry
      BY <1>0 DEF IsPast, entry
    <3> QED BY <1>2, <2>4, <3>1 DEF OpsIInv, KillsAreJustified
  <2>6. \A k \in killed' : k.hit.nr \in 1..starts /\ \A q \in Pids : process'[q].nr # k.hit.nr
    <3>1. process[p] # NoProcess => process[p].nr \in 1..starts BY <1>0 DEF OpsIInv, OpsProcesses
    <3>2. \A q \in Pids : process'[q].nr = (IF q = p THEN 0 ELSE process[q].nr)
      BY <2>1 DEF OpsIInv, NoProcess
    <3>3. \A q \in Pids : q # p /\ process[p] # NoProcess => process[q].nr # process[p].nr BY DEF OpsIInv
    <3> QED BY <2>4, <3>1, <3>2, <3>3 DEF OpsIInv
  <2>7. KillsAreJustified' BY <1>0, <2>5 DEF KillsAreJustified, OpsIInv
  <2>8. process' \in [Pids -> OpsProcesses]
        /\ \A q \in Pids : process'[q] = (IF q = p THEN NoProcess ELSE process[q])
    BY <2>1 DEF OpsIInv, NoProcess, OpsProcesses
  <2>9. \A q \in Requests : IsPast(opsRequest[q].data)' BY <2>2, <2>3, SMTT(60) DEF OpsIInv, IsPast
  <2>10. IsPast(listing)' BY <1>0, <2>3 DEF OpsIInv, IsPast
  <2>11. gone' \subseteq {k.hit.nr : k \in killed'} BY <1>0, <2>1 DEF OpsIInv
  <2>12. \A q \in Requests : opsRequest'[q].place = "keep" => \A nr \in gone' : ~Shows(opsRequest'[q].data, nr)
    BY <1>0, <2>2 DEF OpsIInv, Shows
  <2>13. \A x, y \in Pids : process'[x].nr = process'[y].nr /\ process'[x] # NoProcess => x = y
    BY <2>8 DEF OpsIInv, NoProcess
  <2>14. \A q \in Pids : process'[q].nr <= starts' /\ (process'[q].nr = 0 <=> process'[q] = NoProcess)
    BY <1>0, <2>8 DEF OpsIInv, NoProcess
  <2> QED BY <1>0, <2>2, <2>6, <2>7, <2>8, <2>9, <2>10, <2>11, <2>12, <2>13, <2>14 DEF OpsIInv
<1> QED BY <1>1, <1>2

\* Processes that start are numbered anew, processes that end leave their numbers unused.
LEMMA ProcessesStep ==
  ASSUME OpsIInv, NEW p \in Pids,
         ExitProcess(p) \/ \E program \in Programs : StartProcess(p, program)
  PROVE  OpsIInv'
<1>0. /\ UNCHANGED <<seconds, listing, opsRequest, killed, gone>> /\ starts \in Nat /\ starts' \in Nat
      /\ starts <= starts'
  BY DEF ExitProcess, StartProcess, OpsIInv
<1>1. PICK new \in OpsProcesses :
        /\ process' = [process EXCEPT ![p] = new]
        /\ new = NoProcess \/ (new.nr = starts' /\ starts' = starts + 1 /\ process[p] = NoProcess)
  BY <1>0 DEF ExitProcess, StartProcess, OpsProcesses, NoProcess
<1>2. process' \in [Pids -> OpsProcesses]
      /\ \A q \in Pids : process'[q] = (IF q = p THEN new ELSE process[q])
  BY <1>1 DEF OpsIInv
<1>3. \A d \in Listings : IsPast(d) => IsPast(d)'
  BY <1>0, <1>1, <1>2 DEF IsPast, OpsIInv, Listings, OpsProcesses
<1>4. \A q \in Pids : process'[q].nr <= starts' /\ (process'[q].nr = 0 <=> process'[q] = NoProcess)
  BY <1>0, <1>1, <1>2 DEF OpsIInv, NoProcess, OpsProcesses
<1>5. \A x, y \in Pids : process'[x].nr = process'[y].nr /\ process'[x] # NoProcess => x = y
  BY <1>0, <1>1, <1>2 DEF OpsIInv, NoProcess, OpsProcesses
<1>6. \A k \in killed : k.hit.nr \in 1..starts' /\ \A q \in Pids : process'[q].nr # k.hit.nr
  BY <1>0, <1>1, <1>2 DEF OpsIInv, NoProcess
<1>7. \A r \in Requests : IsPast(opsRequest[r].data)' BY <1>0, <1>3 DEF OpsIInv, IsPast
<1>8. IsPast(listing)' BY <1>0, <1>3 DEF OpsIInv, IsPast
<1>9. KillsAreJustified' BY <1>0 DEF OpsIInv, KillsAreJustified
<1> QED BY <1>0, <1>2, <1>4, <1>5, <1>6, <1>7, <1>8, <1>9 DEF OpsIInv, Shows

\* A kill is answered once the kept listing is dropped; only then is its process to be gone from it.
LEMMA ForgetStep == ASSUME OpsIInv, NEW r \in Requests, Forget(r) PROVE OpsIInv'
<1>1. listing' = Dropped(listing) /\ listing' \in Listings /\ ~listing'.known /\ listing'.ports = listing.ports
  BY DEF Forget, Dropped, OpsIInv, Listings
<1>2. UNCHANGED <<seconds, process, starts, killed>> BY DEF Forget
<1>3. NoListing \in Listings /\ IsPast(NoListing)
  BY DEF NoListing, Listings, NoProcess, OpsProcesses, IsPast, OpsIInv
<1>4. opsRequest' = [opsRequest EXCEPT ![r] = NoRequest] BY DEF Forget
<1>5. NoRequest.data = NoListing /\ NoRequest.place = "idle"
      /\ NoRequest \in [place : {"idle", "list", "keep", "act", "forget"}, data : Listings]
  BY <1>3 DEF NoRequest
<1>6. \A q \in Requests : opsRequest'[q] = (IF q = r THEN NoRequest ELSE opsRequest[q]) BY <1>4 DEF OpsIInv
<1>7. opsRequest' \in [Requests -> [place : {"idle", "list", "keep", "act", "forget"}, data : Listings]]
  BY <1>4, <1>5 DEF OpsIInv
<1>8. gone' \subseteq {k.hit.nr : k \in killed'} BY <1>2 DEF Forget, OpsIInv
<1>9. \A nr \in gone' : nr \in gone \/ ~Superseded(r, nr) BY DEF Forget
<1>10. \A q \in Requests : opsRequest'[q].place = "keep" => \A nr \in gone' : ~Shows(opsRequest'[q].data, nr)
  BY <1>5, <1>6, <1>9 DEF OpsIInv, Superseded
<1>11. KillsAreJustified' BY <1>1, <1>2 DEF OpsIInv, KillsAreJustified
<1>12. IsPast(listing)' BY <1>1, <1>2 DEF IsPast, OpsIInv
<1>13. \A q \in Requests : IsPast(opsRequest[q].data)' BY <1>2, <1>3, <1>5, <1>6 DEF IsPast, OpsIInv
<1> QED BY <1>1, <1>2, <1>7, <1>8, <1>10, <1>11, <1>12, <1>13 DEF OpsIInv

\* Every step of the requests and of the processes keeps listings true of the past.
LEMMA OpsStep == ASSUME OpsIInv, [OpsNext]_opsVars PROVE OpsIInv'
<1> DEFINE Recs == [place : {"idle", "list", "keep", "act", "forget"}, data : Listings]
<1>0. NoListing \in Listings /\ IsPast(NoListing) /\ NoRequest \in Recs /\ NoRequest.data = NoListing
      /\ NoRequest.place = "idle" /\ seconds \in Nat /\ opsRequest \in [Requests -> Recs]
  BY DEF NoListing, Listings, NoProcess, OpsProcesses, IsPast, OpsIInv, NoRequest
<1>1. CASE OpsTick BY <1>1, RequestsOnly DEF OpsTick, OpsIInv
<1>2. ASSUME NEW r \in Requests, AskListing(r) PROVE OpsIInv'
  <2> DEFINE d == IF FreshListing THEN listing ELSE [NoListing EXCEPT !.at = seconds]
             rec == [place |-> IF FreshListing THEN "act" ELSE "list", data |-> d]
  <2>1. d \in Listings /\ IsPast(d)
    BY <1>0 DEF OpsIInv, IsPast, NoListing, Listings, NoProcess, OpsProcesses
  <2>2. opsRequest' = [opsRequest EXCEPT ![r] = rec] BY <1>2 DEF AskListing
  <2>3. rec \in Recs /\ rec.data = d /\ rec.place # "keep" BY <2>1
  <2> HIDE DEF d, rec, Recs
  <2>4. \A q \in Requests : opsRequest'[q] = (IF q = r THEN rec ELSE opsRequest[q])
        /\ opsRequest' \in [Requests -> Recs]
    BY <1>0, <2>2, <2>3
  <2>5. \A q \in Requests : IsPast(opsRequest'[q].data) BY <2>1, <2>3, <2>4 DEF OpsIInv
  <2> QED BY <1>0, <1>2, <2>3, <2>4, <2>5, RequestsOnly DEF AskListing, OpsIInv, Recs
<1>3. ASSUME NEW r \in Requests, TakeListing(r) PROVE OpsIInv'
  <2>1. CASE opsRequest' = [opsRequest EXCEPT ![r].place = "act"]
    BY <1>0, <1>3, <2>1, MovedOpsRequest, RequestsOnly DEF TakeListing, OpsIInv
  <2>2. CASE opsRequest' = [opsRequest EXCEPT ![r] =
               [place |-> "keep", data |-> [at |-> @.data.at, ports |-> process, known |-> TRUE]]]
    <3> DEFINE rec == [place |-> "keep",
                       data |-> [at |-> opsRequest[r].data.at, ports |-> process, known |-> TRUE]]
    <3>1. rec \in Recs /\ rec.data \in Listings /\ rec.data.ports = process BY <1>0 DEF OpsIInv, Listings
    <3>2. opsRequest' = [opsRequest EXCEPT ![r] = rec] BY <2>2
    <3> HIDE DEF rec
    <3> HIDE DEF Recs
    <3>4. IsPast(rec.data) /\ \A nr \in gone : ~Shows(rec.data, nr) BY <3>1, OpsListsNow
    <3>5. \A q \in Requests : opsRequest'[q] = (IF q = r THEN rec ELSE opsRequest[q])
          /\ opsRequest' \in [Requests -> Recs]
      BY <1>0, <3>1, <3>2
    <3>6. \A q \in Requests : IsPast(opsRequest'[q].data) BY <3>4, <3>5 DEF OpsIInv
    <3> QED BY <1>0, <1>3, <3>4, <3>5, <3>6, RequestsOnly DEF TakeListing, OpsIInv, Recs
  <2> QED BY <1>3, <2>1, <2>2 DEF TakeListing
<1>4. ASSUME NEW r \in Requests, KeepListing(r) PROVE OpsIInv'
  <2>1. \A q \in Requests : opsRequest'[q].data = opsRequest[q].data
           /\ opsRequest'[q].place = (IF q = r THEN "act" ELSE opsRequest[q].place)
           /\ opsRequest' \in [Requests -> Recs]
    BY <1>4, MovedOpsRequest DEF KeepListing
  <2>2. listing' = opsRequest[r].data /\ listing' \in Listings /\ UNCHANGED <<seconds, process, starts, killed, gone>>
        /\ opsRequest[r].place = "keep"
    BY <1>4 DEF KeepListing, OpsIInv
  <2>3. KillsAreJustified' BY <2>2 DEF OpsIInv, KillsAreJustified, Shows
  <2>4. IsPast(listing)' BY <2>2 DEF OpsIInv, IsPast
  <2>5. \A q \in Requests : IsPast(opsRequest[q].data)' BY <2>1, <2>2 DEF OpsIInv, IsPast
  <2>6. \A q \in Requests : opsRequest'[q].place = "keep" => \A nr \in gone' : ~Shows(opsRequest'[q].data, nr)
    BY <2>1, <2>2 DEF OpsIInv
  <2> QED BY <2>1, <2>2, <2>3, <2>4, <2>5, <2>6 DEF OpsIInv
<1>5. ASSUME NEW r \in Requests, ShowListing(r) \/ \E task \in Tasks : Task(r, task) PROVE OpsIInv'
  <2>1. UNCHANGED <<seconds, process, starts, listing, killed, gone>> BY <1>5 DEF ShowListing, Task
  <2>2. CASE opsRequest' = [opsRequest EXCEPT ![r] = NoRequest]
    BY <1>0, <2>1, <2>2, RequestsOnly DEF OpsIInv
  <2>3. CASE opsRequest' = [opsRequest EXCEPT ![r].place = "forget"]
    BY <1>0, <2>1, <2>3, MovedOpsRequest, RequestsOnly DEF OpsIInv
  <2> QED BY <1>5, <2>2, <2>3 DEF ShowListing, Task
<1>6. CASE UNCHANGED opsVars
  <2>1. UNCHANGED <<seconds, process, starts, listing, opsRequest, killed, gone>> BY <1>6 DEF opsVars
  <2> QED BY <1>0, <2>1, RequestsOnly DEF OpsIInv
<1> QED BY <1>1, <1>2, <1>3, <1>4, <1>5, <1>6, KillStep, ProcessesStep, ForgetStep DEF OpsNext

\* What every state of the operations keeps.
LEMMA OpsInvariance == OpsSpec => []OpsIInv
<1>1. OpsInit => OpsIInv BY OpsBegins
<1>2. OpsIInv /\ [OpsNext]_opsVars => OpsIInv' BY OpsStep
<1> QED BY <1>1, <1>2, PTL DEF OpsSpec

\* ops_kill's re-validation: whatever processes end, start and take over pids meanwhile, a kill hits
\* what was listed as killable or a later process of its pid, and the kept listing forgets it.
THEOREM KillsWereListed == OpsSpec => []KillsAreJustified
<1>1. OpsIInv => KillsAreJustified BY DEF OpsIInv
<1>2. OpsSpec => []OpsIInv BY OpsInvariance
<1> QED BY <1>1, <1>2, PTL

\* What every state keeps is typed, but for the bounds of the clock and of the starts.
LEMMA OpsAreTyped == OpsSpec => []OpsTypeOK
<1> DEFINE Bounded == seconds \in 1..(MaxSeconds + 1) /\ starts \in 0..MaxStarts
<1>0. MaxSeconds \in Nat /\ MaxStarts \in Nat BY OpsAssumption
<1>1. OpsInit => Bounded BY <1>0 DEF OpsInit
<1>2. Bounded /\ [OpsNext]_opsVars => Bounded'
  <2> SUFFICES ASSUME Bounded, [OpsNext]_opsVars PROVE Bounded' OBVIOUS
  <2>1. CASE UNCHANGED <<seconds, starts>> BY <2>1
  <2>2. CASE OpsTick BY <1>0, <2>2 DEF OpsTick
  <2>3. ASSUME NEW p \in Pids, NEW program \in Programs, StartProcess(p, program) PROVE Bounded'
    BY <1>0, <2>3 DEF StartProcess
  <2>4. ASSUME NEW p \in Pids, ExitProcess(p) PROVE UNCHANGED <<seconds, starts>> BY <2>4 DEF ExitProcess
  <2>5. ASSUME NEW r \in Requests, AskListing(r) \/ TakeListing(r) \/ KeepListing(r) \/ ShowListing(r) \/ Forget(r)
        PROVE  UNCHANGED <<seconds, starts>>
    BY <2>5 DEF AskListing, TakeListing, KeepListing, ShowListing, Forget
  <2>6. ASSUME NEW r \in Requests, NEW p \in Pids, Kill(r, p) PROVE UNCHANGED <<seconds, starts>> BY <2>6 DEF Kill
  <2>7. ASSUME NEW r \in Requests, NEW task \in Tasks, Task(r, task) PROVE UNCHANGED <<seconds, starts>> BY <2>7 DEF Task
  <2>8. CASE UNCHANGED opsVars BY <2>1, <2>8 DEF opsVars
  <2> QED BY <2>1, <2>2, <2>3, <2>4, <2>5, <2>6, <2>7, <2>8 DEF OpsNext
<1>3. OpsIInv /\ Bounded => OpsTypeOK
  <2> SUFFICES ASSUME OpsIInv, Bounded PROVE OpsTypeOK OBVIOUS
  <2>1. process \in [Pids -> OpsProcesses] /\ \A p \in Pids : process[p].nr <= starts BY DEF OpsIInv
  <2>2. \A p \in Pids : process[p] \in [program : Programs \cup {"none"}, nr : 0..MaxStarts]
    <3> SUFFICES ASSUME NEW p \in Pids PROVE process[p] \in [program : Programs \cup {"none"}, nr : 0..MaxStarts] OBVIOUS
    <3>1. process[p] \in OpsProcesses /\ process[p].nr <= starts BY <2>1
    <3>2. process[p].nr \in 0..MaxStarts BY <1>0, <3>1 DEF OpsProcesses
    <3> QED BY <3>1, <3>2 DEF OpsProcesses
  <2>3. process \in [Pids -> [program : Programs \cup {"none"}, nr : 0..MaxStarts]] BY <2>1, <2>2
  <2>4. opsRequest \in [Requests -> [place : {"idle", "list", "keep", "act", "forget"}, data : Listings]] BY DEF OpsIInv
  <2>5. Listings = [at : Nat, known : BOOLEAN, ports : [Pids -> [program : Programs \cup {"none"}, nr : Nat]]]
    BY DEF Listings, OpsProcesses
  <2> QED BY <2>3, <2>4, <2>5 DEF OpsTypeOK
<1>4. OpsSpec => []OpsIInv BY OpsInvariance
<1> HIDE DEF Bounded
<1> QED BY <1>1, <1>2, <1>3, <1>4, PTL DEF OpsSpec

-----------------------------------------------------------------------------
(* Work given to Dispatch *)

Calls == [at : {"arrived", "lookup", "submit"}, payload : Payloads, heard : BOOLEAN]
           \union [at : {"arrived", "lookup", "submit"}, payload : Payloads, heard : BOOLEAN,
                   allowed : SUBSET Repos]

\* Every request there is: kept by the page, in a thread, left with the service, done.
AllPayloads ==
  unawaited \union {calls[t].payload : t \in {u \in Threads : calls[u] # NoCall}}
    \union ({client.pending} \ {NoPayload}) \union {p.request : p \in performed}

\* A work is created where it was asked for; what is asked of an instance stays asked of that one.
IsWellAsked(p) ==
  /\ p.id <= made
  /\ p.op = "create" => p.asked # Unpinned /\ p.work = p.id
  /\ p.asked # Unpinned => p.expected = p.asked

\* Copies of one request differ only in what they were addressed to.
SameAsked(p, q) == p.op = q.op /\ p.work = q.work /\ p.repo = q.repo /\ p.asked = q.asked

WorkflowTypes ==
  /\ settings \in [pin : Instances \union {Unpinned}, command : BOOLEAN, allowed : SUBSET Repos]
  /\ instance \in Instances /\ made \in Nat
  /\ performed \subseteq [request : Payloads, at : Instances] /\ unawaited \subseteq Payloads
  /\ client \in [identity : Instances \union {Unpinned}, pending : Payloads \union {NoPayload},
                 shown : SUBSET (1..MaxMade)]
  /\ calls \in [Threads -> {NoCall} \union Calls]

PayloadsOK ==
  /\ \A p \in AllPayloads : p \in Payloads /\ IsWellAsked(p)
  /\ \A p, q \in AllPayloads : p.id = q.id => SameAsked(p, q)

\* What the service is sent names the instance it is for.
Addressed ==
  /\ \A t \in Threads : calls[t].at \in {"lookup", "submit"} => calls[t].payload.expected # Unpinned
  /\ \A p \in unawaited : p.expected # Unpinned

WorkflowIInv ==
  /\ WorkflowTypes /\ PayloadsOK /\ Addressed
  /\ \A p \in performed : p.request.expected = p.at
  /\ WorkIsDoneOnce

\* At first nothing is asked, made or done.
LEMMA WorkflowBegins == WorkflowInit => WorkflowIInv
<1> SUFFICES ASSUME WorkflowInit PROVE WorkflowIInv OBVIOUS
<1>1. AllPayloads = {} BY DEF AllPayloads, WorkflowInit, NoPayload, NoCall
<1>2. WorkflowTypes BY DEF WorkflowInit, WorkflowTypes
<1>3. Addressed BY DEF WorkflowInit, Addressed, NoCall
<1> QED BY <1>1, <1>2, <1>3 DEF WorkflowInit, WorkflowIInv, PayloadsOK, WorkIsDoneOnce

\* A call that is answered late or on another errand is a call still.
LEMMA CallFacts ==
  ASSUME NEW c \in Calls
  PROVE  /\ c # NoCall /\ c.payload \in Payloads /\ c.heard \in BOOLEAN
         /\ [c EXCEPT !.heard = FALSE] \in Calls
         /\ [c EXCEPT !.heard = FALSE].payload = c.payload /\ [c EXCEPT !.heard = FALSE].at = c.at
         /\ \A place \in {"arrived", "lookup", "submit"} :
              /\ [c EXCEPT !.at = place] \in Calls
              /\ [c EXCEPT !.at = place].payload = c.payload /\ [c EXCEPT !.at = place].at = place
<1>0. NoCall.at = "free" BY DEF NoCall
<1>1. CASE c \in [at : {"arrived", "lookup", "submit"}, payload : Payloads, heard : BOOLEAN]
  <2>1. c.at # "free" /\ c.payload \in Payloads /\ c.heard \in BOOLEAN BY <1>1
  <2>2. /\ [c EXCEPT !.heard = FALSE] \in Calls
        /\ [c EXCEPT !.heard = FALSE].payload = c.payload /\ [c EXCEPT !.heard = FALSE].at = c.at
    BY <1>1 DEF Calls
  <2>3. \A place \in {"arrived", "lookup", "submit"} :
              /\ [c EXCEPT !.at = place] \in Calls
              /\ [c EXCEPT !.at = place].payload = c.payload /\ [c EXCEPT !.at = place].at = place
    BY <1>1 DEF Calls
  <2> QED BY <1>0, <2>1, <2>2, <2>3
<1>2. CASE c \in [at : {"arrived", "lookup", "submit"}, payload : Payloads, heard : BOOLEAN,
                  allowed : SUBSET Repos]
  <2>1. c.at # "free" /\ c.payload \in Payloads /\ c.heard \in BOOLEAN BY <1>2
  <2>2. /\ [c EXCEPT !.heard = FALSE] \in Calls
        /\ [c EXCEPT !.heard = FALSE].payload = c.payload /\ [c EXCEPT !.heard = FALSE].at = c.at
    BY <1>2 DEF Calls
  <2>3. \A place \in {"arrived", "lookup", "submit"} :
              /\ [c EXCEPT !.at = place] \in Calls
              /\ [c EXCEPT !.at = place].payload = c.payload /\ [c EXCEPT !.at = place].at = place
    BY <1>2 DEF Calls
  <2> QED BY <1>0, <2>1, <2>2, <2>3
<1> QED BY <1>1, <1>2 DEF Calls

\* Requests that are dropped or moved about are still as they were asked.
LEMMA NoNewPayloads ==
  ASSUME PayloadsOK, AllPayloads' \subseteq AllPayloads, made' \in Nat, made \in Nat, made <= made'
  PROVE  PayloadsOK'
<1>1. \A p \in Payloads : IsWellAsked(p) => IsWellAsked(p)' BY DEF IsWellAsked, Payloads
<1> QED BY <1>1 DEF PayloadsOK, SameAsked

\* The service does what it is sent once: copies that come later, to it or to another instance, are
\* answered or refused.
LEMMA DoneIsOnce ==
  ASSUME WorkflowIInv, NEW payload \in AllPayloads, payload.expected # Unpinned, Accepts(payload),
         performed' = DoneWith(payload)
  PROVE  /\ performed' \subseteq [request : Payloads, at : Instances]
         /\ {p.request : p \in performed'} \subseteq {p.request : p \in performed} \union {payload}
         /\ \A p \in performed' : p.request.expected = p.at
         /\ WorkIsDoneOnce'
<1> DEFINE new == [request |-> payload, at |-> instance]
<1>0. payload \in Payloads /\ instance \in Instances /\ performed \subseteq [request : Payloads, at : Instances]
  BY DEF WorkflowIInv, WorkflowTypes, PayloadsOK
<1>1. CASE performed' = performed BY <1>1 DEF WorkflowIInv, WorkflowTypes, WorkIsDoneOnce, IsThere
<1>2. CASE performed' # performed
  <2>1. performed' = performed \union {new}
        /\ \A p \in performed : ~(p.at = instance /\ p.request.id = payload.id)
    BY <1>2 DEF DoneWith
  <2>2. new \in [request : Payloads, at : Instances] /\ new.request = payload /\ new.at = instance BY <1>0
  <2>3. payload.expected = instance BY DEF Accepts
  <2> HIDE DEF new
  <2>4. \A p \in performed' : p.request.expected = p.at BY <2>1, <2>2, <2>3 DEF WorkflowIInv
  <2>5. \A i \in Instances : \A w \in 1..MaxMade : IsThere(w, i) => IsThere(w, i)' BY <2>1 DEF IsThere
  <2>6. \A p \in performed' : p.request.asked \in {p.at, Unpinned}
    <3>1. payload.asked \in {instance, Unpinned} BY <2>3 DEF WorkflowIInv, PayloadsOK, IsWellAsked
    <3> QED BY <2>1, <2>2, <3>1 DEF WorkflowIInv, WorkIsDoneOnce
  <2>7. \A p \in performed' : p.request.op = "action" => IsThere(p.request.work, p.at)'
    <3>1. \A p \in performed : p.request.work \in 1..MaxMade /\ p.at \in Instances BY <1>0 DEF Payloads
    <3>2. payload.work \in 1..MaxMade BY <1>0 DEF Payloads
    <3> QED BY <1>0, <2>1, <2>2, <2>5, <3>1, <3>2 DEF WorkflowIInv, WorkIsDoneOnce, Accepts
  <2>8. ASSUME NEW q \in performed, q.request.id = payload.id PROVE FALSE
    <3>1. q.request \in AllPayloads BY DEF AllPayloads
    <3>2. SameAsked(payload, q.request) BY <2>8, <3>1 DEF WorkflowIInv, PayloadsOK
    <3>3. q.at # instance /\ q.request.expected = q.at BY <2>1, <2>8 DEF WorkflowIInv
    <3>4. CASE payload.op = "create"
      <4>1. payload.expected = payload.asked /\ payload.asked # Unpinned
        BY <3>4 DEF WorkflowIInv, PayloadsOK, IsWellAsked
      <4>2. q.request.expected = q.request.asked
        BY <3>1, <3>2, <4>1 DEF WorkflowIInv, PayloadsOK, IsWellAsked, SameAsked
      <4> QED BY <2>3, <3>2, <3>3, <4>1, <4>2 DEF SameAsked
    <3>5. CASE payload.op = "action"
      <4>1. PICK c \in performed : c.at = instance /\ c.request.op = "create" /\ c.request.id = payload.work
        BY <3>5 DEF Accepts, IsThere
      <4>2. IsThere(payload.work, q.at) BY <3>2, <3>5 DEF WorkflowIInv, WorkIsDoneOnce, SameAsked
      <4>3. PICK d \in performed : d.at = q.at /\ d.request.op = "create" /\ d.request.id = payload.work
        BY <4>2 DEF IsThere
      <4>4. c = d BY <4>1, <4>3 DEF WorkflowIInv, WorkIsDoneOnce
      <4> QED BY <3>3, <4>1, <4>3, <4>4
    <3> QED BY <1>0, <3>4, <3>5 DEF Payloads
  <2>9. \A p, q \in performed' : p.request.id = q.request.id => p = q
    BY <2>1, <2>2, <2>8 DEF WorkflowIInv, WorkIsDoneOnce
  <2>10. WorkIsDoneOnce' BY <2>6, <2>7, <2>9 DEF WorkIsDoneOnce
  <2> QED BY <1>0, <2>1, <2>2, <2>4, <2>10
<1> QED BY <1>1, <1>2

\* Whatever is done to the page, the settings and the host does nothing that was not asked for.
LEMMA NothingIsDone ==
  ASSUME WorkflowIInv, performed' = performed, WorkflowTypes', PayloadsOK', Addressed'
  PROVE  WorkflowIInv'
BY DEF WorkflowIInv, WorkIsDoneOnce, IsThere

\* An answered call leaves its thread, and what the page keeps if the page hears of a success.
LEMMA AnsweredCall ==
  ASSUME WorkflowTypes, NEW t \in Threads, NEW code, AnswerCall(t, code)
  PROVE  /\ calls' \in [Threads -> {NoCall} \union Calls]
         /\ \A u \in Threads : calls'[u] = (IF u = t THEN NoCall ELSE calls[u])
         /\ client' \in [identity : Instances \union {Unpinned}, pending : Payloads \union {NoPayload},
                         shown : SUBSET (1..MaxMade)]
         /\ client'.pending \in {client.pending, NoPayload}
         /\ client'.identity = client.identity
BY DEF AnswerCall, WorkflowTypes

\* A submission is done where the page asked for it, or not at all.
LEMMA SubmitStep == ASSUME WorkflowIInv, NEW t \in Threads, SubmitWork(t) PROVE WorkflowIInv'
<1> DEFINE payload == calls[t].payload
<1>1. PICK code : AnswerCall(t, code) BY DEF SubmitWork
<1>2. WorkflowTypes BY DEF WorkflowIInv
<1>3. calls[t] # NoCall /\ calls[t] \in Calls /\ payload \in AllPayloads /\ payload \in Payloads
      /\ payload.expected # Unpinned
  <2>1. calls[t].at = "submit" /\ calls[t] # NoCall BY DEF SubmitWork, NoCall
  <2>2. calls[t] \in Calls BY <1>2, <2>1 DEF WorkflowTypes
  <2>3. payload \in AllPayloads BY <2>1 DEF AllPayloads
  <2> QED BY <2>1, <2>2, <2>3, CallFacts DEF WorkflowIInv, Addressed
<1>4. UNCHANGED <<settings, instance, made>> BY DEF SubmitWork
<1>5. \/ performed' = performed /\ unawaited' = unawaited
      \/ performed' = performed /\ unawaited' = unawaited \union {payload}
      \/ unawaited' = unawaited /\ performed' = DoneWith(payload) /\ Accepts(payload)
  BY DEF SubmitWork
<1> HIDE DEF payload
<1>6. /\ performed' \subseteq [request : Payloads, at : Instances]
      /\ {p.request : p \in performed'} \subseteq {p.request : p \in performed} \union {payload}
      /\ \A p \in performed' : p.request.expected = p.at
      /\ WorkIsDoneOnce'
  <2>1. CASE performed' = performed
    BY <2>1 DEF WorkflowIInv, WorkIsDoneOnce, IsThere, WorkflowTypes
  <2>2. CASE performed' = DoneWith(payload) /\ Accepts(payload) BY <1>3, <2>2, DoneIsOnce
  <2> QED BY <1>5, <2>1, <2>2
<1>7. unawaited' \subseteq unawaited \union {payload} BY <1>5
<1>8. WorkflowTypes'
  <2>1. unawaited' \subseteq Payloads BY <1>2, <1>3, <1>7 DEF WorkflowTypes
  <2> QED BY <1>1, <1>2, <1>4, <1>6, <2>1, AnsweredCall DEF WorkflowTypes
<1>9. AllPayloads' \subseteq AllPayloads
  BY <1>1, <1>2, <1>3, <1>6, <1>7, AnsweredCall DEF AllPayloads
<1>10. PayloadsOK' BY <1>2, <1>4, <1>9, NoNewPayloads DEF WorkflowIInv, WorkflowTypes
<1>11. Addressed' BY <1>1, <1>2, <1>3, <1>7, AnsweredCall DEF Addressed, WorkflowIInv, NoCall
<1> QED BY <1>6, <1>8, <1>10, <1>11 DEF WorkflowIInv

\* The service does late only what was asked of it.
LEMMA LateStep == ASSUME WorkflowIInv, NEW payload \in unawaited, ServiceIsLate(payload) PROVE WorkflowIInv'
<1>1. payload \in AllPayloads /\ payload.expected # Unpinned BY DEF AllPayloads, WorkflowIInv, Addressed
<1>2. unawaited' \subseteq unawaited /\ UNCHANGED <<settings, instance, client, calls, made>> BY DEF ServiceIsLate
<1>3. /\ performed' \subseteq [request : Payloads, at : Instances]
      /\ {p.request : p \in performed'} \subseteq {p.request : p \in performed} \union {payload}
      /\ \A p \in performed' : p.request.expected = p.at
      /\ WorkIsDoneOnce'
  <2>1. CASE performed' = performed
    BY <2>1 DEF WorkflowIInv, WorkIsDoneOnce, IsThere, WorkflowTypes
  <2>2. CASE performed' = DoneWith(payload) /\ Accepts(payload) BY <1>1, <2>2, DoneIsOnce
  <2> QED BY <2>1, <2>2 DEF ServiceIsLate
<1>4. WorkflowTypes' BY <1>2, <1>3 DEF WorkflowTypes, WorkflowIInv
<1>5. AllPayloads' \subseteq AllPayloads BY <1>1, <1>2, <1>3 DEF AllPayloads
<1>6. PayloadsOK' BY <1>2, <1>5, NoNewPayloads DEF WorkflowIInv, WorkflowTypes
<1>7. Addressed' BY <1>2 DEF Addressed, WorkflowIInv
<1> QED BY <1>3, <1>4, <1>6, <1>7 DEF WorkflowIInv

\* The host and the page change no request but for the one the page lets go.
LEMMA PageStep ==
  ASSUME WorkflowIInv, HostChanges \/ InspectHost \/ RefreshList \/ ResolveRequest
  PROVE  WorkflowIInv'
<1>1. WorkflowTypes BY DEF WorkflowIInv
<1>2. UNCHANGED <<performed, unawaited, calls, made>>
  BY DEF HostChanges, InspectHost, RefreshList, ResolveRequest
<1>3. client'.pending \in {client.pending, NoPayload}
      /\ client' \in [identity : Instances \union {Unpinned}, pending : Payloads \union {NoPayload},
                      shown : SUBSET (1..MaxMade)]
  BY <1>1 DEF HostChanges, InspectHost, RefreshList, ResolveRequest, WorkflowTypes
<1>4. settings' \in [pin : Instances \union {Unpinned}, command : BOOLEAN, allowed : SUBSET Repos]
      /\ instance' \in Instances
  BY <1>1 DEF HostChanges, InspectHost, RefreshList, ResolveRequest, WorkflowTypes
<1>5. WorkflowTypes' BY <1>1, <1>2, <1>3, <1>4 DEF WorkflowTypes
<1>6. AllPayloads' \subseteq AllPayloads BY <1>2, <1>3 DEF AllPayloads
<1>7. PayloadsOK' BY <1>1, <1>2, <1>6, NoNewPayloads DEF WorkflowIInv, WorkflowTypes
<1>8. Addressed' BY <1>2 DEF WorkflowIInv, Addressed
<1> QED BY <1>2, <1>5, <1>7, <1>8, NothingIsDone

\* A page that is loaded anew shows nothing, and keeps the request that is pending.
LEMMA ReloadStep == ASSUME WorkflowIInv, ReloadPage PROVE WorkflowIInv'
<1>1. WorkflowTypes BY DEF WorkflowIInv
<1>2. UNCHANGED <<settings, instance, performed, unawaited, made>> BY DEF ReloadPage
<1>3. client'.pending = client.pending
      /\ client' \in [identity : Instances \union {Unpinned}, pending : Payloads \union {NoPayload},
                      shown : SUBSET (1..MaxMade)]
  <2>1. client.pending # NoPayload => client.pending.expected \in Instances \union {Unpinned}
    BY <1>1 DEF WorkflowTypes, Payloads
  <2> QED BY <1>1, <2>1 DEF ReloadPage, WorkflowTypes
<1>4. \A u \in Threads : calls'[u] \in {NoCall} \union Calls
        /\ (calls[u] = NoCall => calls'[u] = NoCall)
        /\ (calls[u] # NoCall => calls'[u].payload = calls[u].payload /\ calls'[u].at = calls[u].at)
  <2> SUFFICES ASSUME NEW u \in Threads
               PROVE  calls'[u] \in {NoCall} \union Calls
                      /\ (calls[u] = NoCall => calls'[u] = NoCall)
                      /\ (calls[u] # NoCall => calls'[u].payload = calls[u].payload
                                                 /\ calls'[u].at = calls[u].at)
    OBVIOUS
  <2>1. calls'[u] = IF calls[u] = NoCall THEN NoCall ELSE [calls[u] EXCEPT !.heard = FALSE]
    BY DEF ReloadPage
  <2>2. calls[u] \in {NoCall} \union Calls BY <1>1 DEF WorkflowTypes
  <2> QED BY <2>1, <2>2, CallFacts, ZenonT(60)
<1>5. calls' \in [Threads -> {NoCall} \union Calls]
  <2>1. calls' = [u \in Threads |-> calls'[u]] BY DEF ReloadPage
  <2> QED BY <1>4, <2>1
<1>6. WorkflowTypes' BY <1>1, <1>2, <1>3, <1>5 DEF WorkflowTypes
<1>7. AllPayloads' \subseteq AllPayloads BY <1>2, <1>3, <1>4 DEF AllPayloads
<1>8. PayloadsOK' BY <1>1, <1>2, <1>7, NoNewPayloads DEF WorkflowIInv, WorkflowTypes
<1>9. Addressed' BY <1>2, <1>4 DEF WorkflowIInv, Addressed, NoCall
<1> QED BY <1>2, <1>6, <1>8, <1>9, NothingIsDone

\* A request that a thread is given.
LEMMA CarriedCall ==
  ASSUME WorkflowTypes, NEW t \in Threads, NEW payload \in Payloads, Carry(t, payload)
  PROVE  /\ calls' \in [Threads -> {NoCall} \union Calls]
         /\ \A u \in Threads : u # t => calls'[u] = calls[u]
         /\ calls'[t].payload = payload /\ calls'[t].at = "arrived"
<1> DEFINE c == [at |-> "arrived", payload |-> payload, heard |-> TRUE]
<1>1. c \in Calls /\ c.payload = payload /\ c.at = "arrived" BY DEF Calls
<1>2. calls' = [calls EXCEPT ![t] = c] BY DEF Carry
<1> HIDE DEF c
<1> QED BY <1>1, <1>2 DEF WorkflowTypes

\* A new request has a payload of its own.
LEMMA MakeStep ==
  ASSUME WorkflowIInv, NEW t \in Threads, NEW op \in {"create", "action"}, NEW work \in 1..MaxMade,
         NEW repo \in Repos, MakeRequest(t, op, work, repo)
  PROVE  WorkflowIInv'
<1>1. WorkflowTypes /\ made \in Nat /\ MaxMade \in Nat /\ made < MaxMade /\ made' = made + 1
  BY WorkflowAssumption DEF WorkflowIInv, WorkflowTypes, MakeRequest
<1>2. [op |-> op, id |-> made + 1, work |-> work, repo |-> repo,
       expected |-> client.identity, asked |-> client.identity] \in Payloads
  BY <1>1 DEF WorkflowTypes, Payloads
<1>3. PICK new \in Payloads :
        new = [op |-> op, id |-> made + 1, work |-> work, repo |-> repo,
               expected |-> client.identity, asked |-> client.identity]
  BY <1>2
<1>4. /\ Carry(t, new) /\ client' = [client EXCEPT !.pending = new]
      /\ new.id = made' /\ new.asked = new.expected
      /\ new.op = "create" => new.asked # Unpinned /\ new.work = new.id
  BY <1>1, <1>3 DEF MakeRequest
<1>5. UNCHANGED <<settings, instance, performed, unawaited>> /\ calls[t] = NoCall BY DEF MakeRequest
<1>6. /\ calls' \in [Threads -> {NoCall} \union Calls]
      /\ \A u \in Threads : u # t => calls'[u] = calls[u]
      /\ calls'[t].payload = new /\ calls'[t].at = "arrived"
  BY <1>1,  <1>4, CarriedCall
<1>7. client' \in [identity : Instances \union {Unpinned}, pending : Payloads \union {NoPayload},
                   shown : SUBSET (1..MaxMade)] /\ client'.pending = new
  BY <1>1,  <1>4 DEF WorkflowTypes
<1>8. WorkflowTypes' BY <1>1, <1>5, <1>6, <1>7 DEF WorkflowTypes
<1>9. AllPayloads' \subseteq AllPayloads \union {new} BY <1>5, <1>6, <1>7 DEF AllPayloads
<1>10. PayloadsOK'
  <2>1. \A p \in AllPayloads : p \in Payloads /\ IsWellAsked(p)' /\ p.id < new.id
    BY <1>1, <1>4 DEF WorkflowIInv, PayloadsOK, IsWellAsked, Payloads
  <2>2. IsWellAsked(new)' BY <1>1, <1>4 DEF IsWellAsked
  <2>3. new.id \in Nat /\ \A p \in AllPayloads : p.id # new.id BY  <2>1 DEF Payloads
  <2> QED BY  <1>9, <2>1, <2>2, <2>3 DEF WorkflowIInv, PayloadsOK, SameAsked
<1>11. Addressed' BY <1>5, <1>6 DEF WorkflowIInv, Addressed
<1> QED BY <1>5, <1>8, <1>10, <1>11, NothingIsDone

\* A retry asks again for what is pending.
LEMMA RetryStep == ASSUME WorkflowIInv, NEW t \in Threads, RetryRequest(t) PROVE WorkflowIInv'
<1>1. WorkflowTypes BY DEF WorkflowIInv
<1>2. client.pending \in Payloads /\ Carry(t, client.pending) /\ client.pending # NoPayload
      /\ UNCHANGED <<settings, instance, performed, unawaited, client, made>>
  BY <1>1 DEF WorkflowTypes, RetryRequest
<1>3. /\ calls' \in [Threads -> {NoCall} \union Calls]
      /\ \A u \in Threads : u # t => calls'[u] = calls[u]
      /\ calls'[t].payload = client.pending /\ calls'[t].at = "arrived"
  BY <1>1, <1>2, CarriedCall
<1>4. WorkflowTypes' BY <1>1, <1>2, <1>3 DEF WorkflowTypes
<1>5. AllPayloads' \subseteq AllPayloads BY <1>2, <1>3 DEF AllPayloads
<1>6. PayloadsOK' BY <1>1, <1>2, <1>5, NoNewPayloads DEF WorkflowIInv, WorkflowTypes
<1>7. Addressed' BY <1>2, <1>3 DEF WorkflowIInv, Addressed
<1> QED BY <1>2, <1>4, <1>6, <1>7, NothingIsDone

\* A thread that answers without having asked the service.
LEMMA RefusedStep ==
  ASSUME WorkflowIInv, NEW t \in Threads, NEW code, calls[t] # NoCall, AnswerCall(t, code),
         UNCHANGED <<settings, instance, performed, unawaited, made>>
  PROVE  WorkflowIInv'
<1>1. WorkflowTypes BY DEF WorkflowIInv
<1>2. WorkflowTypes' BY <1>1, AnsweredCall DEF WorkflowTypes
<1>3. AllPayloads' \subseteq AllPayloads BY <1>1, AnsweredCall DEF AllPayloads
<1>4. PayloadsOK' BY <1>1, <1>3, NoNewPayloads DEF WorkflowIInv, WorkflowTypes
<1>5. Addressed' BY <1>1, AnsweredCall DEF WorkflowIInv, Addressed, NoCall
<1> QED BY <1>2, <1>4, <1>5, NothingIsDone

\* A request let in is from here on for the instance that is pinned, or else the one it asks for.
LEMMA AdmitStep == ASSUME WorkflowIInv, NEW t \in Threads, AdmitRequest(t) PROVE WorkflowIInv'
<1> DEFINE payload == calls[t].payload
           expected == Expected(settings.pin, payload.expected)
<1>1. WorkflowTypes BY DEF WorkflowIInv
<1>2. calls[t] # NoCall /\ UNCHANGED <<settings, instance, performed, unawaited, made>>
  BY DEF AdmitRequest, NoCall
<1>3. CASE \E code : AnswerCall(t, code) BY <1>2, <1>3, RefusedStep
<1>4. CASE ~\E code : AnswerCall(t, code)
  <2>1. /\ calls' = [calls EXCEPT ![t] =
             [at |-> IF payload.op = "action" THEN "lookup" ELSE "submit", heard |-> calls[t].heard,
              payload |-> [payload EXCEPT !.expected = expected], allowed |-> settings.allowed]]
        /\ client' = client
        /\ ~Differs(settings.pin, payload.expected) /\ expected # Unpinned
    BY <1>4 DEF AdmitRequest
  <2>2. calls[t] \in Calls /\ payload \in Payloads /\ payload \in AllPayloads /\ calls[t].heard \in BOOLEAN
    <3>1. calls[t] \in Calls BY <1>1, <1>2 DEF WorkflowTypes
    <3>2. payload \in AllPayloads BY <1>2 DEF AllPayloads
    <3> QED BY <3>1, <3>2, CallFacts
  <2>3. settings.pin \in Instances \union {Unpinned} /\ settings.allowed \in SUBSET Repos BY <1>1 DEF WorkflowTypes
  <2>4. IsWellAsked(payload) BY <2>2 DEF WorkflowIInv, PayloadsOK
  <2> HIDE DEF payload
  <2>5. expected \in Instances \union {Unpinned} BY <2>2, <2>3 DEF Expected, Payloads
  <2>6. payload.expected # Unpinned => expected = payload.expected BY <2>1 DEF Expected, Differs
  <2> HIDE DEF expected
  <2>7. PICK addressed \in Payloads :
          /\ addressed = [payload EXCEPT !.expected = expected]
          /\ addressed.expected = expected /\ addressed.id = payload.id
          /\ addressed.asked = payload.asked /\ SameAsked(addressed, payload)
    <3> DEFINE r == [payload EXCEPT !.expected = expected]
    <3>1. r \in Payloads /\ r.expected = expected /\ r.id = payload.id /\ r.asked = payload.asked
          /\ r.op = payload.op /\ r.work = payload.work /\ r.repo = payload.repo
      BY <2>2, <2>5 DEF Payloads
    <3> QED BY <3>1 DEF SameAsked
  <2>8. IsWellAsked(addressed)'
    BY <1>2, <2>4, <2>6, <2>7 DEF IsWellAsked, SameAsked
  <2>9. PICK c \in Calls :
          /\ c.payload = addressed /\ c # NoCall /\ c.at \in {"lookup", "submit"}
          /\ calls' = [calls EXCEPT ![t] = c]
    <3> DEFINE d == [at |-> IF payload.op = "action" THEN "lookup" ELSE "submit", heard |-> calls[t].heard,
                     payload |-> addressed, allowed |-> settings.allowed]
    <3>1. NoCall.at = "free" /\ d.at # "free" BY DEF NoCall
    <3>2. d \in Calls /\ d.payload = addressed /\ d.at \in {"lookup", "submit"} BY <2>2, <2>3, <2>7 DEF Calls
    <3>3. calls' = [calls EXCEPT ![t] = d] BY <2>1, <2>7
    <3> QED BY <3>1, <3>2, <3>3
  <2>10. calls' \in [Threads -> {NoCall} \union Calls]
         /\ \A u \in Threads : calls'[u] = (IF u = t THEN c ELSE calls[u])
    BY <1>1, <2>1, <2>9 DEF WorkflowTypes
  <2>11. WorkflowTypes' BY <1>1, <1>2, <2>1, <2>10 DEF WorkflowTypes
  <2>12. AllPayloads' \subseteq AllPayloads \union {addressed}
    BY <1>2, <2>1, <2>9, <2>10 DEF AllPayloads
  <2>13. PayloadsOK'
    <3>1. \A p \in AllPayloads : p \in Payloads /\ IsWellAsked(p)'
      BY <1>2 DEF WorkflowIInv, PayloadsOK, IsWellAsked
    <3>2. \A p \in AllPayloads : p.id = addressed.id => SameAsked(p, addressed) /\ SameAsked(addressed, p)
      BY <2>2, <2>7 DEF WorkflowIInv, PayloadsOK, SameAsked
    <3>3. SameAsked(addressed, addressed) BY DEF SameAsked
    <3>4. \A p, q \in AllPayloads \union {addressed} : p.id = q.id => SameAsked(p, q)
      BY <3>2, <3>3 DEF WorkflowIInv, PayloadsOK
    <3> QED BY <2>7, <2>8, <2>12, <3>1, <3>4 DEF PayloadsOK, SameAsked
  <2>14. Addressed' BY <1>2, <2>1, <2>7, <2>9, <2>10 DEF WorkflowIInv, Addressed
  <2> QED BY <1>2, <2>11, <2>13, <2>14, NothingIsDone
<1> QED BY <1>3, <1>4

\* A lookup before a retry changes nothing at the service.
LEMMA LookupStep == ASSUME WorkflowIInv, NEW t \in Threads, LookupWork(t) PROVE WorkflowIInv'
<1>1. WorkflowTypes BY DEF WorkflowIInv
<1>2. calls[t] # NoCall /\ calls[t].at = "lookup" /\ UNCHANGED <<settings, instance, performed, unawaited, made>>
  BY DEF LookupWork, NoCall
<1>3. CASE \E code : AnswerCall(t, code) BY <1>2, <1>3, RefusedStep
<1>4. CASE ~\E code : AnswerCall(t, code)
  <2>1. calls' = [calls EXCEPT ![t].at = "submit"] /\ client' = client BY <1>4 DEF LookupWork
  <2>2. calls[t] \in Calls BY <1>1, <1>2 DEF WorkflowTypes
  <2>3. PICK c \in Calls : c = [calls[t] EXCEPT !.at = "submit"] /\ c.payload = calls[t].payload
    BY <2>2, CallFacts, ZenonT(60)
  <2>4. calls' = [calls EXCEPT ![t] = c] BY <2>1, <2>3
  <2>5. calls' \in [Threads -> {NoCall} \union Calls]
         /\ \A u \in Threads : calls'[u] = (IF u = t THEN c ELSE calls[u])
    BY <1>1, <2>4 DEF WorkflowTypes
  <2>6. WorkflowTypes' BY <1>1, <1>2, <2>1, <2>5 DEF WorkflowTypes
  <2>7. c # NoCall BY CallFacts
  <2>8. AllPayloads' \subseteq AllPayloads BY <1>2, <2>1, <2>3, <2>5, <2>7 DEF AllPayloads
  <2>9. PayloadsOK' BY <1>1, <1>2, <2>8, NoNewPayloads DEF WorkflowIInv, WorkflowTypes
  <2>10. Addressed' BY <1>2, <2>1, <2>3, <2>5 DEF WorkflowIInv, Addressed
  <2> QED BY <1>2, <2>6, <2>9, <2>10, NothingIsDone
<1> QED BY <1>3, <1>4

\* Every step of the page, its calls and the service keeps work done once.
LEMMA WorkflowStep == ASSUME WorkflowIInv, [WorkflowNext]_workflowVars PROVE WorkflowIInv'
<1>1. CASE UNCHANGED workflowVars
  BY <1>1 DEF workflowVars, WorkflowIInv, WorkflowTypes, PayloadsOK, Addressed, WorkIsDoneOnce,
              AllPayloads, IsWellAsked, SameAsked, IsThere
<1> QED BY <1>1, LateStep, PageStep, ReloadStep, MakeStep, RetryStep, AdmitStep, LookupStep, SubmitStep
        DEF WorkflowNext

\* What every state of the work keeps.
LEMMA WorkflowInvariance == WorkflowSpec => []WorkflowIInv
<1>1. WorkflowInit => WorkflowIInv BY WorkflowBegins
<1>2. WorkflowIInv /\ [WorkflowNext]_workflowVars => WorkflowIInv' BY WorkflowStep
<1> QED BY <1>1, <1>2, PTL DEF WorkflowSpec

\* workflow_client.request and its page: a request is done once, on one instance, the one the page had
\* inspected, whatever is repeated or answered late and whatever the host and its settings become.
THEOREM WorkOnce == WorkflowSpec => []WorkIsDoneOnce
<1>1. WorkflowIInv => WorkIsDoneOnce BY DEF WorkflowIInv
<1>2. WorkflowSpec => []WorkflowIInv BY WorkflowInvariance
<1> QED BY <1>1, <1>2, PTL

\* What every state keeps is typed.
LEMMA WorkIsTyped == WorkflowSpec => []WorkflowTypeOK
<1>1. WorkflowIInv => WorkflowTypeOK
  <2> SUFFICES ASSUME WorkflowIInv PROVE WorkflowTypeOK OBVIOUS
  <2>1. WorkflowTypes BY DEF WorkflowIInv
  <2>2. \A p \in performed : p.request \in Payloads /\ p.at \in Instances BY <2>1 DEF WorkflowTypes
  <2>3. client.identity \in Instances \union {Unpinned} /\ client.pending \in Payloads \union {NoPayload}
    BY <2>1 DEF WorkflowTypes
  <2>4. ASSUME NEW t \in Threads PROVE calls[t].at \in {"free", "arrived", "lookup", "submit"}
    <3>1. calls[t] \in {NoCall} \union Calls BY <2>1 DEF WorkflowTypes
    <3> QED BY <3>1 DEF Calls, NoCall
  <2> QED BY <2>1, <2>2, <2>3, <2>4 DEF WorkflowTypes, WorkflowTypeOK
<1>2. WorkflowSpec => []WorkflowIInv BY WorkflowInvariance
<1> QED BY <1>1, <1>2, PTL

-----------------------------------------------------------------------------
(* Handing a session over to itself *)

ScriptPlaces == {"none", "locked", "asked", "seen", "idle", "cleared", "told", "failed"}
Waiting4Note == {"asked", "seen", "idle"}
Active == {"locked", "asked", "seen", "idle", "cleared"}
Scripts == [at : ScriptPlaces, path : Nat, report : {"none", "done", "not done"}]

HandoffTypes ==
  /\ second \in Seconds /\ lock \in Runs \union {Free}
  /\ session \in [prompt : {Ready, "note", "work"}, path : Nat, holds : Nat, typed : BOOLEAN, told : BOOLEAN]
  /\ noted \in [Seconds -> Int] /\ \A s \in Seconds : noted[s] >= Absent
  /\ script \in [Runs -> Scripts]
  /\ cleared \in [Runs -> [lost : Int, since : Nat]]

\* A script at work holds the lock, and a path is of one script that asked: its note is not there
\* before it has been asked for.
PathsOK ==
  /\ \A r \in Runs : script[r].at \in Active => lock = r
  /\ \A s \in Seconds : s >= second => noted[s] = Absent
  /\ session.prompt = "note" => session.path < second
  /\ \A r \in Runs : /\ script[r].at = "locked" => script[r].path = second
                     /\ script[r].at \in Waiting4Note => script[r].path < second
  /\ \A s \in Seconds : s < second => \E r \in Runs : script[r].path = s /\ script[r].at # "none"

\* What the context holds, with what the session is working on.
Holding == IF session.prompt = "work" THEN session.holds + 1 ELSE session.holds

\* A note covers what its context held when it was written; what came since is counted.
NoteCovers(r) ==
  /\ script[r].at \in {"seen", "idle"} => noted[script[r].path] # Absent
  /\ script[r].at \in Waiting4Note /\ noted[script[r].path] # Absent =>
       Holding <= noted[script[r].path] + cleared[r].since

HandoffIInv ==
  /\ HandoffTypes /\ PathsOK
  /\ \A r \in Runs : NoteCovers(r)
  /\ ClearedIsNoted

\* There are as many paths as taps, and one more.
LEMMA SecondsAreNumbers == Cardinality(Runs) \in Nat /\ Seconds = 0..Cardinality(Runs)
BY HandoffAssumption, FS_CardinalityType DEF Seconds

\* At first no script runs.
LEMMA HandoffBegins == HandoffInit => HandoffIInv
<1> SUFFICES ASSUME HandoffInit PROVE HandoffIInv OBVIOUS
<1>1. 0 \in Seconds BY HandoffAssumption, FS_CardinalityType DEF Seconds
<1>2. HandoffTypes BY <1>1 DEF HandoffInit, HandoffTypes, Ready, Scripts, ScriptPlaces, Absent
<1>3. PathsOK BY DEF HandoffInit, PathsOK, Active, Waiting4Note, Seconds, Ready
<1>4. \A r \in Runs : NoteCovers(r) BY DEF HandoffInit, NoteCovers, Waiting4Note
<1>5. ClearedIsNoted BY DEF HandoffInit, ClearedIsNoted, At
<1> QED BY <1>2, <1>3, <1>4, <1>5 DEF HandoffIInv

\* The path of a script that waits for its note is one there can be.
LEMMA PathIsThere ==
  ASSUME HandoffTypes, PathsOK, NEW r \in Runs, script[r].at \in Waiting4Note
  PROVE  script[r].path \in Seconds /\ noted[script[r].path] \in Int /\ script[r].path < second
<1>1. script[r].path < second BY DEF PathsOK
<1>2. script[r].path \in Nat BY DEF HandoffTypes, Scripts
<1>3. script[r].path \in Seconds BY <1>1, <1>2, SecondsAreNumbers DEF HandoffTypes
<1> QED BY <1>1, <1>3 DEF HandoffTypes

\* A script that goes on keeps its path.
LEMMA ScriptGoesOn ==
  ASSUME HandoffTypes, NEW r \in Runs, NEW step \in ScriptPlaces, NEW report \in {"none", "done", "not done"},
         Reporting(r, step, report)
  PROVE  /\ script' \in [Runs -> Scripts]
         /\ script'[r] = [at |-> step, path |-> script[r].path, report |-> report]
         /\ script'[r].at = step /\ script'[r].path = script[r].path /\ script'[r].report = report
         /\ \A q \in Runs : q # r => script'[q] = script[q]
BY DEF Reporting, HandoffTypes, Scripts

\* The user and the session leave the scripts where they are; all the work they add is counted.
LEMMA UserStep ==
  ASSUME HandoffIInv, UserTypes \/ UserPrompts \/ WriteNote \/ EndTurn
  PROVE  HandoffIInv'
<1>0. /\ HandoffTypes /\ PathsOK /\ ClearedIsNoted /\ UNCHANGED <<second, lock, script>>
      /\ MaxWork \in Nat /\ session.holds \in Nat /\ Cardinality(Runs) \in Nat
      /\ Seconds = 0..Cardinality(Runs)
  BY HandoffAssumption, SecondsAreNumbers DEF HandoffIInv, HandoffTypes, UserTypes, UserPrompts, WriteNote, EndTurn
<1>1. CASE UserTypes
  <2>1. /\ session'.prompt = session.prompt /\ session'.path = session.path
        /\ session'.holds = session.holds /\ session'.told = session.told
        /\ session' \in [prompt : {Ready, "note", "work"}, path : Nat, holds : Nat, typed : BOOLEAN, told : BOOLEAN]
        /\ UNCHANGED <<noted, cleared>>
    BY <1>0, <1>1 DEF UserTypes, HandoffTypes
  <2>2. HandoffTypes' BY <1>0, <2>1 DEF HandoffTypes
  <2>3. PathsOK' BY <1>0, <2>1 DEF PathsOK
  <2>4. ClearedIsNoted' BY <1>0, <2>1 DEF ClearedIsNoted, At
  <2>5. \A r \in Runs : NoteCovers(r)' BY <1>0, <2>1 DEF HandoffIInv, NoteCovers, Holding
  <2> QED BY <2>2, <2>3, <2>4, <2>5 DEF HandoffIInv
<1>2. CASE UserPrompts
  <2>1. /\ session.prompt = Ready /\ session'.prompt = "work" /\ session'.path = 0
        /\ session'.holds = session.holds /\ session'.told = session.told
        /\ session' \in [prompt : {Ready, "note", "work"}, path : Nat, holds : Nat, typed : BOOLEAN, told : BOOLEAN]
        /\ noted' = noted
    BY <1>0, <1>2 DEF UserPrompts, Prompt, HandoffTypes
  <2>2. \A c \in [lost : Int, since : Nat] :
          LET d == [c EXCEPT !.since = @ + 1]
          IN  d \in [lost : Int, since : Nat] /\ d.lost = c.lost /\ d.since = c.since + 1
    OBVIOUS
  <2>3. \A r \in Runs :
          /\ cleared'[r] \in [lost : Int, since : Nat] /\ cleared'[r].lost = cleared[r].lost
          /\ cleared'[r].since = IF script[r].at \in Waiting4Note THEN cleared[r].since + 1 ELSE cleared[r].since
    <3> SUFFICES ASSUME NEW r \in Runs
                 PROVE  /\ cleared'[r] \in [lost : Int, since : Nat] /\ cleared'[r].lost = cleared[r].lost
                        /\ cleared'[r].since = IF script[r].at \in Waiting4Note
                                               THEN cleared[r].since + 1 ELSE cleared[r].since
      OBVIOUS
    <3>1. cleared[r] \in [lost : Int, since : Nat] BY <1>0 DEF HandoffTypes
    <3>2. cleared'[r] = IF script[r].at \in Waiting4Note THEN [cleared[r] EXCEPT !.since = @ + 1] ELSE cleared[r]
      BY <1>2 DEF UserPrompts, Waiting4Note
    <3> QED BY <2>2, <3>1, <3>2
  <2>4. cleared' \in [Runs -> [lost : Int, since : Nat]]
    <3>1. cleared' = [r \in Runs |-> cleared'[r]] BY <1>2 DEF UserPrompts
    <3> QED BY <2>3, <3>1
  <2>5. HandoffTypes' BY <1>0, <2>1, <2>4 DEF HandoffTypes
  <2>6. PathsOK' BY <1>0, <2>1 DEF PathsOK
  <2>7. ClearedIsNoted'
    <3>1. \A r \in Runs : cleared'[r].lost <= cleared'[r].since
      <4>1. \A r \in Runs : cleared[r].lost \in Int /\ cleared[r].since \in Nat /\ cleared[r].lost <= cleared[r].since
        BY <1>0 DEF HandoffTypes, ClearedIsNoted
      <4> QED BY <2>3, <4>1
    <3> QED BY <1>0, <2>1, <3>1 DEF ClearedIsNoted, At
  <2>8. ASSUME NEW r \in Runs PROVE NoteCovers(r)'
    <3>1. NoteCovers(r) /\ cleared[r].since \in Nat /\ cleared[r] \in [lost : Int, since : Nat]
      BY <1>0 DEF HandoffIInv, HandoffTypes
    <3>2. Holding = session.holds /\ Holding' = session.holds + 1
      BY <2>1 DEF Holding, Ready
    <3>3. CASE script[r].at \in Waiting4Note /\ noted[script[r].path] # Absent
      <4>2. noted[script[r].path] \in Int BY <1>0, <3>3, PathIsThere
      <4> QED BY <1>0, <2>1, <2>3, <3>1, <3>2, <3>3, <4>2 DEF NoteCovers
    <3>4. CASE ~(script[r].at \in Waiting4Note /\ noted[script[r].path] # Absent)
      BY <1>0, <2>1, <3>1, <3>4 DEF NoteCovers
    <3> QED BY <3>3, <3>4
  <2> QED BY <2>5, <2>6, <2>7, <2>8 DEF HandoffIInv
<1>3. CASE WriteNote
  <2>1. /\ session.prompt = "note" /\ session.path \in Seconds /\ session.path < second
        /\ noted' = [noted EXCEPT ![session.path] = session.holds] /\ UNCHANGED <<session, cleared>>
    BY <1>0, <1>3 DEF WriteNote, PathsOK, HandoffTypes
  <2>2. HandoffTypes' BY <1>0, <2>1 DEF HandoffTypes, Absent
  <2>3. PathsOK' BY <1>0, <2>1 DEF PathsOK, HandoffTypes, Seconds
  <2>4. ClearedIsNoted' BY <1>0, <2>1 DEF ClearedIsNoted, At
  <2>5. ASSUME NEW r \in Runs PROVE NoteCovers(r)'
    <3>1. NoteCovers(r) /\ cleared[r].since \in Nat /\ Holding' = Holding /\ Holding = session.holds
      BY <1>0, <2>1 DEF HandoffIInv, HandoffTypes, Holding
    <3>2. CASE script[r].path = session.path
      BY <1>0, <2>1, <3>1, <3>2 DEF NoteCovers, HandoffTypes, Absent
    <3>3. CASE script[r].path # session.path
      BY <1>0, <2>1, <3>1, <3>3 DEF NoteCovers, HandoffTypes
    <3> QED BY <3>2, <3>3
  <2> QED BY <2>2, <2>3, <2>4, <2>5 DEF HandoffIInv
<1>4. CASE EndTurn
  <2>1. /\ session'.prompt = Ready /\ session'.told = session.told
        /\ session'.holds \in Nat /\ session'.holds <= Holding
        /\ session' \in [prompt : {Ready, "note", "work"}, path : Nat, holds : Nat, typed : BOOLEAN, told : BOOLEAN]
        /\ UNCHANGED <<noted, cleared>>
    <3> DEFINE held == IF session.prompt = "work" /\ session.holds < MaxWork THEN session.holds + 1
                       ELSE session.holds
    <3>1. session' = [session EXCEPT !.prompt = Ready, !.holds = held] BY <1>4 DEF EndTurn
    <3>2. held \in Nat /\ held <= Holding BY <1>0 DEF Holding
    <3>3. UNCHANGED <<noted, cleared>> BY <1>4 DEF EndTurn
    <3> HIDE DEF held
    <3> QED BY <1>0, <3>1, <3>2, <3>3 DEF HandoffTypes
  <2>2. HandoffTypes' BY <1>0, <2>1 DEF HandoffTypes
  <2>3. PathsOK' BY <1>0, <2>1 DEF PathsOK, Ready
  <2>4. ClearedIsNoted' BY <1>0, <2>1 DEF ClearedIsNoted, At
  <2>5. ASSUME NEW r \in Runs PROVE NoteCovers(r)'
    <3>1. NoteCovers(r) /\ cleared[r].since \in Nat /\ Holding' <= Holding /\ Holding \in Nat /\ Holding' \in Nat
      BY <1>0, <2>1 DEF HandoffIInv, HandoffTypes, Holding, Ready
    <3>2. CASE script[r].at \in Waiting4Note
      <4>1. noted[script[r].path] \in Int
        BY <1>0, <3>2, PathIsThere
      <4> QED BY <1>0, <2>1, <3>1, <4>1 DEF NoteCovers
    <3>3. CASE script[r].at \notin Waiting4Note
      BY <1>0, <2>1, <3>1, <3>3 DEF NoteCovers, Waiting4Note
    <3> QED BY <3>2, <3>3
  <2> QED BY <2>2, <2>3, <2>4, <2>5 DEF HandoffIInv
<1> QED BY <1>1, <1>2, <1>3, <1>4

\* A script that looks again, sees its note or gives up changes nothing but its own place.
LEMMA LookingStep ==
  ASSUME HandoffIInv, NEW r \in Runs, NEW step \in Waiting4Note \union {"failed"},
         NEW report \in {"none", "done", "not done"}, Reporting(r, step, report),
         script[r].at \in Active,
         step \in Waiting4Note => script[r].at \in Waiting4Note /\ report = script[r].report,
         step \in {"seen", "idle"} => noted[script[r].path] # Absent,
         step = "failed" => report = "not done",
         UNCHANGED <<second, session, noted, lock, cleared>>
  PROVE  HandoffIInv'
<1>0. HandoffTypes /\ PathsOK /\ ClearedIsNoted /\ step \in ScriptPlaces
  BY DEF HandoffIInv, Waiting4Note, ScriptPlaces
<1>1. /\ script' \in [Runs -> Scripts]
      /\ script'[r].at = step /\ script'[r].path = script[r].path /\ script'[r].report = report
      /\ \A q \in Runs : q # r => script'[q] = script[q]
  BY <1>0, ScriptGoesOn, ZenonT(60)
<1>2. HandoffTypes' BY <1>0, <1>1 DEF HandoffTypes
<1>3. PathsOK'
  <2>1. step # "locked" /\ step # "none" /\ (step \in Active => lock = r)
    BY <1>0 DEF PathsOK, Waiting4Note, Active
  <2>2. script[r].at # "none" BY DEF Active
  <2>3. step \in Waiting4Note => script[r].path < second BY <1>0 DEF PathsOK
  <2>4. ASSUME NEW s \in Seconds, s < second
        PROVE  \E q \in Runs : script'[q].path = s /\ script'[q].at # "none"
    <3>1. PICK q \in Runs : script[q].path = s /\ script[q].at # "none" BY <1>0, <2>4 DEF PathsOK
    <3>2. CASE q = r BY <1>1, <2>1, <3>1, <3>2
    <3>3. CASE q # r BY <1>1, <3>1, <3>3
    <3> QED BY <3>2, <3>3
  <2>5. \A q \in Runs : script'[q].at \in Active => lock' = q BY <1>0, <1>1, <2>1 DEF PathsOK
  <2>6. \A q \in Runs : /\ script'[q].at = "locked" => script'[q].path = second'
                        /\ script'[q].at \in Waiting4Note => script'[q].path < second'
    BY <1>0, <1>1, <2>1, <2>3 DEF PathsOK
  <2> QED BY <1>0, <2>4, <2>5, <2>6 DEF PathsOK
<1>4. ASSUME NEW q \in Runs PROVE NoteCovers(q)'
  <2>1. CASE q # r BY <1>1, <2>1 DEF HandoffIInv, NoteCovers, Holding
  <2>2. CASE q = r
    <3>1. Holding' = Holding BY DEF Holding
    <3>2. step \in Waiting4Note /\ noted[script[r].path] # Absent =>
            Holding <= noted[script[r].path] + cleared[r].since
      BY DEF HandoffIInv, NoteCovers
    <3> QED BY <1>1, <2>2, <3>1, <3>2 DEF NoteCovers
  <2> QED BY <2>1, <2>2
<1>5. ClearedIsNoted'
  <2>1. \A q \in Runs : script'[q].report = "done" <=> script'[q].at = "told"
    <3>1. script[r].report # "done" BY <1>0 DEF ClearedIsNoted, At, Active
    <3>2. report # "done" /\ step # "told" BY <3>1 DEF Waiting4Note
    <3> QED BY <1>0, <1>1, <3>2 DEF ClearedIsNoted, At
  <2>2. ~session.told => \E q \in Runs :
          script'[q].at = "cleared" \/ (script'[q].at = "failed" /\ script'[q].report = "not done")
    <3>1. script[r].at = "cleared" => step = "failed" /\ report = "not done" BY DEF Waiting4Note
    <3>2. script[r].at # "failed" BY DEF Active
    <3> QED BY <1>0, <1>1, <3>1, <3>2 DEF ClearedIsNoted, At
  <2> QED BY <1>0, <2>1, <2>2 DEF ClearedIsNoted, At
<1> QED BY <1>2, <1>3, <1>4, <1>5 DEF HandoffIInv

\* A tap starts one script, with a note path of its own second.
LEMMA TapStep == ASSUME HandoffIInv, NEW r \in Runs, Tap(r) PROVE HandoffIInv'
<1>0. HandoffTypes /\ PathsOK /\ ClearedIsNoted /\ UNCHANGED <<second, session, noted, cleared>>
      /\ script[r].at = "none" /\ second \in Nat
  <2>1. HandoffTypes /\ PathsOK /\ ClearedIsNoted BY DEF HandoffIInv
  <2>2. second \in Nat BY <2>1, SecondsAreNumbers DEF HandoffTypes
  <2> QED BY <2>1, <2>2 DEF Tap, At
<1>1. PICK new \in Scripts :
        /\ script' = [script EXCEPT ![r] = new] /\ new.path = second
        /\ \/ new.at = "locked" /\ new.report = "none" /\ lock = Free /\ lock' = r
           \/ new.at = "failed" /\ new.report = "not done" /\ lock' = lock
  <2>1. CASE named /\ lock = Free
    <3> DEFINE new == [at |-> "locked", path |-> second, report |-> "none"]
    <3>1. new \in Scripts BY <1>0 DEF Scripts, ScriptPlaces
    <3>2. script' = [script EXCEPT ![r] = new] /\ lock' = r BY <2>1 DEF Tap
    <3> QED BY <2>1, <3>1, <3>2
  <2>2. CASE ~(named /\ lock = Free)
    <3> DEFINE new == [at |-> "failed", path |-> second, report |-> "not done"]
    <3>1. new \in Scripts BY <1>0 DEF Scripts, ScriptPlaces
    <3>2. script' = [script EXCEPT ![r] = new] /\ lock' = lock BY <2>2 DEF Tap
    <3> QED BY <3>1, <3>2
  <2> QED BY <2>1, <2>2
<1>2. script' \in [Runs -> Scripts] /\ script'[r] = new /\ \A q \in Runs : q # r => script'[q] = script[q]
  BY <1>0, <1>1 DEF HandoffTypes
<1>3. HandoffTypes' BY <1>0, <1>1, <1>2 DEF HandoffTypes
<1>4. PathsOK'
  <2>1. \A q \in Runs : script'[q].at \in Active => lock' = q
    <3>1. \A q \in Runs : lock = Free => script[q].at \notin Active
      BY <1>0, HandoffAssumption DEF PathsOK, Free
    <3> QED BY <1>0, <1>1, <1>2, <3>1 DEF PathsOK, Active
  <2>2. \A s \in Seconds : s < second => \E q \in Runs : script'[q].path = s /\ script'[q].at # "none"
    BY <1>0, <1>1, <1>2 DEF PathsOK
  <2>3. \A q \in Runs : /\ script'[q].at = "locked" => script'[q].path = second'
                        /\ script'[q].at \in Waiting4Note => script'[q].path < second'
    BY <1>0, <1>1, <1>2 DEF PathsOK, Waiting4Note
  <2> QED BY <1>0, <2>1, <2>2, <2>3 DEF PathsOK
<1>5. ASSUME NEW q \in Runs PROVE NoteCovers(q)'
  <2>1. CASE q # r BY <1>0, <1>2, <2>1 DEF HandoffIInv, NoteCovers, Holding
  <2>2. CASE q = r BY <1>1, <1>2, <2>2 DEF NoteCovers, Waiting4Note
  <2> QED BY <2>1, <2>2
<1>6. ClearedIsNoted' BY <1>0, <1>1, <1>2 DEF ClearedIsNoted, At
<1> QED BY <1>3, <1>4, <1>5, <1>6 DEF HandoffIInv

\* Every path that was used is of a tap of its own, so there is a path left for a script that asks.
LEMMA PathLeft ==
  ASSUME HandoffTypes, PathsOK, NEW r \in Runs, script[r].at = "locked"
  PROVE  second + 1 \in Seconds
<1> DEFINE f == [q \in Runs |-> script[q].path]
           T == {script[q].path : q \in Runs}
<1>1. f \in Surjection(Runs, T) BY DEF Surjection
<1>2. IsFiniteSet(T) /\ Cardinality(T) <= Cardinality(Runs) BY <1>1, HandoffAssumption, FS_Surjection
<1>3. second \in 0..Cardinality(Runs) /\ Cardinality(Runs) \in Nat /\ Seconds = 0..Cardinality(Runs)
  BY SecondsAreNumbers DEF HandoffTypes
<1>4. 0..second \subseteq T
  <2>1. \A s \in 0..second : s \in Seconds BY <1>3
  <2>2. second \in T BY DEF PathsOK
  <2>3. \A s \in 0..second : s # second => s \in T BY <1>3, <2>1 DEF PathsOK
  <2> QED BY <2>2, <2>3
<1>5. Cardinality(0..second) = second + 1
  <2>1. 0 \in Int /\ second \in Int /\ ~(0 > second) BY <1>3
  <2>2. Cardinality(0..second) = IF 0 > second THEN 0 ELSE second - 0 + 1 BY <2>1, FS_Interval
  <2> QED BY <2>1, <2>2
<1>6. Cardinality(0..second) <= Cardinality(T) BY <1>2, <1>4, FS_Subset
<1>7. Cardinality(T) \in Nat BY <1>2, FS_CardinalityType
<1> QED BY <1>2, <1>3, <1>5, <1>6, <1>7

\* A script asks for the note of its own path.
LEMMA AskStep == ASSUME HandoffIInv, NEW r \in Runs, AskForNote(r) PROVE HandoffIInv'
<1>0. HandoffTypes /\ PathsOK /\ ClearedIsNoted /\ UNCHANGED <<noted, lock, cleared>>
      /\ script[r].at = "locked" /\ second \in Nat /\ second' = second + 1 /\ script[r].path = second
      /\ Reporting(r, "asked", script[r].report) /\ script[r] \in Scripts
  BY SecondsAreNumbers DEF HandoffIInv, AskForNote, At, HandoffTypes, To, PathsOK
<1>1. second' \in Seconds BY <1>0, PathLeft
<1>2. /\ session' \in [prompt : {Ready, "note", "work"}, path : Nat, holds : Nat, typed : BOOLEAN, told : BOOLEAN]
      /\ session'.prompt = "note" /\ session'.path = second /\ session'.told = session.told
  BY <1>0 DEF AskForNote, Paste, Prompt, BoxEmpty, HandoffTypes
<1>3. /\ script' \in [Runs -> Scripts]
      /\ script'[r].at = "asked" /\ script'[r].path = second /\ script'[r].report = script[r].report
      /\ \A q \in Runs : q # r => script'[q] = script[q]
  BY <1>0, ScriptGoesOn, ZenonT(60) DEF Scripts, ScriptPlaces
<1>4. HandoffTypes' BY <1>0, <1>1, <1>2, <1>3 DEF HandoffTypes
<1>5. \A q \in Runs : q # r => script[q].at \notin Active BY <1>0 DEF PathsOK, Active
<1>6. PathsOK'
  <2>1. \A q \in Runs : script'[q].at \in Active => lock' = q BY <1>0, <1>3, <1>5 DEF PathsOK, Active
  <2>2. \A s \in Seconds : s < second' => \E q \in Runs : script'[q].path = s /\ script'[q].at # "none"
    <3> SUFFICES ASSUME NEW s \in Seconds, s < second'
                 PROVE  \E q \in Runs : script'[q].path = s /\ script'[q].at # "none"
      OBVIOUS
    <3>1. CASE s = second BY <1>3, <3>1
    <3>2. CASE s # second
      <4>1. s < second BY <1>0, <3>2, SecondsAreNumbers
      <4>2. PICK q \in Runs : script[q].path = s /\ script[q].at # "none" BY <1>0, <4>1 DEF PathsOK
      <4>3. q # r BY <1>0, <3>2, <4>2
      <4> QED BY <1>3, <4>2, <4>3
    <3> QED BY <3>1, <3>2
  <2>3. \A q \in Runs : /\ script'[q].at = "locked" => script'[q].path = second'
                        /\ script'[q].at \in Waiting4Note => script'[q].path < second'
    BY <1>0, <1>3, <1>5 DEF Waiting4Note, Active
  <2>4. \A s \in Seconds : s >= second' => noted'[s] = Absent BY <1>0, SecondsAreNumbers DEF PathsOK
  <2>5. session'.path < second' BY <1>0, <1>2
  <2> QED BY <2>1, <2>2, <2>3, <2>4, <2>5 DEF PathsOK
<1>7. ASSUME NEW q \in Runs PROVE NoteCovers(q)'
  <2>1. CASE q # r BY <1>3, <1>5, <2>1 DEF NoteCovers, Active, Waiting4Note
  <2>2. CASE q = r
    <3>1. second \in Seconds BY <1>0 DEF HandoffTypes
    <3>2. noted[second] = Absent BY <1>0, <3>1 DEF PathsOK
    <3> QED BY <1>0, <1>3, <2>2, <3>2 DEF NoteCovers
  <2> QED BY <2>1, <2>2
<1>8. ClearedIsNoted' BY <1>0, <1>2, <1>3, ZenonT(60) DEF ClearedIsNoted, At
<1> QED BY <1>4, <1>6, <1>7, <1>8 DEF HandoffIInv

\* A script whose note is there, whose session is idle or whose wait is over looks again or gives up.
LEMMA WaitingStep ==
  ASSUME HandoffIInv, NEW r \in Runs, SeeNote(r) \/ ReadIdle(r) \/ GiveUp(r)
  PROVE  HandoffIInv'
<1>0. HandoffTypes /\ script[r] \in Scripts /\ NoteCovers(r) BY DEF HandoffIInv, HandoffTypes
<1>1. CASE SeeNote(r)
  <2>1. Reporting(r, "seen", script[r].report) /\ script[r].at = "asked" /\ noted[script[r].path] # Absent
    BY <1>1 DEF SeeNote, To, At, NoteIsThere
  <2> QED BY <1>0, <1>1, <2>1, LookingStep DEF SeeNote, Scripts, Waiting4Note, Active
<1>2. CASE ReadIdle(r)
  <2>1. /\ script[r].at = "seen" /\ noted[script[r].path] # Absent
        /\ \/ Reporting(r, "idle", script[r].report)
           \/ Reporting(r, "asked", script[r].report)
    BY <1>0, <1>2 DEF ReadIdle, To, At, NoteCovers
  <2> QED BY <1>0, <1>2, <2>1, LookingStep DEF ReadIdle, Scripts, Waiting4Note, Active
<1>3. CASE GiveUp(r)
  <2>1. Reporting(r, "failed", "not done") /\ script[r].at \in Active BY <1>3 DEF GiveUp, Fail, Active
  <2> QED BY <1>3, <2>1, LookingStep DEF GiveUp, Waiting4Note
<1> QED BY <1>1, <1>2, <1>3

\* Clearing loses what the note does not cover, and that is what came since it was asked for.
LEMMA ClearStep == ASSUME HandoffIInv, NEW r \in Runs, Clear(r) PROVE HandoffIInv'
<1>0. /\ HandoffTypes /\ PathsOK /\ ClearedIsNoted /\ NoteCovers(r) /\ script[r] \in Scripts
      /\ script[r].at = "idle" /\ UNCHANGED <<second, noted, lock>>
  BY DEF HandoffIInv, HandoffTypes, Clear, At
<1>1. CASE Reporting(r, "asked", script[r].report) /\ UNCHANGED <<session, cleared>>
  BY <1>0, <1>1, LookingStep DEF Scripts, Waiting4Note, Active
<1>2. CASE Reporting(r, "failed", "not done") /\ UNCHANGED <<session, cleared>>
  BY <1>0, <1>2, LookingStep DEF Waiting4Note, Active
<1>3. CASE /\ AtPrompt /\ BoxEmpty /\ Reporting(r, "cleared", script[r].report)
           /\ session' = [session EXCEPT !.holds = 0, !.told = FALSE]
           /\ cleared' = [cleared EXCEPT ![r].lost = session.holds - noted[script[r].path]]
  <2>0. /\ noted[script[r].path] \in Int /\ script[r].path \in Seconds /\ session.holds \in Nat
        /\ cleared[r] \in [lost : Int, since : Nat] /\ Holding = session.holds
        /\ noted[script[r].path] # Absent
    BY <1>0, <1>3, PathIsThere DEF HandoffTypes, Waiting4Note, AtPrompt, Ready, Holding, NoteCovers
  <2>1. /\ session'.prompt = Ready /\ session'.path = session.path /\ session'.holds = 0 /\ ~session'.told
        /\ session' \in [prompt : {Ready, "note", "work"}, path : Nat, holds : Nat, typed : BOOLEAN, told : BOOLEAN]
    BY <1>0, <1>3 DEF HandoffTypes, AtPrompt
  <2>2. /\ script' \in [Runs -> Scripts]
        /\ script'[r].at = "cleared" /\ script'[r].path = script[r].path /\ script'[r].report = script[r].report
        /\ \A q \in Runs : q # r => script'[q] = script[q]
    BY <1>0, <1>3, ScriptGoesOn, ZenonT(60) DEF Scripts, ScriptPlaces
  <2> DEFINE lost == session.holds - noted[script[r].path]
  <2>3. lost \in Int /\ lost <= cleared[r].since
    BY <1>0, <2>0 DEF NoteCovers, Waiting4Note
  <2>4. PICK new \in [lost : Int, since : Nat] :
          new = [cleared[r] EXCEPT !.lost = lost] /\ new.lost = lost /\ new.since = cleared[r].since
    <3> HIDE DEF lost
    <3>1. \A c \in [lost : Int, since : Nat] :
            LET d == [c EXCEPT !.lost = lost]
            IN  d \in [lost : Int, since : Nat] /\ d.lost = lost /\ d.since = c.since
      BY <2>3
    <3> QED BY <2>0, <3>1
  <2>5. cleared' = [cleared EXCEPT ![r] = new]
    <3>1. cleared' = [cleared EXCEPT ![r] = [cleared[r] EXCEPT !.lost = lost]] BY <1>3
    <3> QED BY <2>4, <3>1
  <2>6. /\ cleared' \in [Runs -> [lost : Int, since : Nat]] /\ cleared'[r] = new
        /\ \A q \in Runs : q # r => cleared'[q] = cleared[q]
    BY <1>0, <2>4, <2>5 DEF HandoffTypes
  <2>7. HandoffTypes' BY <1>0, <2>1, <2>2, <2>6 DEF HandoffTypes
  <2>8. PathsOK'
    <3>1. \A q \in Runs : script'[q].at \in Active => lock' = q BY <1>0, <2>2 DEF PathsOK, Active
    <3>2. \A q \in Runs : /\ script'[q].at = "locked" => script'[q].path = second'
                          /\ script'[q].at \in Waiting4Note => script'[q].path < second'
      BY <1>0, <2>2 DEF PathsOK, Waiting4Note
    <3>3. ASSUME NEW s \in Seconds, s < second
          PROVE  \E q \in Runs : script'[q].path = s /\ script'[q].at # "none"
      <4>1. PICK q \in Runs : script[q].path = s /\ script[q].at # "none" BY <1>0, <3>3 DEF PathsOK
      <4>2. CASE q = r BY <2>2, <4>1, <4>2
      <4>3. CASE q # r BY <2>2, <4>1, <4>3
      <4> QED BY <4>2, <4>3
    <3>4. session'.prompt # "note" BY <2>1 DEF Ready
    <3> QED BY <1>0, <3>1, <3>2, <3>3, <3>4 DEF PathsOK
  <2>9. ASSUME NEW q \in Runs PROVE NoteCovers(q)'
    <3>1. script'[q].at \notin Waiting4Note
      BY <1>0, <2>2 DEF PathsOK, Active, Waiting4Note
    <3> QED BY <3>1 DEF NoteCovers, Waiting4Note
  <2>10. ClearedIsNoted'
    <3>1. \A q \in Runs : cleared'[q].lost <= cleared'[q].since
      <4>1. \A q \in Runs : cleared[q].lost <= cleared[q].since BY <1>0 DEF ClearedIsNoted
      <4> QED BY <2>3, <2>4, <2>6, <4>1
    <3>2. \A q \in Runs : script'[q].report = "done" <=> script'[q].at = "told"
      BY <1>0, <2>2, ZenonT(60) DEF ClearedIsNoted, At
    <3> QED BY <2>2, <3>1, <3>2 DEF ClearedIsNoted, At
  <2> QED BY <2>7, <2>8, <2>9, <2>10 DEF HandoffIInv
<1> QED BY <1>1, <1>2, <1>3 DEF Clear, To, Fail

\* Only the script that holds the lock tells its session to read the note.
LEMMA TellStep == ASSUME HandoffIInv, NEW r \in Runs, TellToRead(r) PROVE HandoffIInv'
<1>0. /\ HandoffTypes /\ PathsOK /\ ClearedIsNoted /\ UNCHANGED <<second, noted, lock, cleared>>
      /\ script[r].at = "cleared" /\ Reporting(r, "told", "done")
  BY DEF HandoffIInv, TellToRead, At
<1>1. /\ session'.prompt = "work" /\ session'.told
      /\ session' \in [prompt : {Ready, "note", "work"}, path : Nat, holds : Nat, typed : BOOLEAN, told : BOOLEAN]
  BY <1>0 DEF TellToRead, HandoffTypes
<1>2. /\ script' \in [Runs -> Scripts]
      /\ script'[r].at = "told" /\ script'[r].path = script[r].path /\ script'[r].report = "done"
      /\ \A q \in Runs : q # r => script'[q] = script[q]
  BY <1>0, ScriptGoesOn DEF ScriptPlaces
<1>3. HandoffTypes' BY <1>0, <1>1, <1>2 DEF HandoffTypes
<1>4. \A q \in Runs : script'[q].at \notin Active BY <1>0, <1>2 DEF PathsOK, Active
<1>5. PathsOK'
  <2>1. ASSUME NEW s \in Seconds, s < second
        PROVE  \E q \in Runs : script'[q].path = s /\ script'[q].at # "none"
    <3>1. PICK q \in Runs : script[q].path = s /\ script[q].at # "none" BY <1>0, <2>1 DEF PathsOK
    <3>2. CASE q = r BY <1>2, <3>1, <3>2
    <3>3. CASE q # r BY <1>2, <3>1, <3>3
    <3> QED BY <3>2, <3>3
  <2> QED BY <1>0, <1>1, <1>4, <2>1 DEF PathsOK, Active, Waiting4Note
<1>6. ASSUME NEW q \in Runs PROVE NoteCovers(q)' BY <1>4 DEF NoteCovers, Active, Waiting4Note
<1>7. ClearedIsNoted' BY <1>0, <1>1, <1>2, ZenonT(60) DEF ClearedIsNoted, At
<1> QED BY <1>3, <1>5, <1>6, <1>7 DEF HandoffIInv

\* A script that is over lets go of the lock: no other was at work.
LEMMA DropStep == ASSUME HandoffIInv, NEW r \in Runs, DropLock(r) PROVE HandoffIInv'
<1>0. /\ HandoffTypes /\ PathsOK /\ ClearedIsNoted /\ lock = r /\ script[r].at \in {"told", "failed"}
      /\ lock' = Free /\ UNCHANGED <<second, session, noted, script, cleared>>
  BY DEF HandoffIInv, DropLock
<1>1. HandoffTypes' BY <1>0 DEF HandoffTypes
<1>2. PathsOK'
  <2>1. \A q \in Runs : script[q].at \notin Active BY <1>0 DEF PathsOK, Active
  <2> QED BY <1>0, <2>1 DEF PathsOK
<1>3. ClearedIsNoted' BY <1>0 DEF ClearedIsNoted, At
<1>4. \A q \in Runs : NoteCovers(q)' BY <1>0 DEF HandoffIInv, NoteCovers, Holding
<1> QED BY <1>1, <1>2, <1>3, <1>4 DEF HandoffIInv

\* What every state of a handing over keeps.
LEMMA HandoffInvariance == HandoffSpec => []HandoffIInv
<1>1. HandoffInit => HandoffIInv BY HandoffBegins
<1>2. HandoffIInv /\ [HandoffNext]_handoffVars => HandoffIInv'
  <2> SUFFICES ASSUME HandoffIInv, [HandoffNext]_handoffVars PROVE HandoffIInv' OBVIOUS
  <2>1. CASE UserTypes \/ UserPrompts \/ WriteNote \/ EndTurn BY <2>1, UserStep
  <2>2. ASSUME NEW r \in Runs,
               \/ Tap(r) \/ AskForNote(r) \/ SeeNote(r) \/ ReadIdle(r) \/ Clear(r)
               \/ TellToRead(r) \/ GiveUp(r) \/ DropLock(r)
        PROVE  HandoffIInv'
    BY <2>2, TapStep, AskStep, WaitingStep, ClearStep, TellStep, DropStep
  <2>3. CASE UNCHANGED handoffVars
    <3>1. UNCHANGED <<second, session, noted, lock, script, cleared>> BY <2>3 DEF handoffVars
    <3>2. HandoffTypes' /\ PathsOK' /\ ClearedIsNoted'
      BY <3>1, ZenonT(60) DEF HandoffIInv, HandoffTypes, PathsOK, ClearedIsNoted, At
    <3>3. \A q \in Runs : NoteCovers(q)' BY <3>1 DEF HandoffIInv, NoteCovers, Holding
    <3> QED BY <3>2, <3>3 DEF HandoffIInv
  <2> QED BY <2>1, <2>2, <2>3 DEF HandoffNext
<1> QED BY <1>1, <1>2, PTL DEF HandoffSpec

\* What a handover clears is in its note, but for what the user had the session do since the script
\* asked for the note, however many taps there are: the note at a script's path was not there before
\* it asked, and no other script holds the lock until it is over.
THEOREM ContextIsNoted == HandoffSpec => []ClearedIsNoted
<1>1. HandoffIInv => ClearedIsNoted BY DEF HandoffIInv
<1>2. HandoffSpec => []HandoffIInv BY HandoffInvariance
<1> QED BY <1>1, <1>2, PTL

\* What every state keeps is typed, and no note covers more than a context can hold.
LEMMA HandoffIsTyped == HandoffSpec => []HandoffTypeOK
<1> DEFINE Bounded == session.holds <= MaxWork /\ \A s \in Seconds : noted[s] <= MaxWork
<1>0. MaxWork \in Nat /\ MaxWork > 0 BY HandoffAssumption
<1>1. HandoffInit => Bounded BY <1>0 DEF HandoffInit, Absent
<1>2. HandoffIInv /\ Bounded /\ [HandoffNext]_handoffVars => Bounded'
  <2> SUFFICES ASSUME HandoffIInv, Bounded, [HandoffNext]_handoffVars PROVE Bounded' OBVIOUS
  <2>0. /\ session \in [prompt : {Ready, "note", "work"}, path : Nat, holds : Nat, typed : BOOLEAN, told : BOOLEAN]
        /\ noted \in [Seconds -> Int]
    BY DEF HandoffIInv, HandoffTypes
  <2>1. CASE session'.holds = session.holds /\ noted' = noted BY <2>1
  <2>2. CASE UserTypes \/ UserPrompts BY <2>0, <2>1, <2>2 DEF UserTypes, UserPrompts, Prompt
  <2>3. CASE WriteNote
    <3>1. session' = session /\ noted' = [noted EXCEPT ![session.path] = session.holds] BY <2>3 DEF WriteNote
    <3> QED BY <2>0, <3>1
  <2>4. CASE EndTurn
    <3>1. /\ noted' = noted
          /\ session'.holds = session.holds \/ (session.holds < MaxWork /\ session'.holds = session.holds + 1)
      BY <2>0, <2>4 DEF EndTurn
    <3> QED BY <1>0, <2>0, <3>1
  <2>5. ASSUME NEW r \in Runs, Tap(r) \/ SeeNote(r) \/ ReadIdle(r) \/ GiveUp(r) \/ DropLock(r) PROVE Bounded'
    BY <2>1, <2>5 DEF Tap, SeeNote, ReadIdle, GiveUp, DropLock
  <2>6. ASSUME NEW r \in Runs, AskForNote(r) PROVE Bounded'
    BY <2>0, <2>1, <2>6 DEF AskForNote, Paste, Prompt
  <2>7. ASSUME NEW r \in Runs, Clear(r) PROVE Bounded'
    <3>1. noted' = noted /\ (session' = session \/ session'.holds = 0) BY <2>0, <2>7 DEF Clear
    <3> QED BY <1>0, <3>1
  <2>8. ASSUME NEW r \in Runs, TellToRead(r) PROVE Bounded'
    BY <2>0, <2>1, <2>8 DEF TellToRead
  <2>9. CASE UNCHANGED handoffVars BY <2>1, <2>9 DEF handoffVars
  <2> QED BY <2>2, <2>3, <2>4, <2>5, <2>6, <2>7, <2>8, <2>9 DEF HandoffNext
<1>3. HandoffIInv /\ Bounded => HandoffTypeOK
  <2> SUFFICES ASSUME HandoffIInv, Bounded PROVE HandoffTypeOK OBVIOUS
  <2>1. HandoffTypes BY DEF HandoffIInv
  <2>2. noted \in [Seconds -> Absent..MaxWork] BY <1>0, <2>1 DEF HandoffTypes, Absent
  <2>3. \A r \in Runs : script[r].at \in {"none", "locked", "asked", "seen", "idle", "cleared", "told", "failed"}
    BY <2>1 DEF HandoffTypes, Scripts, ScriptPlaces
  <2> QED BY <2>1, <2>2, <2>3 DEF HandoffTypes, HandoffTypeOK
<1>4. HandoffSpec => []HandoffIInv BY HandoffInvariance
<1> HIDE DEF Bounded
<1> QED BY <1>1, <1>2, <1>3, <1>4, PTL DEF HandoffSpec

-----------------------------------------------------------------------------
(* What the phone is told *)

Tabs == [by : Indices, title : Indices, runs : BOOLEAN]
CutNames == {Cut[f] : f \in Folders}
AskedFor == [at : {"open", "done"}, mode : Modes, folder : CutNames, roots : Seq(Roots)]
Connecting == [at : {"connect", "done"}, mode : Modes, full : Roots \X Folders, tab : BOOLEAN]
Closing == [at : {"click", "check"}, hits : SUBSET Tabs]

PhoneTypes ==
  /\ onDisk \subseteq Roots \X Folders /\ roots \in Seq(Roots)
  /\ texts \in Seq(Texts) /\ Len(texts) <= MaxTexts /\ handled \in 0..Len(texts)
  /\ poller \in {AtPoll} \union Closing \union [at : {"switch"}]
  /\ opening \in [Indices -> {NotOpening} \union AskedFor \union Connecting]
  /\ tabs \subseteq Tabs /\ touches \in Seq({"folder", "tab", "title", "script"})
  /\ started \subseteq [by : Indices, mode : Modes, full : Roots \X Folders]

\* The tab of a text's session was opened, or its thread is over: there will be no other.
OpenedOnce(i) == opening[i].at = "done" \/ (opening[i].at = "connect" /\ opening[i].tab)

\* A thread opens what its text asked for.
OpeningsOK ==
  \A i \in Indices : opening[i].at # "none" =>
    /\ i <= handled /\ texts[i].what = "yes new" /\ texts[i].here
    /\ opening[i].at = "open" =>
         opening[i] \in AskedFor /\ opening[i].mode = texts[i].mode /\ opening[i].folder = Cut[texts[i].folder]
    /\ opening[i].at = "connect" =>
         /\ opening[i] \in Connecting /\ opening[i].mode = texts[i].mode
         /\ opening[i].full[2] = Cut[texts[i].folder]

Retitled == "title" \in ToSet(touches)

TabsOK ==
  \A t \in tabs : /\ OpenedOnce(t.by)
                  /\ t.runs => \E s \in started : s.by = t.by
                  /\ Retitled \/ t.title = t.by

StartedOK ==
  \A s \in started :
    /\ OpenedOnce(s.by) /\ opening[s.by].at # "none"
    /\ texts[s.by].what = "yes new" /\ texts[s.by].here /\ texts[s.by].mode = s.mode
    /\ s.full[2] = Cut[texts[s.by].folder]
    /\ \A z \in started : z.by = s.by => z = s

\* The tabs that a closing found are not opened again, and are gone once it has clicked.
PollerOK ==
  /\ poller.at \in {"click", "check"} => \A h \in poller.hits : OpenedOnce(h.by)
  /\ poller.at = "check" => \A h \in poller.hits : \A t \in tabs : t.by # h.by
  /\ modeLock \in {"free", "phone", "hand", "left"}
  /\ modeLock = "phone" => poller.at = "switch"
  /\ modeLock = "left" => expired

SaidOK(r) ==
  /\ r.says = "opened" /\ r.of # {} => (\E s \in started : s.by = r.by) \/ Retitled
  /\ r.says = "not opened" => /\ r.by \in Indices /\ opening[r.by].at = "done"
                              /\ \A s \in started : s.by # r.by
  /\ r.says = "closed" => \A b \in r.of : b \in Indices /\ OpenedOnce(b) /\ \A t \in tabs : t.by # b
  /\ r.says = "locked out" => r.of # {}

PhoneIInv ==
  /\ PhoneTypes /\ OpeningsOK /\ TabsOK /\ StartedOK /\ PollerOK
  /\ \A r \in told : SaidOK(r)

\* At first nothing was typed, started or told.
LEMMA PhoneBegins == PhoneInit => PhoneIInv
<1> SUFFICES ASSUME PhoneInit PROVE PhoneIInv OBVIOUS
<1>1. roots \in Seq(Roots)
  <2>1. PICK m \in 0..2 : roots \in [1..m -> Roots] BY DEF PhoneInit, SeqOf
  <2> QED BY <2>1
<1>2. PhoneTypes BY <1>1, PhoneAssumption DEF PhoneInit, PhoneTypes
<1>3. OpeningsOK BY DEF PhoneInit, OpeningsOK, NotOpening
<1>4. TabsOK /\ StartedOK BY DEF PhoneInit, TabsOK, StartedOK
<1>5. PollerOK BY DEF PhoneInit, PollerOK, AtPoll
<1> QED BY <1>2, <1>3, <1>4, <1>5 DEF PhoneInit, PhoneIInv

\* What is told is told besides what was told.
LEMMA TellAdds ==
  ASSUME NEW i, NEW what, NEW of, Tell(i, what, of)
  PROVE  \A r \in told' : r \in told \/ (r.by = i /\ r.says = what /\ r.of = of)
BY DEF Tell

\* A touch that is added to the others leaves a touch of the titles among them.
LEMMA TouchAdds ==
  ASSUME PhoneTypes, NEW kind \in {"folder", "tab", "title", "script"}, touches' = Append(touches, kind)
  PROVE  touches' \in Seq({"folder", "tab", "title", "script"}) /\ (Retitled' <=> Retitled \/ kind = "title")
<1> DEFINE n == Len(touches)
<1>1. touches \in Seq({"folder", "tab", "title", "script"}) BY DEF PhoneTypes
<1>2. /\ Len(touches') = n + 1 /\ touches' \in Seq({"folder", "tab", "title", "script"})
      /\ touches'[n + 1] = kind /\ \A j \in 1..n : touches'[j] = touches[j] /\ n \in Nat
  BY <1>1
<1>3. DOMAIN touches = 1..n /\ DOMAIN touches' = 1..(n + 1) BY <1>1, <1>2
<1>4. Retitled <=> \E j \in 1..n : touches[j] = "title" BY <1>3 DEF Retitled, ToSet
<1>5. Retitled' <=> \E j \in 1..(n + 1) : touches'[j] = "title" BY <1>3 DEF Retitled, ToSet
<1>6. \A j \in 1..(n + 1) : j \in 1..n \/ j = n + 1 BY <1>2
<1>7. 1..n \subseteq 1..(n + 1) /\ n + 1 \in 1..(n + 1) BY <1>2
<1> QED BY <1>2, <1>4, <1>5, <1>6, <1>7

\* What was said stays true while no thread that is over starts anything, no tab comes back that was
\* gone, and titles that were moved about are remembered.
LEMMA SaidStays ==
  ASSUME PhoneIInv, started \subseteq started', Retitled => Retitled',
         \A i \in Indices : (opening[i].at = "done" => opening'[i].at = "done")
                            /\ (OpenedOnce(i) => OpenedOnce(i)'),
         \A s \in started' : s \in started \/ opening[s.by].at # "done",
         \A t \in tabs' : (\E u \in tabs : u.by = t.by) \/ ~OpenedOnce(t.by)
  PROVE  \A r \in told : SaidOK(r)'
<1> SUFFICES ASSUME NEW r \in told PROVE SaidOK(r)' OBVIOUS
<1>0. SaidOK(r) BY DEF PhoneIInv
<1>1. r.says = "opened" /\ r.of # {} => (\E s \in started' : s.by = r.by) \/ Retitled'
  BY <1>0 DEF SaidOK
<1>2. r.says = "not opened" => /\ r.by \in Indices /\ opening'[r.by].at = "done"
                               /\ \A s \in started' : s.by # r.by
  BY <1>0 DEF SaidOK
<1>3. r.says = "closed" => \A b \in r.of : b \in Indices /\ OpenedOnce(b)' /\ \A t \in tabs' : t.by # b
  BY <1>0 DEF SaidOK
<1>4. r.says = "locked out" => r.of # {} BY <1>0 DEF SaidOK
<1> QED BY <1>1, <1>2, <1>3, <1>4 DEF SaidOK

\* What was said of a session is what is true of it.
LEMMA PhoneFollows == PhoneIInv => PhoneIsToldTheTruth
<1> SUFFICES ASSUME PhoneIInv PROVE PhoneIsToldTheTruth OBVIOUS
<1>1. \A s \in started :
        /\ texts[s.by].what = "yes new" /\ texts[s.by].here /\ texts[s.by].mode = s.mode
        /\ s.full[2] = Cut[texts[s.by].folder] /\ \A z \in started : z.by = s.by => z = s
  BY DEF PhoneIInv, StartedOK
<1>2. ASSUME NEW r \in told
      PROVE  CASE r.says = "opened" /\ r.of # {} ->
                    (\E s \in started : s.by = r.by) \/ "title" \in ToSet(touches)
               [] r.says = "not opened" -> \A s \in started : s.by # r.by
               [] r.says = "closed" -> \A t \in tabs : t.by \notin r.of
               [] r.says = "locked out" -> r.of # {}
               [] OTHER -> TRUE
  <2>1. SaidOK(r) BY DEF PhoneIInv
  <2>2. CASE r.says = "opened" BY <2>1, <2>2 DEF SaidOK, Retitled
  <2>3. CASE r.says = "not opened" BY <2>1, <2>3 DEF SaidOK
  <2>4. CASE r.says = "closed" BY <2>1, <2>4 DEF SaidOK
  <2>5. CASE r.says = "locked out" BY <2>1, <2>5 DEF SaidOK
  <2>6. CASE r.says \notin {"opened", "not opened", "closed", "locked out"} BY <2>6
  <2> QED BY <2>2, <2>3, <2>4, <2>5, <2>6
<1> QED BY <1>1, <1>2 DEF PhoneIsToldTheTruth

\* The owner's texts, touches and scripts.
LEMMA OwnerStep ==
  ASSUME PhoneIInv, (\E text \in Texts : SendText(text)) \/ Touch \/ HandEnds
  PROVE  PhoneIInv'
<1>0. /\ PhoneTypes /\ OpeningsOK /\ TabsOK /\ StartedOK /\ PollerOK
      /\ UNCHANGED <<opening, started, told, poller, handled, roots, expired>> /\ MaxTexts \in Nat
  BY PhoneAssumption DEF PhoneIInv, SendText, Touch, HandEnds
<1>1. ASSUME NEW text \in Texts, SendText(text) PROVE PhoneIInv'
  <2>1. UNCHANGED <<onDisk, tabs, touches, modeLock>> BY <1>1 DEF SendText
  <2>2. /\ texts \in Seq(Texts) /\ handled \in 0..Len(texts) /\ Len(texts) < MaxTexts
        /\ texts' = Append(texts, text)
    BY <1>0, <1>1 DEF PhoneTypes, SendText
  <2>3. /\ texts' \in Seq(Texts) /\ Len(texts') <= MaxTexts /\ handled \in 0..Len(texts')
        /\ \A i \in Indices : i <= handled => texts'[i] = texts[i]
    BY <1>0, <2>2 DEF Indices
  <2>4. PhoneTypes' BY <1>0, <2>1, <2>3 DEF PhoneTypes
  <2>5. OpeningsOK' BY <1>0, <2>3 DEF OpeningsOK
  <2>6. \A i \in Indices : OpenedOnce(i)' <=> OpenedOnce(i) BY <1>0 DEF OpenedOnce
  <2>7. StartedOK'
    <3>1. \A s \in started : s.by \in Indices /\ s.by <= handled
      BY <1>0 DEF PhoneTypes, StartedOK, OpeningsOK
    <3> QED BY <1>0, <2>3, <2>6, <3>1, ZenonT(60) DEF StartedOK
  <2>8. TabsOK' /\ PollerOK' BY <1>0, <2>1, <2>6 DEF TabsOK, PollerOK, Retitled, OpenedOnce
  <2>9. \A r \in told : SaidOK(r)' BY <1>0, <2>1 DEF PhoneIInv, SaidOK, Retitled, OpenedOnce
  <2> QED BY <1>0, <2>4, <2>5, <2>7, <2>8, <2>9 DEF PhoneIInv
<1>2. CASE Touch
  <2>1. PICK kind \in {"folder", "tab", "title", "script"} :
          /\ touches' = Append(touches, kind)
          /\ \/ kind = "folder" /\ (\E f \in onDisk : onDisk' = onDisk \ {f}) /\ UNCHANGED <<tabs, modeLock>>
             \/ kind = "tab" /\ (\E t \in tabs : tabs' = tabs \ {t}) /\ UNCHANGED <<onDisk, modeLock>>
             \/ kind = "title" /\ UNCHANGED <<onDisk, modeLock>>
                /\ \E t \in tabs, i \in Indices : tabs' = (tabs \ {t}) \union {[t EXCEPT !.title = i]}
             \/ kind = "script" /\ modeLock = "free" /\ modeLock' = "hand" /\ UNCHANGED <<onDisk, tabs>>
    BY <1>2 DEF Touch
  <2>2. /\ texts' = texts /\ onDisk' \subseteq onDisk /\ (modeLock' = modeLock \/ modeLock' = "hand")
    BY <1>2, <2>1 DEF Touch
  <2>3. touches' \in Seq({"folder", "tab", "title", "script"}) /\ (Retitled' <=> Retitled \/ kind = "title")
    BY <1>0, <2>1, TouchAdds
  <2>4. /\ tabs' \subseteq Tabs
        /\ \A t \in tabs' : \E u \in tabs : u.by = t.by /\ u.runs = t.runs /\ (t.title = u.title \/ kind = "title")
    <3>1. CASE kind # "title"
      <4>1. tabs' \subseteq tabs BY <2>1, <3>1
      <4> QED BY <1>0, <4>1 DEF PhoneTypes
    <3>2. CASE kind = "title"
      <4>1. PICK t \in tabs, i \in Indices : tabs' = (tabs \ {t}) \union {[t EXCEPT !.title = i]} BY <2>1, <3>2
      <4>2. [t EXCEPT !.title = i] \in Tabs /\ [t EXCEPT !.title = i].by = t.by
            /\ [t EXCEPT !.title = i].runs = t.runs
        BY <1>0 DEF PhoneTypes, Tabs
      <4> QED BY <1>0, <3>2, <4>1, <4>2 DEF PhoneTypes
    <3> QED BY <3>1, <3>2
  <2>5. \A i \in Indices : OpenedOnce(i)' <=> OpenedOnce(i) BY <1>0 DEF OpenedOnce
  <2>6. PhoneTypes' BY <1>0, <2>2, <2>3, <2>4 DEF PhoneTypes
  <2>7. OpeningsOK' BY <1>0, <2>2 DEF OpeningsOK
  <2>8. StartedOK' BY <1>0, <2>2 DEF StartedOK, OpenedOnce
  <2>9. \A u \in tabs : u.by \in Indices BY <1>0 DEF PhoneTypes, Tabs
  <2>10. TabsOK'
    <3> SUFFICES ASSUME NEW t \in tabs'
                 PROVE  OpenedOnce(t.by)' /\ (t.runs => \E s \in started : s.by = t.by)
                        /\ (Retitled' \/ t.title = t.by)
      BY <1>0 DEF TabsOK
    <3>1. PICK u \in tabs : u.by = t.by /\ u.runs = t.runs /\ (t.title = u.title \/ kind = "title") BY <2>4
    <3> QED BY <1>0, <2>3, <2>5, <2>9, <3>1 DEF TabsOK
  <2>11. PollerOK'
    <3>1. poller.at = "check" => \A h \in poller.hits : \A t \in tabs' : t.by # h.by
      BY <1>0, <2>4 DEF PollerOK
    <3> QED BY <1>0, <2>2, <3>1 DEF PollerOK, OpenedOnce
  <2>12. \A r \in told : SaidOK(r)'
    <3>1. \A t \in tabs' : \E u \in tabs : u.by = t.by BY <2>4
    <3> QED BY <1>0, <2>3, <2>5, <3>1, SaidStays
  <2> QED BY <1>0, <2>6, <2>7, <2>8, <2>10, <2>11, <2>12 DEF PhoneIInv
<1>3. CASE HandEnds
  <2>1. modeLock' = "free" /\ UNCHANGED <<texts, onDisk, tabs, touches>> BY <1>3 DEF HandEnds
  <2>2. PhoneTypes' /\ OpeningsOK' /\ TabsOK' /\ StartedOK' /\ PollerOK'
    BY <1>0, <2>1, ZenonT(60) DEF PhoneTypes, OpeningsOK, TabsOK, StartedOK, PollerOK, OpenedOnce, Retitled
  <2>3. \A r \in told : SaidOK(r)' BY <1>0, <2>1 DEF PhoneIInv, SaidOK, Retitled, OpenedOnce
  <2> QED BY <1>0, <2>2, <2>3 DEF PhoneIInv
<1> QED BY <1>1, <1>2, <1>3

\* The thread takes a text that is there.
LEMMA TakesAText ==
  ASSUME PhoneTypes, NEW what, Taking(what)
  PROVE  /\ handled' = handled + 1 /\ handled' \in 0..Len(texts) /\ handled' \in Indices
         /\ texts[handled'].what = what /\ texts[handled'] \in Texts /\ poller = AtPoll /\ handled \in Nat
         /\ handled' >= handled /\ ~(handled' <= handled) /\ handled' <= handled'
         /\ \A n \in Indices : n <= handled => n <= handled'
<1>0. \A n \in Nat : n + 1 >= n /\ ~(n + 1 <= n) /\ n + 1 <= n + 1 /\ \A m \in Int : m <= n => m <= n + 1 OBVIOUS
<1>1. /\ texts \in Seq(Texts) /\ Len(texts) \in Nat /\ Len(texts) <= MaxTexts /\ handled \in 0..Len(texts)
      /\ handled < Len(texts) /\ handled' = handled + 1 /\ MaxTexts \in Nat
  BY PhoneAssumption DEF PhoneTypes, Taking
<1>2. handled \in Nat BY <1>1
<1>3. handled' >= handled /\ ~(handled' <= handled) /\ handled' <= handled' /\ \A m \in Int : m <= handled => m <= handled'
  BY <1>0, <1>1, <1>2
<1> QED BY <1>1, <1>2, <1>3 DEF Taking, Indices

\* What is neither of a session's opening nor of tabs that are still there may be said.
LEMMA MayBeSaid ==
  ASSUME PhoneIInv, NEW i, NEW what, NEW of, Tell(i, what, of), what \notin {"opened", "not opened"},
         what = "closed" => \A b \in of : b \in Indices /\ OpenedOnce(b) /\ \A t \in tabs : t.by # b,
         what = "locked out" => of # {}
  PROVE  \A r \in told' : SaidOK(r)
<1>1. \A r \in told : SaidOK(r) BY DEF PhoneIInv
<1>2. \A r \in told' : r \in told \/ (r.by = i /\ r.says = what /\ r.of = of) BY TellAdds
<1>3. \A r : r.says = what /\ r.of = of => SaidOK(r) BY DEF SaidOK
<1> QED BY <1>1, <1>2, <1>3

\* What the thread does without opening or closing anything.
LEMMA SayingStep ==
  ASSUME PhoneIInv, \A r \in told' : SaidOK(r), handled' \in 0..Len(texts), handled' >= handled,
         poller' \in {AtPoll} \union Closing \union [at : {"switch"}],
         UNCHANGED <<roots, onDisk, texts, opening, tabs, started, touches>>, PollerOK'
  PROVE  PhoneIInv'
<1>1. PhoneTypes' BY DEF PhoneIInv, PhoneTypes
<1>2. OpeningsOK'
  <2>1. OpeningsOK /\ Len(texts) \in Int /\ handled \in Int /\ handled' \in Int
    <3>1. texts \in Seq(Texts) /\ handled \in 0..Len(texts) BY DEF PhoneIInv, PhoneTypes
    <3>2. Len(texts) \in Nat BY <3>1
    <3> QED BY <3>1, <3>2 DEF PhoneIInv
  <2>2. \A n \in Indices : n <= handled => n <= handled'
    <3>1. Indices \subseteq Int BY PhoneAssumption DEF Indices
    <3> QED BY <2>1, <3>1
  <2> QED BY <2>1, <2>2 DEF OpeningsOK
<1>3. TabsOK' /\ StartedOK' BY DEF PhoneIInv, TabsOK, StartedOK, OpenedOnce, Retitled
<1>4. \A r \in told' : SaidOK(r)' BY DEF PhoneIInv, SaidOK, OpenedOnce, Retitled
<1> QED BY <1>1, <1>2, <1>3, <1>4 DEF PhoneIInv

\* What the thread that handles the texts does.
LEMMA PollerStep ==
  ASSUME PhoneIInv, \/ OfferFolders \/ OfferPhrases \/ ListSessions \/ Resume
                    \/ BeginSwitch \/ EndSwitch
  PROVE  PhoneIInv'
<1>0. PhoneTypes /\ PollerOK /\ Len(texts) \in Nat /\ handled \in Nat BY DEF PhoneIInv, PhoneTypes
<1>1. ASSUME NEW what \in {"new", "pick", "close", "resume"},
             NEW says \in {"no folders", "folders", "phrases", "sessions", "resumed"}, NEW of,
             Reply(what, says, of)
      PROVE  PhoneIInv'
  <2>1. /\ handled' = handled + 1 /\ handled' \in 0..Len(texts) /\ poller' = poller
        /\ handled' >= handled
    BY <1>0, <1>1, TakesAText DEF Reply
  <2>2. poller' \in {AtPoll} \union Closing \union [at : {"switch"}] BY <1>0, <2>1 DEF PhoneTypes
  <2>3. PollerOK' BY <1>0, <1>1 DEF Reply, PollerOK, OpenedOnce
  <2>4. \A r \in told' : SaidOK(r)
    <3>1. Tell(handled', says, of) BY <1>1 DEF Reply
    <3>2. says \notin {"opened", "not opened", "closed", "locked out"} OBVIOUS
    <3> QED BY <3>1, <3>2, MayBeSaid
  <2>6. UNCHANGED <<roots, onDisk, texts, opening, tabs, started, touches>> BY <1>1 DEF Reply
  <2> QED BY <2>1, <2>2, <2>3, <2>4, <2>6, SayingStep
<1>2. CASE BeginSwitch
  <2>1. handled' = handled + 1 /\ handled' \in 0..Len(texts) /\ poller = AtPoll
    BY <1>0, <1>2, TakesAText DEF BeginSwitch
  <2>2. CASE modeLock # "free" /\ Tell(handled', "locked out", Itself(handled', modeLock = "hand" \/ expired))
             /\ UNCHANGED <<poller, modeLock>>
    <3>1. modeLock \in {"hand", "left"} /\ (modeLock = "left" => expired)
      BY <1>0, <2>1, <2>2 DEF PollerOK, AtPoll
    <3>2. Itself(handled', modeLock = "hand" \/ expired) # {} BY <3>1 DEF Itself
    <3>3. PollerOK' BY <1>0, <1>2, <2>2 DEF BeginSwitch, PollerOK, OpenedOnce
    <3>4. poller' \in {AtPoll} \union Closing \union [at : {"switch"}] BY <1>0, <2>2 DEF PhoneTypes
    <3>5. \A r \in told' : SaidOK(r)
      <4> DEFINE of == Itself(handled', modeLock = "hand" \/ expired)
      <4>1. Tell(handled', "locked out", of) /\ of # {} BY <2>2, <3>2
      <4> HIDE DEF of
      <4> QED BY <4>1, MayBeSaid
    <3>6. handled' >= handled BY <1>0, <2>1
    <3>7. UNCHANGED <<roots, onDisk, texts, opening, tabs, started, touches>> BY <1>2 DEF BeginSwitch
    <3> QED BY <2>1, <3>3, <3>4, <3>5, <3>6, <3>7, SayingStep
  <2>3. CASE modeLock = "free" /\ modeLock' = "phone" /\ poller' = [at |-> "switch"] /\ UNCHANGED told
    <3>1. PollerOK' BY <1>0, <1>2, <2>3 DEF BeginSwitch, PollerOK
    <3>2. poller' \in {AtPoll} \union Closing \union [at : {"switch"}] BY <2>3
    <3>3. \A r \in told' : SaidOK(r) BY <2>3 DEF PhoneIInv
    <3> QED BY <1>0, <1>2, <2>1, <2>3, <3>1, <3>2, <3>3, SayingStep DEF BeginSwitch
  <2> QED BY <1>2, <2>2, <2>3 DEF BeginSwitch
<1>3. CASE EndSwitch
  <2>1. poller' = AtPoll /\ handled' = handled BY <1>3 DEF EndSwitch
  <2>2. PollerOK' BY <1>0, <1>3 DEF EndSwitch, PollerOK, AtPoll
  <2>3. handled' \in 0..Len(texts) /\ handled' >= handled BY <1>0, <2>1 DEF PhoneTypes
  <2>4. \A r \in told' : SaidOK(r)
    <3>1. PICK of : Tell(handled, "switched", of) BY <1>3 DEF EndSwitch
    <3> QED BY <3>1, MayBeSaid
  <2> QED BY <1>0, <1>3, <2>1, <2>2, <2>3, <2>4, SayingStep DEF EndSwitch
<1> QED BY <1>1, <1>2, <1>3 DEF OfferFolders, OfferPhrases, ListSessions, Resume

\* Closing a session: the tabs that were found are gone when the phone is told so.
LEMMA ClosingStep ==
  ASSUME PhoneIInv, CloseSession \/ Click \/ CheckClosed
  PROVE  PhoneIInv'
<1>0. /\ PhoneTypes /\ PollerOK /\ TabsOK /\ Len(texts) \in Nat /\ handled \in 0..Len(texts)
      /\ tabs \subseteq Tabs
  BY DEF PhoneIInv, PhoneTypes
<1>1. CASE CloseSession
  <2> DEFINE hits == Carrying(texts[handled'].token)
  <2>1. /\ handled' = handled + 1 /\ handled' \in 0..Len(texts) /\ poller = AtPoll
    BY <1>0, <1>1, TakesAText DEF CloseSession
  <2>2. hits \subseteq tabs BY DEF Carrying
  <2>3. CASE Tell(handled', "not closed", {}) /\ UNCHANGED poller
    <3>1. PollerOK' BY <1>0, <1>1, <2>3 DEF CloseSession, PollerOK, OpenedOnce
    <3>2. poller' \in {AtPoll} \union Closing \union [at : {"switch"}] BY <2>1, <2>3
    <3>3. \A r \in told' : SaidOK(r) BY <2>3, MayBeSaid
    <3>4. handled' >= handled BY <1>0, <2>1
    <3>5. UNCHANGED <<roots, onDisk, texts, opening, tabs, started, touches>> BY <1>1 DEF CloseSession
    <3> QED BY <2>1, <3>1, <3>2, <3>3, <3>4, <3>5, SayingStep
  <2>4. CASE poller' = [at |-> "click", hits |-> hits] /\ UNCHANGED told
    <3>1. poller' \in Closing /\ poller'.at = "click" /\ poller'.hits = hits
      <4> HIDE DEF hits
      <4> QED BY <1>0, <2>2, <2>4 DEF Closing
    <3>2. \A h \in hits : OpenedOnce(h.by)' BY <1>0, <1>1, <2>2 DEF TabsOK, CloseSession, OpenedOnce
    <3>3. PollerOK'
      <4> HIDE DEF hits
      <4>1. modeLock \in {"free", "phone", "hand", "left"} /\ modeLock # "phone" /\ (modeLock = "left" => expired)
        BY <1>0, <2>1 DEF PollerOK, AtPoll
      <4>2. UNCHANGED <<modeLock, expired>> BY <1>1 DEF CloseSession
      <4> QED BY <3>1, <3>2, <4>1, <4>2 DEF PollerOK
    <3>4. \A r \in told' : SaidOK(r) BY <2>4 DEF PhoneIInv
    <3>5. UNCHANGED <<roots, onDisk, texts, opening, tabs, started, touches>> BY <1>1 DEF CloseSession
    <3> HIDE DEF hits
    <3> QED BY <1>0, <2>1, <3>1, <3>3, <3>4, <3>5, SayingStep
  <2> QED BY <1>1, <2>3, <2>4 DEF CloseSession
<1>2. CASE Click
  <2>0. /\ poller \in Closing /\ poller.at = "click" /\ handled' = handled
        /\ handled' \in 0..Len(texts) /\ handled' >= handled
    <3>1. poller.at = "click" /\ handled' = handled BY <1>2 DEF Click
    <3>2. poller \in {AtPoll} \union Closing \union [at : {"switch"}] BY <1>0 DEF PhoneTypes
    <3> QED BY <1>0, <3>1, <3>2 DEF AtPoll
  <2>1. CASE Tell(handled, "not closed", {}) /\ poller' = AtPoll /\ UNCHANGED tabs
    <3>1. PollerOK'
      <4>1. modeLock \in {"free", "phone", "hand", "left"} /\ modeLock # "phone" /\ (modeLock = "left" => expired)
        BY <1>0, <2>0 DEF PollerOK
      <4> QED BY <1>2, <2>1, <4>1 DEF Click, PollerOK, AtPoll
    <3>2. \A r \in told' : SaidOK(r) BY <2>1, MayBeSaid
    <3>3. UNCHANGED <<roots, onDisk, texts, opening, tabs, started, touches>> BY <1>2, <2>1 DEF Click
    <3> QED BY <2>0, <2>1, <3>1, <3>2, <3>3, SayingStep
  <2>2. CASE /\ tabs' = {t \in tabs : \A h \in poller.hits : t.by # h.by}
             /\ poller' = [poller EXCEPT !.at = "check"] /\ UNCHANGED told
    <3>1. poller' \in Closing /\ poller'.at = "check" /\ poller'.hits = poller.hits
      BY <2>0, <2>2 DEF Closing
    <3>2. tabs' \subseteq tabs /\ \A h \in poller.hits : \A t \in tabs' : t.by # h.by BY <2>2
    <3>3. UNCHANGED <<roots, onDisk, texts, opening, started, touches, modeLock, expired, handled>>
      BY <1>2 DEF Click
    <3>4. PhoneTypes' BY <1>0, <3>1, <3>2, <3>3 DEF PhoneTypes
    <3>5. OpeningsOK' /\ StartedOK' /\ TabsOK'
      BY <3>2, <3>3, ZenonT(60) DEF PhoneIInv, OpeningsOK, StartedOK, TabsOK, OpenedOnce, Retitled
    <3>6. PollerOK' BY <1>0, <2>0, <3>1, <3>2, <3>3 DEF PollerOK, OpenedOnce
    <3>7. \A r \in told : SaidOK(r)'
      <4>1. \A i \in Indices : (OpenedOnce(i)' <=> OpenedOnce(i)) /\ opening'[i] = opening[i]
        BY <3>3 DEF OpenedOnce
      <4>2. Retitled' <=> Retitled BY <3>3 DEF Retitled
      <4> QED BY <3>2, <3>3, <4>1, <4>2, SaidStays
    <3> QED BY <2>2, <3>4, <3>5, <3>6, <3>7 DEF PhoneIInv
  <2> QED BY <1>2, <2>1, <2>2 DEF Click
<1>3. CASE CheckClosed
  <2>0. /\ poller \in Closing /\ poller.at = "check" /\ handled' = handled /\ poller' = AtPoll
        /\ handled' \in 0..Len(texts) /\ handled' >= handled
    <3>1. poller.at = "check" /\ handled' = handled /\ poller' = AtPoll BY <1>3 DEF CheckClosed
    <3>2. poller \in {AtPoll} \union Closing \union [at : {"switch"}] BY <1>0 DEF PhoneTypes
    <3> QED BY <1>0, <3>1, <3>2 DEF AtPoll
  <2> DEFINE bys == {h.by : h \in poller.hits}
             what == IF Carrying(Current.token) = {} THEN "closed" ELSE "not closed"
  <2>1. Tell(handled, what, bys) BY <1>3 DEF CheckClosed
  <2>2. \A b \in bys : b \in Indices /\ OpenedOnce(b) /\ \A t \in tabs : t.by # b
    <3>1. \A h \in poller.hits : h.by \in Indices BY <2>0 DEF Closing, Tabs
    <3> QED BY <1>0, <2>0, <3>1 DEF PollerOK
  <2>3. PollerOK'
    <3>1. modeLock \in {"free", "phone", "hand", "left"} /\ modeLock # "phone" /\ (modeLock = "left" => expired)
      BY <1>0, <2>0 DEF PollerOK
    <3>2. UNCHANGED <<modeLock, expired>> BY <1>3 DEF CheckClosed
    <3>3. poller'.at \notin {"click", "check"} BY <2>0 DEF AtPoll
    <3> HIDE DEF what, bys
    <3> QED BY <3>1, <3>2, <3>3 DEF PollerOK
  <2>4. what \in {"closed", "not closed"} OBVIOUS
  <2>5. UNCHANGED <<roots, onDisk, texts, opening, tabs, started, touches>> BY <1>3 DEF CheckClosed
  <2> HIDE DEF what, bys
  <2>6. \A r \in told' : SaidOK(r) BY <2>1, <2>2, <2>4, MayBeSaid
  <2> QED BY <2>0, <2>3, <2>5, <2>6, SayingStep
<1> QED BY <1>1, <1>2, <1>3

\* A text that asks for a session here has a thread of its own.
LEMMA OpenStep == ASSUME PhoneIInv, OpenSession PROVE PhoneIInv'
<1>0. /\ PhoneTypes /\ OpeningsOK /\ TabsOK /\ StartedOK /\ PollerOK
      /\ UNCHANGED <<roots, onDisk, texts, poller, tabs, modeLock, started, expired, touches>>
  BY DEF PhoneIInv, OpenSession
<1> DEFINE text == texts[handled']
           new == [at |-> "open", mode |-> text.mode, folder |-> Cut[text.folder], roots |-> roots]
<1>1. /\ handled' = handled + 1 /\ handled' \in 0..Len(texts) /\ handled' \in Indices /\ handled \in Nat
      /\ text.what = "yes new" /\ text \in Texts
      /\ ~(handled' <= handled) /\ handled' <= handled' /\ \A n \in Indices : n <= handled => n <= handled'
  BY <1>0, TakesAText DEF OpenSession
<1>2. text.mode \in Modes /\ text.folder \in Folders
  BY <1>1 DEF Texts
<1>3. new \in AskedFor BY <1>0, <1>2 DEF AskedFor, CutNames, PhoneTypes
<1>4. opening[handled'].at = "none" BY <1>0, <1>1 DEF OpeningsOK
<1>5. \/ text.here /\ opening' = [opening EXCEPT ![handled'] = new]
      \/ opening' = opening
  BY DEF OpenSession
<1>6. /\ new.at = "open" /\ new.mode = text.mode /\ new.folder = Cut[text.folder]
  OBVIOUS
<1>7. \A r \in told' : r \in told \/ SaidOK(r)
  <2>1. \E what \in {"opening", "sent"} : Tell(handled', what, {}) BY DEF OpenSession
  <2>2. PICK what \in {"opening", "sent"} : Tell(handled', what, {}) BY <2>1
  <2> QED BY <2>2, MayBeSaid
<1> HIDE DEF new
<1>8. /\ opening' \in [Indices -> {NotOpening} \union AskedFor \union Connecting]
      /\ \A i \in Indices : \/ opening'[i] = opening[i]
                            \/ i = handled' /\ text.here /\ opening'[i] = new /\ opening[i].at = "none"
  <2>0. opening \in [Indices -> {NotOpening} \union AskedFor \union Connecting] BY <1>0 DEF PhoneTypes
  <2>1. CASE opening' = opening BY <2>0, <2>1
  <2>2. CASE text.here /\ opening' = [opening EXCEPT ![handled'] = new] BY <1>1, <1>3, <1>4, <2>0, <2>2
  <2> QED BY <1>5, <2>1, <2>2
<1>9. PhoneTypes' BY <1>0, <1>1, <1>8 DEF PhoneTypes
<1>10. \A i \in Indices : OpenedOnce(i)' <=> OpenedOnce(i) BY <1>6, <1>8 DEF OpenedOnce
<1>11. OpeningsOK'
  <2> SUFFICES ASSUME NEW i \in Indices, opening'[i].at # "none"
               PROVE  /\ i <= handled' /\ texts[i].what = "yes new" /\ texts[i].here
                      /\ opening'[i].at = "open" =>
                           /\ opening'[i] \in AskedFor /\ opening'[i].mode = texts[i].mode
                           /\ opening'[i].folder = Cut[texts[i].folder]
                      /\ opening'[i].at = "connect" =>
                           /\ opening'[i] \in Connecting /\ opening'[i].mode = texts[i].mode
                           /\ opening'[i].full[2] = Cut[texts[i].folder]
    BY <1>0 DEF OpeningsOK
  <2>1. CASE opening'[i] = opening[i] BY <1>0, <1>1, <2>1 DEF OpeningsOK
  <2>2. CASE i = handled' /\ text.here /\ opening'[i] = new
    BY <1>1, <1>3, <1>6, <2>2
  <2> QED BY <1>8, <2>1, <2>2
<1>12. StartedOK'
  <2>1. \A s \in started : s.by \in Indices BY <1>0 DEF PhoneTypes
  <2>2. \A s \in started : opening'[s.by].at # "none"
    BY <1>0, <1>6, <1>8, <2>1 DEF StartedOK
  <2> QED BY <1>0, <1>10, <2>1, <2>2 DEF StartedOK
<1>13. TabsOK' /\ PollerOK'
  <2>1. \A t \in Tabs : t.by \in Indices BY DEF Tabs
  <2>2. poller.at \in {"click", "check"} => \A h \in poller.hits : h \in Tabs
    BY <1>0 DEF PhoneTypes, AtPoll, Closing
  <2>3. TabsOK' BY <1>0, <1>10, <2>1 DEF PhoneTypes, TabsOK, Retitled
  <2>4. PollerOK' BY <1>0, <1>10, <2>1, <2>2 DEF PollerOK
  <2> QED BY <2>3, <2>4
<1>14. \A r \in told' : SaidOK(r)'
  <2>1. \A i \in Indices : opening[i].at = "done" => opening'[i].at = "done" BY <1>8
  <2> QED BY <1>0, <1>7, <1>10, <2>1 DEF PhoneIInv, SaidOK, Retitled
<1> QED BY <1>9, <1>11, <1>12, <1>13, <1>14 DEF PhoneIInv

\* A thread that is over, or has its tab, leaves what was opened before.
LEMMA ThreadGoesOn ==
  ASSUME PhoneIInv, NEW i \in Indices, NEW new \in AskedFor \union Connecting,
         opening' = [opening EXCEPT ![i] = new], opening[i].at # "none",
         OpenedOnce(i) => new.at = "done" \/ (new.at = "connect" /\ new.tab),
         new.at \in {"connect", "done"}, opening[i].at = "done" => new.at = "done",
         new.at = "connect" => /\ new \in Connecting /\ new.mode = texts[i].mode
                               /\ new.full[2] = Cut[texts[i].folder],
         UNCHANGED <<roots, onDisk, texts, handled, poller, modeLock, expired, touches>>
  PROVE  /\ opening' \in [Indices -> {NotOpening} \union AskedFor \union Connecting]
         /\ \A j \in Indices : j # i => opening'[j] = opening[j]
         /\ opening'[i] = new
         /\ \A j \in Indices : OpenedOnce(j) => OpenedOnce(j)'
         /\ \A j \in Indices : opening[j].at = "done" => opening'[j].at = "done"
         /\ OpeningsOK'
         /\ tabs' = tabs => PollerOK'
<1>0. PhoneTypes /\ OpeningsOK /\ PollerOK BY DEF PhoneIInv
<1>1. /\ opening' \in [Indices -> {NotOpening} \union AskedFor \union Connecting]
      /\ \A j \in Indices : j # i => opening'[j] = opening[j]
      /\ opening'[i] = new
  BY <1>0 DEF PhoneTypes
<1>2. \A j \in Indices : OpenedOnce(j) => OpenedOnce(j)' BY <1>1 DEF OpenedOnce
<1>3. \A j \in Indices : opening[j].at = "done" => opening'[j].at = "done" BY <1>1
<1>4. OpeningsOK' BY <1>0, <1>1 DEF OpeningsOK
<1>5. tabs' = tabs => PollerOK'
  <2>1. poller.at \in {"click", "check"} => \A h \in poller.hits : h.by \in Indices
    BY <1>0 DEF PhoneTypes, AtPoll, Closing, Tabs
  <2> QED BY <1>0, <1>2, <2>1 DEF PollerOK
<1> QED BY <1>1, <1>2, <1>3, <1>4, <1>5

\* A thread that is over, and what it says: nothing starts and no tab opens.
LEMMA ThreadEnds ==
  ASSUME PhoneIInv, NEW i \in Indices, NEW new \in AskedFor \union Connecting,
         opening' = [opening EXCEPT ![i] = new], opening[i].at # "none",
         OpenedOnce(i) => new.at = "done" \/ (new.at = "connect" /\ new.tab),
         new.at \in {"connect", "done"}, opening[i].at = "done" => new.at = "done",
         new.at = "connect" => /\ new \in Connecting /\ new.mode = texts[i].mode
                               /\ new.full[2] = Cut[texts[i].folder],
         UNCHANGED <<roots, onDisk, texts, handled, poller, modeLock, expired, touches, tabs, started>>,
         \A r \in told' : r \in told \/ SaidOK(r)'
  PROVE  PhoneIInv'
<1>0. PhoneTypes /\ TabsOK /\ StartedOK BY DEF PhoneIInv
<1>1. /\ opening' \in [Indices -> {NotOpening} \union AskedFor \union Connecting]
      /\ \A j \in Indices : OpenedOnce(j) => OpenedOnce(j)'
      /\ \A j \in Indices : opening[j].at = "done" => opening'[j].at = "done"
      /\ OpeningsOK' /\ PollerOK'
      /\ opening'[i] = new /\ \A j \in Indices : j # i => opening'[j] = opening[j]
  BY ThreadGoesOn
<1>2. PhoneTypes' BY <1>0, <1>1 DEF PhoneTypes
<1>3. TabsOK'
  <2>1. \A t \in tabs : t.by \in Indices BY <1>0 DEF PhoneTypes, Tabs
  <2> QED BY <1>0, <1>1, <2>1 DEF TabsOK, Retitled
<1>4. StartedOK'
  <2>1. \A s \in started : s.by \in Indices BY <1>0 DEF PhoneTypes
  <2>2. \A j \in Indices : opening[j].at # "none" => opening'[j].at # "none" BY <1>1
  <2> QED BY <1>0, <1>1, <2>1, <2>2 DEF StartedOK
<1>5. \A r \in told : SaidOK(r)'
  <2>1. Retitled' <=> Retitled BY DEF Retitled
  <2>2. \A t \in tabs' : \E u \in tabs : u.by = t.by OBVIOUS
  <2> QED BY <1>1, <2>1, <2>2, SaidStays
<1> QED BY <1>1, <1>2, <1>3, <1>4, <1>5 DEF PhoneIInv

\* A thread that is over stays as it was but for that.
LEMMA Over ==
  ASSUME NEW old \in AskedFor \union Connecting
  PROVE  /\ [old EXCEPT !.at = "done"] \in AskedFor \union Connecting
         /\ [old EXCEPT !.at = "done"].at = "done"
<1>1. CASE old \in AskedFor BY <1>1 DEF AskedFor
<1>2. CASE old \in Connecting BY <1>2 DEF Connecting
<1> QED BY <1>1, <1>2

\* Nothing runs of a text whose session was not opened.
LEMMA NoneStarted ==
  ASSUME PhoneIInv, NEW i \in Indices, ~OpenedOnce(i)
  PROVE  \A s \in started : s.by # i
BY DEF PhoneIInv, StartedOK

\* The thread looks for the folder and starts its scripts, or is over and says so.
LEMMA LaunchThreadStep == ASSUME PhoneIInv, NEW i \in Indices, Launch(i) PROVE PhoneIInv'
<1>0. /\ PhoneTypes /\ OpeningsOK /\ StartedOK /\ opening[i].at = "open"
      /\ opening[i] \in AskedFor /\ opening[i].mode = texts[i].mode
      /\ opening[i].folder = Cut[texts[i].folder]
      /\ UNCHANGED <<roots, onDisk, texts, handled, poller, modeLock, expired, touches, tabs, started>>
  BY DEF PhoneIInv, Launch, OpeningsOK
<1>1. ~OpenedOnce(i) BY <1>0 DEF OpenedOnce
<1>2. CASE Tell(i, "not opened", {}) /\ opening' = [opening EXCEPT ![i].at = "done"]
  <2>1. PICK new \in AskedFor \union Connecting : new = [opening[i] EXCEPT !.at = "done"] /\ new.at = "done"
    BY <1>0, Over
  <2>2. opening' = [opening EXCEPT ![i] = new] BY <1>2, <2>1
  <2>3. opening'[i].at = "done" BY <1>0, <2>1, <2>2 DEF PhoneTypes
  <2>4. \A s \in started' : s.by # i BY <1>0, <1>1, NoneStarted
  <2>5. \A r \in told' : r \in told \/ SaidOK(r)'
    <3>1. \A r \in told' : r \in told \/ (r.by = i /\ r.says = "not opened") BY <1>2, TellAdds
    <3>2. \A r : r.by = i /\ r.says = "not opened" => SaidOK(r)' BY <2>3, <2>4 DEF SaidOK
    <3> QED BY <3>1, <3>2
  <2> QED BY <1>0, <2>1, <2>2, <2>5, ThreadEnds
<1>3. CASE /\ Full(i) \in onDisk /\ told' = told
           /\ opening' = [opening EXCEPT ![i] = [at |-> "connect", mode |-> opening[i].mode,
                                                  full |-> Full(i), tab |-> FALSE]]
  <2>1. Full(i) \in Roots \X Folders /\ Full(i)[2] = opening[i].folder BY <1>0, <1>3 DEF PhoneTypes, Full
  <2>2. opening[i].mode \in Modes BY <1>0 DEF AskedFor
  <2>3. \A mode \in Modes, full \in Roots \X Folders :
          LET new == [at |-> "connect", mode |-> mode, full |-> full, tab |-> FALSE]
          IN  new \in Connecting /\ new.at = "connect" /\ new.mode = mode /\ new.full = full
    BY DEF Connecting
  <2>4. PICK new \in Connecting : /\ new.at = "connect" /\ new.mode = opening[i].mode /\ new.full = Full(i)
                                  /\ opening' = [opening EXCEPT ![i] = new]
    BY <1>3, <2>1, <2>2, <2>3
  <2>5. new \in AskedFor \union Connecting /\ new.mode = texts[i].mode /\ new.full[2] = Cut[texts[i].folder]
    BY <1>0, <2>1, <2>4
  <2> QED BY <1>0, <1>1, <1>3, <2>4, <2>5, ThreadEnds
<1> QED BY <1>2, <1>3 DEF Launch

\* What a closing found are tabs of texts.
LEMMA HitsAreTabs ==
  ASSUME PhoneTypes, poller.at \in {"click", "check"}
  PROVE  \A h \in poller.hits : h.by \in Indices
BY DEF PhoneTypes, AtPoll, Closing, Tabs

\* A tab is opened once, by what its text asked for.
LEMMA TabStep == ASSUME PhoneIInv, NEW i \in Indices, TabOpens(i) PROVE PhoneIInv'
<1>0. /\ PhoneTypes /\ OpeningsOK /\ StartedOK /\ TabsOK /\ PollerOK
      /\ opening[i].at = "connect" /\ ~opening[i].tab
      /\ opening[i] \in Connecting /\ opening[i].mode = texts[i].mode
      /\ opening[i].full[2] = Cut[texts[i].folder]
      /\ i <= handled /\ texts[i].what = "yes new" /\ texts[i].here
      /\ UNCHANGED <<roots, onDisk, texts, handled, poller, modeLock, expired, touches, told>>
  BY DEF PhoneIInv, TabOpens, OpeningsOK
<1>1. ~OpenedOnce(i) /\ opening[i].at \notin {"none", "done"} BY <1>0 DEF OpenedOnce
<1>2. PICK new \in Connecting :
        /\ new.at = "connect" /\ new.tab /\ new.mode = opening[i].mode /\ new.full = opening[i].full
        /\ opening' = [opening EXCEPT ![i] = new]
  <2>1. \A old \in Connecting : LET new == [old EXCEPT !.tab = TRUE]
                                IN  /\ new \in Connecting /\ new.at = old.at /\ new.tab /\ new.mode = old.mode
                                    /\ new.full = old.full
    BY DEF Connecting
  <2>2. opening' = [opening EXCEPT ![i] = [opening[i] EXCEPT !.tab = TRUE]] BY DEF TabOpens
  <2> QED BY <1>0, <2>1, <2>2
<1> DEFINE runs == opening[i].full \in onDisk
           session0 == [by |-> i, mode |-> opening[i].mode, full |-> opening[i].full]
<1>3. PICK tab \in Tabs : tab.by = i /\ tab.title = i /\ tab.runs = runs /\ tabs' = tabs \union {tab}
  <2>1. runs \in BOOLEAN OBVIOUS
  <2>2. tabs' = tabs \union {[by |-> i, title |-> i, runs |-> runs]} BY DEF TabOpens
  <2> HIDE DEF runs
  <2> QED BY <2>1, <2>2 DEF Tabs
<1>4. PICK ran \in [by : Indices, mode : Modes, full : Roots \X Folders] :
        ran.by = i /\ ran.mode = opening[i].mode /\ ran.full = opening[i].full /\ ran = session0
  BY <1>0 DEF Connecting
<1>5. /\ started' = started \union (IF runs THEN {ran} ELSE {})
      /\ started \subseteq started' /\ (runs => ran \in started')
      /\ \A s \in started' : s \in started \/ s = ran
  <2>1. started' = started \union (IF runs THEN {session0} ELSE {}) BY DEF TabOpens
  <2> QED BY <1>4, <2>1
<1> HIDE DEF runs, session0
<1>6. /\ opening' \in [Indices -> {NotOpening} \union AskedFor \union Connecting]
      /\ \A j \in Indices : OpenedOnce(j) => OpenedOnce(j)'
      /\ \A j \in Indices : opening[j].at = "done" => opening'[j].at = "done"
      /\ OpeningsOK'
      /\ opening'[i] = new /\ \A j \in Indices : j # i => opening'[j] = opening[j]
  <2>1. new \in AskedFor \union Connecting /\ new.mode = texts[i].mode /\ new.full[2] = Cut[texts[i].folder]
    BY <1>0, <1>2
  <2> QED BY <1>0, <1>1, <1>2, <2>1, ThreadGoesOn
<1>7. OpenedOnce(i)' BY <1>2, <1>6 DEF OpenedOnce
<1>8. PhoneTypes' BY <1>0, <1>3, <1>4, <1>5, <1>6, ZenonT(60) DEF PhoneTypes
<1>9. TabsOK'
  <2> SUFFICES ASSUME NEW t \in tabs'
               PROVE  OpenedOnce(t.by)' /\ (t.runs => \E s \in started' : s.by = t.by)
                      /\ (Retitled' \/ t.title = t.by)
    BY DEF TabsOK
  <2>1. CASE t \in tabs
    <3>1. t.by \in Indices BY <1>0, <2>1 DEF PhoneTypes, Tabs
    <3> QED BY <1>0, <1>5, <1>6, <2>1, <3>1 DEF TabsOK, Retitled
  <2>2. CASE t = tab BY <1>3, <1>4, <1>5, <1>7, <2>2
  <2> QED BY <1>3, <2>1, <2>2
<1>10. StartedOK'
  <2>1. \A s \in started : s.by \in Indices /\ s.by # i BY <1>0, <1>1, NoneStarted DEF PhoneTypes
  <2> SUFFICES ASSUME NEW s \in started'
               PROVE  /\ OpenedOnce(s.by)' /\ opening'[s.by].at # "none"
                      /\ texts[s.by].what = "yes new" /\ texts[s.by].here /\ texts[s.by].mode = s.mode
                      /\ s.full[2] = Cut[texts[s.by].folder]
                      /\ \A z \in started' : z.by = s.by => z = s
    BY <1>0 DEF StartedOK
  <2>2. CASE s \in started
    <3>1. \A z \in started' : z.by = s.by => z = s BY <1>0, <1>4, <1>5, <2>1, <2>2, ZenonT(60) DEF StartedOK
    <3> QED BY <1>0, <1>6, <2>1, <2>2, <3>1, ZenonT(60) DEF StartedOK
  <2>3. CASE s = ran
    <3>1. \A z \in started' : z.by = s.by => z = s BY <1>4, <1>5, <2>1, <2>3
    <3> QED BY <1>0, <1>2, <1>4, <1>6, <1>7, <2>3, <3>1, ZenonT(60)
  <2> QED BY <1>5, <2>2, <2>3
<1>11. PollerOK'
  <2>1. poller.at \in {"click", "check"} => \A h \in poller.hits : h.by \in Indices
    BY <1>0, HitsAreTabs
  <2>2. poller.at = "check" => \A h \in poller.hits : \A t \in tabs' : t.by # h.by
    BY <1>0, <1>1, <1>3, <2>1, ZenonT(60) DEF PollerOK
  <2> QED BY <1>0, <1>6, <2>1, <2>2 DEF PollerOK
<1>12. \A r \in told : SaidOK(r)'
  <2>1. Retitled' <=> Retitled BY <1>0 DEF Retitled
  <2>2. \A t \in tabs' : (\E u \in tabs : u.by = t.by) \/ ~OpenedOnce(t.by) BY <1>1, <1>3
  <2>3. \A s \in started' : s \in started \/ opening[s.by].at # "done" BY <1>1, <1>4, <1>5
  <2> QED BY <1>5, <1>6, <2>1, <2>2, <2>3, SaidStays
<1> QED BY <1>0, <1>6, <1>8, <1>9, <1>10, <1>11, <1>12 DEF PhoneIInv

\* The phone is told of a connection only if the one tab of the title runs.
LEMMA ConnectThreadStep == ASSUME PhoneIInv, NEW i \in Indices, ConnectSession(i) PROVE PhoneIInv'
<1>0. /\ PhoneTypes /\ OpeningsOK /\ StartedOK /\ TabsOK
      /\ opening[i].at = "connect" /\ opening[i] \in Connecting
      /\ UNCHANGED <<roots, onDisk, texts, handled, poller, modeLock, expired, touches, tabs, started>>
  BY DEF PhoneIInv, ConnectSession, OpeningsOK
<1>1. PICK new \in AskedFor \union Connecting : new = [opening[i] EXCEPT !.at = "done"] /\ new.at = "done"
  BY <1>0, Over
<1>2. opening' = [opening EXCEPT ![i] = new] BY <1>1 DEF ConnectSession
<1>3. PICK rc \in Connected(i) : Tell(i, "opened", Itself(i, rc)) BY DEF ConnectSession
<1>4. rc => (\E s \in started : s.by = i) \/ Retitled
  <2> SUFFICES ASSUME rc, ~Retitled PROVE \E s \in started : s.by = i OBVIOUS
  <2>1. Cardinality(Carrying(i)) = 1 /\ \A t \in Carrying(i) : t.runs BY <1>3 DEF Connected
  <2>2. Carrying(i) # {} BY <2>1, FS_EmptySet
  <2>3. PICK t \in tabs : t.title = i /\ t.runs BY <2>1, <2>2 DEF Carrying
  <2> QED BY <1>0, <2>3 DEF TabsOK
<1>5. \A r \in told' : r \in told \/ SaidOK(r)'
  <2> DEFINE of == Itself(i, rc)
  <2>1. of # {} => (\E s \in started' : s.by = i) \/ Retitled' BY <1>0, <1>4 DEF Itself, Retitled
  <2>2. Tell(i, "opened", of) BY <1>3
  <2> HIDE DEF of
  <2>3. \A r \in told' : r \in told \/ (r.by = i /\ r.says = "opened" /\ r.of = of) BY <2>2, TellAdds
  <2>4. \A r : r.by = i /\ r.says = "opened" /\ r.of = of => SaidOK(r)' BY <2>1 DEF SaidOK
  <2> QED BY <2>3, <2>4
<1> QED BY <1>0, <1>1, <1>2, <1>5, ThreadEnds

\* What every state of the phone keeps.
LEMMA PhoneInvariance == PhoneSpec => []PhoneIInv
<1>1. PhoneInit => PhoneIInv BY PhoneBegins
<1>2. PhoneIInv /\ [PhoneNext]_phoneVars => PhoneIInv'
  <2> SUFFICES ASSUME PhoneIInv, [PhoneNext]_phoneVars PROVE PhoneIInv' OBVIOUS
  <2>1. CASE (\E text \in Texts : SendText(text)) \/ Touch \/ HandEnds BY <2>1, OwnerStep
  <2>2. CASE OfferFolders \/ OfferPhrases \/ ListSessions \/ Resume \/ BeginSwitch \/ EndSwitch
    BY <2>2, PollerStep
  <2>3. CASE CloseSession \/ Click \/ CheckClosed BY <2>3, ClosingStep
  <2>4. CASE OpenSession BY <2>4, OpenStep
  <2>5. CASE \E i \in Indices : Launch(i) \/ TabOpens(i) \/ ConnectSession(i)
    BY <2>5, LaunchThreadStep, TabStep, ConnectThreadStep
  <2>6. CASE UNCHANGED phoneVars
    <3>1. UNCHANGED <<roots, onDisk, texts, handled, poller, opening, tabs, modeLock, told, started, expired,
                      touches>>
      BY <2>6 DEF phoneVars
    <3>2. PhoneTypes' /\ OpeningsOK' BY <3>1 DEF PhoneIInv, PhoneTypes, OpeningsOK
    <3>3. StartedOK' /\ TabsOK' /\ PollerOK'
      BY <3>1, ZenonT(60) DEF PhoneIInv, StartedOK, TabsOK, PollerOK, OpenedOnce, Retitled
    <3>4. \A r \in told : SaidOK(r)' BY <3>1 DEF PhoneIInv, SaidOK, OpenedOnce, Retitled
    <3> QED BY <3>1, <3>2, <3>3, <3>4 DEF PhoneIInv
  <2> QED BY <2>1, <2>2, <2>3, <2>4, <2>5, <2>6 DEF PhoneNext
<1> QED BY <1>1, <1>2, PTL DEF PhoneSpec

\* Whatever the owner sends and does to tabs and folders meanwhile: what runs was asked for, here, with
\* its mode and folder, and once; what the phone was told of an opening, a closing and a switch that was
\* locked out is so.
THEOREM TruthOnThePhone == PhoneSpec => []PhoneIsToldTheTruth
<1>1. PhoneIInv => PhoneIsToldTheTruth BY PhoneFollows
<1>2. PhoneSpec => []PhoneIInv BY PhoneInvariance
<1> QED BY <1>1, <1>2, PTL

\* What every state keeps is typed.
LEMMA PhoneIsTyped == PhoneSpec => []PhoneTypeOK
<1>1. PhoneIInv => PhoneTypeOK
  <2> SUFFICES ASSUME PhoneIInv PROVE PhoneTypeOK OBVIOUS
  <2>1. PhoneTypes /\ modeLock \in {"free", "phone", "hand", "left"} BY DEF PhoneIInv, PollerOK
  <2>2. poller.at \in {"poll", "click", "check", "switch"} BY <2>1 DEF PhoneTypes, AtPoll, Closing
  <2>3. ASSUME NEW i \in Indices PROVE opening[i].at \in {"none", "open", "connect", "report", "done"}
    <3>1. opening[i] \in {NotOpening} \union AskedFor \union Connecting BY <2>1 DEF PhoneTypes
    <3> QED BY <3>1 DEF NotOpening, AskedFor, Connecting
  <2>4. \A t \in tabs : t.by \in Indices /\ t.title \in Indices /\ t.runs \in BOOLEAN BY <2>1 DEF PhoneTypes, Tabs
  <2> QED BY <2>1, <2>2, <2>3, <2>4 DEF PhoneTypes, PhoneTypeOK
<1>2. PhoneSpec => []PhoneIInv BY PhoneInvariance
<1> QED BY <1>1, <1>2, PTL
=============================================================================
