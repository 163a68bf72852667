----------------------------- MODULE HttpServer -----------------------------
(***************************************************************************)
(* The requests of browsers, each in a thread of its own (Handler).  A     *)
(* request reads the configuration, which somebody may be editing, passes  *)
(* the guards and is routed; several routes read the configuration again.  *)
(* A page carries the token of the run of the server that sent it, and a   *)
(* POST must come from such a page.  The server may be restarted with its  *)
(* pages still open in browsers.                                           *)
(***************************************************************************)
EXTENDS Integers, FiniteSets

CONSTANTS
  Browsers,   \* the browsers, each with one page open and one request at a time
  LocalOnes,  \* those on this machine
  Tokens,     \* the values access_token may have
  MaxRuns,    \* bound on the runs of the server
  MaxEdits,   \* bound on the edits of the configuration
  MaxRequests \* bound on the requests

ASSUME HttpAssumption ==
  LocalOnes \subseteq Browsers /\ MaxRuns \in Nat \ {0} /\ {MaxEdits, MaxRequests} \subseteq Nat

VARIABLES
  config,     \* config.json: whether it is there and parses; config.local.json: whether it parses
  keyword,    \* access_token there, NoToken when it has none
  run,        \* the run of the server: the CSRF token is made anew in each
  edits, requests,
  pageRun,    \* the run each browser's page is from, 0 without a page
  request,    \* what the thread of each browser's request is at
  httpOutcome \* how each browser's last request ended
httpVars == <<config, keyword, run, edits, requests, pageRun, request, httpOutcome>>

NoToken == "none"
Unasked == [at |-> "none"]
NoOutcome == [code |-> 0]

\* What a route needs after the guards: nothing more, the configuration again, or the configuration
\* again with every failure of it turned into an answer.
GetRoutes == {"page", "static", "workflow", "status", "reading", "guarded"}
Needs(route) == CASE route \in {"page", "static", "workflow"} -> "nothing"
                  [] route \in {"status", "reading"} -> "config"
                  [] route = "guarded" -> "tried"

HttpTypeOK ==
  /\ config \in [file : {"good", "half", "gone"}, local : {"good", "half"}]
  /\ keyword \in Tokens \union {NoToken} /\ run \in 1..MaxRuns /\ pageRun \in [Browsers -> 0..MaxRuns]
  /\ \A b \in Browsers : request[b].at \in {"none", "accepted", "guards", "route", "op"}

HttpInit ==
  /\ config = [file |-> "good", local |-> "good"] /\ keyword \in Tokens \union {NoToken}
  /\ run = 1 /\ edits = 0 /\ requests = 0
  /\ pageRun = [b \in Browsers |-> 0] /\ request = [b \in Browsers |-> Unasked]
  /\ httpOutcome = [b \in Browsers |-> NoOutcome]

-----------------------------------------------------------------------------
(* The operator *)

\* A file is edited in place: it may be read when it is half written, or away.
EditConfig(content) ==
  /\ edits < MaxEdits /\ edits' = edits + 1 /\ config' = [config EXCEPT !.file = content]
  /\ content # config.file /\ UNCHANGED <<keyword, run, requests, pageRun, request, httpOutcome>>

EditLocal(new) ==
  /\ edits < MaxEdits /\ edits' = edits + 1
  /\ IF config.local = "good"
     THEN config' = [config EXCEPT !.local = "half"] /\ UNCHANGED keyword
     ELSE config' = [config EXCEPT !.local = "good"] /\ keyword' = new
  /\ UNCHANGED <<run, requests, pageRun, request, httpOutcome>>

\* The process ends with its requests; the pages stay where they are.
ServerRestarts ==
  /\ run < MaxRuns /\ run' = run + 1 /\ config.file = "good"
  /\ request' = [b \in Browsers |-> Unasked]
  /\ httpOutcome' = [b \in Browsers |-> IF request[b].at = "none" THEN httpOutcome[b] ELSE [code |-> 0]]
  /\ UNCHANGED <<config, keyword, edits, requests, pageRun>>

-----------------------------------------------------------------------------
(* A request *)

\* The file with the secrets is laid over the other; one that does not parse is left out.
LoadConfig ==
  CASE config.file = "gone" -> [loaded |-> FALSE, error |-> "ConfigError"]
    [] config.file = "half" -> [loaded |-> FALSE, error |-> "other"]
    [] config.file = "good" -> [loaded |-> TRUE, token |-> IF config.local = "good" THEN keyword ELSE NoToken]

\* Without a token everybody may, and this machine always.
TokenOk(required, b, given) == required = NoToken \/ b \in LocalOnes \/ given = required

\* A request: the page it comes from, if from one of ours, and what it asks for.
Send(b, post, route, given, ours) ==
  /\ request[b].at = "none" /\ requests < MaxRequests /\ requests' = requests + 1
  /\ request' = [request EXCEPT ![b] = [at |-> "accepted", post |-> post, route |-> route, given |-> given,
                                        csrf |-> IF ours THEN pageRun[b] ELSE 0]]
  /\ httpOutcome' = [httpOutcome EXCEPT ![b] = NoOutcome]
  /\ UNCHANGED <<config, keyword, run, edits, pageRun>>

Answer(b, code) ==
  /\ request' = [request EXCEPT ![b] = Unasked] /\ httpOutcome' = [httpOutcome EXCEPT ![b] = [code |-> code]]
Reset == -1
Go(b, state) == request' = [request EXCEPT ![b] = state] /\ UNCHANGED httpOutcome

\* A configuration that is away is answered; one that does not parse ends the thread.
Accept(b) ==
  LET cfg == LoadConfig IN
  /\ request[b].at = "accepted"
  /\ \/ ~cfg.loaded /\ Answer(b, IF cfg.error = "ConfigError" THEN 503 ELSE Reset)
     \/ cfg.loaded /\ ~TokenOk(cfg.token, b, request[b].given) /\ Answer(b, 401)
     \/ /\ cfg.loaded /\ TokenOk(cfg.token, b, request[b].given)
        /\ Go(b, [request[b] EXCEPT !.at = IF request[b].post THEN "guards" ELSE "route"])
  /\ UNCHANGED <<config, keyword, run, edits, requests, pageRun>>

\* The page must be of this run of the server.  Faulty variant: of any.
CsrfOfAnyRun(csrf) == csrf > 0
CsrfOk(csrf) == csrf = run

Guards(b) ==
  /\ request[b].at = "guards"
  /\ \/ ~CsrfOk(request[b].csrf) /\ Answer(b, 403)
     \/ CsrfOk(request[b].csrf) /\ \E code \in {400, 404, 415} : Answer(b, code)
     \/ CsrfOk(request[b].csrf) /\ Go(b, [request[b] EXCEPT !.at = "op"])
  /\ UNCHANGED <<config, keyword, run, edits, requests, pageRun>>

\* An operation, with the configuration of the guards; the operations have modules of their own.
Operate(b) ==
  /\ request[b].at = "op" /\ request' = [request EXCEPT ![b] = Unasked]
  /\ httpOutcome' = [httpOutcome EXCEPT ![b] = [code |-> 200, op |-> request[b].csrf, run |-> run]]
  /\ UNCHANGED <<config, keyword, run, edits, requests, pageRun>>

Route(b) ==
  LET needs == Needs(request[b].route) IN
  /\ request[b].at = "route"
  /\ Answer(b, IF needs = "config" /\ ~LoadConfig.loaded THEN Reset ELSE 200)
  /\ pageRun' = IF request[b].route = "page" THEN [pageRun EXCEPT ![b] = run] ELSE pageRun
  /\ UNCHANGED <<config, keyword, run, edits, requests>>

HttpNext ==
  \/ \E content \in {"good", "half", "gone"} : EditConfig(content)
  \/ \E t \in Tokens \union {NoToken} : EditLocal(t)
  \/ ServerRestarts
  \/ \E b \in Browsers, route \in GetRoutes, given \in Tokens \union {NoToken} :
       Send(b, FALSE, route, given, FALSE)
  \/ \E b \in Browsers, given \in Tokens \union {NoToken}, ours \in BOOLEAN : Send(b, TRUE, "op", given, ours)
  \/ \E b \in Browsers : Accept(b) \/ Guards(b) \/ Operate(b) \/ Route(b)

HttpSpec == HttpInit /\ [][HttpNext]_httpVars

-----------------------------------------------------------------------------
(* Properties *)

\* An operation ran only for a page this very run of the server had sent to that browser, however
\* often the server was restarted and the configuration edited meanwhile; the old page is told so,
\* and gets through again once it is loaded anew.
OperationsAreOfThisRun ==
  \A b \in Browsers : "op" \in DOMAIN httpOutcome[b] =>
    httpOutcome[b].op = httpOutcome[b].run /\ pageRun[b] >= httpOutcome[b].op
=============================================================================
