----------------------------- MODULE ServiceOps -----------------------------
(***************************************************************************)
(* The services page: a listing of the processes that listen on a port and *)
(* of the scheduled tasks, kept for some seconds, and the requests to kill *)
(* such a process or to run such a task.  Requests are handled by threads  *)
(* of their own; processes come and go and their ids are used again.       *)
(***************************************************************************)
EXTENDS Integers, FiniteSets

CONSTANTS
  ListingTtl, \* list_services keeps a listing that long
  MaxSeconds, \* bound on the clock
  MaxStarts,  \* bound on the processes that start
  Pids,       \* process ids, positive
  Requests    \* the threads that handle a request

ASSUME OpsAssumption ==
  ListingTtl \in Nat \ {0} /\ MaxSeconds \in Nat /\ MaxStarts \in Nat /\ Pids \subseteq Nat \ {0}

VARIABLES
  seconds,
  process,    \* the process of each pid: what it is and which one, none if there is none
  starts,
  listing,    \* _svc_cache
  opsRequest, \* where each thread is, and the listing it works with
  killed,     \* what each kill hit and the entry that justified it (history)
  gone        \* the killed processes that no listing may show any more (history)

opsVars == <<seconds, process, starts, listing, opsRequest, killed, gone>>

\* A program on the kill allowlist; any other one, one that is vital to the system although a
\* list may name it, or the server itself.
Programs == {"dev", "protected"}
Tasks == {"backup", "unlisted"}
Listable == {"backup"}   \* the tasks outside of \Microsoft\
NoProcess == [program |-> "none", nr |-> 0]
NoListing == [at |-> 0, ports |-> [p \in Pids |-> NoProcess], known |-> FALSE]
Killable(program) == program = "dev"
NoRequest == [place |-> "idle", data |-> NoListing]

OpsTypeOK ==
  /\ seconds \in 1..(MaxSeconds + 1) /\ starts \in 0..MaxStarts
  /\ process \in [Pids -> [program : Programs \cup {"none"}, nr : 0..MaxStarts]]
  /\ opsRequest \in [Requests -> [place : {"idle", "list", "keep", "act", "forget"},
                               data : [at : Nat, known : BOOLEAN,
                                       ports : [Pids -> [program : Programs \cup {"none"}, nr : Nat]]]]]

OpsInit ==
  /\ seconds = 1 /\ process = [p \in Pids |-> NoProcess] /\ starts = 0 /\ listing = NoListing
  /\ opsRequest = [r \in Requests |-> NoRequest] /\ killed = {} /\ gone = {}

OpsTick ==
  /\ seconds <= MaxSeconds /\ seconds' = seconds + 1
  /\ UNCHANGED <<process, starts, listing, opsRequest, killed, gone>>

StartProcess(p, program) ==
  /\ process[p] = NoProcess /\ starts < MaxStarts /\ starts' = starts + 1
  /\ process' = [process EXCEPT ![p] = [program |-> program, nr |-> starts']]
  /\ UNCHANGED <<seconds, listing, opsRequest, killed, gone>>

ExitProcess(p) ==
  /\ process[p] # NoProcess /\ process' = [process EXCEPT ![p] = NoProcess]
  /\ UNCHANGED <<seconds, starts, listing, opsRequest, killed, gone>>

-----------------------------------------------------------------------------
(* The requests *)

FreshListing == listing.known /\ seconds - listing.at < ListingTtl

\* list_services as every request calls it first: the kept listing, or one of its own.  What
\* the request is for matters only afterwards and is left open until then.
AskListing(r) ==
  /\ opsRequest[r].place = "idle"
  /\ opsRequest' = [opsRequest EXCEPT ![r] =
       [place |-> IF FreshListing THEN "act" ELSE "list",
        data |-> IF FreshListing THEN listing ELSE [NoListing EXCEPT !.at = seconds]]]
  /\ UNCHANGED <<seconds, process, starts, listing, killed, gone>>

\* The PowerShell call takes its time, and may fail: then nothing is listed and nothing kept.
TakeListing(r) ==
  /\ opsRequest[r].place = "list"
  /\ \/ opsRequest' = [opsRequest EXCEPT ![r] =
           [place |-> "keep", data |-> [at |-> @.data.at, ports |-> process, known |-> TRUE]]]
     \/ opsRequest' = [opsRequest EXCEPT ![r].place = "act"]
  /\ UNCHANGED <<seconds, process, starts, listing, killed, gone>>

\* It is kept under the time of the call that made it.
KeepListing(r) ==
  /\ opsRequest[r].place = "keep" /\ listing' = opsRequest[r].data
  /\ opsRequest' = [opsRequest EXCEPT ![r].place = "act"]
  /\ UNCHANGED <<seconds, process, starts, killed, gone>>

\* ops_kill: the listing, not the client, says whether the pid may be killed; taskkill then
\* ends whatever the pid is by now, and the kept listing is dropped.
Kill(r, p) ==
  /\ opsRequest[r].place = "act"
  /\ LET entry == opsRequest[r].data.ports[p]
     IN  IF Killable(entry.program)
         THEN /\ process' = [process EXCEPT ![p] = NoProcess]
              /\ killed' = killed \cup
                   (IF process[p] = NoProcess THEN {}
                    ELSE {[hit |-> process[p], entry |-> entry]})
              /\ opsRequest' = [opsRequest EXCEPT ![r].place = "forget"]
         ELSE opsRequest' = [opsRequest EXCEPT ![r] = NoRequest] /\ UNCHANGED <<process, killed>>
  /\ UNCHANGED <<seconds, starts, listing, gone>>

\* Faulty variant: the kept listing stays.
KeepIt(l) == l
Dropped(l) == [l EXCEPT !.known = FALSE]

\* A request that took its listing before the kill will yet keep it.
Shows(data, nr) == \E p \in Pids : data.ports[p].nr = nr
Superseded(r, nr) == \E o \in Requests \ {r} : opsRequest[o].place = "keep" /\ Shows(opsRequest[o].data, nr)

Forget(r) ==
  /\ opsRequest[r].place = "forget" /\ listing' = Dropped(listing)
  /\ opsRequest' = [opsRequest EXCEPT ![r] = NoRequest]
  /\ gone' = gone \cup {nr \in {k.hit.nr : k \in killed} :
                          Shows(opsRequest[r].data, nr) /\ ~Superseded(r, nr)}
  /\ UNCHANGED <<seconds, process, starts, killed>>

\* ops_task: only a task of the listing is run, stopped, enabled or disabled.
Task(r, task) ==
  /\ opsRequest[r].place = "act"
  /\ LET listed == IF opsRequest[r].data.known THEN Listable ELSE {}
     IN  opsRequest' = IF task \in listed THEN [opsRequest EXCEPT ![r].place = "forget"]
                       ELSE [opsRequest EXCEPT ![r] = NoRequest]
  /\ UNCHANGED <<seconds, process, starts, listing, killed, gone>>

ShowListing(r) ==
  /\ opsRequest[r].place = "act"
  /\ opsRequest' = [opsRequest EXCEPT ![r] = NoRequest]
  /\ UNCHANGED <<seconds, process, starts, listing, killed, gone>>

OpsNext ==
  \/ OpsTick
  \/ \E p \in Pids : ExitProcess(p) \/ \E program \in Programs : StartProcess(p, program)
  \/ \E r \in Requests :
       \/ AskListing(r) \/ TakeListing(r) \/ KeepListing(r) \/ ShowListing(r) \/ Forget(r)
       \/ \E p \in Pids : Kill(r, p)
       \/ \E task \in Tasks : Task(r, task)

OpsSpec == OpsInit /\ [][OpsNext]_opsVars

-----------------------------------------------------------------------------
(* Properties *)

\* "Re-validated server-side": what a kill ends was listed as killable, unless its pid was used
\* again since; and "the next read reflects the kill": once a kill has been answered the kept
\* listing does not show the process, provided no other request was about to keep one that does.
KillsAreJustified ==
  /\ \A k \in killed :
       Killable(k.entry.program) /\ (k.hit.program # k.entry.program => k.hit.nr > k.entry.nr)
  /\ listing.known => \A p \in Pids : listing.ports[p].nr \notin gone
=============================================================================
