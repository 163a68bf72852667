------------------------------ MODULE Showcase ------------------------------
(***************************************************************************)
(* The portfolio site, brought up to date from the phone: /showcase checks *)
(* whether the stores list something the site does not, a button previews  *)
(* it (the page is written here and opened), a second button deploys it    *)
(* (written, committed, pushed).  Each runs in a thread and reports.       *)
(***************************************************************************)
EXTENDS Integers

CONSTANT MaxReleases \* bound on what the stores list

ASSUME ShowcaseAssumption == MaxReleases \in Nat

VARIABLES
  store,     \* the version the stores list
  pageAt,    \* the version of the page in the working tree
  staged,    \* the one that is staged
  committed, \* the one of the last commit here
  pushed,    \* the one of the site
  buttons,   \* the buttons on the phone
  showReport \* what the last operation reported

showVars == <<store, pageAt, staged, committed, pushed, buttons, showReport>>

NoReport == [about |-> "none"]

ShowInit ==
  /\ store = 0 /\ pageAt = 0 /\ staged = 0 /\ committed = 0 /\ pushed = 0
  /\ buttons = {} /\ showReport = NoReport

StoreReleases ==
  /\ store < MaxReleases /\ store' = store + 1
  /\ UNCHANGED <<pageAt, staged, committed, pushed, buttons, showReport>>

Say(what, ok) == showReport' = [about |-> what, ok |-> ok]

\* reconcile.py asks the stores; it may fail, and with --check-only it writes nothing.
Check ==
  /\ \/ Say("check", FALSE) /\ UNCHANGED buttons
     \/ store = pageAt /\ Say("check", TRUE) /\ UNCHANGED buttons
     \/ store # pageAt /\ Say("check", TRUE) /\ buttons' = buttons \union {"preview"}
  /\ UNCHANGED <<store, pageAt, staged, committed, pushed>>

\* A tap takes the button away.
Preview ==
  /\ "preview" \in buttons
  /\ \/ Say("preview", FALSE) /\ buttons' = buttons \ {"preview"} /\ UNCHANGED pageAt
     \/ Say("preview", TRUE) /\ pageAt' = store /\ buttons' = (buttons \ {"preview"}) \union {"deploy"}
  /\ UNCHANGED <<store, staged, committed, pushed>>

\* The page is written once more, everything is staged, and what is staged is compared with the
\* last commit: without a difference there is nothing to do.
DeployPage(step) ==
  /\ "deploy" \in buttons /\ buttons' = buttons \ {"deploy"} /\ UNCHANGED store
  /\ \/ /\ step = "reconcile fails" /\ Say("deploy", FALSE)
        /\ UNCHANGED <<pageAt, staged, committed, pushed>>
     \/ /\ step # "reconcile fails" /\ pageAt' = store /\ staged' = store
        /\ \/ staged' = committed /\ Say("deploy", TRUE) /\ UNCHANGED <<committed, pushed>>
           \/ /\ staged' # committed /\ step = "commit fails" /\ Say("deploy", FALSE)
              /\ UNCHANGED <<committed, pushed>>
           \/ /\ staged' # committed /\ step = "push fails" /\ Say("deploy", FALSE)
              /\ committed' = staged' /\ UNCHANGED pushed
           \/ /\ staged' # committed /\ step = "done" /\ Say("deploy", TRUE)
              /\ committed' = staged' /\ pushed' = staged'

ShowNext ==
  \/ StoreReleases \/ Check \/ Preview
  \/ \E step \in {"reconcile fails", "commit fails", "push fails", "done"} : DeployPage(step)

ShowSpec == ShowInit /\ [][ShowNext]_showVars

-----------------------------------------------------------------------------
(* Properties *)

\* The phone is told that the site is deployed, or up to date, only when the commit is on the site.
DeployedIsPushed == showReport.about = "deploy" /\ showReport.ok => pushed = committed
=============================================================================
