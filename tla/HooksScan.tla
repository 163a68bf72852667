----------------------------- MODULE HooksScan -----------------------------
(***************************************************************************)
(* The inventory of the hooks that are deployed on this machine            *)
(* (scan_deployed): each deployed file is judged against the working tree  *)
(* of the source repository and against an index of everything that        *)
(* repository ever held.  The index is kept as long as the branch does not *)
(* move.  Scans run in request threads and in the snapshot thread, while   *)
(* the source repository and the deployment are worked on.                 *)
(***************************************************************************)
EXTENDS Integers, Sequences, SequencesExt

CONSTANTS
  Scanners,   \* the threads that scan
  Bodies,     \* what a hook may contain, newlines aside
  MaxCommits, \* bound on the commits of the branch
  MaxWorks    \* bound on what is done to the repository and the deployment

ASSUME HooksAssumption == {MaxCommits, MaxWorks} \subseteq Nat

VARIABLES
  branch,    \* the commits of the source branch: each the content and the name of a hook
  at,        \* the commit that is checked out, its position on the branch
  tree,      \* the hook's content in the working tree, NoFile without one
  deployed,  \* what is deployed: whether its folder is there, the hook, and the marker of opting out
  works,
  index,     \* _INDEX_CACHE: its key and its data are set one after the other
  scan,      \* where each scanner is and what it has read
  lastReport \* the last row of each scanner

hooksVars == <<branch, at, tree, deployed, works, index, scan, lastReport>>

NoFile == [body |-> "none", crlf |-> FALSE]
Contents == [body : Bodies, crlf : BOOLEAN]
Hook == "hook"
Names == {Hook, "other"}
NoIndex == {<<"none", "none">>}

HooksTypeOK ==
  /\ branch \in Seq(Bodies \X Names) /\ at \in 0..Len(branch) /\ tree \in Contents \union {NoFile}
  /\ deployed.file \in Contents \union {NoFile} /\ works \in 0..MaxWorks
  /\ \A s \in Scanners : scan[s].place \in {"rest", "log", "key", "list", "read", "judge"}

HooksInit ==
  /\ branch = <<>> /\ at = 0 /\ tree = NoFile /\ works = 0
  /\ deployed \in [folder : {TRUE}, file : {NoFile}, optedOut : BOOLEAN]
  /\ index = [key |-> 0, data |-> NoIndex]
  /\ scan = [s \in Scanners |-> [place |-> "rest"]]
  /\ lastReport = [s \in Scanners |-> [custody |-> "none"]]

-----------------------------------------------------------------------------
(* Work on the repository and on the deployment *)

Work == works < MaxWorks /\ works' = works + 1 /\ UNCHANGED <<index, scan, lastReport>>

Commit(body, name) ==
  /\ Work /\ Len(branch) < MaxCommits /\ at = Len(branch)
  /\ branch' = Append(branch, <<body, name>>) /\ at' = at + 1
  /\ tree' = IF name = Hook THEN [body |-> body, crlf |-> FALSE] ELSE tree
  /\ UNCHANGED deployed

\* An older commit, as in a bisection or a rebase, or the tip again.
Checkout(k) ==
  /\ Work /\ at' = k /\ k # at
  /\ LET last == SelectLastInSubSeq(branch, 1, k, LAMBDA c : c[2] = Hook)
     IN  tree' = IF last = 0 THEN NoFile ELSE [body |-> branch[last][1], crlf |-> FALSE]
  /\ UNCHANGED <<branch, deployed>>

EditSource(content) == Work /\ tree' = content /\ UNCHANGED <<branch, at, deployed>>

DeployHook ==
  /\ Work /\ tree # NoFile /\ deployed' = [deployed EXCEPT !.file = tree, !.folder = TRUE]
  /\ UNCHANGED <<branch, at, tree>>

EditDeployed(content) ==
  /\ Work /\ deployed.folder /\ deployed' = [deployed EXCEPT !.file = content]
  /\ UNCHANGED <<branch, at, tree>>

\* The consumer's repository is in the middle of a checkout of its own.
LoseFolder ==
  /\ Work /\ deployed.folder /\ deployed' = [deployed EXCEPT !.folder = FALSE, !.file = NoFile]
  /\ UNCHANGED <<branch, at, tree>>

-----------------------------------------------------------------------------
(* One scan *)

ScanGoto(s, place) == scan' = [scan EXCEPT ![s].place = place]

\* Nothing that changes a newline changes the hash.
NormSha(content) == content.body

\* What the commit that is checked out and its ancestors ever held.
SourceIndex == {branch[i] : i \in 1..at}

\* The index is taken as it is if the branch has not moved since it was built.
BeginScan(s) ==
  /\ scan[s].place = "rest" /\ branch # <<>>
  /\ scan' = [scan EXCEPT ![s] = IF index.key = Len(branch) /\ index.data # NoIndex
                                 THEN [place |-> "list", head |-> Len(branch), index |-> index.data]
                                 ELSE [place |-> "log", head |-> Len(branch), index |-> NoIndex]]
  /\ UNCHANGED <<branch, at, tree, deployed, works, index, lastReport>>

BuildSourceIndex(s) ==
  /\ scan[s].place = "log"
  /\ scan' = [scan EXCEPT ![s].place = "key", ![s].index = SourceIndex]
  /\ index' = [index EXCEPT !.key = scan[s].head]
  /\ UNCHANGED <<branch, at, tree, deployed, works, lastReport>>

KeepIndex(s) ==
  /\ scan[s].place = "key" /\ ScanGoto(s, "list") /\ index' = [index EXCEPT !.data = scan[s].index]
  /\ UNCHANGED <<branch, at, tree, deployed, works, lastReport>>

\* A folder that is gone is an empty one; what the source has and the folder has not is missing,
\* unless the repository opted out.
Report(s, custody, file) ==
  /\ ScanGoto(s, "rest")
  /\ lastReport' = [lastReport EXCEPT ![s] = [custody |-> custody, file |-> file, head |-> scan[s].head]]

Unseen(owed) == IF owed /\ ~deployed.optedOut THEN "missing" ELSE "nothing"

ListDeployed(s) ==
  /\ scan[s].place = "list"
  /\ IF deployed.file = NoFile
     THEN Report(s, Unseen(tree # NoFile), NoFile)
     ELSE /\ scan' = [scan EXCEPT ![s] = [place |-> "read", head |-> @.head, index |-> @.index,
                                          owed |-> tree # NoFile]]
          /\ UNCHANGED lastReport
  /\ UNCHANGED <<branch, at, tree, deployed, works, index>>

\* A file that has vanished since is left out, and so counts as missing.
ReadDeployed(s) ==
  /\ scan[s].place = "read"
  /\ IF deployed.file = NoFile
     THEN Report(s, Unseen(scan[s].owed), NoFile)
     ELSE /\ scan' = [scan EXCEPT ![s] = [place |-> "judge", head |-> @.head, index |-> @.index,
                                          owed |-> @.owed, file |-> deployed.file]]
          /\ UNCHANGED lastReport
  /\ UNCHANGED <<branch, at, tree, deployed, works, index>>

\* A source file that has vanished since makes the whole row unavailable.
Custody(file, owed, known) ==
  LET sha == NormSha(file)
      hits == {e \in known : e[1] = sha}
  IN  IF ~owed THEN "local"
      ELSE IF tree = NoFile THEN "unavailable"
      ELSE IF sha = NormSha(tree) THEN "current"
      ELSE IF hits = {} THEN "divergent"
      ELSE IF <<sha, Hook>> \in hits THEN "behind" ELSE "behind_other_path"

JudgeHook(s) ==
  /\ scan[s].place = "judge"
  /\ Report(s, Custody(scan[s].file, scan[s].owed, scan[s].index), scan[s].file)
  /\ UNCHANGED <<branch, at, tree, deployed, works, index>>

HooksNext ==
  \/ \E b \in Bodies, n \in Names : Commit(b, n)
  \/ \E k \in 0..Len(branch) : Checkout(k)
  \/ \E c \in Contents : EditSource(c) \/ EditDeployed(c)
  \/ DeployHook \/ LoseFolder
  \/ \E s \in Scanners : \/ BeginScan(s) \/ BuildSourceIndex(s) \/ KeepIndex(s)
                         \/ ListDeployed(s) \/ ReadDeployed(s) \/ JudgeHook(s)

HooksSpec == HooksInit /\ [][HooksNext]_hooksVars

-----------------------------------------------------------------------------
(* Properties *)

\* "'divergent' (content the source never had)": a file that is reported so has a content that the
\* branch never held up to the commit the scan looked up, which is where the index ends.
DivergentIsForeign ==
  \A s \in Scanners :
    lastReport[s].custody = "divergent" =>
      \A i \in 1..lastReport[s].head : branch[i][1] # lastReport[s].file.body
=============================================================================
