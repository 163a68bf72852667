--------------------------- MODULE MCServerParts ---------------------------
(* Values for the model checker: lines, records, tickets and pull requests that  *)
(* differ in what the parts look at.                                             *)
EXTENDS ServerParts

\* A line of one turn and one of two, and a long one without any, as a tool's result is.
MCLineKinds == {[len |-> 2, turns |-> 1], [len |-> 3, turns |-> 2], [len |-> 5, turns |-> 0]}

\* A run of the bridge with its lock and claims, early and late.
MCBridgeRecords ==
  {[well |-> TRUE, big |-> FALSE, lock |-> n, claim |-> n, took |-> 1, began |-> 0] : n \in {1, 3}}

\* A pull request that can be merged, and another one on other commits, with a failed check.
MCPulls == {[head |-> 1, merges |-> "MERGEABLE", checks |-> ""],
            [head |-> 2, merges |-> "UNKNOWN", checks |-> "FAILURE"]}
MCPullThreads == {[sameBranch |-> TRUE, sha |-> 1]}

MCFiles == {[kind |-> "source"], [kind |-> "card"]}
MCKbTickets == {[type |-> "bug", status |-> "done", today |-> TRUE]}

\* The recaps of two other machines: one knows tokens without a price.
RemoteRecap(machine, tokens, cost, unpriced) ==
  [machine |-> machine, tokens |-> tokens, cost |-> cost, unpriced |-> unpriced,
   sessions |-> {[machine |-> machine, session |-> "s1", tokens |-> tokens]}]
MCRemotes == {RemoteRecap(1, 2, -1, TRUE), RemoteRecap(2, 1, 0, FALSE)}

\* "#" and what follows it is cut off the name of a folder.
MCCut == [folder \in {"a", "b#"} |-> IF folder = "b#" THEN "b" ELSE folder]
=============================================================================
