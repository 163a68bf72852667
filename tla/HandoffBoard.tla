---------------------------- MODULE HandoffBoard ----------------------------
(***************************************************************************)
(* The board of handoff tickets (collect_handoff): Markdown files that     *)
(* people and agents go on writing while they are read.  A ticket's name   *)
(* says whether it is open and what kind it is, its front matter and body  *)
(* say whose it is and how much of it is done.                             *)
(***************************************************************************)
EXTENDS Integers, Sequences, FiniteSets, SequencesExt

CONSTANT MaxBody \* bound on the lines of the body

ASSUME BoardAssumption == MaxBody \in Nat

VARIABLES
  ticket, \* [name, front, body]: the file as it stands
  board   \* what a pass makes of it; nothing once the file has changed

boardVars == <<ticket, board>>

\* What a line is to the readers: a fence of code, "## Gap", a **Category** or **Owner** line,
\* "### Status", another heading of level 2 or 3, a checked or an unchecked box.
Lines == {"fence", "gap", "category", "owner", "status", "heading", "done", "todo"}
\* A ticket by its name, with the owner that its front matter names and the one it suspects.
Ticket(kind, signal, category, owner, suspected) ==
  [kind |-> kind, signal |-> signal, suffix |-> "", body |-> <<>>,
   front |-> [category |-> category, owner |-> owner, suspected |-> suspected]]
Tickets ==
  {Ticket("skill-feedback", "none", "mixed", "none", "none"),
   Ticket("skill-feedback", "none", "bug", "skill", "none"),
   Ticket("fix_", "app", "none", "none", "project"), Ticket("fix_", "app", "none", "none", "none"),
   Ticket("feat_", "hook", "none", "none", "protocol"),
   Ticket("deferred_", "none", "none", "none", "none")}

Unread == [listed |-> "unread"]

BoardInit == ticket \in Tickets /\ board = Unread

WriteLine(l) ==
  /\ Len(ticket.body) < MaxBody
  /\ ticket' = [ticket EXCEPT !.body = Append(@, l)] /\ board' = Unread

\* Finished tickets are renamed.
Rename(suffix) ==
  /\ ticket.suffix = "" /\ ticket' = [ticket EXCEPT !.suffix = suffix] /\ board' = Unread

-----------------------------------------------------------------------------
(* The readers *)

\* The lines outside of fences.  Any fence closes the one before.
Visible(body) ==
  FoldLeft(LAMBDA acc, l : IF l = "fence" THEN [acc EXCEPT !.fenced = ~@]
                           ELSE IF acc.fenced THEN acc ELSE [acc EXCEPT !.lines = Append(@, l)],
           [fenced |-> FALSE, lines |-> <<>>], body).lines

CountOf(content, l) == Len(SelectSeq(content, LAMBDA x : x = l))

\* Nothing rather than 0% for a ticket without a checklist.
TicketProgress(body) ==
  LET content == Visible(body)
      all == CountOf(content, "done") + CountOf(content, "todo")
  IN  IF all = 0 THEN [done |-> 0, total |-> 0] ELSE [done |-> CountOf(content, "done"), total |-> all]

NoGap == [gap |-> FALSE, cat |-> "none", x |-> 0, todo |-> 0, inStatus |-> FALSE]
Flush(units, cur) ==
  IF cur.gap THEN Append(units, [cat |-> cur.cat, done |-> cur.x > 0 /\ cur.todo = 0]) ELSE units

\* One line of handoff_units' loop, outside of fences.  Faulty variant: the boxes of the gap count
\* wherever they are.
UnitStepAnywhere(acc, l) ==
  CASE l = "gap" -> [acc EXCEPT !.units = Flush(acc.units, acc.cur), !.cur = [NoGap EXCEPT !.gap = TRUE]]
    [] l = "done" /\ acc.cur.gap -> [acc EXCEPT !.cur.x = @ + 1]
    [] l = "todo" /\ acc.cur.gap -> [acc EXCEPT !.cur.todo = @ + 1]
    [] OTHER -> acc
UnitStep(acc, l) ==
  CASE l = "gap" -> [acc EXCEPT !.units = Flush(acc.units, acc.cur), !.cur = [NoGap EXCEPT !.gap = TRUE]]
    [] l = "category" /\ acc.cur.gap -> [acc EXCEPT !.cur.cat = "bug"]
    [] l = "status" /\ acc.cur.gap -> [acc EXCEPT !.cur.inStatus = TRUE]
    [] l = "heading" /\ acc.cur.gap -> [acc EXCEPT !.cur.inStatus = FALSE]
    [] l = "done" /\ acc.cur.inStatus -> [acc EXCEPT !.cur.x = @ + 1]
    [] l = "todo" /\ acc.cur.inStatus -> [acc EXCEPT !.cur.todo = @ + 1]
    [] OTHER -> acc

\* One line of it, inside or outside: any fence closes the one before.
LineStep(acc, l) ==
  IF l = "fence" THEN [acc EXCEPT !.fenced = ~@] ELSE IF acc.fenced THEN acc ELSE UnitStep(acc, l)

\* What the loop holds after each number of lines.
UnitScan(body) ==
  LET after[n \in 0..Len(body)] ==
        IF n = 0 THEN [fenced |-> FALSE, units |-> <<>>, cur |-> NoGap] ELSE LineStep(after[n - 1], body[n])
  IN  after

\* A single topic is one unit; otherwise there is one for each gap.
HandoffUnits(front, body) ==
  IF front.category \notin {"none", "mixed"} THEN <<[cat |-> front.category, done |-> FALSE]>>
  ELSE LET acc == UnitScan(body)[Len(body)] IN Flush(acc.units, acc.cur)

InferFromName(signal) == IF signal \in {"hook", "project"} THEN signal ELSE "none"

\* Tagged by the front matter; else inferred from its suspicion, the owner of a gap or the name.
\* handoff_classify does not look at fences: an **Owner** line inside of one counts.
HandoffClassify(t) ==
  LET byName == InferFromName(t.signal)
      isApp == t.signal = "app"
      guess == IF t.front.suspected = "project" THEN "project"
               ELSE IF t.front.suspected = "protocol" THEN (IF byName = "none" THEN "hook" ELSE byName)
               ELSE IF Contains(t.body, "owner") THEN "skill"
               ELSE IF isApp THEN "app" ELSE byName
  IN  IF t.front.owner # "none" THEN [cls |-> t.front.owner, source |-> "tagged"]
      ELSE IF guess = "none" THEN [cls |-> "untagged", source |-> "untagged"]
      ELSE [cls |-> guess, source |-> "inferred"]

TicketPriority(kind) ==
  CASE kind = "fix_" -> 0 [] kind = "feat_" -> 2 [] OTHER -> 3

\* The line of the board for one ticket: what it is counted under and, for an open one, its
\* share of every sum.
Listed(t) ==
  IF t.suffix = "_DONE" THEN "DONE"
  ELSE IF t.suffix = "_SUPERSEDED" THEN "SUPERSEDED"
  ELSE IF t.suffix = "_WITHDRAWN" THEN "WITHDRAWN"
  ELSE IF t.kind = "deferred_" THEN "noise" ELSE "OPEN"

CollectHandoff ==
  /\ board' = IF Listed(ticket) # "OPEN" THEN [listed |-> Listed(ticket), units |-> <<>>]
              ELSE [listed |-> "OPEN",
                    units |-> IF ticket.kind = "skill-feedback"
                              THEN HandoffUnits(ticket.front, ticket.body) ELSE <<>>,
                    progress |-> TicketProgress(ticket.body), class |-> HandoffClassify(ticket),
                    priority |-> TicketPriority(ticket.kind)]
  /\ UNCHANGED ticket

BoardNext ==
  \/ \E l \in Lines : WriteLine(l)
  \/ \E suffix \in {"_DONE", "_SUPERSEDED", "_WITHDRAWN"} : Rename(suffix)
  \/ CollectHandoff

BoardSpec == BoardInit /\ [][BoardNext]_boardVars

-----------------------------------------------------------------------------
(* Properties *)

\* Said of the body itself: line i is outside of code, in the gap that starts at g and in a
\* Status section of that gap.
InCode(body, i) == Cardinality({j \in 1..(i - 1) : body[j] = "fence"}) % 2 = 1
Plain(body, l) == {i \in DOMAIN body : body[i] = l /\ (l = "fence" \/ ~InCode(body, i))}
TicketStatus(body, g) ==
  LET next == {h \in Plain(body, "gap") : h > g}
      inGap == {i \in g..Len(body) : \A h \in next : i < h}
  IN  {i \in inGap : \E s \in Plain(body, "status") \cap inGap :
         s < i /\ ~\E h \in Plain(body, "heading") : s < h /\ h < i}

\* The units of the roll-up are the gaps of the ticket in their order, and one is done exactly
\* if its Status sections hold a checked box and no unchecked one, whatever examples in code,
\* sections of other gaps or headings the ticket holds around them.
UnitsAreTheGaps ==
  board.listed = "OPEN" /\ ticket.kind = "skill-feedback"
    /\ ticket.front.category \in {"none", "mixed"} =>
    LET body == ticket.body
        gaps == Plain(body, "gap")
        boxes(g, l) == TicketStatus(body, g) \cap Plain(body, l)
    IN  /\ Len(board.units) = Cardinality(gaps)
        /\ \A g \in gaps :
             board.units[Cardinality({h \in gaps : h <= g})].done <=>
               boxes(g, "done") # {} /\ boxes(g, "todo") = {}
=============================================================================
