---------------------------- MODULE PhoneControl ----------------------------
(***************************************************************************)
(* What the texts and taps of the owner do (_tg_handle_message and the     *)
(* taps on folders, modes and resume buttons): sessions are opened in a    *)
(* folder under the configured roots and closed again, each only by a      *)
(* pass phrase that is the whole of a message the server proposed, and a   *)
(* session is switched back to a mode that does not ask.  The texts are    *)
(* handled one after another; a session is opened in a thread, which runs  *)
(* a script in a new tab and another that finds the tab by its title.      *)
(* That every text is handled is TgPoll's, handovers and the portfolio     *)
(* are HandoffRun's and Showcase's.                                        *)
(***************************************************************************)
EXTENDS Integers, Sequences, FiniteSets, SequencesExt

CONSTANTS
  Roots,     \* workspace_roots, at most these
  Folders,   \* names of folders
  Cut,       \* for every name, what stands before its first #
  Modes,     \* _NEW_SESSION_MODES
  MaxTexts,  \* bound on the texts
  MaxTouches \* bound on what else the owner does

ASSUME PhoneAssumption == {MaxTexts, MaxTouches} \subseteq Nat /\ DOMAIN Cut = Folders

VARIABLES
  roots,    \* workspace_roots, in the order of the configuration
  onDisk,   \* the folders there
  speaks,   \* alerts are on: the phone is told things
  texts,    \* what the phone sent
  handled,  \* how many of them were handled
  poller,   \* what the thread that handles them is at
  opening,  \* for every text, the thread that opens its session
  tabs,     \* the tabs: whose session, its title, whether it runs
  modeLock, \* who holds mode_switch.lock
  told,     \* what the phone was told
  started,  \* the sessions that ran (history)
  expired,  \* a switch outlived its timeout (history)
  touches   \* what else the owner did

phoneVars == <<roots, onDisk, speaks, texts, handled, poller, opening, tabs, modeLock, told, started,
               expired, touches>>

Indices == 1..MaxTexts
Texts == [what : {"new", "close", "switch", "resume"}]
           \union [what : {"yes new"}, here : BOOLEAN, mode : Modes, folder : Folders]
           \union [what : {"pick"}, folder : Folders] \union [what : {"yes close"}, token : Indices]
NotOpening == [at |-> "none"]
AtPoll == [at |-> "poll"]

PhoneTypeOK ==
  /\ roots \in Seq(Roots) /\ onDisk \subseteq Roots \X Folders /\ texts \in Seq(Texts)
  /\ handled \in 0..Len(texts) /\ poller.at \in {"poll", "click", "check", "switch"}
  /\ \A i \in Indices : opening[i].at \in {"none", "open", "connect", "report", "done"}
  /\ \A t \in tabs : t.by \in Indices /\ t.title \in Indices /\ t.runs \in BOOLEAN
  /\ modeLock \in {"free", "phone", "hand", "left"}

PhoneInit ==
  /\ roots \in {r \in SeqOf(Roots, 2) : IsInjective(r)} /\ onDisk = Roots \X Folders /\ speaks \in BOOLEAN
  /\ texts = <<>> /\ handled = 0 /\ poller = AtPoll /\ opening = [i \in Indices |-> NotOpening]
  /\ tabs = {} /\ modeLock = "free" /\ told = {} /\ started = {} /\ expired = FALSE /\ touches = <<>>

-----------------------------------------------------------------------------
(* The owner *)

SendText(text) ==
  /\ Len(texts) < MaxTexts /\ texts' = Append(texts, text)
  /\ UNCHANGED <<roots, onDisk, speaks, handled, poller, opening, tabs, modeLock, told, started,
                 expired, touches>>

\* A folder is removed; a tab is closed or given another's title; a script is run by hand.
Touch ==
  /\ Len(touches) < MaxTouches
  /\ \E kind \in {"folder", "tab", "title", "script"} :
       /\ touches' = Append(touches, kind)
       /\ \/ kind = "folder" /\ (\E f \in onDisk : onDisk' = onDisk \ {f}) /\ UNCHANGED <<tabs, modeLock>>
          \/ kind = "tab" /\ (\E t \in tabs : tabs' = tabs \ {t}) /\ UNCHANGED <<onDisk, modeLock>>
          \/ kind = "title" /\ UNCHANGED <<onDisk, modeLock>>
             /\ \E t \in tabs, i \in Indices : tabs' = (tabs \ {t}) \union {[t EXCEPT !.title = i]}
          \/ kind = "script" /\ modeLock = "free" /\ modeLock' = "hand" /\ UNCHANGED <<onDisk, tabs>>
  /\ UNCHANGED <<roots, speaks, texts, handled, poller, opening, told, started, expired>>

HandEnds ==
  /\ modeLock = "hand" /\ modeLock' = "free"
  /\ UNCHANGED <<roots, onDisk, speaks, texts, handled, poller, opening, tabs, told, started, expired, touches>>

-----------------------------------------------------------------------------
(* The thread that handles the texts, one at a time *)

\* _tg_send_pin.  A message is of the tabs it is about, or of its own text if it says yes.
Itself(i, yes) == IF yes THEN {i} ELSE {}
Tell(i, what, of) == told' = IF speaks THEN told \union {[by |-> i, says |-> what, of |-> of]} ELSE told

Taking(what) ==
  poller = AtPoll /\ handled < Len(texts) /\ texts[handled + 1].what = what /\ handled' = handled + 1
Current == texts[handled]

\* The texts that change nothing but what the phone is told.
Reply(what, says, of) ==
  /\ Taking(what) /\ Tell(handled', says, of)
  /\ UNCHANGED <<roots, onDisk, speaks, texts, poller, opening, tabs, modeLock, started, expired, touches>>

\* The folders of all the roots are offered, by their names.
Offered == {f \in Folders : \E r \in ToSet(roots) : <<r, f>> \in onDisk}
OfferFolders == Reply("new", IF Offered = {} THEN "no folders" ELSE "folders", Offered)

\* For a folder that was tapped, the phrase of every mode.
OfferPhrases == Reply("pick", "phrases", Modes)

\* The sessions that may be closed, by the tokens in their titles.
ListSessions == Reply("close", "sessions", {t.title : t \in tabs})

\* A paused workflow is resumed by a file of its run, or the run has no such id or the file no place.
Resume == \E done \in BOOLEAN : Reply("resume", "resumed", Itself(handled', done))

\* A phrase that names another machine is left to the command channel.  What follows a # is a hint
\* of the server's own.
OpenSession ==
  LET text == texts[handled'] IN
  /\ Taking("yes new")
  /\ opening' = IF text.here
       THEN [opening EXCEPT ![handled'] = [at |-> "open", mode |-> text.mode,
                                            folder |-> Cut[text.folder], roots |-> roots]]
       ELSE opening
  /\ Tell(handled', IF text.here THEN "opening" ELSE "sent", {})
  /\ UNCHANGED <<roots, onDisk, speaks, texts, poller, tabs, modeLock, started, expired, touches>>

\* The tabs that carry the token.
Carrying(token) == {t \in tabs : t.title = token}

\* close_session.ps1: exactly one tab must carry the token; its button is clicked, and a little
\* later no tab may carry it any more.
CloseSession ==
  LET hits == Carrying(texts[handled'].token) IN
  /\ Taking("yes close")
  /\ \/ Cardinality(hits) # 1 /\ Tell(handled', "not closed", {}) /\ UNCHANGED poller
     \/ Cardinality(hits) = 1 /\ poller' = [at |-> "click", hits |-> hits] /\ UNCHANGED told
  /\ UNCHANGED <<roots, onDisk, speaks, texts, opening, tabs, modeLock, started, expired, touches>>

Click ==
  /\ poller.at = "click"
  /\ \/ /\ tabs' = {t \in tabs : \A h \in poller.hits : t.by # h.by}
        /\ poller' = [poller EXCEPT !.at = "check"] /\ UNCHANGED told
     \/ Tell(handled, "not closed", {}) /\ poller' = AtPoll /\ UNCHANGED tabs
  /\ UNCHANGED <<roots, onDisk, speaks, texts, handled, opening, modeLock, started, expired, touches>>

CheckClosed ==
  /\ poller.at = "check" /\ poller' = AtPoll
  /\ Tell(handled, IF Carrying(Current.token) = {} THEN "closed" ELSE "not closed", {h.by : h \in poller.hits})
  /\ UNCHANGED <<roots, onDisk, speaks, texts, handled, opening, tabs, modeLock, started, expired, touches>>

\* mode_switch.ps1 lets one of its kind run at a time, by a file it removes when it ends.
BeginSwitch ==
  /\ Taking("switch")
  /\ \/ modeLock # "free" /\ Tell(handled', "locked out", Itself(handled', modeLock = "hand" \/ expired))
        /\ UNCHANGED <<poller, modeLock>>
     \/ modeLock = "free" /\ modeLock' = "phone" /\ poller' = [at |-> "switch"] /\ UNCHANGED told
  /\ UNCHANGED <<roots, onDisk, speaks, texts, opening, tabs, started, expired, touches>>

\* The switch ends; or it is ended by the timeout, and the file stays.
EndSwitch ==
  /\ poller.at = "switch" /\ poller' = AtPoll
  /\ \/ modeLock' = "free" /\ UNCHANGED expired
        /\ \E done \in BOOLEAN : Tell(handled, "switched", Itself(handled, done))
     \/ modeLock' = "left" /\ expired' = TRUE /\ Tell(handled, "switched", {})
  /\ UNCHANGED <<roots, onDisk, speaks, texts, handled, opening, tabs, started, touches>>

-----------------------------------------------------------------------------
(* _run_new_session_async: a thread per session *)

Full(i) == <<IF opening[i].roots = <<>> THEN "nowhere" ELSE Head(opening[i].roots), opening[i].folder>>

\* _validate_new_session_folder: the name is looked for under the first root.
Launch(i) ==
  /\ opening[i].at = "open"
  /\ \/ Full(i) \notin onDisk /\ Tell(i, "not opened", {}) /\ opening' = [opening EXCEPT ![i].at = "done"]
     \/ Tell(i, "not opened", {}) /\ opening' = [opening EXCEPT ![i].at = "done"]
     \/ Full(i) \in onDisk /\ UNCHANGED told
        /\ opening' = [opening EXCEPT ![i] = [at |-> "connect", mode |-> opening[i].mode,
                                               full |-> Full(i), tab |-> FALSE]]
  /\ UNCHANGED <<roots, onDisk, speaks, texts, handled, poller, tabs, modeLock, started, expired, touches>>

\* new_session.ps1, in its tab, looks at the folder again; a tab whose script refused stays too.
TabOpens(i) ==
  LET runs == opening[i].full \in onDisk IN
  /\ opening[i].at = "connect" /\ ~opening[i].tab /\ opening' = [opening EXCEPT ![i].tab = TRUE]
  /\ tabs' = tabs \union {[by |-> i, title |-> i, runs |-> runs]}
  /\ started' = started \union
       (IF runs THEN {[by |-> i, mode |-> opening[i].mode, full |-> opening[i].full]} ELSE {})
  /\ UNCHANGED <<roots, onDisk, speaks, texts, handled, poller, modeLock, told, expired, touches>>

\* connect_rc.ps1 finds the one tab of that title at its prompt.  Faulty variant: a script that did
\* not complain is taken to have connected.
ConnectedUnlessTold(i) == {TRUE, FALSE}
Connected(i) == {FALSE} \union {Cardinality(Carrying(i)) = 1 /\ \A t \in Carrying(i) : t.runs}

ConnectSession(i) ==
  /\ opening[i].at = "connect"
  /\ \E rc \in Connected(i) : Tell(i, "opened", Itself(i, rc))
  /\ opening' = [opening EXCEPT ![i].at = "done"]
  /\ UNCHANGED <<roots, onDisk, speaks, texts, handled, poller, tabs, modeLock, started, expired, touches>>

PhoneNext ==
  \/ \E text \in Texts : SendText(text)
  \/ Touch \/ HandEnds \/ OfferFolders \/ OfferPhrases \/ ListSessions \/ Resume
  \/ OpenSession \/ CloseSession \/ Click \/ CheckClosed \/ BeginSwitch \/ EndSwitch
  \/ \E i \in Indices : Launch(i) \/ TabOpens(i) \/ ConnectSession(i)

PhoneSpec == PhoneInit /\ [][PhoneNext]_phoneVars

-----------------------------------------------------------------------------
(* Properties *)

\* A session runs because one text asked for it, here, with its mode and folder, and it runs once;
\* a phone that was told it is open and connected has such a session, unless the owner moved titles
\* about, and one that was told it is not has none; what is told closed is gone; and a switch is locked
\* out only by one that runs or by one that was ended by its timeout.
PhoneIsToldTheTruth ==
  /\ \A s \in started :
       /\ texts[s.by].what = "yes new" /\ texts[s.by].here /\ texts[s.by].mode = s.mode
       /\ s.full[2] = Cut[texts[s.by].folder] /\ \A z \in started : z.by = s.by => z = s
  /\ \A r \in told :
       CASE r.says = "opened" /\ r.of # {} -> (\E s \in started : s.by = r.by) \/ "title" \in ToSet(touches)
         [] r.says = "not opened" -> \A s \in started : s.by # r.by
         [] r.says = "closed" -> \A t \in tabs : t.by \notin r.of
         [] r.says = "locked out" -> r.of # {}
         [] OTHER -> TRUE
=============================================================================
