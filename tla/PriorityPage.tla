---------------------------- MODULE PriorityPage ----------------------------
(***************************************************************************)
(* The page of the app priorities                                          *)
(* (frontend/src/pages/user/AppPriorityManager.tsx) and, below it on the   *)
(* same page, the panel of the selective degrader                          *)
(* (components/SelectiveIPDegrade.tsx), with the handlers of               *)
(* server/routers/app_priority.py that they call, for one user.  What the  *)
(* handlers do to the host is the subject of modules AppPriority and       *)
(* SelectiveDegrader.  The order in the queue, which the server ignores,   *)
(* the mode, rate and duration of a rule, and animations are left out.     *)
(***************************************************************************)
EXTENDS PageCalls

CONSTANTS
    QueueApp,       \* apps of the catalog
    PageClasses     \* PRIORITY_OPTIONS; "NORMAL" is one

ASSUME ClassAssumption == "NORMAL" \in PageClasses

VARIABLES
    catalog,        \* the catalog has arrived
    queue,          \* the priorities of the queue's apps
    applied,        \* appliedResults: apps and their priorities
    applying,
    userPriorities  \* the server's priorities of the user

priorityPageVars == <<catalog, queue, applied, applying, userPriorities>>

NoApps == [a \in {} |-> "NORMAL"]

PriorityPageInit ==
    /\ catalog = FALSE /\ applying = FALSE
    /\ queue = NoApps /\ applied = NoApps /\ userPriorities = NoApps

With(map, a, class) == [x \in DOMAIN map \cup {a} |-> IF x = a THEN class ELSE map[x]]
WithoutApp(map, a) == [x \in DOMAIN map \ {a} |-> map[x]]

-----------------------------------------------------------------------------
\* The catalog, and then the priorities that are stored, if there are any.

CatalogEnds(s) ==
    /\ \/ Resolving(s, "catalog") /\ GoesOn(s, Request("priorities", By("catalog"))) /\ catalog' = TRUE
       \/ Rejects(s, "catalog") /\ UNCHANGED catalog
    /\ UNCHANGED <<queue, applied, applying, userPriorities>>

PrioritiesEnd(s) ==
    /\ \/ /\ Resolving(s, "priorities")
          /\ GoesOn(s, NoCall)
          /\ queue' = IF calls[s].answer = NoApps THEN queue ELSE calls[s].answer
       \/ Rejects(s, "priorities") /\ UNCHANGED queue
    /\ UNCHANGED <<catalog, applied, applying, userPriorities>>

AddToQueue(a) ==
    /\ catalog /\ a \notin DOMAIN queue
    /\ queue' = With(queue, a, "NORMAL")
    /\ NoSends
    /\ UNCHANGED <<catalog, applied, applying, userPriorities>>

RemoveFromQueue(a) ==
    /\ a \in DOMAIN queue
    /\ queue' = WithoutApp(queue, a) /\ applied' = WithoutApp(applied, a)
    /\ NoSends
    /\ UNCHANGED <<catalog, applying, userPriorities>>

SetPriority(a, class) ==
    /\ a \in DOMAIN queue
    /\ queue' = With(queue, a, class)
    /\ NoSends
    /\ UNCHANGED <<catalog, applied, applying, userPriorities>>

-----------------------------------------------------------------------------
\* handleApply and handleReset; a queue can be applied while a reset is under way.

Apply(s) ==
    /\ queue # NoApps /\ ~applying
    /\ Sends(s, "set", [queue |-> queue])
    /\ applying' = TRUE
    /\ UNCHANGED <<catalog, queue, applied, userPriorities>>

ApplyEnds(s) ==
    /\ \/ Resolving(s, "set") /\ GoesOn(s, NoCall) /\ applied' = calls[s].answer
       \/ Rejects(s, "set") /\ UNCHANGED applied
    /\ applying' = FALSE
    /\ UNCHANGED <<catalog, queue, userPriorities>>

Reset(s) ==
    /\ ~applying
    /\ Sends(s, "reset", [queue |-> NoApps])
    /\ UNCHANGED priorityPageVars

ResetEnds(s) ==
    /\ \/ Resolving(s, "reset") /\ GoesOn(s, NoCall) /\ queue' = NoApps /\ applied' = NoApps
       \/ Rejects(s, "reset") /\ UNCHANGED <<queue, applied>>
    /\ UNCHANGED <<catalog, applying, userPriorities>>

-----------------------------------------------------------------------------
\* The server's side.

Catalogs(s) ==
    Serving(s, "catalog") /\ Replies(s, TRUE, NoApps) /\ UNCHANGED priorityPageVars

GetUserPriorities(s) ==
    /\ Serving(s, "priorities")
    /\ Replies(s, TRUE, userPriorities)
    /\ UNCHANGED priorityPageVars

\* A set or a reset: the new map replaces the old one, and is the answer.
StorePriorities(s) ==
    /\ Serving(s, "set") \/ Serving(s, "reset")
    /\ userPriorities' = calls[s].arg.queue
    /\ Replies(s, TRUE, calls[s].arg.queue)
    /\ UNCHANGED <<catalog, queue, applied, applying>>

-----------------------------------------------------------------------------

PriorityServes(s) == Catalogs(s) \/ GetUserPriorities(s) \/ StorePriorities(s)

PriorityReacts(s) == CatalogEnds(s) \/ PrioritiesEnd(s) \/ ApplyEnds(s) \/ ResetEnds(s)

PriorityUser ==
    \/ \E a \in QueueApp : AddToQueue(a) \/ RemoveFromQueue(a)
    \/ \E a \in QueueApp, class \in PageClasses : SetPriority(a, class)
    \/ \E s \in UserSlot : Apply(s) \/ Reset(s)

PriorityTimer(s) == Mounts(s, "catalog") /\ UNCHANGED priorityPageVars

-----------------------------------------------------------------------------
\* The panel.

CONSTANTS
    PanelApp,       \* apps of the select box
    Address,        \* addresses a user may pick or type
    Candidate,      \* what candidate_ips_for lists, here the same for each app
    BadAddress,     \* those that _validate_ips drops
    MaxStarted      \* bound: rules a user starts

ASSUME CandidateAssumption == Candidate \subseteq Address

VARIABLES
    selectedApp,    \* "" for none
    candidates,     \* the app whose candidates are listed, "" for null
    picked,
    busy,
    shownRules,     \* rules
    started         \* the server's _rules: whether each is active

pickVars == <<selectedApp, candidates, picked>>
panelVars == <<pickVars, busy, shownRules, started>>

PanelInit ==
    /\ selectedApp = "" /\ candidates = "" /\ picked = {}
    /\ busy = FALSE
    /\ shownRules = {}
    /\ started = <<>>

ActiveStarted == {r \in DOMAIN started : started[r]}

-----------------------------------------------------------------------------
\* The app and its candidates.  Picks are reset by the answer, not the choice.

SelectApp(s, a) ==
    /\ a # selectedApp
    /\ selectedApp' = a
    /\ IF a = "" THEN candidates' = "" /\ picked' = {} /\ NoSends
                 ELSE UNCHANGED <<candidates, picked>> /\ Sends(s, "candidates", [app |-> a])
    /\ UNCHANGED <<busy, shownRules, started>>

SelectiveCandidates(s) ==
    /\ Serving(s, "candidates")
    /\ Replies(s, TRUE, calls[s].arg.app)
    /\ UNCHANGED panelVars

CandidatesEnd(s) ==
    /\ \/ /\ Resolving(s, "candidates")
          /\ GoesOn(s, NoCall)
          /\ candidates' = calls[s].answer /\ picked' = {}
       \/ Rejects(s, "candidates") /\ UNCHANGED <<candidates, picked>>
    /\ UNCHANGED <<selectedApp, busy, shownRules, started>>

Picks == NoSends /\ UNCHANGED <<selectedApp, candidates, busy, shownRules, started>>

TogglePick(ip) ==
    /\ ip \in picked \/ (candidates # "" /\ ip \in Candidate)
    /\ picked' = IF ip \in picked THEN picked \ {ip} ELSE picked \cup {ip}
    /\ Picks

AddManualIp(ip) == picked' = picked \cup {ip} /\ Picks

-----------------------------------------------------------------------------
\* submit, stopRule and stopAll; each asks for the list when it succeeds.

SubmitRule(s) ==
    /\ picked # {} /\ ~busy
    /\ Len(started) < MaxStarted
    /\ Sends(s, "start", [app |-> selectedApp, ips |-> picked])
    /\ busy' = TRUE
    /\ UNCHANGED <<pickVars, shownRules, started>>

SelectiveCreate(s) ==
    LET valid == calls[s].arg.ips \ BadAddress # {}
    IN  /\ Serving(s, "start")
        /\ started' = IF valid THEN Append(started, TRUE) ELSE started
        /\ Replies(s, valid, "")
        /\ UNCHANGED <<pickVars, busy, shownRules>>

SubmitEnds(s) ==
    /\ \/ Resolving(s, "start") /\ GoesOn(s, Request("rules", By("action"))) /\ picked' = {}
       \/ Rejects(s, "start") /\ UNCHANGED picked
    /\ busy' = FALSE
    /\ UNCHANGED <<selectedApp, candidates, shownRules, started>>

Stop(s, r) == r \in shownRules /\ Sends(s, "stop", [rules |-> {r}]) /\ UNCHANGED panelVars

\* stop-all names no rule.
StopEvery(s) == shownRules # {} /\ Sends(s, "stop", [rules |-> {}]) /\ UNCHANGED panelVars

\* A rule that is no longer active is not found; stop-all always succeeds.
SelectiveStop(s) ==
    LET all  == calls[s].arg.rules = {}
        ends == IF all THEN ActiveStarted ELSE calls[s].arg.rules
    IN  /\ Serving(s, "stop")
        /\ started' = [r \in DOMAIN started |-> started[r] /\ r \notin ends]
        /\ Replies(s, all \/ ends \subseteq ActiveStarted, "")
        /\ UNCHANGED <<pickVars, busy, shownRules>>

StopEnds(s) ==
    /\ \/ Resolving(s, "stop") /\ GoesOn(s, Request("rules", By("action")))
       \/ Rejects(s, "stop")
    /\ UNCHANGED panelVars

-----------------------------------------------------------------------------
\* fetchRules, every second and after what the user does.

PollRules(s) == Sends(s, "rules", By("timer")) /\ UNCHANGED panelVars

SelectiveList(s) ==
    /\ Serving(s, "rules")
    /\ Replies(s, TRUE, ActiveStarted)
    /\ UNCHANGED panelVars

RulesEnd(s) ==
    /\ \/ Resolving(s, "rules") /\ GoesOn(s, NoCall) /\ shownRules' = calls[s].answer
       \/ Rejects(s, "rules") /\ UNCHANGED shownRules
    /\ UNCHANGED <<pickVars, busy, started>>

-----------------------------------------------------------------------------

PanelServes(s) ==
    SelectiveCandidates(s) \/ SelectiveCreate(s) \/ SelectiveStop(s) \/ SelectiveList(s)

PanelReacts(s) == CandidatesEnd(s) \/ SubmitEnds(s) \/ StopEnds(s) \/ RulesEnd(s)

PanelUser ==
    \/ \E ip \in Address : TogglePick(ip) \/ AddManualIp(ip)
    \/ \E s \in UserSlot :
          \/ SubmitRule(s) \/ StopEvery(s)
          \/ \E a \in PanelApp \cup {""} : SelectApp(s, a)
          \/ \E r \in shownRules : Stop(s, r)

PanelTimer(s) == PollRules(s)

=============================================================================
