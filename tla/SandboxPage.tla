---------------------------- MODULE SandboxPage -----------------------------
(***************************************************************************)
(* The sandbox page (frontend/src/pages/SandboxViewer.tsx), the rollback   *)
(* button of NetworkSimulation.tsx, which is open beside it, and what      *)
(* server/main.py does for them.  The validation itself, here with either  *)
(* result, is module SteeringRules'.                                       *)
(***************************************************************************)
EXTENDS PageCalls

CONSTANTS
    PageLink,       \* LINKS of the page
    PageClass,      \* TRAFFIC_CLASSES of the page
    MaxReports,     \* bound: validations a user starts
    MaxDeploys      \* bound: rules a user makes

VARIABLES
    source, target, classes,    \* sourceLink, targetLink, selectedClasses
    phase,          \* of runValidation; `loading` unless it is idle
    shownReport,    \* activeReport, 0 for null
    shownHistory,   \* history
    deploying,
    deployed,       \* deployedRuleId, 0 for null
    rollingBack,    \* of the simulation page, 0 for null
    reports,        \* the server's reports, by the order of their making
    madeRules       \* the server's rules made from the page

chosenVars == <<source, target, classes>>
resultVars == <<phase, shownReport, shownHistory, deploying, deployed, rollingBack>>
sandboxServer == <<reports, madeRules>>
sandboxVars == <<chosenVars, resultVars, sandboxServer>>

SandboxInit ==
    /\ source = "fiber-primary" /\ target = "broadband-secondary"
    /\ classes = PageClass \cap {"voip", "video"}
    /\ phase = "idle" /\ shownReport = 0 /\ shownHistory = {}
    /\ deploying = FALSE /\ deployed = 0 /\ rollingBack = 0
    /\ reports = <<>> /\ madeRules = <<>>

Chosen == [source |-> source, target |-> target, classes |-> classes]

-----------------------------------------------------------------------------
\* The choice of a change.  The target's buttons leave the source out.

Chooses == NoSends /\ UNCHANGED <<resultVars, sandboxServer>>

ChooseSource(l) == source' = l /\ Chooses /\ UNCHANGED <<target, classes>>

ChooseTarget(l) == l # source /\ target' = l /\ Chooses /\ UNCHANGED <<source, classes>>

ToggleClass(c) ==
    /\ classes' = IF c \in classes THEN classes \ {c} ELSE classes \cup {c}
    /\ Chooses
    /\ UNCHANGED <<source, target>>

-----------------------------------------------------------------------------
\* runValidation: a call, the checks shown one by one, the history again.

RunValidation(s) ==
    /\ phase = "idle" /\ source # target /\ classes # {}
    /\ Len(reports) < MaxReports
    /\ Sends(s, "validate", Chosen)
    /\ phase' = "validating"
    /\ shownReport' = 0 /\ deployed' = 0
    /\ UNCHANGED <<chosenVars, shownHistory, deploying, rollingBack, sandboxServer>>

SandboxValidate(s) ==
    /\ Serving(s, "validate")
    /\ \E passed \in BOOLEAN :
          reports' = Append(reports, [change |-> calls[s].arg, passed |-> passed])
    /\ Replies(s, TRUE, Len(reports'))
    /\ UNCHANGED <<chosenVars, resultVars, madeRules>>

ReportArrives(s) ==
    /\ Resolving(s, "validate")
    /\ GoesOn(s, NoCall)
    /\ shownReport' = calls[s].answer
    /\ phase' = "animating"
    /\ UNCHANGED <<chosenVars, shownHistory, deploying, deployed, rollingBack, sandboxServer>>

RefreshHistory(s) ==
    /\ phase = "animating"
    /\ Sends(s, "history", By("validation"))
    /\ phase' = "refreshing"
    /\ UNCHANGED <<chosenVars, shownReport, shownHistory, deploying, deployed, rollingBack,
                   sandboxServer>>

SandboxHistory(s) ==
    /\ Serving(s, "history")
    /\ Replies(s, TRUE, DOMAIN reports)
    /\ UNCHANGED sandboxVars

\* The history is asked for by the first rendering and by runValidation.
PhaseAfter(s) == IF calls[s].arg.by = "mount" THEN phase ELSE "idle"

HistoryArrives(s) ==
    /\ Resolving(s, "history")
    /\ GoesOn(s, NoCall)
    /\ shownHistory' = calls[s].answer
    /\ phase' = PhaseAfter(s)
    /\ UNCHANGED <<chosenVars, shownReport, deploying, deployed, rollingBack, sandboxServer>>

ValidationFails(s) ==
    /\ \/ Rejects(s, "validate") /\ phase' = "idle"
       \/ Rejects(s, "history") /\ phase' = PhaseAfter(s)
    /\ UNCHANGED <<chosenVars, shownReport, shownHistory, deploying, deployed, rollingBack,
                   sandboxServer>>

\* A report of the history; the deployed banner stays as it is.
PickReport(r) ==
    /\ r \in shownHistory
    /\ shownReport' = r
    /\ NoSends
    /\ UNCHANGED <<chosenVars, phase, shownHistory, deploying, deployed, rollingBack, sandboxServer>>

-----------------------------------------------------------------------------
\* handleDeploy: the report that is shown, if it passed, and its own change.

CanDeploy ==
    /\ shownReport # 0 /\ reports[shownReport].passed
    /\ deployed = 0 /\ ~deploying
    /\ Len(madeRules) < MaxDeploys

Deploying == deploying' = TRUE /\ UNCHANGED <<chosenVars, phase, shownReport, shownHistory,
                                              deployed, rollingBack, sandboxServer>>

\* Faulty variant: what is chosen is deployed.
DeployChosen(s) ==
    /\ CanDeploy
    /\ Sends(s, "apply", [report |-> shownReport, change |-> Chosen])
    /\ Deploying

Deploy(s) ==
    /\ CanDeploy
    /\ Sends(s, "apply", [report |-> shownReport, change |-> reports[shownReport].change])
    /\ Deploying

\* The server does not look at the report; one rule diverts a link at a time.
\* An error is an answer without a rule.
ApplyRoutingRule(s) ==
    LET asked == calls[s].arg
        diverted == \E i \in DOMAIN madeRules :
            madeRules[i].active /\ madeRules[i].change.source = asked.change.source
    IN  /\ Serving(s, "apply")
        /\ IF diverted \/ asked.change.source = asked.change.target
           THEN Replies(s, TRUE, 0) /\ UNCHANGED madeRules
           ELSE /\ madeRules' = Append(madeRules,
                      [report |-> asked.report, change |-> asked.change, active |-> TRUE])
                /\ Replies(s, TRUE, Len(madeRules'))
        /\ UNCHANGED <<chosenVars, resultVars, reports>>

DeployAnswered(s) ==
    /\ Resolving(s, "apply")
    /\ GoesOn(s, NoCall)
    /\ deployed' = IF calls[s].answer = 0 THEN deployed ELSE calls[s].answer
    /\ deploying' = FALSE
    /\ UNCHANGED <<chosenVars, phase, shownReport, shownHistory, rollingBack, sandboxServer>>

DeployFails(s) ==
    /\ Rejects(s, "apply")
    /\ deploying' = FALSE
    /\ UNCHANGED <<chosenVars, phase, shownReport, shownHistory, deployed, rollingBack, sandboxServer>>

-----------------------------------------------------------------------------
\* handleRollback, for a rule of a list that may be out of date.

Rollback(s, r) ==
    /\ r \in DOMAIN madeRules /\ rollingBack # r
    /\ Sends(s, "rollback", [rule |-> r])
    /\ rollingBack' = r
    /\ UNCHANGED <<chosenVars, phase, shownReport, shownHistory, deploying, deployed, sandboxServer>>

RollbackRule(s) ==
    /\ Serving(s, "rollback")
    /\ madeRules' = [madeRules EXCEPT ![calls[s].arg.rule].active = FALSE]
    /\ Replies(s, TRUE, 0)
    /\ UNCHANGED <<chosenVars, resultVars, reports>>

RollbackEnds(s) ==
    /\ \/ Resolving(s, "rollback") /\ GoesOn(s, NoCall)
       \/ Rejects(s, "rollback")
    /\ rollingBack' = 0
    /\ UNCHANGED <<chosenVars, phase, shownReport, shownHistory, deploying, deployed, sandboxServer>>

-----------------------------------------------------------------------------

SandboxMounts(s) == Mounts(s, "history") /\ UNCHANGED sandboxVars

SandboxServes(s) ==
    SandboxValidate(s) \/ SandboxHistory(s) \/ ApplyRoutingRule(s) \/ RollbackRule(s)

SandboxReacts(s) ==
    \/ ReportArrives(s) \/ HistoryArrives(s) \/ ValidationFails(s)
    \/ DeployAnswered(s) \/ DeployFails(s) \/ RollbackEnds(s)

SandboxUser ==
    \/ \E l \in PageLink : ChooseSource(l) \/ ChooseTarget(l)
    \/ \E c \in PageClass : ToggleClass(c)
    \/ \E s \in UserSlot : RunValidation(s) \/ Deploy(s)
    \/ \E s \in UserSlot, r \in DOMAIN madeRules : Rollback(s, r)
    \/ \E r \in shownHistory : PickReport(r)

SandboxTimer(s) == SandboxMounts(s) \/ RefreshHistory(s)

=============================================================================
