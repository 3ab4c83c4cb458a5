-------------------------- MODULE IntentCompliance --------------------------
(***************************************************************************)
(* The life of an intent in server/ibn_engine.py: created, paused, resumed *)
(* and deleted over the API, and checked every two seconds by the monitor  *)
(* loop against the telemetry, the forecasts and the rules in force.  A    *)
(* violated intent auto-steers, once in a cooldown.  One round of the loop *)
(* looks at every intent and awaits nothing in between.                    *)
(***************************************************************************)
EXTENDS SteeringRules, SequencesExt

CONSTANTS
    Intent,         \* intent ids, each used for one intent
    Goal,           \* what requests ask for: see below
    NoLink,         \* a link that the text does not name
    LinkOrder       \* state.active_links is a list: the order of its scans

ASSUME OrderAssumption ==
    /\ LinkOrder \in Seq(ActiveLink)
    /\ IsInjective(LinkOrder) /\ ToSet(LinkOrder) = ActiveLink
ASSUME NoLinkAssumption == NoLink \notin RequestLink

VARIABLES
    intents,        \* _intents and _last_auto_steer
    level           \* each link's latest metric against the threshold

intentVars == <<intents, level>>

\* "ensure" stands for latency, jitter or loss with a threshold; "unchecked"
\* for actions no check is made for: bandwidth, deprioritize, no threshold;
\* "one-shot" for app-level actions, carried out when the intent is created.
Action == {"ensure", "prioritize", "block", "redirect", "unchecked", "one-shot"}

\* The link a goal is about: preferred, avoided or the source of a redirect.
GoalType == [action : Action, link : RequestLink \cup {NoLink},
             target : RequestLink \cup {NoLink}]
ASSUME GoalAssumption == Goal \subseteq GoalType

\* `neither` is a link without telemetry, or exactly at the threshold.
Level == {"above", "below", "neither"}

Status == {"active", "compliant", "violated", "auto_steering", "paused", "deleted"}
Open == Status \ {"paused", "deleted"}

\* An intent's record; `turn` is auto_steer_count modulo 2.
NoIntent == [status |-> "unused"]

IntentInit ==
    /\ intents = [i \in Intent |-> NoIntent]
    /\ level = [l \in ActiveLink |-> "neither"]

-----------------------------------------------------------------------------
(* What a check finds. *)

\* The first link of a scan; NoLink when it finds none.
First(links) ==
    IF links = {} THEN NoLink
    ELSE LinkOrder[CHOOSE n \in DOMAIN LinkOrder :
                     /\ LinkOrder[n] \in links
                     /\ \A m \in 1..(n - 1) : LinkOrder[m] \notin links]

Above == {l \in ActiveLink : level[l] = "above"}

ForecastBelow(l, score) ==
    l \in ActiveLink /\ health[l] # NoScore /\ health[l] < score

\* The link a goal is violated on, or NoLink.
ViolatedOn(g) ==
    CASE g.action = "ensure" ->
            First({l \in Above : g.link \in {NoLink, l}})
      [] g.action = "prioritize" /\ ForecastBelow(g.link, 40) -> g.link
      [] g.action = "block" /\ ~DivertedFrom(g.link) /\ ForecastBelow(g.link, 60) -> g.link
      [] g.action = "redirect" /\ ~DivertedFrom(g.link) -> g.link
      [] OTHER -> NoLink

\* Strictly better scores replace earlier ones, so the first of the best wins.
Healthiest(exclude) ==
    LET known == {l \in ActiveLink \ {exclude} : health[l] # NoScore}
    IN  First({l \in known : \A k \in known : health[k] <= health[l]})

\* The links with a metric below the threshold; which is best is not modelled.
BestForMetric(exclude) ==
    LET below == {l \in ActiveLink \ {exclude} : level[l] = "below"}
    IN  IF below = {} THEN {Healthiest(exclude)} ELSE below

\* The sources and targets _auto_steer_for_intent may choose for a goal.
Steers(g) ==
    CASE g.action = "ensure" -> {First(Above)} \X BestForMetric(First(Above))
      [] g.action = "prioritize" -> {<<Healthiest(g.link), g.link>>}
      [] g.action = "redirect" -> {<<g.link, g.target>>}
      [] g.action = "block" -> {<<g.link, Healthiest(g.link)>>}

Possible(source, target) ==
    NoLink \notin {source, target} /\ source # target /\ ~DivertedFrom(source)

-----------------------------------------------------------------------------
(* check_intent_compliance: the records it may leave for an intent. *)

Attempted(it, source, target) ==
    IF Possible(source, target)
    THEN [it EXCEPT !.status = "auto_steering", !.cooling = TRUE, !.turn = ~@]
    ELSE [it EXCEPT !.status = "violated", !.cooling = TRUE]

\* Faulty variant: an intent that is being steered is not looked at again.
CheckedOnce(it) ==
    IF it.status \notin Open \/ it.goal.action = "one-shot" THEN {it}
    ELSE IF ViolatedOn(it.goal) = NoLink
         THEN {[it EXCEPT !.status = IF @ = "auto_steering" THEN @ ELSE "compliant"]}
    ELSE IF it.cooling THEN {[it EXCEPT !.status = "auto_steering"]}
    ELSE {Attempted(it, st[1], st[2]) : st \in Steers(it.goal)}

\* Faulty variant: an intent that is being steered is not steered again.
CheckedUntilSteered(it) ==
    IF it.status \notin Open \/ it.goal.action = "one-shot" THEN {it}
    ELSE IF ViolatedOn(it.goal) = NoLink THEN {[it EXCEPT !.status = "compliant"]}
    ELSE IF it.cooling \/ it.status = "auto_steering"
         THEN {[it EXCEPT !.status = "auto_steering"]}
    ELSE {Attempted(it, st[1], st[2]) : st \in Steers(it.goal)}

\* Faulty variant: paused intents are checked.
CheckedPaused(it) ==
    IF it.status \in {"unused", "deleted"} THEN {it}
    ELSE IF it.goal.action = "one-shot" THEN {it}
    ELSE IF ViolatedOn(it.goal) = NoLink THEN {[it EXCEPT !.status = "compliant"]}
    ELSE IF it.cooling THEN {[it EXCEPT !.status = "auto_steering"]}
    ELSE {Attempted(it, st[1], st[2]) : st \in Steers(it.goal)}

Checked(it) ==
    IF it.status \notin Open \/ it.goal.action = "one-shot" THEN {it}
    ELSE IF ViolatedOn(it.goal) = NoLink THEN {[it EXCEPT !.status = "compliant"]}
    ELSE IF it.cooling THEN {[it EXCEPT !.status = "auto_steering"]}
    ELSE {Attempted(it, st[1], st[2]) : st \in Steers(it.goal)}

-----------------------------------------------------------------------------
(* Handlers, the monitor and the world. *)

\* A one-shot action may be carried out, fail, or raise on the way.
CreateIntent(i, g) ==
    /\ intents[i] = NoIntent
    /\ \E status \in IF g.action = "one-shot" THEN {"active", "compliant", "violated"}
                                              ELSE {"active"} :
          intents' = [intents EXCEPT ![i] =
                        [goal |-> g, status |-> status, cooling |-> FALSE,
                         turn |-> FALSE]]
    /\ UNCHANGED level

\* Deleting again is answered with success and changes nothing.
DeleteIntent(i) ==
    /\ intents[i] # NoIntent
    /\ intents' = [intents EXCEPT ![i].status = "deleted"]
    /\ UNCHANGED level

PauseIntent(i) ==
    /\ intents[i].status \in Open
    /\ intents' = [intents EXCEPT ![i].status = "paused"]
    /\ UNCHANGED level

\* Faulty variant: a deleted intent is resumed.
ResumeIntentAlways(i) ==
    /\ intents[i].status \in {"paused", "deleted"}
    /\ intents' = [intents EXCEPT ![i].status = "active"]
    /\ UNCHANGED level

ResumeIntent(i) ==
    /\ intents[i].status = "paused"
    /\ intents' = [intents EXCEPT ![i].status = "active"]
    /\ UNCHANGED level

MonitorRound ==
    /\ \E found \in [Intent -> UNION {Checked(intents[i]) : i \in Intent}] :
          /\ \A i \in Intent : found[i] \in Checked(intents[i])
          /\ intents' = found
    /\ UNCHANGED level

CooldownEnds(i) ==
    /\ intents[i] # NoIntent
    /\ intents[i].cooling
    /\ intents' = [intents EXCEPT ![i].cooling = FALSE]
    /\ UNCHANGED level

Telemetry ==
    /\ level' \in [ActiveLink -> Level]
    /\ UNCHANGED intents

IntentNext ==
    \/ \E i \in Intent, g \in Goal : CreateIntent(i, g)
    \/ \E i \in Intent : \/ DeleteIntent(i)
                         \/ PauseIntent(i)
                         \/ ResumeIntent(i)
                         \/ CooldownEnds(i)
    \/ MonitorRound
    \/ Telemetry

ControlInit == Init /\ IntentInit

ControlNext ==
    \/ IntentNext /\ UNCHANGED vars
    \/ Next /\ UNCHANGED intentVars

controlVars == <<vars, intentVars>>

\* The monitor is `while True` around a try and a sleep of two seconds; the
\* cooldown ends by the clock.
ControlSpec ==
    ControlInit /\ [][ControlNext]_controlVars
                /\ WF_controlVars(MonitorRound /\ UNCHANGED vars)
                /\ \A i \in Intent : WF_controlVars(CooldownEnds(i) /\ UNCHANGED vars)

-----------------------------------------------------------------------------
(* Properties. *)

\* Nothing brings a deleted intent back, and only its own resumption or
\* deletion ends a pause: no round of the monitor touches either.
ClosedIntentsAreLeftAlone ==
    [][ \A i \in Intent :
          /\ intents[i].status = "deleted" => intents'[i].status = "deleted"
          /\ intents[i].status = "paused" => intents'[i].status \in {"paused", "active", "deleted"}
      ]_controlVars

\* An intent that stays open and violated, while its steering has somewhere to
\* leave from and to go to, is steered again and again: the cooldown delays an
\* attempt, and nothing that the first one leaves behind ends them.
ViolationIsAnswered ==
    \A i \in Intent :
        LET urgent == /\ intents[i] # NoIntent
                      /\ intents[i].status \in Open
                      /\ intents[i].goal.action # "one-shot"
                      /\ ViolatedOn(intents[i].goal) # NoLink
                      /\ \A st \in Steers(intents[i].goal) : Possible(st[1], st[2])
        IN  <>[]urgent => /\ []<>(urgent /\ intents[i].turn)
                          /\ []<>(urgent /\ ~intents[i].turn)

\* An intent that is open and violated no more is found compliant, however it
\* came to be violated, steered, paused and resumed before.
ComplianceIsNoticed ==
    \A i \in Intent :
        LET fine == /\ intents[i] # NoIntent
                    /\ intents[i].status \in Open
                    /\ intents[i].goal.action # "one-shot"
                    /\ ViolatedOn(intents[i].goal) = NoLink
        IN  <>[]fine => <>[](intents[i].status = "compliant")

=============================================================================
