--------------------------- MODULE SteeringRules ----------------------------
(***************************************************************************)
(* Steering by routing rules: the sandbox validation of a proposal         *)
(* (server/sandbox.py, validate_steering), which awaits between its checks *)
(* so that several validations and every other handler interleave, and the *)
(* rules applied and rolled back over the API (server/main.py), kept in    *)
(* server/state.py.  The forecasts that two checks read are written by the *)
(* prediction loop (server/lstm_engine.py) at any of those awaits.         *)
(***************************************************************************)
EXTENDS Naturals, FiniteSets, Sequences

CONSTANTS
    ActiveLink,     \* state.active_links
    RequestLink,    \* link ids found in requests
    Request,        \* validation requests; each has the id of its report
    Classes,        \* the lists of traffic classes found in requests, as sets
    Score,          \* health scores a forecast may have
    NoReport,       \* a sandbox_report_id that names no report
    HistoryCap,     \* length of _sandbox_history (50 in the code)
    MaxRules        \* bound: rules applied in one behaviour

ASSUME LinkAssumption == ActiveLink \subseteq RequestLink
ASSUME NameAssumption == "not diverted" \notin ActiveLink
ASSUME ReportAssumption == NoReport \notin Request
ASSUME ScoreAssumption == Score \subseteq 0..100
ASSUME BoundsAssumption == HistoryCap \in Nat \ {0} /\ MaxRules \in Nat

VARIABLES
    rules,          \* state.routing_rules
    health,         \* health_score of state.predictions; NoScore for None
    validation,     \* each request's run of validate_steering
    history         \* _sandbox_history, newest first

vars == <<rules, health, validation, history>>

NoScore == 101

Rule == [source : RequestLink, target : RequestLink,
         report : Request \cup {NoReport}, status : {"active", "rolled_back"}]

Stage == {"idle", "loop", "policy", "reachability", "performance", "done"}
Result == {"none", "pass", "fail_loop", "fail_policy", "fail_unreachable",
           "fail_performance"}

Validation == [stage : Stage, source : RequestLink, target : RequestLink,
               classes : Classes, result : Result]
Idle == [stage |-> "idle", result |-> "none"]

TypeOK ==
    /\ rules \in Seq(Rule)
    /\ health \in [ActiveLink -> Score \cup {NoScore}]
    /\ validation \in [Request -> Validation \cup {Idle}]
    /\ history \in Seq(Request)

Init ==
    /\ rules = <<>>
    /\ health = [l \in ActiveLink |-> NoScore]
    /\ validation = [r \in Request |-> Idle]
    /\ history = <<>>

-----------------------------------------------------------------------------
(* The reference topology and the requirements of the traffic classes. *)

TopologyLink == {"host-link-1", "host-link-2", "fiber-primary",
                 "broadband-secondary", "satellite-backup", "5g-mobile"}

\* Delay in milliseconds and loss in hundredths of a percent.
LinkSpec(l) ==
    CASE l \in {"host-link-1", "host-link-2"} -> [delay |-> 1,   loss |-> 0]
      [] l = "fiber-primary"                  -> [delay |-> 5,   loss |-> 1]
      [] l = "broadband-secondary"            -> [delay |-> 15,  loss |-> 10]
      [] l = "satellite-backup"               -> [delay |-> 300, loss |-> 50]
      [] l = "5g-mobile"                      -> [delay |-> 20,  loss |-> 20]

Requirement ==
    [voip     |-> [latency |-> 50,  loss |-> 50],
     video    |-> [latency |-> 100, loss |-> 100],
     critical |-> [latency |-> 80,  loss |-> 30],
     bulk     |-> [latency |-> 500, loss |-> 500]]

\* A class without requirements is passed over.
Complies(l, classes) ==
    \A c \in classes \cap DOMAIN Requirement :
        /\ LinkSpec(l).delay <= Requirement[c].latency
        /\ LinkSpec(l).loss <= Requirement[c].loss

\* state.predictions.get(link).health_score; the host links have none.
HealthOf(l) == IF l \in ActiveLink THEN health[l] ELSE NoScore

-----------------------------------------------------------------------------
(* One validation: every check follows an await, the last one is followed  *)
(* by the report and its entry in the history without another.             *)

Finished(r, v, result) ==
    [validation EXCEPT ![r] = [v EXCEPT !.stage = "done", !.result = result]]

Record(r, v, result) ==
    /\ validation' = Finished(r, v, result)
    /\ history' = SubSeq(<<r>> \o history, 1,
                         IF Len(history) < HistoryCap THEN Len(history) + 1
                                                      ELSE HistoryCap)
    /\ UNCHANGED <<rules, health>>

Advance(r, stage) ==
    /\ validation' = [validation EXCEPT ![r].stage = stage]
    /\ UNCHANGED <<rules, health, history>>

StartValidation(r, src, dst, classes) ==
    LET v == [stage |-> "loop", source |-> src, target |-> dst,
              classes |-> classes, result |-> "none"]
    IN  /\ validation[r] = Idle
        /\ IF {src, dst} \subseteq TopologyLink
           THEN /\ validation' = [validation EXCEPT ![r] = v]
                /\ UNCHANGED <<rules, health, history>>
           ELSE Record(r, v, "fail_unreachable")

\* Apart from equal links, a loop is reported at random.
CheckLoop(r) ==
    LET v == validation[r]
    IN  /\ v.stage = "loop"
        /\ \/ Record(r, v, "fail_loop")
           \/ v.source # v.target /\ Advance(r, "policy")

\* Faulty variant: the link that is left is looked at.
CheckPolicyOfSource(r) ==
    LET v == validation[r]
    IN  /\ v.stage = "policy"
        /\ IF Complies(v.source, v.classes)
           THEN Advance(r, "reachability")
           ELSE Record(r, v, "fail_policy")

CheckPolicy(r) ==
    LET v == validation[r]
    IN  /\ v.stage = "policy"
        /\ IF Complies(v.target, v.classes)
           THEN Advance(r, "reachability")
           ELSE Record(r, v, "fail_policy")

\* A target forecast below 10 is unreachable; any other is so at random.
CheckReachability(r) ==
    LET v == validation[r]
    IN  /\ v.stage = "reachability"
        /\ \/ Record(r, v, "fail_unreachable")
           \/ HealthOf(v.target) >= 10 /\ Advance(r, "performance")

CheckPerformance(r) ==
    LET v == validation[r]
    IN  /\ v.stage = "performance"
        /\ IF HealthOf(v.target) >= 35
           THEN Record(r, v, "pass")
           ELSE Record(r, v, "fail_performance")

-----------------------------------------------------------------------------
(* Rules, and the prediction loop. *)

ActiveRules == {i \in DOMAIN rules : rules[i].status = "active"}

DivertedFrom(l) == \E i \in ActiveRules : rules[i].source = l

\* Faulty variant: a rule is refused for another one's target.
ApplyRuleCheckingTarget(src, dst, report) ==
    /\ Len(rules) < MaxRules
    /\ src # dst
    /\ src \in ActiveLink /\ dst \in ActiveLink
    /\ \A i \in ActiveRules : rules[i].target # dst
    /\ rules' = Append(rules, [source |-> src, target |-> dst,
                               report |-> report, status |-> "active"])
    /\ UNCHANGED <<health, validation, history>>

\* The report id is stored as given.
ApplyRule(src, dst, report) ==
    /\ Len(rules) < MaxRules
    /\ src # dst
    /\ src \in ActiveLink /\ dst \in ActiveLink
    /\ ~DivertedFrom(src)
    /\ rules' = Append(rules, [source |-> src, target |-> dst,
                               report |-> report, status |-> "active"])
    /\ UNCHANGED <<health, validation, history>>

RollbackRule(i) ==
    /\ i \in ActiveRules
    /\ rules' = [rules EXCEPT ![i].status = "rolled_back"]
    /\ UNCHANGED <<health, validation, history>>

\* One round of prediction_loop: any of the links gets a forecast, and one that
\* it has is never taken back.
Predict ==
    /\ health' \in [ActiveLink -> Score \cup {NoScore}]
    /\ \A l \in ActiveLink :
          health'[l] # health[l] => health'[l] \in Score
    /\ UNCHANGED <<rules, validation, history>>

\* Reports whose id a caller has seen.
KnownReport == {r \in Request : validation[r].stage = "done"} \cup {NoReport}

Next ==
    \/ \E r \in Request, src, dst \in RequestLink, classes \in Classes :
            StartValidation(r, src, dst, classes)
    \/ \E r \in Request : \/ CheckLoop(r)
                          \/ CheckPolicy(r)
                          \/ CheckReachability(r)
                          \/ CheckPerformance(r)
    \/ \E src, dst \in RequestLink, report \in Request \cup {NoReport} :
            report \in KnownReport /\ ApplyRule(src, dst, report)
    \/ \E i \in DOMAIN rules : RollbackRule(i)
    \/ Predict

Spec == Init /\ [][Next]_vars

-----------------------------------------------------------------------------
\* Properties.

\* Through any order of applying and rolling back, the traffic of a link is
\* diverted by at most one active rule, and never to the link itself.
OneDiversionPerSource ==
    /\ \A i, j \in ActiveRules : rules[i].source = rules[j].source => i = j
    /\ \A i \in ActiveRules : rules[i].source # rules[i].target

\* The list of rules, of which the rolled back ones are never removed, behaves
\* as the map from links to diversions that its readers take it for.
DiversionOf(l) ==
    IF DivertedFrom(l)
    THEN rules[CHOOSE i \in ActiveRules : rules[i].source = l].target
    ELSE "not diverted"

Abstract == INSTANCE Diversion
    WITH Link <- ActiveLink, route <- [l \in ActiveLink |-> DiversionOf(l)]

RulesImplementDiversion == Abstract!Spec

\* Whatever happens between the checks, a report that says "pass" is about two
\* different known links, of which the target suits every class asked for.
PassMeansCompliant ==
    \A r \in Request :
        validation[r].result = "pass" =>
            LET v == validation[r]
            IN  /\ v.source # v.target
                /\ {v.source, v.target} \subseteq TopologyLink
                /\ Complies(v.target, v.classes)

\* No finished report is lost or entered twice: one that is not in the history
\* was pushed out of a full history by newer ones.
HistoryIsRecent ==
    /\ \A r \in Request :
          validation[r].stage = "done" =>
            \/ \E i \in 1..Len(history) : history[i] = r
            \/ Len(history) = HistoryCap
    /\ \A i, j \in 1..Len(history) : history[i] = history[j] => i = j

=============================================================================
