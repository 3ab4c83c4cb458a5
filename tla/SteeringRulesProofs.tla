------------------------ MODULE SteeringRulesProofs -------------------------
(***************************************************************************)
(* What is proved of SteeringRules, for any links, requests, classes and   *)
(* scores, any cap of the history and any number of rules, and of the      *)
(* intents that are checked against the rules and the forecasts, for any   *)
(* intents, goals and order of the links.                                  *)
(***************************************************************************)
EXTENDS IntentCompliance, Sums, SequenceTheorems, FiniteSetTheorems, TLAPS

\* Every step is a step of a validation, of the rules or of a forecast.
ValidationStep ==
    \E r \in Request :
        \/ \E src, dst \in RequestLink, classes \in Classes :
              StartValidation(r, src, dst, classes)
        \/ CheckLoop(r)
        \/ CheckPolicy(r)
        \/ CheckReachability(r)
        \/ CheckPerformance(r)

LEMMA Frames ==
    /\ ValidationStep => UNCHANGED <<rules, health>>
    /\ \A src, dst \in RequestLink, report \in KnownReport :
          ApplyRule(src, dst, report) => UNCHANGED <<health, validation, history>>
    /\ \A i \in DOMAIN rules :
          RollbackRule(i) => UNCHANGED <<health, validation, history>>
    /\ Predict => UNCHANGED <<rules, validation, history>>
BY DEF ValidationStep, StartValidation, CheckLoop, CheckPolicy, CheckReachability,
       CheckPerformance, Record, Advance, ApplyRule, RollbackRule, Predict

-----------------------------------------------------------------------------
(* Rules. *)

RulesTyped == rules \in Seq(Rule)

OfActiveLinks ==
    \A i \in ActiveRules : rules[i].source \in ActiveLink /\ rules[i].target \in ActiveLink

RulesInv == RulesTyped /\ OneDiversionPerSource /\ OfActiveLinks

LEMMA RulesStep ==
    ASSUME RulesInv, [Next]_vars
    PROVE  RulesInv'
<1>1. CASE UNCHANGED rules
  BY <1>1 DEF RulesInv, RulesTyped, OneDiversionPerSource, OfActiveLinks, ActiveRules
<1>2. ASSUME NEW src \in RequestLink, NEW dst \in RequestLink,
             NEW report \in KnownReport, ApplyRule(src, dst, report)
      PROVE  RulesInv'
  <2> DEFINE rule == [source |-> src, target |-> dst,
                      report |-> report, status |-> "active"]
  <2>1. rule \in Rule /\ rules \in Seq(Rule)
    BY DEF Rule, KnownReport, RulesInv, RulesTyped
  <2>2. rules' = Append(rules, rule)
    BY <1>2 DEF ApplyRule
  <2>3. RulesTyped'
    BY <2>1, <2>2 DEF RulesTyped
  <2>4. /\ DOMAIN rules' = DOMAIN rules \cup {Len(rules) + 1}
        /\ \A i \in DOMAIN rules : rules'[i] = rules[i]
        /\ rules'[Len(rules) + 1] = rule
    BY <2>1, <2>2
  <2>5. /\ src # dst /\ src \in ActiveLink /\ dst \in ActiveLink
        /\ \A i \in ActiveRules : rules[i].source # src
    BY <1>2 DEF ApplyRule, DivertedFrom
  <2>6. ActiveRules' \subseteq ActiveRules \cup {Len(rules) + 1}
    BY <2>4 DEF ActiveRules
  <2>7. \A i \in ActiveRules : i \in DOMAIN rules
    BY DEF ActiveRules
  <2>8. OneDiversionPerSource'
    BY <2>4, <2>5, <2>6, <2>7 DEF OneDiversionPerSource, RulesInv
  <2>9. OfActiveLinks'
    BY <2>4, <2>5, <2>6, <2>7 DEF OfActiveLinks, RulesInv
  <2> QED BY <2>3, <2>8, <2>9 DEF RulesInv
<1>3. ASSUME NEW i \in DOMAIN rules, RollbackRule(i)
      PROVE  RulesInv'
  <2> DEFINE undone == [rules[i] EXCEPT !.status = "rolled_back"]
  <2>1. /\ rules \in Seq(Rule) /\ DOMAIN rules = 1..Len(rules)
        /\ rules[i] \in Rule /\ undone \in Rule /\ undone.status = "rolled_back"
    <3>1. rules \in Seq(Rule) /\ DOMAIN rules = 1..Len(rules)
      BY DEF RulesInv, RulesTyped
    <3>2. rules[i] \in Rule
      BY <3>1, ElementOfSeq
    <3> QED BY <3>1, <3>2 DEF Rule
  <2>2. rules' = [rules EXCEPT ![i] = undone]
    BY <1>3 DEF RollbackRule
  <2>3. RulesTyped' /\ DOMAIN rules' = DOMAIN rules
    BY <2>1, <2>2, ExceptSeq DEF RulesTyped
  <2>4. /\ rules'[i] = undone
        /\ \A j \in DOMAIN rules : j # i => rules'[j] = rules[j]
    BY <2>1, <2>2
  <2>5. \A j \in DOMAIN rules : /\ rules'[j].source = rules[j].source
                                /\ rules'[j].target = rules[j].target
    BY <2>1, <2>4 DEF Rule
  <2>6. ActiveRules' \subseteq ActiveRules
    BY <2>1, <2>3, <2>4 DEF ActiveRules
  <2>7. OneDiversionPerSource'
    BY <2>5, <2>6 DEF OneDiversionPerSource, RulesInv, ActiveRules
  <2>8. OfActiveLinks'
    BY <2>5, <2>6 DEF OfActiveLinks, RulesInv, ActiveRules
  <2> QED BY <2>3, <2>7, <2>8 DEF RulesInv
<1> QED BY <1>1, <1>2, <1>3, Frames DEF Next, ValidationStep, vars

LEMMA RulesInvariant == Spec => []RulesInv
<1>1. Init => RulesInv
  BY DEF Init, RulesInv, RulesTyped, OneDiversionPerSource, OfActiveLinks, ActiveRules
<1> QED BY <1>1, RulesStep, PTL DEF Spec

\* Traffic of a link is diverted by at most one active rule and never to the
\* link itself, through any order of applying and rolling back.
THEOREM OneDiversion == Spec => []OneDiversionPerSource
<1>1. RulesInv => OneDiversionPerSource
  BY DEF RulesInv
<1> QED BY <1>1, RulesInvariant, PTL

-----------------------------------------------------------------------------
(* The rules implement Diversion. *)

Route == [l \in ActiveLink |-> DiversionOf(l)]

LEMMA DiversionOfRule ==
    ASSUME OneDiversionPerSource, NEW i \in ActiveRules
    PROVE  DiversionOf(rules[i].source) = rules[i].target
<1>1. DivertedFrom(rules[i].source)
  BY DEF DivertedFrom
<1>2. \A j \in ActiveRules : rules[j].source = rules[i].source => j = i
  BY DEF OneDiversionPerSource
<1>3. (CHOOSE j \in ActiveRules : rules[j].source = rules[i].source) = i
  BY <1>2
<1> QED BY <1>1, <1>3 DEF DiversionOf

\* A diversion is determined by the active rules alone.
LEMMA SameDiversion ==
    ASSUME OneDiversionPerSource, OneDiversionPerSource', NEW l,
           \A i \in ActiveRules : rules[i].source = l =>
              \E j \in ActiveRules' : rules'[j].source = l /\ rules'[j].target = rules[i].target,
           \A j \in ActiveRules' : rules'[j].source = l =>
              \E i \in ActiveRules : rules[i].source = l
    PROVE  DiversionOf(l)' = DiversionOf(l)
<1>1. CASE DivertedFrom(l)
  <2>1. PICK i \in ActiveRules : rules[i].source = l
    BY <1>1 DEF DivertedFrom
  <2>2. PICK j \in ActiveRules' : rules'[j].source = l /\ rules'[j].target = rules[i].target
    BY <2>1
  <2>3. DiversionOf(l) = rules[i].target
    BY <2>1, DiversionOfRule
  <2>4. \A k \in ActiveRules' : rules'[k].source = l => k = j
    BY <2>2 DEF OneDiversionPerSource
  <2>5. (CHOOSE k \in ActiveRules' : rules'[k].source = l) = j
    BY <2>2, <2>4
  <2>6. DiversionOf(l)' = rules'[j].target
    BY <2>2, <2>5 DEF DiversionOf, DivertedFrom
  <2> QED BY <2>2, <2>3, <2>6
<1>2. CASE ~DivertedFrom(l)
  BY <1>2 DEF DiversionOf, DivertedFrom
<1> QED BY <1>1, <1>2

LEMMA ApplyDiverts ==
    ASSUME RulesInv, RulesInv', NEW src \in RequestLink, NEW dst \in RequestLink,
           NEW report \in KnownReport, ApplyRule(src, dst, report)
    PROVE  /\ src \in ActiveLink /\ dst \in ActiveLink /\ src # dst
           /\ Route[src] = "not diverted"
           /\ Route' = [Route EXCEPT ![src] = dst]
<1> DEFINE rule == [source |-> src, target |-> dst,
                    report |-> report, status |-> "active"]
           new == Len(rules) + 1
<1>1. /\ rules \in Seq(Rule) /\ rule \in Rule
      /\ rules' = Append(rules, rule)
      /\ src \in ActiveLink /\ dst \in ActiveLink /\ src # dst
      /\ ~DivertedFrom(src)
  BY DEF ApplyRule, RulesInv, RulesTyped, Rule, KnownReport
<1>2. /\ DOMAIN rules' = DOMAIN rules \cup {new}
      /\ \A i \in DOMAIN rules : rules'[i] = rules[i]
      /\ rules'[new] = rule /\ rule.status = "active"
      /\ rule.source = src /\ rule.target = dst
  BY <1>1
<1>3. ActiveRules' = ActiveRules \cup {new}
  BY <1>2 DEF ActiveRules
<1>4. \A i \in ActiveRules : rules'[i] = rules[i]
  BY <1>2 DEF ActiveRules
<1>5. DiversionOf(src)' = dst
  <2>1. \A k \in ActiveRules' : rules'[k].source = src => k = new
    BY <1>1, <1>3, <1>4 DEF DivertedFrom
  <2>2. (CHOOSE k \in ActiveRules' : rules'[k].source = src) = new
    BY <1>2, <1>3, <2>1
  <2> QED BY <1>2, <1>3, <2>2 DEF DiversionOf, DivertedFrom
<1>6. ASSUME NEW l \in ActiveLink, l # src
      PROVE  DiversionOf(l)' = DiversionOf(l)
  <2>1. \A i \in ActiveRules : rules[i].source = l =>
          \E j \in ActiveRules' : rules'[j].source = l /\ rules'[j].target = rules[i].target
    BY <1>3, <1>4
  <2>2. \A j \in ActiveRules' : rules'[j].source = l =>
          \E i \in ActiveRules : rules[i].source = l
    BY <1>2, <1>3, <1>4, <1>6
  <2> QED BY <2>1, <2>2, SameDiversion DEF RulesInv
<1>7. DiversionOf(src) = "not diverted"
  BY <1>1 DEF DiversionOf
<1> QED BY <1>1, <1>5, <1>6, <1>7 DEF Route

LEMMA RollbackRestores ==
    ASSUME RulesInv, RulesInv', NEW i \in DOMAIN rules, RollbackRule(i),
           NEW l, l = rules[i].source
    PROVE  /\ l \in ActiveLink
           /\ Route[l] # "not diverted"
           /\ Route' = [Route EXCEPT ![l] = "not diverted"]
<1> DEFINE undone == [rules[i] EXCEPT !.status = "rolled_back"]
<1>1. /\ i \in ActiveRules /\ rules' = [rules EXCEPT ![i] = undone]
      /\ l \in ActiveLink /\ rules[i].target \in ActiveLink
  BY DEF RollbackRule, RulesInv, OfActiveLinks
<1>2. /\ rules \in Seq(Rule) /\ rules[i] \in Rule
      /\ DOMAIN rules' = DOMAIN rules /\ rules'[i] = undone
      /\ undone.status = "rolled_back"
      /\ \A j \in DOMAIN rules : j # i => rules'[j] = rules[j]
  <2>1. rules \in Seq(Rule) /\ DOMAIN rules = 1..Len(rules)
    BY DEF RulesInv, RulesTyped
  <2>2. rules[i] \in Rule
    BY <2>1, ElementOfSeq
  <2> QED BY <1>1, <2>1, <2>2 DEF Rule
<1>3. ActiveRules' = ActiveRules \ {i}
  BY <1>2 DEF ActiveRules
<1>4. \A j \in ActiveRules : j # i => rules'[j] = rules[j] /\ rules[j].source # l
  BY <1>1, <1>2 DEF ActiveRules, RulesInv, OneDiversionPerSource
<1>5. DiversionOf(l)' = "not diverted"
  <2>1. ~\E j \in ActiveRules' : rules'[j].source = l
    BY <1>3, <1>4
  <2> QED BY <2>1 DEF DiversionOf, DivertedFrom
<1>6. DiversionOf(l) = rules[i].target
  BY <1>1, DiversionOfRule DEF RulesInv
<1>7. ASSUME NEW k \in ActiveLink, k # l
      PROVE  DiversionOf(k)' = DiversionOf(k)
  <2>1. \A j \in ActiveRules : rules[j].source = k =>
          \E j2 \in ActiveRules' : rules'[j2].source = k /\ rules'[j2].target = rules[j].target
    BY <1>3, <1>4, <1>7
  <2>2. \A j \in ActiveRules' : rules'[j].source = k =>
          \E j2 \in ActiveRules : rules[j2].source = k
    BY <1>3, <1>4
  <2> QED BY <2>1, <2>2, SameDiversion DEF RulesInv
<1>8. /\ Route[l] = rules[i].target
      /\ Route' = [Route EXCEPT ![l] = "not diverted"]
  BY <1>1, <1>5, <1>6, <1>7 DEF Route
<1> QED BY <1>1, <1>8, NameAssumption

\* Applying and rolling back rules implements the map from links to diversions:
\* every step of the server diverts or restores one link or leaves the map alone.
THEOREM Refinement == Spec => RulesImplementDiversion
<1>1. Init => Abstract!Init
  BY DEF Init, Abstract!Init, DiversionOf, DivertedFrom, ActiveRules, Abstract!NoDiversion
<1>2. ASSUME RulesInv, RulesInv', [Next]_vars
      PROVE  [Abstract!Next]_Route
  <2>1. CASE UNCHANGED rules
    BY <2>1 DEF Route, DiversionOf, DivertedFrom, ActiveRules
  <2>2. ASSUME NEW src \in RequestLink, NEW dst \in RequestLink,
               NEW report \in KnownReport, ApplyRule(src, dst, report)
        PROVE  Abstract!Next
    BY <1>2, <2>2, ApplyDiverts
    DEF Abstract!Next, Abstract!Divert, Abstract!NoDiversion, Route
  <2>3. ASSUME NEW i \in DOMAIN rules, RollbackRule(i)
        PROVE  Abstract!Next
    <3>1. PICK l : l = rules[i].source
      OBVIOUS
    <3>2. /\ l \in ActiveLink
          /\ Route[l] # "not diverted"
          /\ Route' = [Route EXCEPT ![l] = "not diverted"]
      BY <1>2, <2>3, <3>1, RollbackRestores
    <3> QED BY <3>2
            DEF Abstract!Next, Abstract!Restore, Abstract!NoDiversion, Route
  <2> QED BY <1>2, <2>1, <2>2, <2>3, Frames DEF Next, ValidationStep, vars
<1>3. RulesInv /\ RulesInv' /\ [Next]_vars => [Abstract!Next]_Route
  BY <1>2
<1> QED BY <1>1, <1>3, RulesInvariant, PTL
        DEF Spec, RulesImplementDiversion, Abstract!Spec, Route

-----------------------------------------------------------------------------
(* Validations and the history of their reports. *)

ValidationTyped == validation \in [Request -> Validation \cup {Idle}]

HistoryTyped == history \in Seq(Request) /\ Len(history) <= HistoryCap

\* What the checks already passed say of a validation that is still running.
Passed(v) ==
    /\ v.stage \in {"loop", "policy", "reachability", "performance"} =>
          {v.source, v.target} \subseteq TopologyLink
    /\ v.stage \in {"policy", "reachability", "performance"} => v.source # v.target
    /\ v.stage \in {"reachability", "performance"} => Complies(v.target, v.classes)
    /\ v.stage # "done" => v.result = "none"

Compliant(v) ==
    v.result = "pass" => /\ v.source # v.target
                         /\ {v.source, v.target} \subseteq TopologyLink
                         /\ Complies(v.target, v.classes)

\* The history lists finished requests only, each of them once.
HistoryOfDone ==
    /\ \A i \in 1..Len(history) : validation[history[i]].stage = "done"
    /\ HistoryIsRecent

ValidationInv ==
    /\ ValidationTyped
    /\ HistoryTyped
    /\ \A r \in Request : Passed(validation[r]) /\ Compliant(validation[r])
    /\ HistoryOfDone

LEMMA RunningIsValidation ==
    ASSUME ValidationTyped, NEW r \in Request,
           validation[r].stage \in {"loop", "policy", "reachability", "performance"}
    PROVE  validation[r] \in Validation
BY DEF ValidationTyped, Idle

\* A new entry goes to the head of the history, the oldest may leave it.
LEMMA HistoryStep ==
    ASSUME HistoryTyped, NEW r \in Request, NEW v, NEW result, Record(r, v, result)
    PROVE  /\ HistoryTyped'
           /\ history'[1] = r
           /\ \A i \in 2..Len(history') : i - 1 \in 1..Len(history)
                                        /\ history'[i] = history[i - 1]
           /\ Len(history') = HistoryCap \/ Len(history') = Len(history) + 1
           /\ Len(history') >= 1
<1> DEFINE long == <<r>> \o history
           n == IF Len(history) < HistoryCap THEN Len(history) + 1 ELSE HistoryCap
<1>1. /\ history \in Seq(Request) /\ Len(history) \in Nat
      /\ HistoryCap \in Nat \ {0} /\ Len(history) <= HistoryCap
  BY BoundsAssumption DEF HistoryTyped
<1>2. n \in 1..(Len(history) + 1) /\ n <= HistoryCap
  BY <1>1
<1>3. /\ long \in Seq(Request) /\ Len(long) = Len(history) + 1
      /\ \A i \in 1..Len(long) : long[i] = IF i = 1 THEN r ELSE history[i - 1]
  <2>1. <<r>> \in Seq(Request) /\ Len(<<r>>) = 1 /\ <<r>>[1] = r
    OBVIOUS
  <2>2. \A i \in 1..Len(history) + 1 :
            long[i] = IF i <= 1 THEN <<r>>[i] ELSE history[i - 1]
    BY <1>1, <2>1, ConcatProperties
  <2> QED BY <1>1, <2>1, <2>2, ConcatProperties
<1>4. history' = SubSeq(long, 1, n)
  BY DEF Record
<1>5. \A i \in 1..n : long[i] \in Request
  BY <1>2, <1>3, ElementOfSeq
<1>6. /\ history' \in Seq(Request) /\ Len(history') = n
      /\ \A i \in 1..n : history'[i] = long[i]
  BY <1>2, <1>4, <1>5, SubSeqProperties
<1>7. \A i \in 2..n : i - 1 \in 1..Len(history) /\ history'[i] = history[i - 1]
  BY <1>1, <1>2, <1>3, <1>6
<1>8. history'[1] = r /\ n >= 1 /\ (n = HistoryCap \/ n = Len(history) + 1)
  BY <1>1, <1>2, <1>3, <1>6
<1> QED BY <1>2, <1>6, <1>7, <1>8, BoundsAssumption DEF HistoryTyped

\* Making a report keeps the invariant if what it says is right.
LEMMA RecordKeeps ==
    ASSUME ValidationInv, NEW r \in Request, NEW v \in Validation, NEW result \in Result,
           validation[r].stage # "done",
           Compliant([v EXCEPT !.stage = "done", !.result = result]),
           Record(r, v, result)
    PROVE  ValidationInv'
<1> DEFINE report == [v EXCEPT !.stage = "done", !.result = result]
<1>1. /\ report \in Validation /\ report.stage = "done"
      /\ validation' = [validation EXCEPT ![r] = report]
  BY DEF Record, Finished, Validation, Stage
<1>2. ValidationTyped' /\ validation'[r] = report
      /\ \A q \in Request : q # r => validation'[q] = validation[q]
  BY <1>1 DEF ValidationInv, ValidationTyped
<1>3. \A q \in Request : Passed(validation'[q]) /\ Compliant(validation'[q])
  BY <1>1, <1>2 DEF ValidationInv, Passed
<1>4. /\ HistoryTyped'
      /\ history'[1] = r
      /\ \A i \in 2..Len(history') : i - 1 \in 1..Len(history)
                                   /\ history'[i] = history[i - 1]
      /\ Len(history') = HistoryCap \/ Len(history') = Len(history) + 1
      /\ Len(history') >= 1
  BY HistoryStep DEF ValidationInv
<1>5. /\ Len(history) \in Nat /\ Len(history') \in Nat
      /\ \A i \in 1..Len(history) : history[i] \in Request /\ history[i] # r
  <2>1. history \in Seq(Request) /\ history' \in Seq(Request)
    BY <1>4 DEF ValidationInv, HistoryTyped
  <2> QED BY <2>1, ElementOfSeq DEF ValidationInv, HistoryOfDone
<1>6. \A i \in 1..Len(history') : validation'[history'[i]].stage = "done"
  <2>1. ASSUME NEW i \in 1..Len(history'), i # 1
        PROVE  validation'[history'[i]].stage = "done"
    BY <1>2, <1>4, <1>5, <2>1 DEF ValidationInv, HistoryOfDone
  <2> QED BY <1>1, <1>2, <1>4, <2>1
<1>7. ASSUME NEW q \in Request, validation'[q].stage = "done", Len(history') # HistoryCap
      PROVE  \E i \in 1..Len(history') : history'[i] = q
  <2>1. CASE q = r
    BY <1>4, <1>5, <2>1
  <2>2. CASE q # r
    <3>1. Len(history') = Len(history) + 1 /\ Len(history) # HistoryCap
      BY <1>4, <1>5, <1>7, BoundsAssumption DEF HistoryTyped
    <3>2. PICK j \in 1..Len(history) : history[j] = q
      BY <1>2, <1>7, <2>2, <3>1 DEF ValidationInv, HistoryOfDone, HistoryIsRecent
    <3>3. j + 1 \in 2..Len(history') /\ (j + 1) - 1 = j
      BY <1>5, <3>1
    <3>4. history'[j + 1] = q
      BY <1>4, <3>2, <3>3
    <3> QED BY <3>3, <3>4
  <2> QED BY <2>1, <2>2
<1>8. ASSUME NEW i \in 1..Len(history'), NEW j \in 1..Len(history'),
             history'[i] = history'[j]
      PROVE  i = j
  <2>1. CASE i = 1 /\ j # 1
    BY <1>4, <1>5, <1>8, <2>1
  <2>2. CASE i # 1 /\ j = 1
    BY <1>4, <1>5, <1>8, <2>2
  <2>3. CASE i # 1 /\ j # 1
    <3>1. i \in 2..Len(history') /\ j \in 2..Len(history')
      BY <1>5, <2>3
    <3>2. /\ i - 1 \in 1..Len(history) /\ j - 1 \in 1..Len(history)
          /\ history[i - 1] = history[j - 1]
      BY <1>4, <1>8, <3>1
    <3>3. i - 1 = j - 1
      BY <3>2 DEF ValidationInv, HistoryOfDone, HistoryIsRecent
    <3> QED BY <3>1, <3>3
  <2> QED BY <2>1, <2>2, <2>3
<1>9. HistoryOfDone'
  BY <1>6, <1>7, <1>8 DEF HistoryOfDone, HistoryIsRecent
<1> QED BY <1>2, <1>3, <1>4, <1>9 DEF ValidationInv

\* Replacing the running validation of a request keeps the invariant if what
\* its stage says of the checks is right.
LEMMA AdvanceKeeps ==
    ASSUME ValidationInv, NEW r \in Request, NEW v \in Validation,
           v.stage # "done", validation[r].stage # "done", Passed(v),
           validation' = [validation EXCEPT ![r] = v], UNCHANGED history
    PROVE  ValidationInv'
<1>1. ValidationTyped' /\ validation'[r] = v
      /\ \A q \in Request : q # r => validation'[q] = validation[q]
  BY DEF ValidationInv, ValidationTyped
<1>2. \A q \in Request : Passed(validation'[q]) /\ Compliant(validation'[q])
  BY <1>1 DEF ValidationInv, Passed, Compliant
<1>3. \A i \in 1..Len(history) : history[i] \in Request
  BY ElementOfSeq DEF ValidationInv, HistoryTyped
<1>4. HistoryOfDone'
  BY <1>1, <1>3 DEF ValidationInv, HistoryOfDone, HistoryIsRecent
<1> QED BY <1>1, <1>2, <1>4 DEF ValidationInv, HistoryTyped

LEMMA ValidationKeeps ==
    ASSUME ValidationInv, [Next]_vars
    PROVE  ValidationInv'
<1> USE DEF ValidationInv
<1>1. CASE UNCHANGED <<validation, history>>
  BY <1>1
  DEF ValidationTyped, HistoryTyped, HistoryOfDone, HistoryIsRecent
<1>2. ASSUME NEW r \in Request, NEW src \in RequestLink, NEW dst \in RequestLink,
             NEW classes \in Classes, StartValidation(r, src, dst, classes)
      PROVE  ValidationInv'
  <2> DEFINE v == [stage |-> "loop", source |-> src, target |-> dst,
                   classes |-> classes, result |-> "none"]
  <2>1. v \in Validation /\ validation[r].stage # "done"
    BY <1>2 DEF StartValidation, Validation, Stage, Result, Idle
  <2>2. CASE {src, dst} \subseteq TopologyLink
    <3>1. validation' = [validation EXCEPT ![r] = v] /\ UNCHANGED history
      BY <1>2, <2>2 DEF StartValidation
    <3>2. Passed(v)
      BY <2>2 DEF Passed
    <3> QED BY <2>1, <3>1, <3>2, AdvanceKeeps
  <2>3. CASE ~({src, dst} \subseteq TopologyLink)
    <3>1. Record(r, v, "fail_unreachable")
      BY <1>2, <2>3 DEF StartValidation
    <3>2. Compliant([v EXCEPT !.stage = "done", !.result = "fail_unreachable"])
      BY DEF Compliant
    <3> QED BY <2>1, <3>1, <3>2, RecordKeeps DEF Result
  <2> QED BY <2>2, <2>3
<1>3. ASSUME NEW r \in Request, NEW result \in Result \ {"pass"},
             validation[r] \in Validation, validation[r].stage # "done",
             Record(r, validation[r], result)
      PROVE  ValidationInv'
  <2>1. Compliant([validation[r] EXCEPT !.stage = "done", !.result = result])
    BY <1>3 DEF Compliant, Validation
  <2> QED BY <1>3, <2>1, RecordKeeps
<1>4. ASSUME NEW r \in Request, NEW stage \in Stage \ {"done"},
             validation[r] \in Validation, validation[r].stage # "done",
             Passed([validation[r] EXCEPT !.stage = stage]), Advance(r, stage)
      PROVE  ValidationInv'
  <2>1. [validation[r] EXCEPT !.stage = stage] \in Validation
    BY <1>4 DEF Validation
  <2>2. [validation[r] EXCEPT !.stage = stage].stage # "done"
    BY <1>4 DEF Validation
  <2>3. /\ validation' = [validation EXCEPT ![r] = [validation[r] EXCEPT !.stage = stage]]
        /\ UNCHANGED history
    BY <1>4 DEF Advance
  <2> QED BY <1>4, <2>1, <2>2, <2>3, AdvanceKeeps
<1>5. ASSUME NEW r \in Request, CheckLoop(r)
      PROVE  ValidationInv'
  <2>1. validation[r] \in Validation /\ validation[r].stage = "loop"
    BY <1>5, RunningIsValidation DEF CheckLoop
  <2>2. CASE validation[r].source # validation[r].target /\ Advance(r, "policy")
    <3>1. Passed([validation[r] EXCEPT !.stage = "policy"])
      BY <2>1, <2>2 DEF Passed, Validation
    <3> QED BY <1>4, <2>1, <2>2, <3>1 DEF Stage
  <2>3. CASE Record(r, validation[r], "fail_loop")
    BY <1>3, <2>1, <2>3 DEF Result
  <2> QED BY <1>5, <2>2, <2>3 DEF CheckLoop
<1>6. ASSUME NEW r \in Request, CheckPolicy(r)
      PROVE  ValidationInv'
  <2>1. validation[r] \in Validation /\ validation[r].stage = "policy"
    BY <1>6, RunningIsValidation DEF CheckPolicy
  <2>2. CASE Complies(validation[r].target, validation[r].classes)
    <3>1. Passed([validation[r] EXCEPT !.stage = "reachability"])
      BY <2>1, <2>2 DEF Passed, Validation
    <3> QED BY <1>4, <1>6, <2>1, <2>2, <3>1 DEF CheckPolicy, Stage
  <2>3. CASE ~Complies(validation[r].target, validation[r].classes)
    BY <1>3, <1>6, <2>1, <2>3 DEF CheckPolicy, Result
  <2> QED BY <2>2, <2>3
<1>7. ASSUME NEW r \in Request, CheckReachability(r)
      PROVE  ValidationInv'
  <2>1. validation[r] \in Validation /\ validation[r].stage = "reachability"
    BY <1>7, RunningIsValidation DEF CheckReachability
  <2>2. CASE Advance(r, "performance")
    <3>1. Passed([validation[r] EXCEPT !.stage = "performance"])
      BY <2>1 DEF Passed, Validation
    <3> QED BY <1>4, <2>1, <2>2, <3>1 DEF Stage
  <2>3. CASE Record(r, validation[r], "fail_unreachable")
    BY <1>3, <2>1, <2>3 DEF Result
  <2> QED BY <1>7, <2>2, <2>3 DEF CheckReachability
<1>8. ASSUME NEW r \in Request, CheckPerformance(r)
      PROVE  ValidationInv'
  <2>1. validation[r] \in Validation /\ validation[r].stage = "performance"
    BY <1>8, RunningIsValidation DEF CheckPerformance
  <2>2. CASE Record(r, validation[r], "pass")
    <3>1. Compliant([validation[r] EXCEPT !.stage = "done", !.result = "pass"])
      BY <2>1 DEF Passed, Compliant, Validation
    <3> QED BY <2>1, <2>2, <3>1, RecordKeeps DEF Result
  <2>3. CASE Record(r, validation[r], "fail_performance")
    BY <1>3, <2>1, <2>3 DEF Result
  <2> QED BY <1>8, <2>2, <2>3 DEF CheckPerformance
<1> QED BY <1>1, <1>2, <1>5, <1>6, <1>7, <1>8, Frames DEF Next, vars

LEMMA ValidationInvariant == Spec => []ValidationInv
<1>1. Init => ValidationInv
  BY BoundsAssumption
  DEF Init, ValidationInv, ValidationTyped, HistoryTyped, HistoryOfDone,
      HistoryIsRecent, Passed, Compliant, Idle
<1> QED BY <1>1, ValidationKeeps, PTL DEF Spec

\* A report that says "pass" is about two different known links, of which the
\* target suits every class, however the awaits of validate_steering interleave.
THEOREM PassedLinksComply == Spec => []PassMeansCompliant
<1>1. ValidationInv => PassMeansCompliant
  BY DEF ValidationInv, Compliant, PassMeansCompliant
<1> QED BY <1>1, ValidationInvariant, PTL

\* The capped history of record_report loses only what newer reports push out,
\* and lists no report twice.
THEOREM HistoryKeepsRecent == Spec => []HistoryIsRecent
<1>1. ValidationInv => HistoryIsRecent
  BY DEF ValidationInv, HistoryOfDone
<1> QED BY <1>1, ValidationInvariant, PTL

\* Rules, forecasts, validations and history are well typed in every reachable
\* state.
THEOREM TypeCorrect == Spec => []TypeOK
<1> DEFINE HealthTyped == health \in [ActiveLink -> Score \cup {NoScore}]
<1>1. Init => HealthTyped
  BY DEF Init
<1>2. ASSUME HealthTyped, [Next]_vars
      PROVE  HealthTyped'
  <2>1. CASE Predict
    BY <2>1 DEF Predict
  <2>2. CASE UNCHANGED health
    BY <1>2, <2>2
  <2> QED BY <1>2, <2>1, <2>2, Frames DEF Next, ValidationStep, vars
<1>3. RulesInv /\ ValidationInv /\ HealthTyped => TypeOK
  BY DEF RulesInv, RulesTyped, ValidationInv, ValidationTyped, HistoryTyped, TypeOK
<1>4. Spec => []HealthTyped
  BY <1>1, <1>2, PTL DEF Spec
<1> QED BY <1>3, <1>4, RulesInvariant, ValidationInvariant, PTL

-----------------------------------------------------------------------------
(* Intents. *)

IntentRecord == [goal : Goal, status : Status, cooling : BOOLEAN, turn : BOOLEAN]

IntentTypeOK == intents \in [Intent -> IntentRecord \cup {NoIntent}]

\* What a check leaves of an intent.
LEMMA CheckedRecord ==
    ASSUME NEW it \in IntentRecord, NEW found \in Checked(it)
    PROVE  /\ found \in IntentRecord
           /\ it.status \notin Open => found = it
<1>1. ASSUME NEW status \in Status
      PROVE  [it EXCEPT !.status = status] \in IntentRecord
  BY DEF IntentRecord
<1>2. CASE it.status \notin Open \/ it.goal.action = "one-shot"
  BY <1>2 DEF Checked
<1>3. CASE /\ it.status \in Open /\ it.goal.action # "one-shot"
           /\ ViolatedOn(it.goal) = NoLink \/ it.cooling
  BY <1>1, <1>3 DEF Checked, Status
<1>4. CASE /\ it.status \in Open /\ it.goal.action # "one-shot"
           /\ ViolatedOn(it.goal) # NoLink /\ ~it.cooling
  <2>1. PICK st \in Steers(it.goal) : found = Attempted(it, st[1], st[2])
    BY <1>4 DEF Checked
  <2>2. QED BY <1>4, <2>1 DEF Attempted, IntentRecord, Status
<1>5. QED BY <1>2, <1>3, <1>4

\* What a step of the intents does to one of them: it is new, or it is changed
\* by a request, the clock or a round of the monitor.
Changed(it, new) ==
    \/ new = it
    \/ new = [it EXCEPT !.status = "deleted"]
    \/ it.status \in Open /\ new = [it EXCEPT !.status = "paused"]
    \/ it.status = "paused" /\ new = [it EXCEPT !.status = "active"]
    \/ new = [it EXCEPT !.cooling = FALSE]
    \/ new \in Checked(it)

LEMMA IntentStep ==
    ASSUME IntentTypeOK, [ControlNext]_controlVars
    PROVE  /\ IntentTypeOK'
           /\ \A i \in Intent : intents[i] # NoIntent => Changed(intents[i], intents'[i])
<1> DEFINE Kept(i) == IF intents[i] = NoIntent THEN intents'[i] = NoIntent
                      ELSE Changed(intents[i], intents'[i])
<1>0. intents \in [Intent -> IntentRecord \cup {NoIntent}]
  BY DEF IntentTypeOK
<1>1. ASSUME UNCHANGED intents
      PROVE  intents' \in [Intent -> IntentRecord \cup {NoIntent}] /\ \A i \in Intent : Kept(i)
  BY <1>0, <1>1 DEF Changed
<1>2. ASSUME NEW i \in Intent, NEW record, intents' = [intents EXCEPT ![i] = record],
             intents[i] # NoIntent, Changed(intents[i], record)
      PROVE  intents' \in [Intent -> IntentRecord \cup {NoIntent}] /\ \A j \in Intent : Kept(j)
  <2>1. /\ intents[i] \in IntentRecord
        /\ \A f \in Checked(intents[i]) : f \in IntentRecord
    BY <1>0, <1>2, CheckedRecord
  <2>2. record \in IntentRecord
    BY <1>2, <2>1 DEF Changed, IntentRecord, Status
  <2>3. \A j \in Intent : intents'[j] = IF j = i THEN record ELSE intents[j]
    BY <1>0, <1>2
  <2>4. QED BY <1>0, <1>2, <2>2, <2>3 DEF Changed
<1>3. ASSUME NEW i \in Intent, NEW g \in Goal, CreateIntent(i, g)
      PROVE  /\ intents' \in [Intent -> IntentRecord \cup {NoIntent}]
             /\ intents[i] = NoIntent /\ \A j \in Intent \ {i} : Kept(j)
  <2>1. PICK status \in {"active", "compliant", "violated"} :
          intents' = [intents EXCEPT ![i] = [goal |-> g, status |-> status,
                                             cooling |-> FALSE, turn |-> FALSE]]
    BY <1>3 DEF CreateIntent
  <2> DEFINE record == [goal |-> g, status |-> status, cooling |-> FALSE, turn |-> FALSE]
  <2>2. record \in IntentRecord
    BY DEF IntentRecord, Status
  <2>3. \A j \in Intent : intents'[j] = IF j = i THEN record ELSE intents[j]
    BY <1>0, <2>1
  <2>4. intents' \in [Intent -> IntentRecord \cup {NoIntent}]
    BY <1>0, <2>1, <2>2
  <2> HIDE DEF record
  <2>5. QED BY <1>3, <2>2, <2>3, <2>4 DEF CreateIntent, Changed
<1>4. ASSUME NEW i \in Intent,
             DeleteIntent(i) \/ PauseIntent(i) \/ ResumeIntent(i) \/ CooldownEnds(i)
      PROVE  intents' \in [Intent -> IntentRecord \cup {NoIntent}] /\ \A j \in Intent : Kept(j)
  <2>1. NoIntent.status = "unused" /\ "unused" \notin Open \cup {"paused"}
    BY DEF NoIntent, Open, Status
  <2>2. CASE DeleteIntent(i)
    BY <1>2, <2>2 DEF DeleteIntent, Changed
  <2>3. CASE PauseIntent(i)
    BY <1>2, <2>1, <2>3 DEF PauseIntent, Changed
  <2>4. CASE ResumeIntent(i)
    BY <1>2, <2>1, <2>4 DEF ResumeIntent, Changed
  <2>5. CASE CooldownEnds(i)
    BY <1>2, <2>5 DEF CooldownEnds, Changed
  <2>6. QED BY <1>4, <2>2, <2>3, <2>4, <2>5
<1>5. ASSUME MonitorRound
      PROVE  intents' \in [Intent -> IntentRecord \cup {NoIntent}] /\ \A i \in Intent : Kept(i)
  <2>1. intents' \in [Intent -> UNION {Checked(intents[i]) : i \in Intent}]
        /\ \A i \in Intent : intents'[i] \in Checked(intents[i])
    BY <1>5 DEF MonitorRound
  <2>2. ASSUME NEW i \in Intent
        PROVE  intents'[i] \in IntentRecord \cup {NoIntent} /\ Kept(i)
    <3>1. CASE intents[i] = NoIntent
      <4>1. NoIntent.status \notin Open
        BY DEF NoIntent, Open, Status
      <4>2. Checked(NoIntent) = {NoIntent}
        BY <4>1 DEF Checked
      <4>3. QED BY <2>1, <3>1, <4>2
    <3>2. CASE intents[i] # NoIntent
      BY <1>0, <2>1, <3>2, CheckedRecord DEF Changed
    <3>3. QED BY <3>1, <3>2
  <2> HIDE DEF Kept
  <2>3. QED BY <2>1, <2>2
<1>6. \/ /\ \A i \in Intent : Kept(i)
         /\ intents' \in [Intent -> IntentRecord \cup {NoIntent}]
      \/ \E i \in Intent : /\ intents[i] = NoIntent
                           /\ \A j \in Intent \ {i} : Kept(j)
                           /\ intents' \in [Intent -> IntentRecord \cup {NoIntent}]
  <2> HIDE DEF Kept
  <2>1. CASE UNCHANGED intents
    BY <1>1, <2>1
  <2>2. CASE IntentNext
    BY <1>1, <1>3, <1>4, <1>5, <2>2 DEF IntentNext, Telemetry
  <2>3. QED BY <2>1, <2>2 DEF ControlNext, controlVars, intentVars
<1>7. \A i \in Intent : intents[i] # NoIntent => Changed(intents[i], intents'[i])
  BY <1>6
<1>8. QED BY <1>6, <1>7 DEF IntentTypeOK

LEMMA IntentsTyped == ControlSpec => []IntentTypeOK
<1>1. ControlInit => IntentTypeOK
  BY DEF ControlInit, IntentInit, IntentTypeOK
<1>2. IntentTypeOK /\ [ControlNext]_controlVars => IntentTypeOK'
  BY IntentStep
<1>3. QED BY <1>1, <1>2, PTL DEF ControlSpec

\* No round of the monitor and no request brings a deleted intent back, and a
\* paused one waits for its own resumption or deletion.
THEOREM ClosedIntents == ControlSpec => ClosedIntentsAreLeftAlone
<1>1. ASSUME IntentTypeOK, [ControlNext]_controlVars, NEW i \in Intent
      PROVE  /\ intents[i].status = "deleted" => intents'[i].status = "deleted"
             /\ intents[i].status = "paused" =>
                   intents'[i].status \in {"paused", "active", "deleted"}
  <2>1. CASE intents[i] = NoIntent
    BY <2>1 DEF NoIntent
  <2>2. CASE intents[i] # NoIntent /\ intents[i].status \in {"deleted", "paused"}
    <3>1. intents[i] \in IntentRecord
      BY <1>1, <2>2 DEF IntentTypeOK
    <3>2. \A f \in Checked(intents[i]) : f = intents[i]
      BY <2>2, <3>1, CheckedRecord DEF Open
    <3>3. Changed(intents[i], intents'[i])
      BY <1>1, <2>2, IntentStep
    <3>4. QED BY <2>2, <3>1, <3>2, <3>3 DEF Changed, IntentRecord, Open
  <2>3. QED BY <2>1, <2>2
<1>2. IntentTypeOK /\ [ControlNext]_controlVars =>
        [ \A i \in Intent :
            /\ intents[i].status = "deleted" => intents'[i].status = "deleted"
            /\ intents[i].status = "paused" =>
                  intents'[i].status \in {"paused", "active", "deleted"} ]_controlVars
  BY <1>1
<1>3. QED BY <1>2, IntentsTyped, PTL DEF ControlSpec, ClosedIntentsAreLeftAlone

\* The rules and validations behave under the intents as on their own.
THEOREM ControlledRules == ControlSpec => Spec
<1>1. ControlInit => Init
  BY DEF ControlInit
<1>2. [ControlNext]_controlVars => [Next]_vars
  BY DEF ControlNext, controlVars
<1>3. QED BY <1>1, <1>2, PTL DEF ControlSpec, Spec

=============================================================================
