-------------------------- MODULE TrafficSteering --------------------------
(***************************************************************************)
(* The services around Redis, with the twin of module DigitalTwin:         *)
(* telemetry-ingestion polls the devices of its inventory, the prediction  *)
(* engine stores a prediction of a link, traffic-steering (steering_engine,*)
(* flow_manager, the OpenDaylight client) reads them link by link and      *)
(* moves traffic classes, one REST call after the other.                   *)
(*                                                                         *)
(* The prediction engine takes the latest WINDOW entries of one stream for *)
(* all links and needs WINDOW of the link among them, so that it predicts  *)
(* only a link that was polled alone; its predictions stay for ever.  A    *)
(* device is named by its link, as an inventory without link_ids does.     *)
(* The base rules of the controller are not part of `flows'.               *)
(***************************************************************************)
EXTENDS DigitalTwin, Sequences

CONSTANTS
    Link,
    Moved,          \* the classes that each kind of shift moves, in order
    Prediction,     \* what the engine may predict: score and "confidence > 0.7"
    Inventories,    \* the devices telemetry is started with, start after start
    MaxPredictions  \* bound: predictions stored

ASSUME SteeringAssumption ==
    /\ Moved \in [{"emergency", "preemptive"} -> Seq(STRING) \ {<<>>}]
    /\ Prediction \subseteq [score : Nat, sure : BOOLEAN]
    /\ Inventories \in Seq(SUBSET Link)
    /\ MaxPredictions \in Nat

VARIABLES
    inventory,      \* the devices that are polled
    activeLinks,    \* the set active_links in Redis: links are only added
    recent,         \* the links of the latest entries, {} while they are too few
    predictions,    \* prediction:<link>
    toRead, seen,   \* a round of evaluate: links to be read, what has been read
    todo,           \* its decisions that are not carried out yet
    phase,          \* "idle", "reading" links, or to "put" or "delete" flows
    decision,       \* the decision that is carried out
    rest,           \* the classes whose call is still to come
    flows,          \* of each class, the links it has a flow to
    restarts, predicted     \* bookkeeping: starts of telemetry, MaxPredictions

telemetryVars == <<inventory, activeLinks, recent, restarts>>
predictionVars == <<predictions, predicted>>
readVars == <<toRead, seen>>
callVars == <<decision, rest>>
steeringVars == <<readVars, todo, phase, callVars, flows>>
vars == <<twinVars, troubles, telemetryVars, predictionVars, steeringVars>>

NoDecision == [kind |-> "none", from |-> "none", to |-> "none"]
NoPrediction == [score |-> 0, sure |-> FALSE, there |-> FALSE]
Stored(p) == [score |-> p.score, sure |-> p.sure, there |-> TRUE]
Class == UNION {{Moved[k][i] : i \in DOMAIN Moved[k]} : k \in DOMAIN Moved}
CriticalThreshold == 30
WarningThreshold == 50

Init ==
    /\ DigitalTwinInit
    /\ inventory = {} /\ activeLinks = {} /\ recent = {}
    /\ predictions = [l \in Link |-> NoPrediction]
    /\ toRead = {} /\ seen = [l \in Link |-> NoPrediction] /\ todo = {}
    /\ phase = "idle" /\ decision = NoDecision /\ rest = <<>>
    /\ flows = [c \in Class |-> {}]
    /\ restarts = 0 /\ predicted = 0

-----------------------------------------------------------------------------
\* Telemetry and predictions.

StartTelemetry ==
    /\ restarts < Len(Inventories)
    /\ restarts' = restarts + 1
    /\ inventory' = Inventories[restarts']
    /\ activeLinks' = activeLinks \cup inventory'
    /\ UNCHANGED <<twinVars, troubles, recent, predictionVars, steeringVars>>

\* So many polls that some of the older entries are no longer the latest.
Poll ==
    /\ inventory # {}
    /\ \E links \in SUBSET recent : recent' = inventory \cup links
    /\ UNCHANGED <<twinVars, troubles, inventory, activeLinks, restarts, predictionVars, steeringVars>>

Predict(l) ==
    /\ predicted < MaxPredictions
    /\ l \in activeLinks /\ recent = {l}
    /\ \E p \in Prediction : predictions' = [predictions EXCEPT ![l] = Stored(p)]
    /\ predicted' = predicted + 1
    /\ UNCHANGED <<twinVars, troubles, telemetryVars, steeringVars>>

-----------------------------------------------------------------------------
\* A round of FlowManager.run: evaluate, then execute its decisions.

Evaluate ==
    /\ phase = "idle" /\ todo = {}
    /\ phase' = "reading" /\ toRead' = activeLinks
    /\ seen' = [l \in Link |-> NoPrediction]
    /\ UNCHANGED <<twinVars, telemetryVars, predictionVars, todo, callVars, flows, troubles>>

ReadPrediction(l) ==
    /\ phase = "reading" /\ l \in toRead
    /\ toRead' = toRead \ {l}
    /\ seen' = [seen EXCEPT ![l] = predictions[l]]
    /\ UNCHANGED <<twinVars, telemetryVars, predictionVars, todo, phase, callVars, flows, troubles>>

Best == {l \in Link : seen[l].there /\ \A m \in Link : seen[m].score <= seen[l].score}

Shift(kind, from, to) == [kind |-> kind, from |-> from, to |-> to]

IsCritical(p) == p.there /\ p.score < CriticalThreshold
IsWarning(p) == p.there /\ ~IsCritical(p) /\ p.score < WarningThreshold /\ p.sure

\* Faulty variant: an emergency too must be predicted with confidence.
DecisionsIfSure(best) ==
    {Shift("emergency", l, best) : l \in {m \in Link \ {best} : IsCritical(seen[m]) /\ seen[m].sure}}
    \cup {Shift("preemptive", l, best) : l \in {m \in Link \ {best} : IsWarning(seen[m])}}

Decisions(best) ==
    {Shift("emergency", l, best) : l \in {m \in Link \ {best} : IsCritical(seen[m])}}
    \cup {Shift("preemptive", l, best) : l \in {m \in Link \ {best} : IsWarning(seen[m])}}

\* Links of the same score come in the order in which Redis lists them: any.
Decide ==
    /\ phase = "reading" /\ toRead = {}
    /\ phase' = "idle"
    /\ \/ Best = {} /\ UNCHANGED todo
       \/ \E best \in Best : todo' = Decisions(best)
    /\ UNCHANGED <<twinVars, telemetryVars, predictionVars, readVars, callVars, flows, troubles>>

\* A preemptive shift first asks the twin, and does not wait for the answer.
Execute(d) ==
    /\ phase = "idle" /\ d \in todo
    /\ todo' = todo \ {d}
    /\ phase' = "put" /\ decision' = d /\ rest' = Moved[d.kind]
    /\ requests' = IF d.kind = "preemptive" THEN Submitted ELSE requests
    /\ UNCHANGED <<malformed, twinLoop, reports, refused, telemetryVars, predictionVars,
                   readVars, flows, troubles>>

\* The call for the first class of `rest' is answered; after the last one the
\* client goes on to delete, or has finished.
Advance(after) ==
    /\ rest' = IF Tail(rest) # <<>> THEN Tail(rest)
               ELSE IF after = "delete" THEN Moved[decision.kind] ELSE <<>>
    /\ phase' = IF Tail(rest) # <<>> THEN phase ELSE after
    /\ decision' = IF Tail(rest) = <<>> /\ after = "idle" THEN NoDecision ELSE decision
    /\ UNCHANGED <<todo, troubles>>

Abandoned ==
    /\ Trouble
    /\ phase' = "idle" /\ decision' = NoDecision /\ rest' = <<>>

With(c, l) == [flows EXCEPT ![c] = @ \cup {l}]
Without(c, l) == [flows EXCEPT ![c] = @ \ {l}]

\* Faulty variant: a flow that is refused does not end the installation.
PutFlowAndGoOn ==
    /\ phase = "put"
    /\ LET c == Head(rest) IN
        /\ flows' \in {With(c, decision.to), flows}
        /\ Advance("delete")
    /\ UNCHANGED <<twinVars, telemetryVars, predictionVars, readVars>>

\* The controller takes the flow, or refuses it: the shift has failed and the
\* flows put so far stay; or the call raises, applied or not, and the rest of
\* the round's decisions is dropped as well.
PutFlow ==
    /\ phase = "put"
    /\ LET c == Head(rest) IN
        \/ flows' = With(c, decision.to) /\ Advance("delete")
        \/ Abandoned /\ UNCHANGED <<flows, todo>>
        \/ Abandoned /\ todo' = {} /\ flows' \in {With(c, decision.to), flows}
    /\ UNCHANGED <<twinVars, telemetryVars, predictionVars, readVars>>

\* No answer to a deletion is looked at: one that is refused passes for done.
DeleteFlow ==
    /\ phase = "delete"
    /\ LET c == Head(rest) IN
        \/ flows' = Without(c, decision.from) /\ Advance("idle")
        \/ /\ Trouble
           /\ rest' = Tail(rest)
           /\ phase' = IF Tail(rest) = <<>> THEN "idle" ELSE phase
           /\ decision' = IF Tail(rest) = <<>> THEN NoDecision ELSE decision
           /\ UNCHANGED <<flows, todo>>
        \/ Abandoned /\ todo' = {} /\ flows' \in {Without(c, decision.from), flows}
    /\ UNCHANGED <<twinVars, telemetryVars, predictionVars, readVars>>

-----------------------------------------------------------------------------

SteeringLoop ==
    \/ Evaluate \/ Decide \/ PutFlow \/ DeleteFlow
    \/ \E l \in Link : ReadPrediction(l)
    \/ \E d \in todo : Execute(d)

Twin(A) == A /\ UNCHANGED <<telemetryVars, predictionVars, steeringVars>>

Next ==
    \/ SteeringLoop
    \/ Twin(TwinLoop) \/ Twin(ValidateInSandbox) \/ Twin(ForeignRequest) \/ Twin(TwinCrash)
    \/ StartTelemetry \/ Poll
    \/ \E l \in Link : Predict(l)

\* Both services run their loops as long as they live; nothing is assumed of
\* telemetry, of the predictions or of the gateway.
Fairness == WF_vars(SteeringLoop) /\ WF_vars(Twin(TwinLoop))

Spec == Init /\ [][Next]_vars /\ Fairness

-----------------------------------------------------------------------------

TypeOK ==
    /\ requests \in 0..MaxRequests /\ lastId \in 0..requests
    /\ reports \in [Followed -> Verdicts \cup {NoReport}]
    /\ flows \in [Class -> SUBSET Link]
    /\ \A d \in todo : d.from # d.to

\* A class that has a flow is never without one, whatever call fails at
\* whatever point of a shift: make before break.
MakeBeforeBreak ==
    [][\A c \in Class : flows[c] # {} => flows'[c] # {}]_vars

IsSick(l) ==
    /\ l \in activeLinks /\ IsCritical(predictions[l])
    /\ \E m \in activeLinks : predictions[m].score > predictions[l].score

\* A link whose stored prediction stays critical, with a better link stored,
\* is left in the end by every class, whichever calls went wrong before.
SickLinksAreLeft ==
    \A l \in Link : <>[]IsSick(l) => <>[](\A c \in Class : l \notin flows[c])

=============================================================================
