----------------------------- MODULE Collection -----------------------------
(***************************************************************************)
(* The loops that fill server/state.py: live_collection_loop of            *)
(* server/collector.py (and simulation_loop of server/simulator.py, which  *)
(* samples, steers and corrects in the same way), and prediction_loop of   *)
(* server/lstm_engine.py without PyTorch.                                  *)
(*                                                                         *)
(* A round of either loop changes the state without an await, so it is one *)
(* step.  Averages of the two modes, which only the dashboard shows, are   *)
(* left out; which links the rules divert traffic from is a constant here. *)
(***************************************************************************)
EXTENDS Collectors, FiniteSets

LOCAL INSTANCE TLC

CONSTANTS
    Link,           \* active_links
    Kind,           \* the collector of each link; "replay" for recorded rows
    Measured,       \* samples that sources measure, perhaps but for the loss
    Rows,           \* the recorded rows of a replayed link
    Base,           \* LINK_PROFILES: the ordinary sample of each link
    Diverted,       \* links from which an active rule diverts traffic
    MaxPoints,      \* maxlen of the telemetry deques (300 in the code)
    MinPoints,      \* points that a prediction needs (30)
    Recent          \* points that it is made from (20)

NoLink == "no link"

ASSUME LinkAssumption == Cardinality(Link) > 1 /\ NoLink \notin Link
ASSUME SourcesAssumption ==
    /\ Kind \in [Link -> CollectorKind \cup {"replay"}]
    /\ Measured \subseteq [latency : Nat, jitter : Nat, loss : 0..1000 \cup {Unread}]
ASSUME PointsAssumption ==
    /\ MaxPoints \in Nat
    /\ MinPoints \in 1..MaxPoints
    /\ Recent \in Nat \ {0}

VARIABLES
    telemetry,      \* state.telemetry: the samples of each link, in order
    effective,      \* state.effective_telemetry
    lastPoint,      \* _last_point of each collector
    row,            \* _index of each replay
    brownout,       \* state.brownout_active
    predictions,    \* state.predictions
    lstmEnabled,    \* state.lstm_enabled
    shifts,         \* the events that the last round put in steering_history
    collecting,     \* the collection task has not ended
    silent          \* history: links whose last poll that did not raise was one
                    \* to which nothing answered

collectionVars == <<telemetry, effective, lastPoint, row, brownout, predictions,
                    lstmEnabled, shifts, collecting, silent>>

NoPoint == Sample(-4, 0, 0)
NoPrediction == [health |-> -1, confidence |-> 0]
Answers == Measured \cup {Lost, Silent, Broken}

CollectionInit ==
    /\ telemetry = [l \in Link |-> <<>>]
    /\ effective = [l \in Link |-> <<>>]
    /\ lastPoint = [l \in Link |-> NoPoint]
    /\ row = [l \in Link |-> 1]
    /\ brownout = [l \in Link |-> FALSE]
    /\ predictions = [l \in Link |-> NoPrediction]
    /\ lstmEnabled = FALSE
    /\ shifts = {}
    /\ collecting = TRUE
    /\ silent = {}

-----------------------------------------------------------------------------
\* What a poll of a link may bring, and whether anything answered.
AllPolls ==
    [l \in {k \in Link : Kind[k] # "replay"} |->
        {[point |-> Collected(Kind[l], own, ping), heard |-> Heard(Kind[l], own, ping)] :
            own, ping \in Answers}]
Replayed(l) == IF Rows = <<>> THEN Sample(0, 0, 0) ELSE Rows[row[l]]
Polled(l) ==
    IF Kind[l] = "replay" THEN {[point |-> Replayed(l), heard |-> TRUE]} ELSE AllPolls[l]
Polls ==
    {p \in [Link -> UNION {Polled(l) : l \in Link}] : \A l \in Link : p[l] \in Polled(l)}

\* Faulty variant: a failed poll is a sample of nothing.
SafeCollectBlank(point, last) == IF point = Broken THEN Untouched ELSE point

\* A poll that raises is answered with the collector's last sample.
SafeCollect(point, last) == IF point = Broken THEN last ELSE point

Pushed(buffer, point) ==
    LET longer == Append(buffer, point)
    IN  IF Len(longer) > MaxPoints THEN Tail(longer) ELSE longer

Advanced(l) == IF Rows = <<>> THEN row[l] ELSE (row[l] % Len(Rows)) + 1

\* Latency above three times, or loss above ten times and a percent more than
\* the link's base.
DetectBrownout(l, point) ==
    \/ point.latency > 3 * Base[l].latency
    \/ point.loss > 10 * Base[l].loss + 10

Predicted(l) == predictions[l] # NoPrediction

\* What users are taken to see: nothing of a brownout from which rules or,
\* as the prediction is poor, the LSTM lead away.
ComputeEffective(l, point) ==
    LET escapes == \/ l \in Diverted
                   \/ lstmEnabled /\ Predicted(l) /\ predictions[l].health < 600
    IN  IF DetectBrownout(l, point) /\ escapes THEN Base[l] ELSE point

\* Faulty variant: the link itself is not excluded.
BestAlternativesOfAll(l) == Link

\* The healthiest of the other links, any of them if none has a prediction.
BestAlternatives(l) ==
    LET others == Link \ {l}
        known == {k \in others : Predicted(k)}
    IN  IF known = {} THEN others
        ELSE {k \in known : \A j \in known : predictions[k].health >= predictions[j].health}

\* A prediction (with the LSTM) or a sample (without) that is acted upon.
Steers(l, point) ==
    IF lstmEnabled
    THEN Predicted(l) /\ predictions[l].health < 500 /\ predictions[l].confidence > 60
    ELSE point.latency > 80 \/ point.loss > 20

Action == IF lstmEnabled THEN "PREEMPTIVE_SHIFT" ELSE "EMERGENCY_FAILOVER"

\* The events a round may record: one for each link that is steered.
Events(points) ==
    LET steered == {l \in DOMAIN points : points[l] # NoPoint /\ Steers(l, points[l])}
    IN  {{[action |-> Action, source |-> l, target |-> target[l]] : l \in steered} :
            target \in {f \in [steered -> Link] : \A l \in steered : f[l] \in BestAlternatives(l)}}

\* The links of a round that come through it, with what their polls bring; at
\* `failed` (NoLink if none) writing the CSV file fails, which ends the task:
\* its sample has been appended, but no effective one.
Collect(done, failed, polls) ==
    LET points == [l \in Link |-> SafeCollect(polls[l].point, lastPoint[l])]
        fresh(l) == l \in done /\ points[l] # NoPoint
    IN  /\ collecting
        /\ UNCHANGED <<predictions, lstmEnabled>>
        /\ lastPoint' = points
        /\ row' = [l \in Link |-> IF Kind[l] = "replay" THEN Advanced(l) ELSE row[l]]
        /\ telemetry' = [l \in Link |->
              IF fresh(l) \/ (l = failed /\ points[l] # NoPoint)
              THEN Pushed(telemetry[l], points[l]) ELSE telemetry[l]]
        /\ effective' = [l \in Link |->
              IF fresh(l) THEN Pushed(effective[l], ComputeEffective(l, points[l]))
              ELSE effective[l]]
        /\ brownout' = [l \in Link |->
              IF fresh(l) THEN DetectBrownout(l, points[l]) ELSE brownout[l]]
        /\ shifts' \in Events([l \in done |-> points[l]])
        /\ collecting' = (failed = NoLink)
        /\ silent' = {l \in Link : IF polls[l].point = Broken THEN l \in silent
                                   ELSE ~polls[l].heard}

CollectionRound == \E polls \in Polls : Collect(Link, NoLink, polls)

CollectionFails ==
    \E polls \in Polls, failed \in Link :
        \E done \in SUBSET (Link \ {failed}) :
            /\ SafeCollect(polls[failed].point, lastPoint[failed]) # NoPoint
            /\ Collect(done, failed, polls)

\* What is forecast from each sequence of samples there may be; as a function
\* merged with the empty one, which TLC computes once.
Samples ==
    {Sample(0, 0, 0)} \cup {Rows[i] : i \in DOMAIN Rows}
        \cup UNION {{p.point : p \in AllPolls[l]} \ {Broken} : l \in DOMAIN AllPolls}
Forecasts ==
    [points \in UNION {[1..n -> Samples] : n \in 1..Recent} |-> PredictHeuristic(points)]
        @@ <<>>

\* The prediction of a link stays as it is while there are too few points.
PredictLink(l) ==
    IF Len(telemetry[l]) < MinPoints THEN predictions[l]
    ELSE LET n == Len(telemetry[l])
         IN  Forecasts[SubSeq(telemetry[l], IF n > Recent THEN n - Recent + 1 ELSE 1, n)]

PredictionRound ==
    /\ UNCHANGED <<telemetry, effective, lastPoint, row, brownout, lstmEnabled, shifts,
                   collecting, silent>>
    /\ predictions' = [l \in Link |-> PredictLink(l)]

ToggleLstm ==
    /\ lstmEnabled' = ~lstmEnabled
    /\ UNCHANGED <<telemetry, effective, lastPoint, row, brownout, predictions, shifts,
                   collecting, silent>>

CollectionNext == CollectionRound \/ CollectionFails \/ PredictionRound \/ ToggleLstm

-----------------------------------------------------------------------------
\* Properties.

\* From a poll to which nothing answers until one that is answered, whichever
\* polls between them raise, the newest sample of a link is one of a loss of at
\* least four fifths; only a phone that prints nothing is not seen to be silent.
\* (Polls that raise after an answer repeat that one, which may be without loss,
\* for as long as they raise.)
SilenceShows ==
    collecting =>
        \A l \in {k \in silent : Kind[k] # "android"} :
            telemetry[l] # <<>> /\ telemetry[l][Len(telemetry[l])].loss >= 800

\* Without the LSTM, the round that finds a link dead, with no packet coming
\* back, takes its traffic to some other link.
DeadLinksAreLeft ==
    [][ ~lstmEnabled /\ collecting' =>
          \A l \in Link :
              lastPoint'[l] = AllLost /\ lastPoint[l] # AllLost =>
                  \E event \in shifts' : event.source = l /\ event.target # l
      ]_collectionVars

=============================================================================
