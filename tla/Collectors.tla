----------------------------- MODULE Collectors -----------------------------
(***************************************************************************)
(* The collectors of server/collectors: from what a link's surroundings    *)
(* answer to one poll to the sample it yields, and the health that         *)
(* server/lstm_engine.py forecasts from samples.                           *)
(*                                                                         *)
(* A sample is what is measured of latency and jitter (ms) and loss        *)
(* (tenths of a percent).  Bandwidth is left out (module CounterReaders    *)
(* has it), and so are the cached radio metrics, which nothing reads.      *)
(***************************************************************************)
EXTENDS Integers, Sequences

LOCAL INSTANCE FiniteSetsExt

Sample(latency, jitter, loss) == [latency |-> latency, jitter |-> jitter, loss |-> loss]

\* What a source answers besides a measurement, each a sample that none makes:
\* it reports that every packet was lost, it answers nothing that can be read,
\* or asking it raises.
Lost == Sample(-1, 0, 0)
Silent == Sample(-2, 0, 0)
Broken == Sample(-3, 0, 0)

\* The latency of no answer is 0, which every collector raises to its floor.
AllLost == Sample(1, 0, 1000)
Untouched == Sample(1, 0, 0)

\* An answer may give the rest without the loss: no line with a percentage, no
\* count of answers, no drop rates.  Every collector takes that for no loss.
Unread == -1
WithLoss(answer) == IF answer.loss = Unread THEN [answer EXCEPT !.loss = 0] ELSE answer

\* Faulty variant: a missing summary line counts as no loss.
RunPingUnread(ping) ==
    CASE ping = Lost -> AllLost [] ping = Silent -> Untouched [] OTHER -> WithLoss(ping)

\* Without a single answer the loss is 100 %, whatever the output says.
RunPing(ping) == IF ping \in {Lost, Silent} THEN AllLost ELSE WithLoss(ping)

\* The fiber router by SNMP: an unreadable number raises, a missing RTT (or one
\* of 0) falls back to ping; without the number sent or received nothing is
\* lost.
FiberSnmp(router, ping) ==
    IF router \in {Lost, Silent} THEN RunPing(ping) ELSE WithLoss(router)

\* By gNMI: it gives the bandwidth only, and its errors are caught.
FiberGnmi(router, ping) == RunPing(ping)

\* The Starlink dish, by HTTP and then by gRPC; without a latency above zero
\* the link is pinged, and without drop rates nothing is lost.
Starlink(dish, ping) ==
    IF dish \in {Lost, Silent, Broken} THEN RunPing(ping) ELSE WithLoss(dish)

\* Traditional satellites, and a 5G router: the modem or the radio is asked,
\* and what it says is not used.
Vsat(modem, ping) == RunPing(ping)
Cpe(radio, ping) == RunPing(ping)

\* The phone pings; what cannot be read of its output counts as no loss.
Android(phone, ping) ==
    CASE phone = Broken -> RunPing(ping)
      [] phone = Lost -> AllLost
      [] phone = Silent -> Untouched
      [] OTHER -> WithLoss(phone)

\* Errors that a cable modem has counted are a fifth of the loss.
ModemLoss == 50
Broadband(modem, ping) ==
    LET pinged == RunPing(ping)
    IN  IF pinged = Broken \/ modem \in {Lost, Silent, Broken}
        THEN pinged
        ELSE [pinged EXCEPT !.loss = (8 * @ + 2 * ModemLoss) \div 10]

\* The laptop's own adapters.
Ethernet(adapter, ping) == RunPing(ping)
WiFi(adapter, ping) == RunPing(ping)

CollectorKind == {"snmp", "gnmi", "starlink", "vsat", "cpe", "android", "broadband", "ethernet",
                  "wifi", "ping"}

Collected(kind, own, ping) ==
    CASE kind = "snmp" -> FiberSnmp(own, ping)
      [] kind = "gnmi" -> FiberGnmi(own, ping)
      [] kind = "starlink" -> Starlink(own, ping)
      [] kind = "vsat" -> Vsat(own, ping)
      [] kind = "cpe" -> Cpe(own, ping)
      [] kind = "android" -> Android(own, ping)
      [] kind = "broadband" -> Broadband(own, ping)
      [] kind = "ethernet" -> Ethernet(own, ping)
      [] kind = "wifi" -> WiFi(own, ping)
      [] kind = "ping" -> RunPing(ping)

\* Some packet of the poll has come back, to a source whose answer is used.
Heard(kind, own, ping) ==
    LET answered(a) == a \notin {Lost, Silent, Broken}
    IN  CASE kind \in {"snmp", "starlink"} -> answered(own) \/ answered(ping)
          [] kind = "android" -> answered(own) \/ (own = Broken /\ answered(ping))
          [] OTHER -> answered(ping)

-----------------------------------------------------------------------------
\* Health, in tenths of a point out of 100, from a forecast and a confidence
\* in percent.

Clamp(low, high, x) == IF x < low THEN low ELSE IF x > high THEN high ELSE x
Score(x, zero, span) == Clamp(0, 1000, ((zero - x) * 1000) \div span)

\* Faulty variant: the confidence does not count.
ComputeHealthUnweighted(forecast, confidence) ==
    (4 * Score(forecast.latency, 200, 170)
        + 3 * Score(forecast.jitter, 50, 45)
        + 3 * Score(forecast.loss, 50, 49)) \div 10

ComputeHealth(forecast, confidence) ==
    ((4 * Score(forecast.latency, 200, 170)
        + 3 * Score(forecast.jitter, 50, 45)
        + 3 * Score(forecast.loss, 50, 49)) * (100 + confidence)) \div 2000

\* The mean of the 30 values that continue a trend, each at least `floor`.
\* Doubled terms keep the halves; the noise the code adds is left out.
Horizon == 30
Continued(points, value(_), floor) ==
    LET n == Len(points)
        mean == MapThenSumSet(LAMBDA i : value(points[i]), 1..n)
        trend == value(points[n]) - value(points[1])
        At(i) == LET v == (mean + trend * i) \div n IN IF v < floor THEN floor ELSE v
    IN  IF trend = 0 THEN At(0) ELSE MapThenSumSet(At, 0..Horizon - 1) \div Horizon

Abs(x) == IF x < 0 THEN -x ELSE x

PredictHeuristic(points) ==
    LET n == Len(points)
        trend == points[n].latency - points[1].latency
        confidence == Clamp(30, 95, 100 - (10 * Abs(trend)) \div n)
        forecast == Sample(Continued(points, LAMBDA p : p.latency, 1),
                           Continued(points, LAMBDA p : p.jitter, 0),
                           Continued(points, LAMBDA p : p.loss, 0))
    IN  [health |-> ComputeHealth(forecast, confidence), confidence |-> confidence]

=============================================================================
