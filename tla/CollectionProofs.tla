-------------------------- MODULE CollectionProofs --------------------------
(***************************************************************************)
(* What is proved of the collectors, the loops that fill server/state.py   *)
(* and the scoreboard: what the readers of counters report, for counters   *)
(* of any width; and for any links, collectors, samples and clients, that  *)
(* silence shows as loss, that links found dead are left, and that open    *)
(* sockets are listed.                                                     *)
(***************************************************************************)
EXTENDS Scoreboard, CounterReaders, SequenceTheorems, TLAPS

-----------------------------------------------------------------------------
(* The readers of counters.  The invariant says what a reader's last poll still
   means: as long as it was complete and the device has not restarted, each
   counter is what was read then, advanced by what has been added since; and
   what was read as a float is the number that the device had. *)

PollStillTells ==
    sound =>
        /\ prev # NoPoll
        /\ \A d \in Read : /\ prev.seen[d] \in Value
                           /\ counter[d] = Advance(prev.seen[d], added[d])
                           /\ kind = "stream" => prev.seen[d] <= Exact

CounterInv == CountersTypeOK /\ PollStillTells /\ ReportsMissAtMostAWrap

-----------------------------------------------------------------------------

\* A counter that advances by less than its width stays below it.
LEMMA AdvanceIsValue == ASSUME NEW c \in Value, NEW n \in Value
                        PROVE  Advance(c, n) \in Value
BY WidthAssumption DEF Advance, Value

\* Advancing twice is advancing by the sum, as long as the sum is below the
\* width: this is where a second wrap would be lost.
LEMMA AdvanceAdds == ASSUME NEW c \in Value, NEW m \in Value, NEW n \in Value, m + n < Width
                     PROVE  Advance(Advance(c, m), n) = Advance(c, m + n)
BY WidthAssumption DEF Advance, Value

\* One difference, unwrapped, is what was added.
LEMMA UnwrappingRecovers == ASSUME NEW c \in Value, NEW n \in Value
                            PROVE  Unwrapped(Advance(c, n) - c) = n
BY WidthAssumption DEF Advance, Unwrapped, Value

\* The sum of two differences, unwrapped once, is the sum of what was added, or
\* a width less; where that is negative, what was added is less than a width.
LEMMA SumMissesAtMostAWrap ==
    ASSUME NEW a \in Value, NEW b \in Value, NEW m \in Value, NEW n \in Value,
           NEW total \in Int, total = Unwrapped((Advance(a, m) - a) + (Advance(b, n) - b))
    PROVE  \/ total = m + n
           \/ total = (m + n) - Width
BY WidthAssumption DEF Advance, Unwrapped, Value

\* A float of a number between -Width and Width is one too, with its sign.
LEMMA FloatStays == ASSUME NEW n \in (-Width)..Width
                    PROVE  /\ Float(n) \in (-Width)..Width
                           /\ n >= 0 => Float(n) >= 0
<1>1. CASE n < 0
  <2>1. -n \in 0..Width /\ -n \in 0..(2 * Width)
    BY <1>1, WidthAssumption
  <2>2. Rounded[-n] \in 0..(2 * Width) /\ Rounded[-n] <= Width
    BY <2>1, RoundedAssumption
  <2>3. QED BY <1>1, <2>2, WidthAssumption DEF Float
<1>2. CASE n >= 0
  <2>1. n \in 0..Width /\ n \in 0..(2 * Width)
    BY <1>2, WidthAssumption
  <2>2. Rounded[n] \in 0..(2 * Width) /\ Rounded[n] <= Width
    BY <2>1, RoundedAssumption
  <2>3. QED BY <1>2, <2>2, WidthAssumption DEF Float
<1>3. QED BY <1>1, <1>2, WidthAssumption

\* Small numbers are floats.
LEMMA SmallIsFloat == ASSUME NEW n \in (-Exact)..Exact
                      PROVE  Float(n) = n
<1>1. CASE n < 0
  BY <1>1, ExactAssumption, WidthAssumption DEF Float
<1>2. CASE n >= 0
  BY <1>2, ExactAssumption, WidthAssumption DEF Float
<1>3. QED BY <1>1, <1>2, ExactAssumption, WidthAssumption

-----------------------------------------------------------------------------

LEMMA CounterInitInv == CountersInit => CounterInv
<1> SUFFICES ASSUME CountersInit PROVE CounterInv
  OBVIOUS
<1>1. [d \in Direction |-> 0] \in [Direction -> Value]
  BY WidthAssumption DEF Value
<1>2. CountersTypeOK
  <2>1. NoReport \in Int
    BY WidthAssumption DEF NoReport
  <2>2. QED BY <1>1, <2>1 DEF CountersInit, CountersTypeOK
<1>3. sound = FALSE /\ trusted = FALSE
  BY DEF CountersInit
<1>4. QED BY <1>2, <1>3 DEF CounterInv, PollStillTells, ReportsMissAtMostAWrap

LEMMA CountInv == ASSUME CounterInv, NEW d \in Direction, NEW n \in Value, Count(d, n)
                  PROVE  CounterInv'
<1>1. /\ added[d] \in Value /\ counter[d] \in Value /\ added[d] + n \in Value
      /\ Advance(counter[d], n) \in Value
  <2>1. added[d] \in Value /\ counter[d] \in Value
    BY DEF CounterInv, CountersTypeOK
  <2>2. added[d] + n < Width
    BY DEF Count
  <2>3. added[d] + n \in Value
    BY <2>1, <2>2, WidthAssumption DEF Value
  <2>4. QED BY <2>1, <2>3, AdvanceIsValue
<1>2. CountersTypeOK'
  BY <1>1 DEF CounterInv, CountersTypeOK, Count
<1>3. PollStillTells'
  <2> SUFFICES ASSUME sound, NEW e \in Read
               PROVE  /\ prev # NoPoll
                      /\ prev.seen[e] \in Value
                      /\ counter'[e] = Advance(prev.seen[e], added'[e])
                      /\ kind = "stream" => prev.seen[e] <= Exact
    BY DEF Count, PollStillTells, Read
  <2>1. /\ prev # NoPoll
        /\ prev.seen[e] \in Value
        /\ counter[e] = Advance(prev.seen[e], added[e])
        /\ kind = "stream" => prev.seen[e] <= Exact
    BY DEF CounterInv, PollStillTells
  <2>2. e \in Direction
    BY DEF Read, Direction
  <2>4. CASE e = d
    <3>1. counter'[e] = Advance(Advance(prev.seen[e], added[e]), n) /\ added'[e] = added[e] + n
      BY <2>1, <2>4, <2>2 DEF CounterInv, CountersTypeOK, Count
    <3>2. added[e] + n < Width
      BY <2>4 DEF Count
    <3>3. QED
      BY <3>1, <3>2, <2>1, <2>4, <1>1, AdvanceAdds
  <2>5. CASE e # d
    BY <2>1, <2>2, <2>5 DEF CounterInv, CountersTypeOK, Count
  <2>6. QED BY <2>4, <2>5
<1>4. ReportsMissAtMostAWrap'
  BY DEF CounterInv, ReportsMissAtMostAWrap, Count
<1>5. QED BY <1>2, <1>3, <1>4 DEF CounterInv

LEMMA RebootInv == CounterInv /\ Reboot => CounterInv'
<1> SUFFICES ASSUME CounterInv, Reboot PROVE CounterInv'
  OBVIOUS
<1>1. counter' \in [Direction -> Value]
  BY WidthAssumption DEF Reboot, Value
<1>2. CountersTypeOK'
  BY <1>1 DEF CounterInv, CountersTypeOK, Reboot
<1>3. sound' = FALSE
  BY DEF Reboot
<1>4. ReportsMissAtMostAWrap'
  BY DEF CounterInv, ReportsMissAtMostAWrap, Reboot
<1>5. QED BY <1>2, <1>3, <1>4 DEF CounterInv, PollStillTells

LEMMA PollInv == ASSUME CounterInv, NEW answers \in SUBSET Direction, Poll(answers)
                 PROVE  CounterInv'
<1> DEFINE seen == Seen(answers)
<1>1. /\ seen \in [Direction -> 0..Width]
      /\ Exactly => \A d \in answers : seen[d] = counter[d]
  <2>1. \A d \in Direction : counter[d] \in 0..Width /\ counter[d] \in Value
    BY WidthAssumption DEF CounterInv, CountersTypeOK, Value
  <2>2. \A d \in Direction : Rounded[counter[d]] \in 0..Width
    BY <2>1, WidthAssumption, RoundedAssumption
  <2>3. Exactly => \A d \in Direction : kind = "stream" => Rounded[counter[d]] = counter[d]
    <3> SUFFICES ASSUME Exactly, NEW d \in Direction, kind = "stream"
                 PROVE  Rounded[counter[d]] = counter[d]
      OBVIOUS
    <3>1. counter[d] <= Exact /\ counter[d] \in 0..Width
      BY <2>1 DEF Exactly
    <3>2. counter[d] \in 0..Exact
      BY <3>1, ExactAssumption, WidthAssumption
    <3>3. QED BY <3>2, ExactAssumption
  <2>4. \A d \in Direction : seen[d] = IF d \notin answers THEN 0
                                       ELSE IF kind = "stream" THEN Rounded[counter[d]]
                                       ELSE counter[d]
    BY DEF Seen
  <2>5. \A d \in Direction : seen[d] \in 0..Width
    BY <2>1, <2>2, <2>4, WidthAssumption
  <2>6. seen \in [Direction -> 0..Width]
    BY <2>5 DEF Seen
  <2>7. QED BY <2>3, <2>4, <2>6
<1>2. [d \in Direction |-> 0] \in [Direction -> Value]
  BY WidthAssumption DEF Value
<1>3. prev' = [seen |-> seen, answers |-> answers] /\ prev' # NoPoll
  BY DEF Poll, NoPoll
<1>4. ASSUME Reports(answers)
      PROVE  Amount(seen) \in Int
  <2>1. prev.seen \in [Direction -> 0..Width]
    BY <1>4 DEF CounterInv, CountersTypeOK, Reports
  <2>2. \A d \in Direction : Delta(seen, d) \in (-Width)..Width
    BY <1>1, <2>1, WidthAssumption DEF Delta
  <2>3. "in" \in Direction /\ "out" \in Direction
    BY DEF Direction
  <2>4. Unwrapped(Delta(seen, "in")) \in Int /\ Separately(seen) \in Int /\ Together(seen) \in Int
    BY <2>2, <2>3, WidthAssumption DEF Separately, Together, Unwrapped
  <2>5. \A d \in Direction : FloatDelta(seen, d) \in 0..Width
    <3> SUFFICES ASSUME NEW d \in Direction PROVE FloatDelta(seen, d) \in 0..Width
      OBVIOUS
    <3>1. Float(Delta(seen, d)) \in (-Width)..Width
      BY <2>2, FloatStays
    <3>2. Unwrapped(Float(Delta(seen, d))) \in 0..Width
      BY <3>1, WidthAssumption DEF Unwrapped
    <3>3. Unwrapped(Float(Delta(seen, d))) \in (-Width)..Width
      BY <3>2, WidthAssumption
    <3>4. /\ Float(Unwrapped(Float(Delta(seen, d)))) \in (-Width)..Width
          /\ Float(Unwrapped(Float(Delta(seen, d)))) >= 0
      BY <3>2, <3>3, FloatStays, WidthAssumption
    <3>5. QED BY <3>4, WidthAssumption DEF FloatDelta
  <2>6. FloatDelta(seen, "in") + FloatDelta(seen, "out") \in 0..(2 * Width)
    BY <2>3, <2>5, WidthAssumption
  <2>7. InFloats(seen) \in Int
    BY <2>6, RoundedAssumption, WidthAssumption DEF InFloats, Float
  <2>8. kind \in Reader
    BY DEF CounterInv, CountersTypeOK
  <2>9. QED BY <2>4, <2>7, <2>8 DEF Amount, Reader, AtLeastNone
<1>5. CountersTypeOK'
  <2>1. reported' \in Int
    BY <1>4, WidthAssumption DEF Poll, NoReport
  <2>2. added["in"] \in Nat /\ added["out"] \in Nat
    BY DEF CounterInv, CountersTypeOK, Direction, Value
  <2>3. actual' \in Nat
    BY <2>2 DEF Poll
  <2>4. sound' \in BOOLEAN /\ trusted' \in BOOLEAN
    BY DEF Poll, CounterInv, CountersTypeOK, Reports
  <2>5. QED BY <1>1, <1>2, <1>3, <2>1, <2>3, <2>4 DEF CounterInv, CountersTypeOK, Poll
<1>6. PollStillTells'
  <2> SUFFICES ASSUME sound', NEW d \in Read
               PROVE  /\ prev'.seen[d] \in Value
                      /\ counter[d] = Advance(prev'.seen[d], added'[d])
                      /\ kind = "stream" => prev'.seen[d] <= Exact
    BY <1>3 DEF Poll, PollStillTells, Read
  <2>0. answers = Read /\ Exactly /\ d \in Direction
    BY DEF Poll, Read, Direction
  <2>1. prev'.seen[d] = counter[d] /\ added'[d] = 0
    BY <1>1, <1>3, <2>0 DEF Poll
  <2>2. counter[d] \in Value
    BY <2>0 DEF CounterInv, CountersTypeOK
  <2>3. Advance(counter[d], 0) = counter[d]
    BY <2>2, WidthAssumption DEF Advance, Value
  <2>4. kind = "stream" => counter[d] <= Exact
    BY <2>0 DEF Exactly
  <2>5. QED BY <2>1, <2>2, <2>3, <2>4
<1>7. ReportsMissAtMostAWrap'
  <2> SUFFICES ASSUME trusted' PROVE ReportsMissAtMostAWrap'
    BY DEF ReportsMissAtMostAWrap
  <2>1. Reports(answers) /\ sound /\ answers = Read /\ Exactly
    BY DEF Poll
  <2>2. reported' = Amount(seen)
    BY <2>1 DEF Poll
  <2>3. added \in [Direction -> Value]
    BY DEF CounterInv, CountersTypeOK
  <2>4. \A d \in Read : seen[d] = Advance(prev.seen[d], added[d])
    BY <1>1, <2>1 DEF CounterInv, PollStillTells
  <2>5. \A d \in Read : prev.seen[d] \in Value /\ added[d] \in Value /\ seen[d] \in Value
    <3>1. \A d \in Read : d \in Direction
      BY DEF Read, Direction
    <3>2. QED BY <3>1, <2>1, <2>3, <2>4, AdvanceIsValue DEF CounterInv, PollStillTells
  <2>6. \A d \in Read : Unwrapped(Delta(seen, d)) = added[d]
    <3> SUFFICES ASSUME NEW d \in Read PROVE Unwrapped(Delta(seen, d)) = added[d]
      OBVIOUS
    <3>1. QED BY <2>4, <2>5, UnwrappingRecovers DEF Delta
  <2>7. kind' = kind /\ kind \in Reader
    BY DEF Poll, CounterInv, CountersTypeOK
  <2>8. CASE kind = "modem"
    <3>1. reported' = added["in"] /\ actual' = added["in"]
      BY <2>8, <2>2, <2>6 DEF Amount, Read, Poll
    <3>2. QED BY <3>1 DEF ReportsMissAtMostAWrap
  <2>9. CASE kind = "snmp"
    <3>1. Read = Direction
      BY <2>9 DEF Read
    <3>2. reported' = added["in"] + added["out"] /\ actual' = added["in"] + added["out"]
      BY <2>9, <2>2, <2>6, <3>1 DEF Amount, Separately, Poll, Direction
    <3>3. QED BY <3>2 DEF ReportsMissAtMostAWrap
  <2>10. CASE kind = "stream"
    <3>1. Read = Direction
      BY <2>10 DEF Read
    <3>2. actual' = added["in"] + added["out"]
      BY <2>10 DEF Poll
    <3>3. SUFFICES ASSUME actual' <= Exact PROVE reported' = actual'
      <4>1. actual' \in Int /\ Exact \in Int
        BY <3>2, <2>5, <3>1, ExactAssumption DEF Value, Direction
      <4>2. QED BY <4>1, <2>7, <2>10, <3>3 DEF ReportsMissAtMostAWrap
    <3>4. \A d \in Direction : FloatDelta(seen, d) = added[d]
      <4> SUFFICES ASSUME NEW d \in Direction PROVE FloatDelta(seen, d) = added[d]
        OBVIOUS
      <4>1. prev.seen[d] <= Exact /\ prev.seen[d] \in Value
        BY <2>1, <2>10, <3>1 DEF CounterInv, PollStillTells
      <4>2. seen[d] <= Exact /\ seen[d] \in Value
        BY <1>1, <2>1, <2>5, <2>10, <3>1 DEF Exactly
      <4>3. Delta(seen, d) \in (-Exact)..Exact
        BY <4>1, <4>2, ExactAssumption, WidthAssumption DEF Delta, Value
      <4>4. Unwrapped(Float(Delta(seen, d))) = added[d]
        BY <4>3, <2>6, <3>1, SmallIsFloat
      <4>5. added["in"] \in Nat /\ added["out"] \in Nat
        BY <2>3 DEF Direction, Value
      <4>6. added[d] \in (-Exact)..Exact
        BY <4>5, <3>2, <3>3, ExactAssumption DEF Direction
      <4>7. QED BY <4>4, <4>6, SmallIsFloat DEF FloatDelta
    <3>5. added["in"] + added["out"] \in (-Exact)..Exact
      BY <2>5, <3>1, <3>2, <3>3, ExactAssumption DEF Value, Direction
    <3>6. QED BY <3>2, <3>4, <3>5, <2>2, <2>10, SmallIsFloat DEF Amount, InFloats, Direction
  <2>11. CASE kind \in {"fiber", "gnmi"}
    <3>1. Read = Direction
      BY <2>11 DEF Read
    <3>2. /\ seen["in"] = Advance(prev.seen["in"], added["in"])
          /\ seen["out"] = Advance(prev.seen["out"], added["out"])
          /\ prev.seen["in"] \in Value /\ added["in"] \in Value /\ seen["in"] \in Value
          /\ prev.seen["out"] \in Value /\ added["out"] \in Value /\ seen["out"] \in Value
      BY <2>4, <2>5, <3>1 DEF Direction
    <3>3. actual' = added["in"] + added["out"]
      BY <2>11 DEF Poll
    <3> DEFINE total == Unwrapped(Delta(seen, "in") + Delta(seen, "out"))
    <3>4. total \in Int
      BY <3>2, WidthAssumption DEF Unwrapped, Delta, Value
    <3>5. total = added["in"] + added["out"] \/ total = (added["in"] + added["out"]) - Width
      BY <3>2, <3>4, SumMissesAtMostAWrap DEF Delta
    <3>6. reported' = IF kind = "fiber" THEN AtLeastNone(total) ELSE total
      BY <2>11, <2>2 DEF Amount, Together
    <3>7. \/ reported' = actual'
          \/ kind = "fiber" /\ reported' = AtLeastNone(actual' - Width)
          \/ kind = "gnmi" /\ reported' = actual' - Width
      <4> HIDE DEF total
      <4>1. added["in"] + added["out"] \in Nat
        BY <3>2 DEF Value
      <4>2. AtLeastNone(added["in"] + added["out"]) = added["in"] + added["out"]
        BY <4>1 DEF AtLeastNone
      <4>3. QED BY <4>2, <3>3, <3>5, <3>6, <2>11
    <3>8. QED BY <3>7, <2>7 DEF ReportsMissAtMostAWrap
  <2>12. QED BY <2>7, <2>8, <2>9, <2>10, <2>11 DEF Reader
<1>8. QED BY <1>5, <1>6, <1>7 DEF CounterInv

\* The invariant holds in every behaviour of every reader.
LEMMA CounterInvariance == CountersSpec => []CounterInv
<1>1. CounterInv /\ [CountersNext]_counterVars => CounterInv'
  <2> SUFFICES ASSUME CounterInv, [CountersNext]_counterVars PROVE CounterInv'
    OBVIOUS
  <2>1. CASE \E d \in Direction, n \in Value : Count(d, n)
    BY <2>1, CountInv
  <2>2. CASE Reboot
    BY <2>2, RebootInv
  <2>3. CASE \E answers \in SUBSET Direction : Poll(answers)
    BY <2>3, PollInv
  <2>4. CASE UNCHANGED counterVars
    BY <2>4 DEF counterVars, CounterInv, CountersTypeOK, PollStillTells, ReportsMissAtMostAWrap,
       Read, Advance
  <2>5. QED BY <2>1, <2>2, <2>3, <2>4 DEF CountersNext
<1>2. QED BY CounterInitInv, <1>1, PTL DEF CountersSpec

\* Between complete polls of a device that stays up every reader reports what
\* was added; the telemetry stream as far as floats are exact, and the fiber
\* collector, which unwraps the sum of its counters, that or one width less.
\* Whatever the width of the counters and the floats.
THEOREM ReportsAreRight == CountersSpec => []ReportsMissAtMostAWrap
BY CounterInvariance, PTL DEF CounterInv

\* The state of every reader is well typed, for counters of any width: what a
\* stream reads is a number of at most the width, and a report is an integer,
\* which may be negative.
THEOREM CountersTypeCorrect == CountersSpec => []CountersTypeOK
BY CounterInvariance, PTL DEF CounterInv

-----------------------------------------------------------------------------
(* The collectors and the loops. *)

\* What an answer is made of, with its loss or without it.
Answer == [latency : Int, jitter : Int, loss : Int]

\* A poll to which nothing answers raises, or yields a sample of a high loss:
\* in every collector but the phone's.
LEMMA SilenceIsSeen ==
    ASSUME NEW k \in CollectorKind \ {"android"}, NEW own \in Answers, NEW ping \in Answers,
           ~Heard(k, own, ping), Collected(k, own, ping) # Broken
    PROVE  Collected(k, own, ping).loss >= 800
<1>1. own \in Answer /\ ping \in Answer
  <2>1. Lost \in Answer /\ Silent \in Answer /\ Broken \in Answer
    BY DEF Lost, Silent, Broken, Sample, Answer
  <2>2. ASSUME NEW m \in Measured PROVE m \in Answer
    <3>1. m \in [latency : Nat, jitter : Nat, loss : 0..1000 \cup {Unread}]
      BY SourcesAssumption
    <3>2. QED BY <3>1 DEF Answer, Unread
  <2>3. QED BY <2>1, <2>2 DEF Answers
<1>2. Broken.loss = 0 /\ WithLoss(Broken) = Broken /\ AllLost \in Answer /\ AllLost.loss = 1000
  BY DEF Broken, WithLoss, Unread, Sample, AllLost, Answer
<1>3. ping \in {Lost, Silent, Broken}
  BY DEF Heard, CollectorKind
<1>4. RunPing(ping) \in {AllLost, Broken}
  BY <1>2, <1>3 DEF RunPing
<1>5. CASE k = "broadband"
  <2>1. CASE RunPing(ping) = Broken
    BY <1>5, <2>1 DEF Collected, Broadband
  <2>2. CASE RunPing(ping) = AllLost /\ own \in {Lost, Silent, Broken}
    BY <1>2, <1>5, <2>2 DEF Collected, Broadband
  <2>3. CASE RunPing(ping) = AllLost /\ RunPing(ping) # Broken /\ own \notin {Lost, Silent, Broken}
    <3>1. Collected(k, own, ping).loss = (8 * 1000 + 2 * ModemLoss) \div 10
      BY <1>2, <1>5, <2>3 DEF Collected, Broadband, Answer
    <3>2. QED BY <3>1 DEF ModemLoss
  <2>4. QED BY <1>4, <2>1, <2>2, <2>3
<1>6. CASE k \in {"snmp", "starlink"}
  <2>1. own \in {Lost, Silent, Broken}
    BY <1>6 DEF Heard
  <2>2. Collected(k, own, ping) \in {RunPing(ping), Broken}
    BY <1>2, <1>6, <2>1 DEF Collected, FiberSnmp, Starlink
  <2>3. QED BY <1>2, <1>4, <2>2
<1>7. CASE k \notin {"broadband", "snmp", "starlink"}
  <2>1. Collected(k, own, ping) = RunPing(ping)
    BY <1>7 DEF CollectorKind, Collected, FiberGnmi, Vsat, Cpe, Ethernet, WiFi
  <2>2. QED BY <1>2, <1>4, <2>1
<1>8. QED BY <1>5, <1>6, <1>7

\* A collector to which silence shows, and what it shows then.
Shows(l) == Kind[l] \notin {"android", "replay"}
Loud == {s \in Samples : s.loss >= 800}
Newest(buffer) == buffer[Len(buffer)]

SilenceInv ==
    /\ telemetry = [l \in Link |-> telemetry[l]]
    /\ silent \subseteq {l \in Link : Kind[l] # "replay"}
    /\ \A l \in Link : Shows(l) =>
          /\ lastPoint[l] \in Samples \cup {NoPoint}
          /\ telemetry[l] \in Seq(Samples)
    /\ \A l \in silent : Shows(l) =>
          /\ lastPoint[l] \in Loud
          /\ collecting => telemetry[l] # <<>> /\ Newest(telemetry[l]) = lastPoint[l]

\* A poll of such a collector, or the last sample in its place.
LEMMA PollsShow ==
    ASSUME SilenceInv, NEW polls \in Polls, NEW l \in Link, Shows(l),
           NEW point, point = SafeCollect(polls[l].point, lastPoint[l])
    PROVE  /\ point \in Samples \cup {NoPoint}
           /\ polls[l].point # Broken /\ ~polls[l].heard => point \in Loud
           /\ polls[l].point = Broken => point = lastPoint[l]
<1>1. Kind[l] \in CollectorKind \ {"android"} /\ Kind[l] # "replay"
  BY SourcesAssumption DEF Shows
<1>2. polls[l] \in AllPolls[l] /\ l \in DOMAIN AllPolls
  <2>1. polls[l] \in Polled(l)
    BY DEF Polls
  <2>2. Polled(l) = AllPolls[l]
    BY <1>1 DEF Polled
  <2>3. l \in DOMAIN AllPolls
    BY <1>1 DEF AllPolls
  <2>4. QED BY <2>1, <2>2, <2>3
<1>3. AllPolls[l] = {[point |-> Collected(Kind[l], own, ping),
                      heard |-> Heard(Kind[l], own, ping)] : own, ping \in Answers}
  BY <1>1 DEF AllPolls
<1>4. PICK own \in Answers, ping \in Answers :
          polls[l] = [point |-> Collected(Kind[l], own, ping),
                      heard |-> Heard(Kind[l], own, ping)]
  BY <1>2, <1>3
<1>5. polls[l].point # Broken => polls[l].point \in Samples
  <2>1. polls[l].point \in {p.point : p \in AllPolls[l]}
    BY <1>2
  <2>2. QED BY <1>2, <2>1 DEF Samples
<1>6. polls[l].point # Broken /\ ~polls[l].heard => polls[l].point.loss >= 800
  BY <1>1, <1>4, SilenceIsSeen
<1>7. QED BY <1>5, <1>6 DEF SafeCollect, SilenceInv, Loud

\* The newest point of a buffer is the one just pushed, even if it was full.
LEMMA PushedHolds ==
    ASSUME NEW S, NEW buffer \in Seq(S), NEW point \in S
    PROVE  /\ Pushed(buffer, point) \in Seq(S)
           /\ Pushed(buffer, point) # <<>>
           /\ Newest(Pushed(buffer, point)) = point
<1> DEFINE longer == Append(buffer, point)
           n == Len(buffer)
<1>1. /\ longer \in Seq(S) /\ longer # <<>> /\ n \in Nat
      /\ Len(longer) = n + 1 /\ longer[n + 1] = point
  BY AppendProperties, LenProperties
<1> HIDE DEF longer
<1>2. /\ Tail(longer) \in Seq(S) /\ Len(Tail(longer)) = n
      /\ \A i \in 1..n : Tail(longer)[i] = longer[i + 1]
  BY <1>1, HeadTailProperties
<1>3. CASE Len(longer) > MaxPoints
  <2>1. n >= 1
    BY <1>1, <1>3, PointsAssumption
  <2>2. Pushed(buffer, point) = Tail(longer)
    BY <1>3 DEF Pushed, longer
  <2>3. Tail(longer)[n] = point
    BY <1>1, <1>2, <2>1
  <2>4. Tail(longer) # <<>>
    BY <1>2, <2>1
  <2>5. QED BY <1>2, <2>2, <2>3, <2>4 DEF Newest
<1>4. CASE ~(Len(longer) > MaxPoints)
  <2>1. Pushed(buffer, point) = longer
    BY <1>4 DEF Pushed, longer
  <2>2. QED BY <1>1, <2>1 DEF Newest
<1>5. QED BY <1>3, <1>4

LEMMA CollectShows ==
    ASSUME SilenceInv, NEW polls \in Polls, NEW done, NEW failed, Collect(done, failed, polls),
           done = Link \/ failed # NoLink
    PROVE  SilenceInv'
<1> DEFINE point(l) == SafeCollect(polls[l].point, lastPoint[l])
<1>1. /\ lastPoint' = [l \in Link |-> point(l)]
      /\ silent' = {l \in Link : IF polls[l].point = Broken THEN l \in silent
                                 ELSE ~polls[l].heard}
      /\ collecting' => done = Link
  BY DEF Collect
<1>2. /\ telemetry' = [l \in Link |-> telemetry'[l]]
      /\ \A l \in Link : \/ telemetry'[l] = telemetry[l]
                         \/ point(l) # NoPoint /\ telemetry'[l] = Pushed(telemetry[l], point(l))
      /\ \A l \in Link : done = Link /\ point(l) # NoPoint =>
              telemetry'[l] = Pushed(telemetry[l], point(l))
  BY DEF Collect
<1>3. ASSUME NEW l \in Link, Shows(l)
      PROVE  /\ point(l) \in Samples \cup {NoPoint}
             /\ l \in silent' => point(l) \in Loud
  <2>1. /\ point(l) \in Samples \cup {NoPoint}
        /\ polls[l].point # Broken /\ ~polls[l].heard => point(l) \in Loud
        /\ polls[l].point = Broken => point(l) = lastPoint[l]
    BY <1>3, PollsShow
  <2>2. QED BY <1>1, <1>3, <2>1 DEF SilenceInv
<1>4. silent' \subseteq {l \in Link : Kind[l] # "replay"}
  <2> SUFFICES ASSUME NEW l \in Link, Kind[l] = "replay" PROVE l \notin silent'
    BY <1>1
  <2>1. polls[l] \in {[point |-> Replayed(l), heard |-> TRUE]}
    BY DEF Polls, Polled
  <2>2. polls[l].heard = TRUE
    BY <2>1
  <2>3. l \notin silent
    BY DEF SilenceInv
  <2>4. QED BY <1>1, <2>2, <2>3
<1> HIDE DEF point
<1>5. ASSUME NEW l \in Link, Shows(l)
      PROVE  telemetry'[l] \in Seq(Samples)
  BY <1>2, <1>3, <1>5, PushedHolds DEF SilenceInv
<1>6. ASSUME NEW l \in silent', Shows(l), collecting'
      PROVE  telemetry'[l] # <<>> /\ Newest(telemetry'[l]) = lastPoint'[l]
  <2>1. l \in Link /\ point(l) \in Loud /\ lastPoint'[l] = point(l) /\ done = Link
    BY <1>1, <1>3, <1>6
  <2>2. point(l) # NoPoint /\ point(l) \in Samples
    BY <2>1 DEF Loud, NoPoint, Sample
  <2>3. telemetry'[l] = Pushed(telemetry[l], point(l)) /\ telemetry[l] \in Seq(Samples)
    BY <1>2, <1>6, <2>1, <2>2 DEF SilenceInv
  <2>4. QED BY <2>1, <2>2, <2>3, PushedHolds
<1>7. QED BY <1>1, <1>2, <1>3, <1>4, <1>5, <1>6 DEF SilenceInv, Shows

LEMMA SilenceStep ==
    ASSUME SilenceInv, [Next]_vars
    PROVE  SilenceInv'
<1>1. CASE UNCHANGED <<lastPoint, telemetry, silent, collecting>>
  BY <1>1 DEF SilenceInv, Shows
<1>2. CASE CollectionRound
  BY <1>2, CollectShows DEF CollectionRound
<1>3. CASE CollectionFails
  BY <1>3, LinkAssumption, CollectShows DEF CollectionFails
<1>4. \/ UNCHANGED collectionVars \/ CollectionNext
  BY DEF Next, BroadcastNext, StartRound, StartFails, Sent, IterationFails, EndRound, SendTo,
         Second, Join, Break, Leave, vars
<1>5. QED BY <1>1, <1>2, <1>3, <1>4 DEF collectionVars, CollectionNext, PredictionRound, ToggleLstm

\* A link to which nothing has answered shows a high loss until it answers
\* again, whichever polls raise in between and whatever its collector (but for a
\* phone's), for any samples and any length of the buffers.
THEOREM SilenceIsShown == Spec => []SilenceShows
<1>1. ScoreboardInit => SilenceInv
  BY EmptySeq DEF ScoreboardInit, CollectionInit, SilenceInv
<1>2. SilenceInv /\ [Next]_vars => SilenceInv'
  BY SilenceStep
<1>3. SilenceInv => SilenceShows
  <2> SUFFICES ASSUME SilenceInv, collecting, NEW l \in silent, Kind[l] # "android"
               PROVE  telemetry[l] # <<>> /\ telemetry[l][Len(telemetry[l])].loss >= 800
    BY DEF SilenceShows
  <2>1. Shows(l)
    BY DEF SilenceInv, Shows
  <2>2. telemetry[l] # <<>> /\ Newest(telemetry[l]) \in Loud
    BY <2>1 DEF SilenceInv
  <2>3. QED BY <2>2 DEF Newest, Loud
<1>4. QED BY <1>1, <1>2, <1>3, PTL DEF Spec

\* A round that finds a link dead leads its traffic to another link, whatever
\* the predictions and the links.
THEOREM TrafficLeavesDeadLinks == Spec => DeadLinksAreLeft
<1> DEFINE Left == ~lstmEnabled /\ collecting' =>
              \A l \in Link :
                  lastPoint'[l] = AllLost /\ lastPoint[l] # AllLost =>
                      \E event \in shifts' : event.source = l /\ event.target # l
<1>1. ASSUME [Next]_vars, ~lstmEnabled, collecting', NEW l \in Link,
             lastPoint'[l] = AllLost, lastPoint[l] # AllLost
      PROVE  \E event \in shifts' : event.source = l /\ event.target # l
  <2>1. PICK polls \in Polls : Collect(Link, NoLink, polls)
    <3>1. CollectionNext
      BY <1>1 DEF Next, BroadcastNext, StartRound, StartFails, Sent, IterationFails, EndRound,
                  SendTo, Second, Join, Break, Leave, vars, collectionVars
    <3>2. ~CollectionFails
      BY <1>1, LinkAssumption DEF CollectionFails, Collect
    <3>3. CollectionRound
      BY <1>1, <3>1, <3>2 DEF CollectionNext, PredictionRound, ToggleLstm
    <3>4. QED BY <3>3 DEF CollectionRound
  <2> DEFINE point(k) == SafeCollect(polls[k].point, lastPoint[k])
             points == [k \in Link |-> point(k)]
             steered == {k \in Link : points[k] # NoPoint /\ Steers(k, points[k])}
  <2>2. points[l] = AllLost
    BY <1>1, <2>1 DEF Collect
  <2>3. l \in steered
    <3>1. AllLost # NoPoint /\ AllLost.loss > 20
      BY DEF AllLost, NoPoint, Sample
    <3>2. QED BY <1>1, <2>2, <3>1 DEF Steers
  <2>4. shifts' \in Events(points)
    BY <2>1 DEF Collect
  <2>5. PICK target \in [steered -> Link] :
           /\ \A k \in steered : target[k] \in BestAlternatives(k)
           /\ shifts' = {[action |-> Action, source |-> k, target |-> target[k]] : k \in steered}
    BY <2>4 DEF Events
  <2>6. target[l] # l
    BY <2>3, <2>5 DEF BestAlternatives
  <2>7. [action |-> Action, source |-> l, target |-> target[l]] \in shifts'
    BY <2>3, <2>5
  <2>8. QED BY <2>6, <2>7
<1>2. [Next]_vars => [Left]_collectionVars
  BY <1>1
<1>3. QED BY <1>2, PTL DEF Spec, DeadLinksAreLeft

-----------------------------------------------------------------------------
(* The sockets. *)

\* A connection that is there is neither broken nor has a send to it failed:
\* the id of a socket is not used again before all has forgotten it.
OpenInv ==
    /\ connected \subseteq clients
    /\ connected \cap broken = {}
    /\ connected \cap dead = {}

LEMMA OpenStep ==
    ASSUME OpenInv, [Next]_vars
    PROVE  OpenInv'
<1>1. CASE UNCHANGED <<clients, connected, broken, dead>>
  BY <1>1 DEF OpenInv
<1>2. ASSUME NEW c \in Client, Join(c) \/ Break(c) \/ Leave(c)
      PROVE  OpenInv'
  BY <1>2 DEF OpenInv, Join, Break, Leave, roundVars
<1>3. CASE Sent \/ IterationFails \/ EndRound
  BY <1>3 DEF OpenInv, Sent, IterationFails, EndRound, clientVars
<1>4. QED
  BY <1>1, <1>2, <1>3 DEF Next, Unwatched, BroadcastNext, StartRound, StartFails, SendTo, Second,
                          vars, clientVars, roundVars

\* An open socket is in the set that is broadcast to, whichever sockets come,
\* break and go while a round awaits its sends.
THEOREM OpenSocketsAreListed == Spec => []OpenAreListed
<1>1. ScoreboardInit => OpenInv
  BY DEF ScoreboardInit, OpenInv
<1>2. OpenInv /\ [Next]_vars => OpenInv'
  BY OpenStep
<1>3. OpenInv => OpenAreListed
  BY DEF OpenInv, OpenAreListed
<1>4. QED BY <1>1, <1>2, <1>3, PTL DEF Spec

=============================================================================
