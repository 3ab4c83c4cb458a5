--------------------------- MODULE CounterReaders ---------------------------
(***************************************************************************)
(* The readers of interface counters: they poll counters that wrap at      *)
(* 2^32 or 2^64 and report what was added since the poll before.           *)
(*   "snmp"   SNMPParser.parse_counters                                    *)
(*   "stream" StreamingTelemetryParser.process_updates                     *)
(*   "fiber"  FiberCollector._collect_snmp                                 *)
(*   "gnmi"   FiberCollector._collect_gnmi                                 *)
(*   "modem"  BroadbandCollector._poll_cable_modem, one counter, here "in" *)
(* Rates, and the caps at 100 %, are functions of the amount reported.     *)
(***************************************************************************)
EXTENDS Integers

CONSTANTS
    Width,      \* where a counter wraps: 2^32 or 2^64
    Rounded,    \* the float that is nearest to a number
    Exact       \* numbers up to it are floats: 2^53

ASSUME WidthAssumption == Width \in Nat \ {0}
ASSUME RoundedAssumption ==
    /\ Rounded \in [0..(2 * Width) -> 0..(2 * Width)]
    /\ \A n \in 0..Width : Rounded[n] <= Width
ASSUME ExactAssumption ==
    /\ Exact \in 0..Width
    /\ \A n \in 0..Exact : Rounded[n] = n

VARIABLES
    kind,       \* which of the readers this one is
    counter,    \* the device's counters of bytes in and out
    prev,       \* what the reader kept of its last poll; NoPoll before one
    reported,   \* the amount it reported last; NoReport for none
    added,      \* history: bytes added since the values in prev were read
    actual,     \* history: the amount that `reported` should be
    sound,      \* history: prev holds what the device had, none of it too much
                \* for a float of "stream", and it has not restarted since
    trusted     \* history: the last report is about such a time

counterVars == <<kind, counter, prev, reported, added, actual, sound, trusted>>

Reader == {"snmp", "stream", "fiber", "gnmi", "modem"}
Direction == {"in", "out"}
Value == 0..(Width - 1)
NoPoll == [answers |-> {}]
NoReport == -Width     \* less than any amount

\* float() of a number; differences may be negative.
Float(n) == IF n < 0 THEN -Rounded[-n] ELSE Rounded[n]

\* What a poll got: the counters that it names, 0 for one that is missing;
\* "stream" makes floats of them.
Seen(answers) ==
    [d \in Direction |->
        IF d \notin answers THEN 0
        ELSE IF kind = "stream" THEN Rounded[counter[d]] ELSE counter[d]]

CountersTypeOK ==
    /\ kind \in Reader
    /\ counter \in [Direction -> Value]
    /\ prev \in [seen : [Direction -> 0..Width], answers : SUBSET Direction] \cup {NoPoll}
    /\ reported \in Int
    /\ added \in [Direction -> Value]
    /\ actual \in Nat
    /\ sound \in BOOLEAN
    /\ trusted \in BOOLEAN

CountersInit ==
    /\ kind \in Reader
    /\ counter \in [Direction -> Value]
    /\ prev = NoPoll
    /\ reported = NoReport
    /\ added = [d \in Direction |-> 0]
    /\ actual = 0
    /\ sound = FALSE
    /\ trusted = FALSE

-----------------------------------------------------------------------------

Advance(c, n) == IF c + n < Width THEN c + n ELSE c + n - Width

\* Traffic: a counter wraps at most once between two polls; beyond that no
\* reader could tell.
Count(d, n) ==
    /\ added[d] + n < Width
    /\ counter' = [counter EXCEPT ![d] = Advance(@, n)]
    /\ added' = [added EXCEPT ![d] = @ + n]
    /\ UNCHANGED <<kind, prev, reported, actual, sound, trusted>>

\* The device restarts with counters at 0.
Reboot ==
    /\ counter' = [d \in Direction |-> 0]
    /\ sound' = FALSE
    /\ UNCHANGED <<kind, prev, reported, added, actual, trusted>>

\* A difference that is negative is taken for one wrap.
Unwrapped(n) == IF n < 0 THEN n + Width ELSE n

Delta(seen, d) == seen[d] - prev.seen[d]

\* Faulty variant: only the bytes in are unwrapped.
SeparatelyOnce(seen) == Unwrapped(Delta(seen, "in")) + Delta(seen, "out")

\* Each counter's difference, unwrapped, then their sum.
Separately(seen) == Unwrapped(Delta(seen, "in")) + Unwrapped(Delta(seen, "out"))

\* The same in floats: every difference and sum is rounded.
FloatDelta(seen, d) == Float(Unwrapped(Float(Delta(seen, d))))
InFloats(seen) == Float(FloatDelta(seen, "in") + FloatDelta(seen, "out"))

\* The sum of the differences, unwrapped once.
Together(seen) == Unwrapped(Delta(seen, "in") + Delta(seen, "out"))

\* `max(0, ...)`, of the collector that polls with SNMP only.
AtLeastNone(n) == IF n < 0 THEN 0 ELSE n

Amount(seen) ==
    CASE kind = "snmp"   -> Separately(seen)
      [] kind = "stream" -> InFloats(seen)
      [] kind = "fiber"  -> AtLeastNone(Together(seen))
      [] kind = "gnmi"   -> Together(seen)
      [] kind = "modem"  -> Unwrapped(Delta(seen, "in"))

\* The counters a poll of this kind is about.
Read == IF kind = "modem" THEN {"in"} ELSE Direction

\* "fiber" skips a poll that misses a counter; the others take it for 0.
Skips(answers) == kind = "fiber" /\ answers # Direction

\* "stream" reports an amount only between two polls that name the bytes in;
\* every reader needs a poll before.
Reports(answers) ==
    /\ prev # NoPoll
    /\ kind = "stream" => "in" \in answers /\ "in" \in prev.answers

\* What the reader makes of the counters is what they are.
Exactly == kind = "stream" => \A d \in Direction : counter[d] <= Exact

\* One poll, which may miss some of the counters.
Poll(answers) ==
    /\ answers \subseteq Read
    /\ ~Skips(answers)
    /\ reported' = IF Reports(answers) THEN Amount(Seen(answers)) ELSE NoReport
    /\ prev' = [seen |-> Seen(answers), answers |-> answers]
    /\ added' = [d \in Direction |-> 0]
    /\ actual' = IF kind = "modem" THEN added["in"] ELSE added["in"] + added["out"]
    /\ sound' = (answers = Read /\ Exactly)
    /\ trusted' = (Reports(answers) /\ sound /\ answers = Read /\ Exactly)
    /\ UNCHANGED <<kind, counter>>

CountersNext ==
    \/ \E d \in Direction, n \in Value : Count(d, n)
    \/ Reboot
    \/ \E answers \in SUBSET Direction : Poll(answers)

CountersSpec == CountersInit /\ [][CountersNext]_counterVars

-----------------------------------------------------------------------------
\* Properties.

\* Between two complete polls of a device that did not restart, counters that
\* are unwrapped one by one give exactly what was added, whichever of them have
\* wrapped: in whole numbers always, in floats as long as neither the counters
\* nor the amount are too much for one.  Unwrapping their sum once, the fiber
\* collector may lose one wrap, and never gains one.  Polling with SNMP it
\* reports a width less than was added, or 0 for less than a width; with gNMI
\* the amount may come out below 0.
ReportsMissAtMostAWrap ==
    trusted =>
        \/ reported = actual
        \/ kind = "stream" /\ actual > Exact
        \/ kind = "fiber" /\ reported = AtLeastNone(actual - Width)
        \/ kind = "gnmi" /\ reported = actual - Width

=============================================================================
