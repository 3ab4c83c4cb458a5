---------------------------- MODULE MCScoreboard ----------------------------
(***************************************************************************)
(* The hybrid data source: wifi is pinged, fiber is replayed.  A ping is   *)
(* slow and without its line on loss, or it loses everything, prints       *)
(* nothing or fails to run.  A prediction needs one sample;                *)
(* PREEMPTIVE_SHIFTs come from the slow pings.                             *)
(***************************************************************************)
EXTENDS Scoreboard

MCKind == [wifi |-> "wifi", fiber |-> "replay"]
MCMeasured == {Sample(190, 45, Unread)}
MCRows == <<Sample(12, 1, 0)>>
MCBase == [wifi |-> Sample(30, 5, 0), fiber |-> Sample(12, 1, 0)]

\* Where the other collectors run instead, a poll to which nothing answers shows
\* in the same way if the ping that they fall back on does.
ASSUME SilentKindsShow ==
    \A kind \in {"snmp", "gnmi", "starlink", "vsat", "cpe", "broadband", "ethernet", "ping"} :
        \A own, ping \in Answers :
            ~Heard(kind, own, ping) /\ RunPing(ping).loss >= 800 =>
                LET point == Collected(kind, own, ping) IN point = Broken \/ point.loss >= 800

=============================================================================
