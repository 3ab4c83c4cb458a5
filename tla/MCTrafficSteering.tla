------------------------- MODULE MCTrafficSteering -------------------------
(***************************************************************************)
(* Two links, of which each has its turn alone; scores on both sides of    *)
(* the thresholds; "bulk" moves in emergencies only.                       *)
(***************************************************************************)
EXTENDS TrafficSteering

MCMoved == [emergency |-> <<"voip", "bulk">>, preemptive |-> <<"voip">>]
MCPrediction == {[score |-> 29, sure |-> FALSE], [score |-> 49, sure |-> TRUE],
                 [score |-> 80, sure |-> TRUE]}
MCInventories == <<{"fiber"}, {"5g"}>>

=============================================================================
