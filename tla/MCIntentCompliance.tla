------------------------- MODULE MCIntentCompliance -------------------------
(***************************************************************************)
(* Two links in service, intents of every kind about them, and forecasts   *)
(* on both sides of the thresholds of 40 and 60.                           *)
(***************************************************************************)
EXTENDS IntentCompliance

MCLinks == {"fiber-primary", "satellite-backup"}
MCLinkOrder == <<"fiber-primary", "satellite-backup">>
MCNoReports == {}
MCBulk == {{"bulk"}}
MCScores == {39, 59, 60}
MCIntents == {"i1"}

MCGoals ==
    {[action |-> a, link |-> "satellite-backup", target |-> "fiber-primary"] :
        a \in {"redirect", "block", "prioritize", "ensure", "unchecked", "one-shot"}}
    \cup {[action |-> "ensure", link |-> "none", target |-> "none"]}

=============================================================================
