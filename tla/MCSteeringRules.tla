-------------------------- MODULE MCSteeringRules ---------------------------
(***************************************************************************)
(* Links, classes and scores for SteeringRules.  Scores lie on both sides  *)
(* of each threshold; "wifi" is a link of the hybrid data source that the  *)
(* reference topology does not have, "gaming" a class without requirements.*)
(***************************************************************************)
EXTENDS SteeringRules

MCReports == {"r1", "r2"}

MCWithWifi == {"fiber-primary", "satellite-backup", "wifi"}

MCMixed == {{"voip", "gaming"}}

MCScores == {9, 34, 35}

\* Rules neither read forecasts and validations nor are read by them: one
\* behaviour holds rules, another forecasts and validations.
RulesOrValidations ==
    \/ rules = <<>>
    \/ validation = [r \in Request |-> Idle] /\ health = [l \in ActiveLink |-> NoScore]

=============================================================================
