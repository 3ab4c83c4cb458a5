------------------------------ MODULE MCHostQos -----------------------------
(* Small instances of the two quality-of-service features, and faulty      *)
(* variants of their definitions.                                          *)
EXTENDS HostQos, TLC

CONSTANTS t1, t2, r1, r2, zoom, youtube, alice

MCThread == {t1, t2}
MCRuleId == {r1, r2}
MCApp == {zoom, youtube}
MCUser == {alice}
MCMatches == zoom :> 2 @@ youtube :> 0

\* A request for half of the link, whose shares are scaled down, and one that
\* names no total.
MCSetting ==
    {<<zoom :> "CRITICAL" @@ youtube :> "HIGH", 5000>>, <<zoom :> "BLOCKED", 0>>}

Symmetry == Permutations(MCThread) \cup Permutations(MCRuleId)
=============================================================================
