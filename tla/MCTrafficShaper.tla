-------------------------- MODULE MCTrafficShaper ---------------------------
(***************************************************************************)
(* Two apps, one the enforcer does not know; a list of two policies, full  *)
(* with the third; three policies in base 2, where the names 2 and 3 begin  *)
(* with 1 as 10 to 19 do in base 10.                                       *)
(***************************************************************************)
EXTENDS TrafficShaper, TLC

CONSTANT i1

=============================================================================
