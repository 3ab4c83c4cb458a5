------------------------------ MODULE Diversion ------------------------------
(***************************************************************************)
(* What the routing rules promise to the readers of get_active_rules and   *)
(* is_traffic_diverted_from: the traffic of a link goes to one other link  *)
(* or stays where it is, and it changes hands only by being restored first.*)
(***************************************************************************)
CONSTANT Link

VARIABLE route      \* where the traffic of each link is diverted to

NoDiversion == "not diverted"

Init == route = [l \in Link |-> NoDiversion]

Divert(l, t) ==
    /\ l # t /\ route[l] = NoDiversion
    /\ route' = [route EXCEPT ![l] = t]

Restore(l) ==
    /\ route[l] # NoDiversion
    /\ route' = [route EXCEPT ![l] = NoDiversion]

Next ==
    \/ \E l, t \in Link : Divert(l, t)
    \/ \E l \in Link : Restore(l)

Spec == Init /\ [][Next]_route

=============================================================================
