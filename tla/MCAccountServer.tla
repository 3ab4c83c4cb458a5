-------------------------- MODULE MCAccountServer ---------------------------
(***************************************************************************)
(* An administrator and an email to register, a customer's row of          *)
(* app_users, a customer and a SUPER_ADMIN on the portal.  Two failures    *)
(* lock for two ticks; a log of two entries is full after three.           *)
(***************************************************************************)
EXTENDS AccountServer, TLC

CONSTANTS owner, root, sub1, sub2, sub3, ticket, lstm1, lstm2

MCSeed == "admin" :> "NETWORK_ADMIN"
MCPlan == "starter" :> 49 @@ "professional" :> 149
MCSeedSubs == {[id |-> sub1, user |-> owner, plan |-> "starter", status |-> "active"]}
MCEvent == {Started} \cup {LoggedIn(e) : e \in Email}
              \cup {Registered(e, caller) : e, caller \in Email}

=============================================================================
