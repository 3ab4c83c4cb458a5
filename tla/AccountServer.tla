--------------------------- MODULE AccountServer ----------------------------
(***************************************************************************)
(* The part of the server that keeps people's records: the accounts and    *)
(* their lockouts, the audit log and the customer portal.  Its handlers    *)
(* run on one event loop, a request at a time.                             *)
(***************************************************************************)
EXTENDS Accounts, Portal

CONSTANT MaxRequests    \* bound: requests in one behaviour

ASSUME MaxRequestsAssumption == MaxRequests \in Nat
ASSUME EventAssumption ==
    {Started} \cup {LoggedIn(e) : e \in Email}
        \cup {Registered(e, caller) : e, caller \in Email} \subseteq Event

VARIABLE requests       \* bookkeeping of MaxRequests

serverVars == <<accountVars, auditVars, portalVars, requests>>

\* The server writes its first entry as it starts.
ServerInit ==
    /\ AccountsInit
    /\ PortalInit
    /\ log = <<[event |-> Started, prev |-> Genesis,
                checksum |-> ComputeChecksum(Started, Genesis)]>>
    /\ lastChecksum = ComputeChecksum(Started, Genesis)
    /\ logged = <<Started>>
    /\ requests = 0

ServerNext ==
    /\ requests < MaxRequests
    /\ requests' = requests + 1
    /\ \/ AccountsNext /\ UNCHANGED portalVars
       \/ PortalNext /\ UNCHANGED <<accountVars, auditVars>>

ServerSpec == ServerInit /\ [][ServerNext]_serverVars

=============================================================================
