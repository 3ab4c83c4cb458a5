----------------------------- MODULE Scoreboard -----------------------------
(***************************************************************************)
(* The scoreboard of server/main.py with the alerts of server/alerts.py,   *)
(* over the loops of module Collection: sockets come and go, and the       *)
(* broadcast loop awaits each send of a round, so anything happens between *)
(* two of them.                                                            *)
(*                                                                         *)
(* A client stands for a socket; its id is used again once nothing refers  *)
(* to the socket any more.  Email, the contents of the history of alerts   *)
(* and their audit entries are left out (module AuditLog has the log).     *)
(***************************************************************************)
EXTENDS Collection

CONSTANTS
    Client,         \* ids of sockets
    Threshold,      \* HEALTH_THRESHOLD in tenths of a point (700 in the code)
    Suppression     \* SUPPRESSION_WINDOW in ticks (5 seconds in the code)

ASSUME SettingsAssumption == Threshold \in 0..1000 /\ Suppression \in Nat \ {0}

VARIABLES
    clients,        \* _ws_clients
    connected,      \* clients whose connection is there
    broken,         \* clients whose connection is gone, unknown to their handler
    phase,          \* of the broadcast loop: "idle", "sending" or "stopped"
    size,           \* the size of the set when the round began
    grown,          \* a client has been added to the set during the round
    visited,        \* clients the round has reached
    current,        \* the client whose send is awaited
    dead,           \* clients to which a send of the round has failed
    sinceAlert      \* the time since the last alert of each link, up to Suppression

roundVars == <<phase, size, grown, visited, current, dead>>
clientVars == <<clients, connected, broken>>
vars == <<collectionVars, clientVars, roundVars, sinceAlert>>

None == "none"

ScoreboardInit ==
    /\ CollectionInit
    /\ clients = {} /\ connected = {} /\ broken = {}
    /\ phase = "idle" /\ size = 0 /\ current = None
    /\ grown = FALSE /\ visited = {} /\ dead = {}
    /\ sinceAlert = [l \in Link |-> Suppression]

-----------------------------------------------------------------------------
\* A socket is accepted, its connection breaks, its handler notices that.

Join(c) ==
    /\ c \notin clients \cup broken \cup visited \cup dead \cup {current}
    /\ clients' = clients \cup {c}
    /\ connected' = connected \cup {c}
    /\ grown' = (phase = "sending")
    /\ UNCHANGED <<collectionVars, broken, phase, size, visited, current, dead, sinceAlert>>

Break(c) ==
    /\ c \in connected
    /\ connected' = connected \ {c}
    /\ broken' = broken \cup {c}
    /\ UNCHANGED <<collectionVars, clients, roundVars, sinceAlert>>

Leave(c) ==
    /\ c \in broken
    /\ clients' = clients \ {c}
    /\ broken' = broken \ {c}
    /\ UNCHANGED <<collectionVars, connected, roundVars, sinceAlert>>

-----------------------------------------------------------------------------
\* The broadcast loop.

\* A prediction below the threshold, outside of the window after an alert.
NeedsAlert(l) ==
    Predicted(l) /\ predictions[l].health < Threshold /\ sinceAlert[l] >= Suppression

Alerted(links) ==
    sinceAlert' = [l \in Link |->
        IF l \in links /\ effective[l] # <<>> /\ NeedsAlert(l) THEN 0 ELSE sinceAlert[l]]

\* A link with samples of which none is effective: building its part of the
\* message raises.
Incomplete(l) == telemetry[l] # <<>> /\ effective[l] = <<>>

\* The message is built, with the alerts of all links, if there is a client.
StartRound ==
    /\ phase = "idle" /\ clients # {}
    /\ \A l \in Link : ~Incomplete(l)
    /\ Alerted(Link)
    /\ phase' = "sending"
    /\ size' = Cardinality(clients)
    /\ UNCHANGED <<grown, visited, current, dead, collectionVars, clientVars>>

\* The links before the incomplete one have been looked at.
StartFails ==
    /\ phase = "idle" /\ clients # {}
    /\ \E l \in Link : Incomplete(l)
    /\ \E before \in SUBSET {l \in Link : ~Incomplete(l)} : Alerted(before)
    /\ phase' = "stopped"
    /\ UNCHANGED <<size, grown, visited, current, dead, collectionVars, clientVars>>

\* The loop over the set goes on to a client it has not reached.
SendTo(c) ==
    /\ phase = "sending" /\ current = None /\ Cardinality(clients) = size
    /\ c \in clients \ visited
    /\ current' = c
    /\ UNCHANGED <<phase, size, grown, visited, dead, collectionVars, clientVars, sinceAlert>>

\* A send without a connection may fail, or be buffered.
Sent ==
    /\ current # None
    /\ \/ dead' = dead
       \/ current \notin connected /\ dead' = dead \cup {current}
    /\ visited' = visited \cup {current}
    /\ current' = None
    /\ UNCHANGED <<phase, size, grown, collectionVars, clientVars, sinceAlert>>

\* "Set changed size during iteration": nothing catches the error, and the
\* loop is not started again.
IterationFails ==
    /\ phase = "sending" /\ current = None /\ Cardinality(clients) # size
    /\ phase' = "stopped"
    /\ grown' = FALSE /\ dead' = {} /\ visited' = {} /\ size' = 0
    /\ UNCHANGED <<current, collectionVars, clientVars, sinceAlert>>

\* Faulty variant: the clients that were reached replace the set.
EndRoundReplacing ==
    /\ phase = "sending" /\ current = None /\ Cardinality(clients) = size
    /\ grown \/ clients \subseteq visited
    /\ clients' = visited \ dead
    /\ phase' = "idle"
    /\ grown' = FALSE /\ dead' = {} /\ visited' = {} /\ size' = 0
    /\ UNCHANGED <<connected, broken, current, collectionVars, sinceAlert>>

\* After as many additions as removals the loop cannot tell that the set has
\* changed, and whether it reaches those added is not certain.
EndRound ==
    /\ phase = "sending" /\ current = None /\ Cardinality(clients) = size
    /\ grown \/ clients \subseteq visited
    /\ clients' = clients \ dead
    /\ phase' = "idle"
    /\ grown' = FALSE /\ dead' = {} /\ visited' = {} /\ size' = 0
    /\ UNCHANGED <<connected, broken, current, collectionVars, sinceAlert>>

BroadcastNext ==
    \/ StartRound \/ StartFails \/ Sent \/ IterationFails \/ EndRound
    \/ \E c \in Client : SendTo(c)

-----------------------------------------------------------------------------

Second ==
    /\ sinceAlert' = [l \in Link |->
          IF sinceAlert[l] < Suppression THEN sinceAlert[l] + 1 ELSE Suppression]
    /\ UNCHANGED <<collectionVars, clientVars, roundVars>>

\* The loops of module Collection leave this one's state alone.
Unwatched == UNCHANGED <<clientVars, roundVars, sinceAlert>>

Next ==
    \/ Unwatched /\ CollectionNext
    \/ \E c \in Client : Join(c) \/ Break(c) \/ Leave(c)
    \/ BroadcastNext
    \/ Second

\* The loops run every second for as long as their tasks live; time passes.
\* Nothing makes a link fail, a client come or a setting change.
Fairness ==
    /\ WF_vars(Unwatched /\ CollectionRound)
    /\ WF_vars(Unwatched /\ PredictionRound)
    /\ WF_vars(BroadcastNext)
    /\ WF_vars(Second)

Spec == ScoreboardInit /\ [][Next]_vars /\ Fairness

-----------------------------------------------------------------------------
\* Properties.

\* A socket that is open is in the set that is broadcast to: neither the end of
\* a round nor the handler of another socket removes it.
OpenAreListed == connected \subseteq clients

\* A link that has died is alerted again and again, from the poll that fails to
\* the alert: while someone watches, and unless a loop has ended.  Its health
\* stays at 68.2, just below the threshold.
SickLinksAreAlerted ==
    \A l \in {k \in Link : Kind[k] # "replay"} :
        (/\ []<>(phase = "sending")
         /\ <>[](lastPoint[l] = AllLost /\ collecting)) => []<>(sinceAlert[l] = 0)

\* The "WebSocket broadcast loop pushes scoreboard updates at 1 Hz to all
\* connected clients": it goes on, whichever sockets come and go.
BroadcastGoesOn == collecting => phase # "stopped"

=============================================================================
