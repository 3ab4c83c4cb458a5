--------------------------- MODULE ScoreboardFeed ---------------------------
(***************************************************************************)
(* The store of the web pages and the sockets that fill it                 *)
(* (frontend/src/hooks/useWebSocket.ts, store/networkStore.ts).  The tool  *)
(* pages of the user portal mount the hook, the pages under their old      *)
(* addresses do not.  Each mounting has a socket of its own; the one that  *)
(* its unmounting closes comes back, because closing runs onclose.         *)
(*                                                                         *)
(* A version stands for the state a message of the server carries.  The    *)
(* loop that sends it may end for good, with the sockets still open.       *)
(***************************************************************************)
EXTENDS Naturals, FiniteSets

CONSTANTS
    Hook,           \* bound: mountings of the hook
    MaxVersion,     \* bound: changes of the server's state
    MaxDrops        \* bound: connections that break

VARIABLES
    socket,         \* each mounting's socket
    onPage,         \* the mounting of the page that is open, NoHook without one
    inFlight,       \* the message on its way on each socket, 0 for none
    store,          \* the version in the store, 0 at first
    wsConnected,
    version,        \* the server's
    broadcasting,   \* the task of scoreboard_broadcast_loop lives
    drops           \* history: the connections that have broken

feedVars == <<socket, onPage, inFlight, store, wsConnected, version, broadcasting, drops>>

NoHook == "no hook"

\* "waiting": the timer that reconnects is running; "ended": nothing is left.
FeedInit ==
    /\ socket = [h \in Hook |-> "unused"]
    /\ onPage = NoHook
    /\ inFlight = [h \in Hook |-> 0]
    /\ store = 0 /\ wsConnected = FALSE
    /\ version = 1 /\ broadcasting = TRUE /\ drops = 0

Becomes(h, state) ==
    /\ socket' = [socket EXCEPT ![h] = state]
    /\ inFlight' = [inFlight EXCEPT ![h] = 0]

-----------------------------------------------------------------------------
\* Pages are opened and left.

MountHook(h) ==
    /\ onPage = NoHook /\ socket[h] = "unused"
    /\ onPage' = h
    /\ Becomes(h, "connecting")
    /\ UNCHANGED <<store, wsConnected, version, broadcasting, drops>>

\* The timer is cleared; a socket that is there is closed.
UnmountHook ==
    /\ onPage # NoHook
    /\ onPage' = NoHook
    /\ Becomes(onPage, IF socket[onPage] = "waiting" THEN "ended" ELSE "closing")
    /\ UNCHANGED <<store, wsConnected, version, broadcasting, drops>>

\* The page is loaded anew, at any address: the script and its sockets end.
Reload ==
    /\ socket' = [h \in Hook |-> IF socket[h] = "unused" THEN "unused" ELSE "ended"]
    /\ inFlight' = [h \in Hook |-> 0]
    /\ onPage' = NoHook
    /\ store' = 0 /\ wsConnected' = FALSE
    /\ UNCHANGED <<version, broadcasting, drops>>

-----------------------------------------------------------------------------
\* The sockets.

Opens(h) ==
    /\ socket[h] = "connecting"
    /\ Becomes(h, "open")
    /\ wsConnected' = TRUE
    /\ UNCHANGED <<onPage, store, version, broadcasting, drops>>

\* Faulty variant: onclose does not connect again.
ClosedForGood(h) ==
    /\ \/ socket[h] = "closing" /\ UNCHANGED drops
       \/ /\ socket[h] \in {"connecting", "open"} /\ drops < MaxDrops
          /\ drops' = drops + 1
    /\ Becomes(h, "ended")
    /\ wsConnected' = FALSE
    /\ UNCHANGED <<onPage, store, version, broadcasting>>

\* onclose, of a socket that was closed and of one that broke.
Closed(h) ==
    /\ \/ socket[h] = "closing" /\ UNCHANGED drops
       \/ /\ socket[h] \in {"connecting", "open"} /\ drops < MaxDrops
          /\ drops' = drops + 1
    /\ Becomes(h, "waiting")
    /\ wsConnected' = FALSE
    /\ UNCHANGED <<onPage, store, version, broadcasting>>

Reconnects(h) ==
    /\ socket[h] = "waiting"
    /\ Becomes(h, "connecting")
    /\ UNCHANGED <<onPage, store, wsConnected, version, broadcasting, drops>>

\* The broadcast of each second; bound: one message on its way.
Broadcast(h) ==
    /\ broadcasting
    /\ socket[h] = "open" /\ inFlight[h] = 0
    /\ inFlight' = [inFlight EXCEPT ![h] = version]
    /\ UNCHANGED <<socket, onPage, store, wsConnected, version, broadcasting, drops>>

\* onmessage.
Delivered(h) ==
    /\ inFlight[h] # 0
    /\ store' = inFlight[h]
    /\ inFlight' = [inFlight EXCEPT ![h] = 0]
    /\ UNCHANGED <<socket, onPage, wsConnected, version, broadcasting, drops>>

ServerChanges ==
    /\ version < MaxVersion
    /\ version' = version + 1
    /\ UNCHANGED <<socket, onPage, inFlight, store, wsConnected, broadcasting, drops>>

\* A client of this tab or of another one joins or leaves while a send of a
\* round is awaited: the loop ends, and nothing starts it again (module
\* Scoreboard, IterationFails).
BroadcastEnds ==
    /\ broadcasting
    /\ broadcasting' = FALSE
    /\ UNCHANGED <<socket, onPage, inFlight, store, wsConnected, version, drops>>

-----------------------------------------------------------------------------

FeedUser ==
    \/ UnmountHook \/ Reload \/ ServerChanges \/ BroadcastEnds
    \/ \E h \in Hook : MountHook(h)

SocketStep(h) ==
    Opens(h) \/ Closed(h) \/ Reconnects(h) \/ Broadcast(h) \/ Delivered(h)

=============================================================================
