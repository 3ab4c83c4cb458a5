--------------------------- MODULE SessionManager ---------------------------
(***************************************************************************)
(* server/session_manager.py: the sessions carried by each WAN link and    *)
(* the migration that moves them during a hitless handoff.                 *)
(*                                                                         *)
(* A link's list is a set here: nothing reads its order.  What a session   *)
(* carries (addresses, TCP and RTP counters) is left out: no operation     *)
(* writes it after registration.                                           *)
(***************************************************************************)
EXTENDS Naturals, FiniteSets, Sequences

CONSTANTS
    Link,           \* WAN link ids
    Session,        \* session ids, one uuid per registration
    CanDrop,        \* whether an append may raise during a migration
    MaxHandoffs     \* bound: migrations in one behaviour

ASSUME CanDropAssumption == CanDrop \in BOOLEAN
ASSUME MaxHandoffsAssumption == MaxHandoffs \in Nat

VARIABLES
    sessions,       \* _sessions: the sessions listed on each link
    state,          \* NetworkSession.state; "new" before registration,
                    \* "forgotten" after a restart
    linkOf,         \* NetworkSession.link_id; NoLink before registration
    history         \* _handoff_history: one HandoffResult per migration

sessionVars == <<sessions, state, linkOf, history>>

NoLink == "no link"

SessionState == {"new", "active", "migrated", "dropped", "forgotten"}

HandoffResult == [source : Link, target : Link,
                  total : Nat, migrated : Nat, dropped : Nat]

\* Faulty variant: what counts is the number of sessions migrated.
PreservedByCount(result) == result.migrated = result.total

Preserved(result) == result.dropped = 0

SessionTypeOK ==
    /\ sessions \in [Link -> SUBSET Session]
    /\ state \in [Session -> SessionState]
    /\ linkOf \in [Session -> Link \cup {NoLink}]
    /\ history \in Seq(HandoffResult)

-----------------------------------------------------------------------------

SessionInit ==
    /\ sessions = [l \in Link |-> {}]
    /\ state = [s \in Session |-> "new"]
    /\ linkOf = [s \in Session |-> NoLink]
    /\ history = <<>>

\* Faulty variant: every session on the list counts as active.
ActiveSessionsUnfiltered(l) == sessions[l]

ActiveSessions(l) == {s \in sessions[l] : state[s] = "active"}

RegisterSession(s, l) ==
    /\ state[s] = "new"
    /\ state' = [state EXCEPT ![s] = "active"]
    /\ linkOf' = [linkOf EXCEPT ![s] = l]
    /\ sessions' = [sessions EXCEPT ![l] = @ \cup {s}]
    /\ UNCHANGED history

Migrated(moving, failed) ==
    [s \in Session |-> IF s \in moving
                       THEN IF s \in failed THEN "dropped" ELSE "migrated"
                       ELSE state[s]]

\* The part of a migration that is not about the lists.
Account(src, dst, failed) ==
    LET moving == ActiveSessions(src)
    IN  /\ failed \subseteq moving
        /\ failed # {} => CanDrop
        /\ Len(history) < MaxHandoffs
        /\ state' = Migrated(moving, failed)
        /\ linkOf' = [s \in Session |-> IF s \in moving THEN dst ELSE linkOf[s]]
        /\ history' = Append(history,
                             [source   |-> src,
                              target   |-> dst,
                              total    |-> Cardinality(moving),
                              migrated |-> Cardinality(moving),
                              dropped  |-> Cardinality(failed)])

\* Faulty variant: the source list is not cleaned up.
MigrateSessionsCopying(src, dst, failed) ==
    /\ Account(src, dst, failed)
    /\ sessions' = [sessions EXCEPT ![dst] = @ \cup (ActiveSessions(src) \ failed)]

\* Faulty variant: the target list is replaced, not extended.
MigrateSessionsReplacing(src, dst, failed) ==
    /\ Account(src, dst, failed)
    /\ sessions' = [sessions EXCEPT ![dst] = ActiveSessions(src) \ failed, ![src] = {}]

(***************************************************************************)
(* One call of migrate_sessions.  `failed` are the sessions whose append   *)
(* to the target list raises: by then the session is already counted as    *)
(* migrated and carries the target's id.  The source list keeps only what  *)
(* is still ACTIVE when the loop ends.                                     *)
(***************************************************************************)
MigrateSessions(src, dst, failed) ==
    LET moving  == ActiveSessions(src)
        arrived == [sessions EXCEPT ![dst] = @ \cup (moving \ failed)]
    IN  /\ Account(src, dst, failed)
        /\ sessions' = [arrived EXCEPT ![src] =
                           {s \in arrived[src] : Migrated(moving, failed)[s] = "active"}]

\* The server restarts: the manager keeps everything in memory.
SessionRestart ==
    /\ sessions' = [l \in Link |-> {}]
    /\ state' = [s \in Session |-> IF state[s] = "new" THEN "new" ELSE "forgotten"]
    /\ linkOf' = [s \in Session |-> NoLink]
    /\ history' = <<>>

(***************************************************************************)
(* The callers migrate only between different links: the sandbox rejects a *)
(* handoff whose two links share a node (HitlessHandoff).                  *)
(***************************************************************************)
SessionNext ==
    \/ \E s \in Session, l \in Link : RegisterSession(s, l)
    \/ \E src, dst \in Link, failed \in SUBSET Session :
            src # dst /\ MigrateSessions(src, dst, failed)
    \/ SessionRestart

SessionSpec == SessionInit /\ [][SessionNext]_sessionVars

-----------------------------------------------------------------------------
\* Properties.

\* A session is listed on at most one link, and that link is the one its own
\* link_id names: the list edits of migrate_sessions never duplicate a session
\* or leave it listed where it no longer is.
OneHome ==
    \A l \in Link : \A s \in sessions[l] : linkOf[s] = l

\* No migration between other links, and no migration's clean-up of its source
\* list, removes a session that is still ACTIVE.
ActiveIsListed ==
    \A s \in Session : state[s] = "active" => s \in sessions[linkOf[s]]

\* A migration that reports preserved = True has moved every session that was
\* ACTIVE on the source into the target's list.
PreservedMeansMoved ==
    [][ Len(history') > Len(history) =>
          LET result == history'[Len(history')]
          IN  Preserved(result) =>
                ActiveSessions(result.source) \subseteq sessions'[result.target]
      ]_sessionVars

\* The sum of a field over the recorded handoffs.
Total(field) ==
    LET sum[i \in 0..Len(history)] == IF i = 0 THEN 0 ELSE sum[i - 1] + history[i][field]
    IN  sum[Len(history)]

\* The handoff history accounts for the sessions: what it reports migrated is
\* every session that ever left a link, what it reports dropped is every DROPPED
\* session, so no session is counted by two handoffs or by none.
HistoryAccounts ==
    /\ Total("migrated") =
           Cardinality({s \in Session : state[s] \in {"migrated", "dropped"}})
    /\ Total("dropped") =
           Cardinality({s \in Session : state[s] = "dropped"})

=============================================================================
