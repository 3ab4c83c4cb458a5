------------------------ MODULE HitlessHandoffProofs -----------------------
(***************************************************************************)
(* What is proved of the session manager, for any links and sessions and   *)
(* any number of migrations; of the SDN adapter, for any nodes, flows and  *)
(* ONOS ids; and of their composition with the sandbox.  The steps of the  *)
(* composition are steps of the session manager and of the adapter, so     *)
(* what is proved of these holds there; what the callers were told         *)
(* (`outcome`) then ties them together.  That sessions move between        *)
(* different links rests on the sandbox, which sees a loop in memory mode  *)
(* only: those theorems assume it.                                         *)
(***************************************************************************)
EXTENDS HitlessHandoff, Sums, SequenceTheorems, FiniteSetTheorems, TLAPS

-----------------------------------------------------------------------------
(* The session manager. *)

\* A session has been put on a link exactly when it is of this server's life.
OnALink ==
    \A s \in Session : state[s] \in {"active", "migrated", "dropped"} => linkOf[s] \in Link

\* What is listed is of this server's life, and there are finitely many.
ListedIsLive ==
    /\ \A l \in Link : IsFiniteSet(sessions[l])
    /\ \A l \in Link : \A s \in sessions[l] : state[s] \in {"active", "migrated"}

SessionInv ==
    /\ SessionTypeOK
    /\ OnALink
    /\ ListedIsLive
    /\ OneHome
    /\ ActiveIsListed

-----------------------------------------------------------------------------

LEMMA SessionTypeStep ==
    ASSUME SessionInv, [SessionNext]_sessionVars
    PROVE  SessionTypeOK'
<1> USE DEF SessionInv
<1>1. ASSUME NEW s \in Session, NEW l \in Link, RegisterSession(s, l)
      PROVE  SessionTypeOK'
  BY <1>1 DEF RegisterSession, SessionTypeOK, SessionState
<1>2. ASSUME NEW src \in Link, NEW dst \in Link, NEW failed \in SUBSET Session,
             MigrateSessions(src, dst, failed)
      PROVE  SessionTypeOK'
  <2> DEFINE moving == ActiveSessions(src)
             result == [source   |-> src,
                        target   |-> dst,
                        total    |-> Cardinality(moving),
                        migrated |-> Cardinality(moving),
                        dropped  |-> Cardinality(failed)]
  <2>1. moving \subseteq sessions[src] /\ failed \subseteq moving
    BY <1>2 DEF ActiveSessions, MigrateSessions, Account
  <2>2. IsFiniteSet(moving) /\ IsFiniteSet(failed)
    BY <2>1, FS_Subset DEF ListedIsLive
  <2>3. Cardinality(moving) \in Nat /\ Cardinality(failed) \in Nat
    BY <2>2, FS_CardinalityType
  <2>4. result \in HandoffResult
    BY <2>3 DEF HandoffResult
  <2>5. history' = Append(history, result)
    BY <1>2 DEF MigrateSessions, Account, Migrated
  <2>6. history' \in Seq(HandoffResult)
    BY <2>4, <2>5 DEF SessionTypeOK
  <2>7. sessions' \in [Link -> SUBSET Session]
    BY <1>2, <2>1 DEF MigrateSessions, Account, Migrated, SessionTypeOK
  <2>8. state' \in [Session -> SessionState]
    BY <1>2 DEF MigrateSessions, Account, Migrated, SessionTypeOK, SessionState
  <2>9. linkOf' \in [Session -> Link \cup {NoLink}]
    BY <1>2 DEF MigrateSessions, Account, Migrated, SessionTypeOK
  <2> QED BY <2>6, <2>7, <2>8, <2>9 DEF SessionTypeOK
<1>3. CASE SessionRestart
  BY <1>3 DEF SessionRestart, SessionTypeOK, SessionState
<1>4. CASE UNCHANGED sessionVars
  BY <1>4 DEF sessionVars, SessionTypeOK
<1> QED BY <1>1, <1>2, <1>3, <1>4 DEF SessionNext

LEMMA ListsStep ==
    ASSUME SessionInv, [SessionNext]_sessionVars
    PROVE  OnALink' /\ ListedIsLive' /\ OneHome' /\ ActiveIsListed'
<1> USE DEF SessionInv
<1>1. ASSUME NEW s \in Session, NEW l \in Link, RegisterSession(s, l)
      PROVE  OnALink' /\ ListedIsLive' /\ OneHome' /\ ActiveIsListed'
  <2>1. /\ state[s] = "new"
        /\ state' = [state EXCEPT ![s] = "active"]
        /\ linkOf' = [linkOf EXCEPT ![s] = l]
        /\ sessions' = [sessions EXCEPT ![l] = @ \cup {s}]
    BY <1>1 DEF RegisterSession
  <2>2. \A k \in Link : s \notin sessions[k]
    BY <2>1 DEF ListedIsLive
  <2>3. \A k \in Link : IsFiniteSet(sessions'[k])
    BY <2>1, FS_AddElement DEF ListedIsLive, SessionTypeOK
  <2>4. OnALink'
    BY <2>1 DEF OnALink, SessionTypeOK
  <2>5. \A k \in Link : \A t \in sessions'[k] : state'[t] \in {"active", "migrated"}
    BY <2>1 DEF ListedIsLive, SessionTypeOK
  <2>6. OneHome'
    BY <2>1, <2>2 DEF OneHome, SessionTypeOK
  <2>7. ActiveIsListed'
    BY <2>1 DEF ActiveIsListed, OnALink, SessionTypeOK
  <2> QED BY <2>3, <2>4, <2>5, <2>6, <2>7 DEF ListedIsLive
<1>2. ASSUME NEW src \in Link, NEW dst \in Link, NEW failed \in SUBSET Session,
             src # dst, MigrateSessions(src, dst, failed)
      PROVE  OnALink' /\ ListedIsLive' /\ OneHome' /\ ActiveIsListed'
  <2> DEFINE moving == ActiveSessions(src)
  <2>1. /\ moving = {s \in sessions[src] : state[s] = "active"}
        /\ moving \subseteq Session /\ failed \subseteq moving
    BY <1>2 DEF ActiveSessions, MigrateSessions, Account, SessionTypeOK
  <2>2. \A s \in Session :
          /\ s \notin moving => state'[s] = state[s] /\ linkOf'[s] = linkOf[s]
          /\ s \in moving => linkOf'[s] = dst
          /\ s \in moving \ failed => state'[s] = "migrated"
          /\ s \in failed => state'[s] = "dropped"
    BY <1>2, <2>1 DEF MigrateSessions, Account, Migrated
  <2>3. /\ \A k \in Link : k # src /\ k # dst => sessions'[k] = sessions[k]
        /\ sessions'[dst] = sessions[dst] \cup (moving \ failed)
        /\ sessions'[src] = {s \in sessions[src] : state'[s] = "active"}
    BY <1>2 DEF MigrateSessions, Account, Migrated, SessionTypeOK
  <2>4. \A s \in moving : \A k \in Link : s \in sessions[k] => k = src
    BY <2>1 DEF OneHome
  <2>5. \A k \in Link : IsFiniteSet(sessions'[k])
    <3>1. IsFiniteSet(sessions[src]) /\ IsFiniteSet(sessions[dst])
      BY DEF ListedIsLive
    <3>2. IsFiniteSet(moving \ failed) /\ IsFiniteSet(sessions'[src])
      BY <2>1, <2>3, <3>1, FS_Subset
    <3>3. IsFiniteSet(sessions[dst] \cup (moving \ failed))
      BY <3>1, <3>2, FS_Union
    <3>4. IsFiniteSet(sessions'[dst])
      BY <2>3, <3>3
    <3> QED BY <2>3, <3>2, <3>4 DEF ListedIsLive
  <2>6. OnALink'
    BY <2>1, <2>2 DEF OnALink
  <2>7. ASSUME NEW k \in Link, NEW s \in sessions'[k]
        PROVE  state'[s] \in {"active", "migrated"} /\ linkOf'[s] = k
    <3>1. s \in Session
      BY <2>1, <2>3, <2>7 DEF SessionTypeOK
    <3>2. CASE s \in moving \ failed /\ k = dst
      BY <2>2, <3>1, <3>2
    <3>3. CASE s \in sessions[k] /\ s \notin moving
      BY <2>2, <3>1, <3>3 DEF ListedIsLive, OneHome
    <3>4. CASE s \in sessions[k] /\ s \in moving
      <4>1. k = src
        BY <2>4, <3>4
      <4> QED BY <2>2, <2>3, <2>7, <3>1, <3>4, <4>1
    <3> QED BY <1>2, <2>3, <2>7, <3>2, <3>3, <3>4
  <2>8. ASSUME NEW s \in Session, state'[s] = "active"
        PROVE  s \in sessions'[linkOf'[s]]
    <3>1. s \notin moving /\ state[s] = "active" /\ linkOf'[s] = linkOf[s]
      BY <2>2, <2>8
    <3>2. linkOf[s] \in Link /\ s \in sessions[linkOf[s]]
      BY <3>1 DEF OnALink, ActiveIsListed
    <3> QED BY <2>3, <2>8, <3>1, <3>2
  <2> QED BY <2>5, <2>6, <2>7, <2>8 DEF ListedIsLive, OneHome, ActiveIsListed
<1>3. CASE SessionRestart
  <2>1. \A l \in Link : IsFiniteSet(sessions'[l])
    BY <1>3, FS_EmptySet DEF SessionRestart
  <2> QED BY <1>3, <2>1
          DEF SessionRestart, OnALink, ListedIsLive, OneHome, ActiveIsListed
<1>4. CASE UNCHANGED sessionVars
  BY <1>4 DEF sessionVars, OnALink, ListedIsLive, OneHome, ActiveIsListed
<1> QED BY <1>1, <1>2, <1>3, <1>4 DEF SessionNext

LEMMA SessionInvariant == SessionSpec => []SessionInv
<1>1. SessionInit => SessionInv
  BY FS_EmptySet
  DEF SessionInit, SessionInv, SessionTypeOK, SessionState, OnALink,
      ListedIsLive, OneHome, ActiveIsListed
<1>2. SessionInv /\ [SessionNext]_sessionVars => SessionInv'
  BY SessionTypeStep, ListsStep DEF SessionInv
<1> QED BY <1>1, <1>2, PTL DEF SessionSpec

-----------------------------------------------------------------------------

\* The manager's state is well typed in every reachable state.
THEOREM SessionTypeCorrect == SessionSpec => []SessionTypeOK
<1>1. SessionInv => SessionTypeOK
  BY DEF SessionInv
<1> QED BY <1>1, SessionInvariant, PTL

\* migrate_sessions never lists a session twice, nor on a link that is not its
\* own, whichever of its appends fail.
THEOREM EverySessionHasOneHome == SessionSpec => []OneHome
<1>1. SessionInv => OneHome
  BY DEF SessionInv
<1> QED BY <1>1, SessionInvariant, PTL

\* A session that is ACTIVE is in the list of its link, where the next handoff
\* of that link will look for it.
THEOREM ActiveSessionsStayListed == SessionSpec => []ActiveIsListed
<1>1. SessionInv => ActiveIsListed
  BY DEF SessionInv
<1> QED BY <1>1, SessionInvariant, PTL

\* A handoff reported preserved has put every session that was ACTIVE on its
\* source into its target's list.
THEOREM PreservedHandoffsMoveAll == SessionSpec => PreservedMeansMoved
<1> DEFINE last == history'[Len(history')]
<1>1. ASSUME SessionInv, [SessionNext]_sessionVars,
             Len(history') > Len(history), Preserved(last)
      PROVE  ActiveSessions(last.source) \subseteq sessions'[last.target]
  <2> USE DEF SessionInv
  <2>1. ASSUME NEW src \in Link, NEW dst \in Link, NEW failed \in SUBSET Session,
               src # dst, MigrateSessions(src, dst, failed)
        PROVE  ActiveSessions(last.source) \subseteq sessions'[last.target]
    <3> DEFINE moving == ActiveSessions(src)
               result == [source   |-> src,
                          target   |-> dst,
                          total    |-> Cardinality(moving),
                          migrated |-> Cardinality(moving),
                          dropped  |-> Cardinality(failed)]
    <3>1. history' = Append(history, result)
      BY <2>1 DEF MigrateSessions, Account, Migrated
    <3>2. last = result
      BY <1>1, <3>1 DEF SessionTypeOK
    <3>3. last.source = src /\ last.target = dst /\ last.dropped = Cardinality(failed)
      BY <3>2
    <3>4. failed \subseteq moving /\ moving \subseteq sessions[src]
      BY <2>1 DEF MigrateSessions, Account, Migrated, ActiveSessions
    <3>5. IsFiniteSet(failed)
      <4>1. IsFiniteSet(sessions[src]) /\ failed \subseteq sessions[src]
        BY <1>1, <3>4 DEF ListedIsLive
      <4> QED BY <4>1, FS_Subset
    <3>6. failed = {}
      BY <1>1, <3>3, <3>5, FS_EmptySet DEF Preserved
    <3>7. sessions'[dst] = sessions[dst] \cup (moving \ failed)
      BY <1>1, <2>1 DEF MigrateSessions, Account, Migrated, SessionTypeOK
    <3> QED BY <3>3, <3>6, <3>7
  <2>2. ASSUME NEW s \in Session, NEW l \in Link, RegisterSession(s, l)
        PROVE  FALSE
    BY <1>1, <2>2 DEF RegisterSession, SessionTypeOK
  <2>3. CASE SessionRestart
    BY <1>1, <2>3 DEF SessionRestart, SessionTypeOK
  <2>4. CASE UNCHANGED sessionVars
    BY <1>1, <2>4 DEF sessionVars, SessionTypeOK
  <2> QED BY <1>1, <2>1, <2>2, <2>3, <2>4 DEF SessionNext
<1>2. SessionInv /\ [SessionNext]_sessionVars =>
        [ Len(history') > Len(history) =>
            LET result == history'[Len(history')]
            IN  Preserved(result) =>
                  ActiveSessions(result.source) \subseteq sessions'[result.target]
        ]_sessionVars
  BY <1>1
<1> QED BY <1>2, SessionInvariant, PTL DEF SessionSpec, PreservedMeansMoved

-----------------------------------------------------------------------------
(* The history accounts for the sessions.  A total is a sum over all of the
   history; what the proof needs of it is that a handoff adds its own number. *)

Field == {"migrated", "dropped"}

\* `f` sums up a field of the handoffs.
SumsUp(f, field, handoffs) ==
    f = [i \in 0..Len(handoffs) |-> IF i = 0 THEN 0 ELSE f[i - 1] + handoffs[i][field]]

LEMMA SumsAreUnique ==
    ASSUME NEW handoffs, Len(handoffs) \in Nat, NEW field, NEW f, NEW g,
           SumsUp(f, field, handoffs), SumsUp(g, field, handoffs)
    PROVE  f = g
<1>1. PICK n \in Nat : n = Len(handoffs)
  OBVIOUS
<1>2. /\ DOMAIN f = 0..n /\ DOMAIN g = 0..n
      /\ f = [i \in 0..n |-> f[i]] /\ g = [i \in 0..n |-> g[i]]
      /\ f[0] = 0 /\ g[0] = 0
      /\ \A i \in 1..n : /\ f[i] = f[i - 1] + handoffs[i][field]
                         /\ g[i] = g[i - 1] + handoffs[i][field]
  BY <1>1 DEF SumsUp
<1> DEFINE Differ == {i \in 0..n : f[i] # g[i]}
<1>3. ASSUME Differ # {}
      PROVE  FALSE
  <2>1. PICK i \in Differ : \A j \in Differ : i <= j
    <3>1. Differ \subseteq Nat
      OBVIOUS
    <3> HIDE DEF Differ
    <3>2. QED BY <1>3, <3>1, LeastNatural
  <2>2. i \in 1..n /\ i - 1 \in 0..n /\ i - 1 \notin Differ
    BY <1>2, <2>1
  <2>3. QED BY <1>2, <2>1, <2>2
<1>4. QED BY <1>2, <1>3

LEMMA SumsGrow ==
    ASSUME NEW handoffs \in Seq(HandoffResult), NEW result \in HandoffResult,
           NEW field \in Field, NEW f \in [0..Len(handoffs) -> Nat], SumsUp(f, field, handoffs)
    PROVE  \E g \in [0..Len(handoffs) + 1 -> Nat] :
              /\ SumsUp(g, field, Append(handoffs, result))
              /\ g[Len(handoffs) + 1] = f[Len(handoffs)] + result[field]
<1>1. PICK n \in Nat : n = Len(handoffs)
  OBVIOUS
<1>2. PICK longer : longer = Append(handoffs, result)
  OBVIOUS
<1>3. /\ Len(longer) = n + 1 /\ longer[n + 1] = result
      /\ \A i \in 1..n : longer[i] = handoffs[i]
  BY <1>1, <1>2, AppendProperties
<1>4. result[field] \in Nat
  BY DEF HandoffResult, Field
<1> DEFINE g == [i \in 0..(n + 1) |-> IF i = n + 1 THEN f[n] + result[field] ELSE f[i]]
<1>5. /\ f \in [0..n -> Nat]
      /\ f = [i \in 0..n |-> IF i = 0 THEN 0 ELSE f[i - 1] + handoffs[i][field]]
  BY <1>1 DEF SumsUp
<1>6. g \in [0..(n + 1) -> Nat] /\ g[n + 1] = f[n] + result[field] /\ g[0] = 0
  <2>1. f[n] \in Nat /\ f[0] = 0
    BY <1>5
  <2>2. QED BY <1>4, <1>5, <2>1
<1>7. ASSUME NEW i \in 1..(n + 1)
      PROVE  g[i] = g[i - 1] + longer[i][field]
  <2>1. CASE i = n + 1
    <3>1. g[i] = f[n] + result[field] /\ g[i - 1] = f[n]
      BY <2>1
    <3>2. QED BY <1>3, <2>1, <3>1
  <2>2. CASE i \in 1..n
    <3>1. g[i] = f[i] /\ g[i - 1] = f[i - 1] /\ i # 0 /\ i \in 0..n
      BY <2>2
    <3>2. f[i] = f[i - 1] + handoffs[i][field]
      BY <1>5, <3>1
    <3>3. QED BY <1>3, <2>2, <3>1, <3>2
  <2>3. QED BY <2>1, <2>2
<1> HIDE DEF g
<1>8. g = [i \in 0..(n + 1) |-> IF i = 0 THEN 0 ELSE g[i - 1] + longer[i][field]]
  <2>1. \A i \in 0..(n + 1) :
           g[i] = IF i = 0 THEN 0 ELSE g[i - 1] + longer[i][field]
    <3>1. \A i \in 0..(n + 1) : i = 0 \/ (i # 0 /\ i \in 1..(n + 1))
      OBVIOUS
    <3>2. QED BY <1>6, <1>7, <3>1
  <2>2. QED BY <1>6, <2>1
<1>9. SumsUp(g, field, longer)
  BY <1>3, <1>8 DEF SumsUp
<1>10. QED BY <1>1, <1>2, <1>6, <1>9

LEMMA TotalIsTheSum ==
    ASSUME Len(history) \in Nat, NEW field, NEW f, SumsUp(f, field, history)
    PROVE  Total(field) = f[Len(history)]
<1> DEFINE sum == CHOOSE g : SumsUp(g, field, history)
<1>1. SumsUp(sum, field, history)
  OBVIOUS
<1>2. sum = f
  BY <1>1, SumsAreUnique
<1>3. Total(field) = sum[Len(history)]
  BY DEF Total, SumsUp
<1>4. QED BY <1>2, <1>3

\* The sessions that a handoff has moved, and those it has dropped.
Moved == {s \in Session : state[s] \in {"migrated", "dropped"}}
Gone == {s \in Session : state[s] = "dropped"}

SumIs(field, number) ==
    \E f \in [0..Len(history) -> Nat] :
        SumsUp(f, field, history) /\ f[Len(history)] = number

AccountInv ==
    /\ SessionInv
    /\ IsFiniteSet(Moved)
    /\ SumIs("migrated", Cardinality(Moved))
    /\ SumIs("dropped", Cardinality(Gone))

LEMMA DisjointCardinality ==
    ASSUME NEW S, NEW T, IsFiniteSet(S), IsFiniteSet(T), S \cap T = {}
    PROVE  /\ IsFiniteSet(S \cup T)
           /\ Cardinality(S \cup T) = Cardinality(S) + Cardinality(T)
<1>1. /\ IsFiniteSet(S \cup T)
      /\ Cardinality(S \cup T) = Cardinality(S) + Cardinality(T) - Cardinality(S \cap T)
  BY FS_Union
<1>2. Cardinality(S \cap T) = 0 /\ Cardinality(S) \in Nat /\ Cardinality(T) \in Nat
  BY FS_EmptySet, FS_CardinalityType
<1>3. QED BY <1>1, <1>2

\* A handoff moves sessions that no handoff has moved before.
LEMMA MigrationAdds ==
    ASSUME AccountInv, NEW src \in Link, NEW dst \in Link, NEW failed \in SUBSET Session,
           MigrateSessions(src, dst, failed)
    PROVE  /\ IsFiniteSet(Moved')
           /\ SumIs("migrated", Cardinality(Moved))'
           /\ SumIs("dropped", Cardinality(Gone))'
<1> DEFINE moving == ActiveSessions(src)
           result == [source   |-> src,
                      target   |-> dst,
                      total    |-> Cardinality(moving),
                      migrated |-> Cardinality(moving),
                      dropped  |-> Cardinality(failed)]
<1>1. /\ failed \subseteq moving /\ moving \subseteq Session
      /\ \A s \in moving : state[s] = "active"
      /\ IsFiniteSet(moving) /\ IsFiniteSet(failed)
  <2>1. failed \subseteq moving /\ moving \subseteq sessions[src]
    BY DEF MigrateSessions, Account, ActiveSessions
  <2>2. IsFiniteSet(sessions[src]) /\ sessions[src] \subseteq Session
    BY DEF AccountInv, SessionInv, ListedIsLive, SessionTypeOK
  <2>3. IsFiniteSet(moving) /\ IsFiniteSet(failed)
    BY <2>1, <2>2, FS_Subset
  <2>4. QED BY <2>1, <2>2, <2>3 DEF ActiveSessions
<1>2. /\ history' = Append(history, result)
      /\ state' = [s \in Session |-> IF s \in moving
                                     THEN IF s \in failed THEN "dropped" ELSE "migrated"
                                     ELSE state[s]]
  BY DEF MigrateSessions, Account, Migrated
<1>3. Cardinality(moving) \in Nat /\ Cardinality(failed) \in Nat
  BY <1>1, FS_CardinalityType
<1>4. result \in HandoffResult
  BY <1>3 DEF HandoffResult
<1> HIDE DEF moving
<1>5. Moved' = Moved \cup moving /\ Moved \cap moving = {}
  BY <1>1, <1>2 DEF Moved
<1>6. Gone' = Gone \cup failed /\ Gone \cap failed = {} /\ Gone \subseteq Moved
  BY <1>1, <1>2 DEF Gone, Moved
<1>7. /\ IsFiniteSet(Moved')
      /\ Cardinality(Moved') = Cardinality(Moved) + Cardinality(moving)
  BY <1>1, <1>5, DisjointCardinality DEF AccountInv
<1>8. Cardinality(Gone') = Cardinality(Gone) + Cardinality(failed)
  <2>1. IsFiniteSet(Gone)
    BY <1>6, FS_Subset DEF AccountInv
  <2>2. QED BY <1>1, <1>6, <2>1, DisjointCardinality
<1>9. result.migrated = Cardinality(moving) /\ result.dropped = Cardinality(failed)
  OBVIOUS
<1>10. history \in Seq(HandoffResult)
  BY DEF AccountInv, SessionInv, SessionTypeOK
<1> HIDE DEF result
<1>11. Len(history') = Len(history) + 1
  BY <1>2, <1>4, <1>10, AppendProperties
<1>12. SumIs("migrated", Cardinality(Moved))'
  <2>1. PICK f \in [0..Len(history) -> Nat] :
           SumsUp(f, "migrated", history) /\ f[Len(history)] = Cardinality(Moved)
    BY DEF AccountInv, SumIs
  <2>2. \E g \in [0..Len(history) + 1 -> Nat] :
           /\ SumsUp(g, "migrated", Append(history, result))
           /\ g[Len(history) + 1] = f[Len(history)] + result["migrated"]
    BY <1>4, <1>10, <2>1, SumsGrow DEF Field
  <2>3. QED BY <1>2, <1>7, <1>9, <1>11, <2>1, <2>2 DEF SumIs
<1>13. SumIs("dropped", Cardinality(Gone))'
  <2>1. PICK f \in [0..Len(history) -> Nat] :
           SumsUp(f, "dropped", history) /\ f[Len(history)] = Cardinality(Gone)
    BY DEF AccountInv, SumIs
  <2>2. \E g \in [0..Len(history) + 1 -> Nat] :
           /\ SumsUp(g, "dropped", Append(history, result))
           /\ g[Len(history) + 1] = f[Len(history)] + result["dropped"]
    BY <1>4, <1>10, <2>1, SumsGrow DEF Field
  <2>3. QED BY <1>2, <1>8, <1>9, <1>11, <2>1, <2>2 DEF SumIs
<1>14. QED BY <1>7, <1>12, <1>13

\* Nothing is summed up without a history.
LEMMA EmptySum ==
    ASSUME NEW field
    PROVE  \E f \in [0..0 -> Nat] : SumsUp(f, field, <<>>) /\ f[0] = 0
<1> DEFINE none == [i \in 0..0 |-> 0]
<1>1. Len(<<>>) = 0
  OBVIOUS
<1>2. none \in [0..0 -> Nat] /\ none[0] = 0
  OBVIOUS
<1>3. none = [i \in 0..0 |-> IF i = 0 THEN 0 ELSE none[i - 1] + <<>>[i][field]]
  OBVIOUS
<1> HIDE DEF none
<1>4. QED BY <1>1, <1>2, <1>3 DEF SumsUp

LEMMA AccountStep ==
    ASSUME AccountInv, SessionInv', [SessionNext]_sessionVars
    PROVE  AccountInv'
<1>1. ASSUME NEW s \in Session, NEW l \in Link, RegisterSession(s, l)
      PROVE  AccountInv'
  <2>1. UNCHANGED history /\ Moved' = Moved /\ Gone' = Gone
    BY <1>1 DEF RegisterSession, Moved, Gone, AccountInv, SessionInv, SessionTypeOK
  <2>2. QED BY <2>1 DEF AccountInv, SumIs
<1>2. CASE SessionRestart
  <2>1. history' = <<>> /\ Moved' = {}
    BY <1>2 DEF SessionRestart, Moved
  <2>2. Gone' = {} /\ Cardinality(Moved') = 0 /\ Cardinality(Gone') = 0 /\ IsFiniteSet(Moved')
    BY <2>1, FS_EmptySet DEF Gone, Moved
  <2>3. Len(history') = 0
    BY <2>1
  <2>4. SumIs("migrated", Cardinality(Moved))' /\ SumIs("dropped", Cardinality(Gone))'
    BY <2>1, <2>2, <2>3, EmptySum DEF SumIs
  <2>5. QED BY <2>2, <2>4 DEF AccountInv
<1>3. CASE UNCHANGED sessionVars
  BY <1>3 DEF sessionVars, AccountInv, Moved, Gone, SumIs
<1>4. QED BY <1>1, <1>2, <1>3, MigrationAdds DEF SessionNext, AccountInv

\* The totals of the handoff history are the numbers of the sessions that were
\* moved and dropped: none is counted by two handoffs or by none.
THEOREM HistoryAccountsForSessions == SessionSpec => []HistoryAccounts
<1>1. SessionInit /\ SessionInv => AccountInv
  <2>1. SessionInit => history = <<>> /\ Moved = {}
    BY DEF SessionInit, Moved
  <2>2. ASSUME SessionInit, SessionInv
        PROVE  AccountInv
    <3>1. Gone = {} /\ Cardinality(Moved) = 0 /\ Cardinality(Gone) = 0 /\ IsFiniteSet(Moved)
      BY <2>1, <2>2, FS_EmptySet DEF Gone, Moved
    <3>2. Len(history) = 0
      BY <2>1, <2>2
    <3>3. SumIs("migrated", Cardinality(Moved)) /\ SumIs("dropped", Cardinality(Gone))
      BY <2>1, <2>2, <3>1, <3>2, EmptySum DEF SumIs
    <3>4. QED BY <2>2, <3>1, <3>3 DEF AccountInv
  <2>3. QED BY <2>2
<1>2. AccountInv /\ SessionInv' /\ [SessionNext]_sessionVars => AccountInv'
  BY AccountStep
<1>3. AccountInv => HistoryAccounts
  <2>1. ASSUME AccountInv, NEW field, NEW number, SumIs(field, number)
        PROVE  Total(field) = number
    <3>1. Len(history) \in Nat
      BY <2>1 DEF AccountInv, SessionInv, SessionTypeOK
    <3>2. QED BY <2>1, <3>1, TotalIsTheSum DEF SumIs
  <2>2. QED BY <2>1 DEF AccountInv, HistoryAccounts, Moved, Gone
<1>4. QED BY <1>1, <1>2, <1>3, SessionInvariant, PTL DEF SessionSpec

-----------------------------------------------------------------------------
(* The SDN adapter. *)

\* Everything the adapter knows of a flow goes back to its installation.
OnlySubmitted ==
    /\ \A r \in table : r.flow \in submitted
    /\ \A f \in Flow : installed[f] # NoEntry => f \in submitted
    /\ asked \subseteq submitted
    /\ rolledBack \subseteq asked

\* A flow is off the record once its rollback has been asked for.
AskedOnce == \A f \in asked : installed[f] = NoEntry

\* What names a rule: the flow id at ODL, an id ONOS has assigned at ONOS.
NamesAreOwned ==
    /\ \A r \in table :
          /\ r.ctrl = "odl" => r.id = r.flow
          /\ r.ctrl = "onos" => r.id \in onosUsed
    /\ \A f \in Flow :
          installed[f] # NoEntry =>
            /\ installed[f].ctrl = "odl" => installed[f].id = f
            /\ installed[f].ctrl = "onos" => installed[f].id \in onosUsed

\* The rule a record locates is a rule of the recorded flow.
RecordsLocateOwn ==
    \A f \in Flow : \A r \in table :
        installed[f] # NoEntry /\ Locates(installed[f], r) => r.flow = f

RecordInv ==
    /\ AdapterTypeOK
    /\ OnlySubmitted
    /\ AskedOnce
    /\ NamesAreOwned
    /\ RecordsLocateOwn

-----------------------------------------------------------------------------

LEMMA RecordedType ==
    ASSUME NEW n \in Node, NEW f \in Flow, NEW id \in OnosId, NEW odl, NEW onos,
           AdapterTypeOK
    PROVE  Recorded(n, f, id, odl, onos) \in Entry \cup {NoEntry}
BY DEF Recorded, EntryFor, OnosRule, OdlRule, Entry, Ctrl, AdapterTypeOK

\* The adapter's state keeps its type through every operation.
LEMMA AdapterTypeStep ==
    ASSUME AdapterTypeOK, [AdapterNext]_adapterVars
    PROVE  AdapterTypeOK'
<1>1. ASSUME NEW n \in Node, NEW f \in Flow, NEW id \in OnosId,
             NEW odl \in OdlCall, NEW onos \in OnosCall,
             UpdateFlowTable(n, f, id, odl, onos)
      PROVE  AdapterTypeOK'
  <2>1. Recorded(n, f, id, odl, onos) \in Entry \cup {NoEntry}
    BY RecordedType
  <2>2. OdlRule(n, f) \in Rule /\ OnosRule(n, f, id) \in Rule
    BY DEF OdlRule, OnosRule, Rule, Ctrl
  <2> QED BY <1>1, <2>1, <2>2 DEF UpdateFlowTable, AdapterTypeOK
<1>2. ASSUME NEW f \in Flow, NEW reply \in DeleteReply, RollbackFlow(f, reply)
      PROVE  AdapterTypeOK'
  BY <1>2 DEF RollbackFlow, AdapterTypeOK
<1>3. ASSUME NEW r \in table, Lapse(r)
      PROVE  AdapterTypeOK'
  BY <1>3 DEF Lapse, AdapterTypeOK
<1>4. CASE AdapterRestart
  BY <1>4 DEF AdapterRestart, AdapterTypeOK
<1>5. CASE UNCHANGED adapterVars
  BY <1>5 DEF adapterVars, AdapterTypeOK
<1> QED BY <1>1, <1>2, <1>3, <1>4, <1>5 DEF AdapterNext

\* The adapter's state is well typed in every reachable state.
THEOREM AdapterTypeCorrect == AdapterSpec => []AdapterTypeOK
<1>1. AdapterInit => AdapterTypeOK
  BY DEF AdapterInit, AdapterTypeOK
<1> QED BY <1>1, AdapterTypeStep, PTL DEF AdapterSpec
-----------------------------------------------------------------------------

\* Every operation keeps the inductive invariant of the records.
LEMMA RecordStep ==
    ASSUME RecordInv, [AdapterNext]_adapterVars
    PROVE  RecordInv'
<1>0. AdapterTypeOK'
  BY AdapterTypeStep DEF RecordInv
<1>1. ASSUME NEW n \in Node, NEW f \in Flow, NEW id \in OnosId,
             NEW odl \in OdlCall, NEW onos \in OnosCall,
             UpdateFlowTable(n, f, id, odl, onos)
      PROVE  RecordInv'
  <2> DEFINE new == {OdlRule(n, f), OnosRule(n, f, id)}
  <2>1. table' \subseteq table \cup new
    BY <1>1 DEF UpdateFlowTable
  <2>2. /\ f \notin submitted /\ submitted' = submitted \cup {f}
        /\ id \notin onosUsed /\ onosUsed \subseteq onosUsed'
        /\ asked' = asked /\ rolledBack' = rolledBack
    BY <1>1 DEF UpdateFlowTable
  <2>3. installed[f] = NoEntry
    BY <2>2 DEF RecordInv, OnlySubmitted
  <2>4. \/ installed'[f] = NoEntry
        \/ installed'[f] = EntryFor(OdlRule(n, f))
        \/ installed'[f] = EntryFor(OnosRule(n, f, id)) /\ id \in onosUsed'
    BY <1>1, <2>3 DEF UpdateFlowTable, Recorded, RecordInv, AdapterTypeOK, TakesEffect
  <2>5. \A g \in Flow : g # f => installed'[g] = installed[g]
    BY <1>1 DEF UpdateFlowTable, RecordInv, AdapterTypeOK
  <2>6. \A r \in new : r.flow = f
    BY DEF OdlRule, OnosRule
  <2>7. OnlySubmitted'
    BY <2>1, <2>2, <2>5, <2>6 DEF RecordInv, OnlySubmitted
  <2>8. AskedOnce'
    BY <2>2, <2>5 DEF RecordInv, AskedOnce, OnlySubmitted, AdapterTypeOK
  <2>9. \A r \in table' : r.ctrl = "onos" => r.id \in onosUsed'
    BY <1>1 DEF UpdateFlowTable, OdlRule, OnosRule, RecordInv, NamesAreOwned
  <2>10. NamesAreOwned'
    <3>1. \A r \in table' : r.ctrl = "odl" => r.id = r.flow
      BY <2>1 DEF OdlRule, OnosRule, RecordInv, NamesAreOwned
    <3>2. ASSUME NEW g \in Flow, installed'[g] # NoEntry
          PROVE  /\ installed'[g].ctrl = "odl" => installed'[g].id = g
                 /\ installed'[g].ctrl = "onos" => installed'[g].id \in onosUsed'
      BY <3>2, <2>2, <2>4, <2>5
      DEF EntryFor, OdlRule, OnosRule, RecordInv, NamesAreOwned
    <3> QED BY <2>9, <3>1, <3>2 DEF NamesAreOwned
  <2>11. RecordsLocateOwn'
    <3> SUFFICES ASSUME NEW g \in Flow, NEW r \in table',
                        installed'[g] # NoEntry, installed'[g] = EntryFor(r)
                 PROVE  r.flow = g
      BY DEF RecordsLocateOwn, Locates
    <3>1. CASE r \in new /\ g # f
      <4>1. installed[g] # NoEntry /\ installed[g] = EntryFor(r)
        BY <3>1, <2>5
      <4>2. r # OnosRule(n, f, id)
        BY <4>1, <2>2 DEF RecordInv, NamesAreOwned, EntryFor, OnosRule
      <4>3. r = OdlRule(n, f)
        BY <4>2, <3>1
      <4> QED BY <4>1, <4>3, <3>1 DEF RecordInv, NamesAreOwned, EntryFor, OdlRule
    <3>2. CASE r \in table /\ g = f
      <4>1. installed'[f] # EntryFor(OnosRule(n, f, id))
        BY <3>2, <2>2 DEF RecordInv, NamesAreOwned, EntryFor, OnosRule
      <4>2. r.ctrl = "odl" /\ r.id = f
        BY <4>1, <3>2, <2>4 DEF EntryFor, OdlRule
      <4> QED BY <4>2, <3>2 DEF RecordInv, NamesAreOwned
    <3>3. CASE r \in table /\ g # f
      BY <3>3, <2>5 DEF RecordInv, RecordsLocateOwn, Locates
    <3> QED BY <2>1, <2>6, <3>1, <3>2, <3>3
  <2> QED BY <1>0, <2>7, <2>8, <2>10, <2>11 DEF RecordInv
<1>2. ASSUME NEW f \in Flow, NEW reply \in DeleteReply, RollbackFlow(f, reply)
      PROVE  RecordInv'
  <2>1. /\ table' \subseteq table /\ onosUsed' = onosUsed
        /\ submitted' = submitted /\ asked' = asked \cup {f}
        /\ rolledBack' \subseteq rolledBack \cup {f}
    BY <1>2 DEF RollbackFlow
  <2>2. /\ installed[f] # NoEntry /\ installed'[f] = NoEntry
        /\ \A g \in Flow : g # f => installed'[g] = installed[g]
    BY <1>2 DEF RollbackFlow, RecordInv, AdapterTypeOK
  <2>3. OnlySubmitted' /\ AskedOnce'
    BY <2>1, <2>2 DEF RecordInv, OnlySubmitted, AskedOnce, AdapterTypeOK
  <2>4. NamesAreOwned' /\ RecordsLocateOwn'
    BY <2>1, <2>2
    DEF RecordInv, NamesAreOwned, RecordsLocateOwn
  <2> QED BY <1>0, <2>3, <2>4 DEF RecordInv
<1>3. ASSUME NEW r \in table, Lapse(r)
      PROVE  RecordInv'
  BY <1>0, <1>3
  DEF Lapse, RecordInv, OnlySubmitted, AskedOnce, NamesAreOwned,
      RecordsLocateOwn
<1>4. CASE AdapterRestart
  BY <1>0, <1>4
  DEF AdapterRestart, RecordInv, OnlySubmitted, AskedOnce, NamesAreOwned,
      RecordsLocateOwn, AdapterTypeOK
<1>5. CASE UNCHANGED adapterVars
  BY <1>0, <1>5
  DEF adapterVars, RecordInv, OnlySubmitted, AskedOnce, NamesAreOwned,
      RecordsLocateOwn, Locates
<1> QED BY <1>1, <1>2, <1>3, <1>4, <1>5 DEF AdapterNext

LEMMA RecordInvariant == AdapterSpec => []RecordInv
<1>1. AdapterInit => RecordInv
  BY DEF AdapterInit, RecordInv, AdapterTypeOK, OnlySubmitted, AskedOnce,
         NamesAreOwned, RecordsLocateOwn
<1> QED BY <1>1, RecordStep, PTL DEF AdapterSpec

\* No installation, and no rollback of another flow, takes a flow's rule away
\* from its controller.
THEOREM RulesFallSafely == AdapterSpec => RulesFallOnlyToTheirOwn
<1>1. ASSUME RecordInv, [AdapterNext]_adapterVars, NEW r \in table, r \notin table'
      PROVE  \/ r.flow \in asked' \ asked
             \/ table' = table \ {r} /\ installed' = installed
  <2>1. ASSUME NEW f \in Flow, NEW reply \in DeleteReply, RollbackFlow(f, reply)
        PROVE  r.flow \in asked' \ asked
    <3>1. installed[f] # NoEntry /\ Locates(installed[f], r) /\ asked' = asked \cup {f}
      BY <1>1, <2>1 DEF RollbackFlow
    <3>2. r.flow = f /\ f \notin asked
      BY <1>1, <3>1 DEF RecordInv, RecordsLocateOwn, AskedOnce
    <3> QED BY <3>1, <3>2
  <2>2. ASSUME NEW q \in table, Lapse(q)
        PROVE  table' = table \ {r} /\ installed' = installed
    BY <1>1, <2>2 DEF Lapse
  <2>3. \A n \in Node, f \in Flow, id \in OnosId, odl \in OdlCall, onos \in OnosCall :
            ~UpdateFlowTable(n, f, id, odl, onos)
    BY <1>1 DEF UpdateFlowTable
  <2>4. ~AdapterRestart /\ ~UNCHANGED adapterVars
    BY <1>1 DEF AdapterRestart, adapterVars
  <2> QED BY <1>1, <2>1, <2>2, <2>3, <2>4 DEF AdapterNext
<1>2. RecordInv /\ [AdapterNext]_adapterVars =>
        [ \A r \in table :
            r \notin table' => \/ r.flow \in asked' \ asked
                               \/ table' = table \ {r} /\ installed' = installed
        ]_adapterVars
  BY <1>1
<1> QED BY <1>2, RecordInvariant, PTL DEF AdapterSpec, RulesFallOnlyToTheirOwn

-----------------------------------------------------------------------------
(* With one controller, the record of a flow reaches every rule it has.    *)

SingleInv ==
    /\ RecordInv
    /\ RecordReachesRules
    /\ RollbackTrueMeansGone

\* A call to the only controller leaves at most one rule, and records it when
\* it is answered with success.
LEMMA SingleStep ==
    ASSUME CtrlType # "both", SingleInv, [AdapterNext]_adapterVars
    PROVE  RecordReachesRules' /\ RollbackTrueMeansGone'
<1> USE DEF SingleInv
<1>1. ASSUME NEW n \in Node, NEW f \in Flow, NEW id \in OnosId,
             NEW odl \in OdlCall, NEW onos \in OnosCall,
             UpdateFlowTable(n, f, id, odl, onos)
      PROVE  RecordReachesRules' /\ RollbackTrueMeansGone'
  <2>1. /\ f \notin submitted /\ f \notin rolledBack /\ rolledBack' = rolledBack
        /\ installed[f] = NoEntry /\ \A r \in table : r.flow # f
    BY <1>1 DEF UpdateFlowTable, RecordInv, OnlySubmitted
  <2>2. /\ installed'[f] = Recorded(n, f, id, odl, onos)
        /\ \A g \in Flow : g # f => installed'[g] = installed[g]
    BY <1>1 DEF UpdateFlowTable, RecordInv, AdapterTypeOK
  <2>3. \/ CtrlType = "odl" /\ onos = "not called"
        \/ CtrlType = "onos" /\ odl = "not called"
    BY CtrlTypeAssumption DEF OdlCall, OnosCall, Uses
  <2>4. ASSUME NEW r \in table' \ table
        PROVE  r.flow = f /\ (installed'[f] # NoEntry => Locates(installed'[f], r))
    <3>1. CASE onos = "not called"
      <4>1. r = OdlRule(n, f)
        BY <1>1, <2>4, <3>1 DEF UpdateFlowTable, TakesEffect
      <4>2. installed'[f] \in {NoEntry, EntryFor(r)}
        BY <2>1, <2>2, <3>1, <4>1 DEF Recorded
      <4> QED BY <4>1, <4>2 DEF Locates, OdlRule
    <3>2. CASE odl = "not called"
      <4>1. r = OnosRule(n, f, id)
        BY <1>1, <2>4, <3>2 DEF UpdateFlowTable, TakesEffect
      <4>2. installed'[f] \in {NoEntry, EntryFor(r)}
        BY <2>1, <2>2, <3>2, <4>1 DEF Recorded
      <4> QED BY <4>1, <4>2 DEF Locates, OnosRule
    <3> QED BY <2>3, <3>1, <3>2
  <2>5. \A r \in table : r.flow \in Flow
    BY DEF RecordInv, AdapterTypeOK, Rule
  <2>6. ASSUME NEW r \in table', installed'[r.flow] # NoEntry
        PROVE  Locates(installed'[r.flow], r)
    BY <2>1, <2>2, <2>4, <2>5, <2>6 DEF RecordReachesRules
  <2> QED BY <2>1, <2>4, <2>6 DEF RecordReachesRules, RollbackTrueMeansGone
<1>2. ASSUME NEW f \in Flow, NEW reply \in DeleteReply, RollbackFlow(f, reply)
      PROVE  RecordReachesRules' /\ RollbackTrueMeansGone'
  <2>1. /\ installed[f] # NoEntry /\ table' \subseteq table
        /\ installed'[f] = NoEntry
        /\ \A g \in Flow : g # f => installed'[g] = installed[g]
    BY <1>2 DEF RollbackFlow, RecordInv, AdapterTypeOK
  <2>2. \A r \in table : r.flow \in Flow
    BY DEF RecordInv, AdapterTypeOK, Rule
  <2>3. RecordReachesRules'
    BY <2>1, <2>2 DEF RecordReachesRules, Locates
  <2>4. ASSUME reply = "ok"
        PROVE  \A r \in table' : r.flow # f
    BY <1>2, <2>1, <2>4 DEF RollbackFlow, TakesEffect, RecordReachesRules
  <2>5. rolledBack' = rolledBack \cup {g \in {f} : reply = "ok"}
    BY <1>2 DEF RollbackFlow
  <2>6. RollbackTrueMeansGone'
    BY <2>1, <2>4, <2>5 DEF RollbackTrueMeansGone
  <2> QED BY <2>3, <2>6
<1>3. ASSUME NEW r \in table, Lapse(r)
      PROVE  RecordReachesRules' /\ RollbackTrueMeansGone'
  BY <1>3 DEF Lapse, RecordReachesRules, RollbackTrueMeansGone
<1>4. CASE AdapterRestart
  BY <1>4
  DEF AdapterRestart, RecordReachesRules, RollbackTrueMeansGone, RecordInv,
      AdapterTypeOK, Rule
<1>5. CASE UNCHANGED adapterVars
  BY <1>5 DEF adapterVars, RecordReachesRules, RollbackTrueMeansGone, Locates
<1> QED BY <1>1, <1>2, <1>3, <1>4, <1>5 DEF AdapterNext

LEMMA SingleInvariant == CtrlType # "both" => (AdapterSpec => []SingleInv)
<1> SUFFICES ASSUME CtrlType # "both" PROVE AdapterSpec => []SingleInv
  OBVIOUS
<1>1. AdapterInit => RecordReachesRules /\ RollbackTrueMeansGone
  BY DEF AdapterInit, RecordReachesRules, RollbackTrueMeansGone
<1>2. AdapterInit => RecordInv
  BY DEF AdapterInit, RecordInv, AdapterTypeOK, OnlySubmitted, AskedOnce,
         NamesAreOwned, RecordsLocateOwn
<1>3. SingleInv /\ [AdapterNext]_adapterVars => SingleInv'
  BY SingleStep, RecordStep DEF SingleInv
<1> QED BY <1>1, <1>2, <1>3, PTL DEF AdapterSpec, SingleInv

\* With one controller, rollback_flow returns True only when no rule of the
\* flow is left.  In BOTH mode it is not so: see the run sdn_both.
THEOREM RollbackIsComplete ==
    CtrlType # "both" => (AdapterSpec => []RollbackTrueMeansGone)
<1>1. SingleInv => RollbackTrueMeansGone
  BY DEF SingleInv
<1> QED BY <1>1, SingleInvariant, PTL

\* With one controller, the record of a flow names every rule it has there.
THEOREM RecordsReachTheRules ==
    CtrlType # "both" => (AdapterSpec => []RecordReachesRules)
<1>1. SingleInv => RecordReachesRules
  BY DEF SingleInv
<1> QED BY <1>1, SingleInvariant, PTL

-----------------------------------------------------------------------------
\* The sandbox.

\* What passes in memory mode joins two nodes, so it joins two links.
LEMMA PassedJoinsTwo ==
    ASSUME Mode = "memory", NEW src, NEW dst, NEW priorities,
           MayPass(src, dst, priorities)
    PROVE  LinkToNodeId(src) # LinkToNodeId(dst) /\ src # dst
<1>1. PICK c : SandboxPasses(src, dst, c[1], c[2], c[3])
  BY DEF MayPass, Passing
<1>2. LoopStagePasses(src, dst, c[2])
  BY <1>1 DEF SandboxPasses
<1>3. ~LoopFound(src, dst)
  BY <1>2 DEF LoopStagePasses
<1>4. LinkToNodeId(src) # LinkToNodeId(dst)
  BY <1>3 DEF LoopFound, SnapshotLinks
<1>5. QED BY <1>4

\* Every link has a node of the controllers.
LEMMA NodesAreThere == \A l : LinkToNodeId(l) \in Node
BY NodesAssumption DEF LinkToNodeId

-----------------------------------------------------------------------------
\* A step of the composition, seen from either side.

LEMMA AdapterSees ==
    ASSUME [HandoffNext]_handoffVars
    PROVE  [AdapterNext]_adapterVars
<1>1. ASSUME NEW src \in Link, NEW dst \in Link, NEW f \in Flow, NEW id \in OnosId,
             NEW failed \in SUBSET Session, NEW odl \in OdlCall, NEW onos \in OnosCall,
             ExecuteHandoff(src, dst, f, id, failed, odl, onos)
      PROVE  AdapterNext
  BY <1>1, NodesAreThere DEF ExecuteHandoff, ResolveNodeId, AdapterNext
<1>2. ASSUME NEW src \in Link, NEW dst \in Link, NEW f \in Flow, NEW id \in OnosId,
             NEW netconf \in NetconfCall, NEW odl \in OdlCall, NEW onos \in OnosCall,
             ExecuteDeploy(src, dst, f, id, netconf, odl, onos)
      PROVE  AdapterNext
  BY <1>2, NodesAreThere DEF ExecuteDeploy, ResolveNodeId, AdapterNext
<1>3. ASSUME NEW f \in Flow, NEW reply \in DeleteReply, RollbackHandoff(f, reply)
      PROVE  AdapterNext
  BY <1>3 DEF RollbackHandoff, AdapterNext
<1>4. ASSUME NEW r \in table, ControllerDropsRule(r)
      PROVE  AdapterNext
  BY <1>4 DEF ControllerDropsRule, AdapterNext
<1>5. ASSUME Restart PROVE AdapterNext
  BY <1>5 DEF Restart, AdapterNext
<1>6. ASSUME NEW src \in Link, NEW dst \in Link, NEW f \in Flow,
             RejectHandoff(src, dst, f) \/ RejectDeploy(src, dst, f)
      PROVE  UNCHANGED adapterVars
  BY <1>6 DEF RejectHandoff, RejectDeploy
<1>7. ASSUME NEW s \in Session, NEW l \in Link, Register(s, l)
      PROVE  UNCHANGED adapterVars
  BY <1>7 DEF Register, adapterVars
<1>8. CASE UNCHANGED handoffVars
  BY <1>8 DEF handoffVars
<1>9. QED
  BY <1>1, <1>2, <1>3, <1>4, <1>5, <1>6, <1>7, <1>8 DEF HandoffNext

LEMMA SessionsSee ==
    ASSUME Mode = "memory", [HandoffNext]_handoffVars
    PROVE  [SessionNext]_sessionVars
<1>1. ASSUME NEW src \in Link, NEW dst \in Link, NEW f \in Flow, NEW id \in OnosId,
             NEW failed \in SUBSET Session, NEW odl \in OdlCall, NEW onos \in OnosCall,
             ExecuteHandoff(src, dst, f, id, failed, odl, onos)
      PROVE  SessionNext
  <2>1. src # dst
    BY <1>1, PassedJoinsTwo DEF ExecuteHandoff
  <2>2. QED BY <1>1, <2>1 DEF ExecuteHandoff, SessionNext
<1>2. ASSUME NEW s \in Session, NEW l \in Link, Register(s, l)
      PROVE  SessionNext
  BY <1>2 DEF Register, SessionNext
<1>3. ASSUME Restart PROVE SessionNext
  BY <1>3 DEF Restart, SessionNext
<1>4. ASSUME NEW src \in Link, NEW dst \in Link, NEW f \in Flow,
             RejectHandoff(src, dst, f) \/ RejectDeploy(src, dst, f)
      PROVE  UNCHANGED sessionVars
  BY <1>4 DEF RejectHandoff, RejectDeploy
<1>5. ASSUME NEW src \in Link, NEW dst \in Link, NEW f \in Flow, NEW id \in OnosId,
             NEW netconf \in NetconfCall, NEW odl \in OdlCall, NEW onos \in OnosCall,
             ExecuteDeploy(src, dst, f, id, netconf, odl, onos)
      PROVE  UNCHANGED sessionVars
  BY <1>5 DEF ExecuteDeploy
<1>6. ASSUME NEW f \in Flow, NEW reply \in DeleteReply, RollbackHandoff(f, reply)
      PROVE  UNCHANGED sessionVars
  BY <1>6 DEF RollbackHandoff
<1>7. ASSUME NEW r \in table, ControllerDropsRule(r)
      PROVE  UNCHANGED sessionVars
  BY <1>7 DEF ControllerDropsRule
<1>8. CASE UNCHANGED handoffVars
  BY <1>8 DEF handoffVars
<1>9. QED
  BY <1>1, <1>2, <1>3, <1>4, <1>5, <1>6, <1>7, <1>8 DEF HandoffNext

\* The flows of handoffs and deployments are the adapter's: whatever is proved
\* of the adapter is true of them.
THEOREM FlowsAreTheAdapters == HandoffSpec => AdapterSpec
<1>1. HandoffInit => AdapterInit
  BY DEF HandoffInit
<1>2. QED BY <1>1, AdapterSees, PTL DEF HandoffSpec, AdapterSpec

\* In memory mode handoffs are migrations between different links: whatever is
\* proved of the session manager is true of them.
THEOREM HandoffsAreMigrations == Mode = "memory" => (HandoffSpec => SessionSpec)
<1> SUFFICES ASSUME Mode = "memory" PROVE HandoffSpec => SessionSpec
  OBVIOUS
<1>1. HandoffInit => SessionInit
  BY DEF HandoffInit
<1>2. [HandoffNext]_handoffVars => [SessionNext]_sessionVars
  BY SessionsSee
<1>3. QED BY <1>1, <1>2, PTL DEF HandoffSpec, SessionSpec

-----------------------------------------------------------------------------
\* What the callers were told.

\* A flow that is on record, or was until its rollback or a restart.
OnRecord(f) == installed[f] # NoEntry \/ f \in asked \cup forgotten

\* A flow that reached the adapter was passed by the sandbox, and was answered
\* by whether it went on record; any other that was answered was rejected.
TellInv ==
    /\ outcome \in [Flow -> Outcome \cup {NoOutcome}]
    /\ \A f \in submitted : /\ outcome[f] # NoOutcome
                            /\ outcome[f].result \in {"failed", "ok"}
    /\ asked \cup forgotten \subseteq submitted
    /\ \A f \in submitted :
          outcome[f].result = "ok" <=> OnRecord(f)
    /\ \A f \in Flow : outcome[f] # NoOutcome /\ f \notin submitted
                         => outcome[f].result = "rejected"

LEMMA LinksHaveNames ==
    ASSUME NEW src \in Link, NEW dst \in Link
    PROVE  /\ src \in LinkName /\ dst \in LinkName
           /\ DeploySource(src, dst) \in LinkName
BY DEF DeploySource, DefaultSourceFor, LinkName

\* An answer is written once: for a flow that has none, leaving the others.
LEMMA AnswersAreGivenOnce ==
    ASSUME TellInv, NEW f \in Flow, NEW o \in Outcome,
           outcome' = [outcome EXCEPT ![f] = o]
    PROVE  /\ outcome' \in [Flow -> Outcome \cup {NoOutcome}]
           /\ outcome'[f] = o /\ outcome'[f] # NoOutcome
           /\ \A g \in Flow \ {f} : outcome'[g] = outcome[g]
<1>1. o.kind # NoOutcome.kind
  BY DEF NoOutcome, Outcome
<1>2. QED BY <1>1 DEF TellInv

\* An installation is told to succeed exactly if it goes on record.
LEMMA InstallationsAreReported ==
    ASSUME TellInv, RecordInv, NEW n, NEW f \in Flow, NEW id, NEW odl, NEW onos,
           UpdateFlowTable(n, f, id, odl, onos),
           outcome' \in [Flow -> Outcome \cup {NoOutcome}],
           outcome'[f] # NoOutcome,
           outcome'[f].result = Installed(odl, onos),
           \A g \in Flow \ {f} : outcome'[g] = outcome[g]
    PROVE  TellInv'
<1>1. /\ submitted' = submitted \cup {f} /\ f \notin submitted
      /\ asked' = asked /\ forgotten' = forgotten
      /\ installed' = [installed EXCEPT ![f] = Recorded(n, f, id, odl, onos)]
  BY DEF UpdateFlowTable
<1>2. submitted \subseteq Flow /\ installed \in [Flow -> Entry \cup {NoEntry}]
  BY DEF RecordInv, AdapterTypeOK
<1>3. installed[f] = NoEntry
  BY <1>1 DEF RecordInv, OnlySubmitted
<1>4. Installed(odl, onos) \in {"failed", "ok"}
  BY DEF Installed
<1>5. \A g \in submitted' : outcome'[g] # NoOutcome /\ outcome'[g].result \in {"failed", "ok"}
  BY <1>1, <1>2, <1>4 DEF TellInv
<1>6. \A g \in submitted' : outcome'[g].result = "ok" <=> OnRecord(g)'
  <2>1. Recorded(n, f, id, odl, onos) # NoEntry <=> Succeeds(odl, onos)
    <3>1. \A r : EntryFor(r) # NoEntry \/ r.ctrl = "none"
      <4>1. \A r : EntryFor(r).ctrl = r.ctrl
        BY DEF EntryFor
      <4>2. NoEntry.ctrl = "none"
        BY DEF NoEntry
      <4>3. QED BY <4>1, <4>2
    <3>2. OnosRule(n, f, id).ctrl = "onos" /\ OdlRule(n, f).ctrl = "odl"
      BY DEF OnosRule, OdlRule
    <3>3. QED BY <1>3, <3>1, <3>2 DEF Recorded, Succeeds
  <2>2. f \notin asked \cup forgotten
    BY <1>1 DEF TellInv
  <2>3. installed'[f] = Recorded(n, f, id, odl, onos)
    BY <1>1, <1>2
  <2>4. outcome'[f].result = "ok" <=> OnRecord(f)'
    BY <1>1, <2>1, <2>2, <2>3 DEF Installed, OnRecord
  <2>5. \A g \in submitted : g \in Flow \ {f} /\ installed'[g] = installed[g]
    BY <1>1, <1>2
  <2>6. QED BY <1>1, <2>4, <2>5 DEF TellInv, OnRecord
<1>7. QED BY <1>1, <1>5, <1>6 DEF TellInv

LEMMA TellStep ==
    ASSUME TellInv, RecordInv, [HandoffNext]_handoffVars
    PROVE  TellInv'
<1>1. ASSUME NEW src \in Link, NEW dst \in Link, NEW f \in Flow, NEW id \in OnosId,
             NEW failed \in SUBSET Session, NEW odl \in OdlCall, NEW onos \in OnosCall,
             ExecuteHandoff(src, dst, f, id, failed, odl, onos)
      PROVE  TellInv'
  <2> DEFINE o == [kind |-> "handoff", source |-> src, target |-> dst,
                   result |-> Installed(odl, onos), netconf |-> "untried"]
  <2>1. UpdateFlowTable(ResolveNodeId(dst), f, id, odl, onos)
    BY <1>1 DEF ExecuteHandoff
  <2>2. outcome' = [outcome EXCEPT ![f] = o]
    BY <1>1 DEF ExecuteHandoff, Return
  <2>3. o \in Outcome /\ o.result = Installed(odl, onos)
    BY LinksHaveNames DEF Outcome, Installed
  <2>4. QED
    BY <2>1, <2>2, <2>3, AnswersAreGivenOnce, InstallationsAreReported
<1>2. ASSUME NEW src \in Link, NEW dst \in Link, NEW f \in Flow, NEW id \in OnosId,
             NEW netconf \in NetconfCall, NEW odl \in OdlCall, NEW onos \in OnosCall,
             ExecuteDeploy(src, dst, f, id, netconf, odl, onos)
      PROVE  TellInv'
  <2> DEFINE o == [kind |-> "deploy", source |-> DeploySource(src, dst), target |-> dst,
                   result |-> Installed(odl, onos), netconf |-> netconf]
  <2>1. UpdateFlowTable(ResolveNodeId(dst), f, id, odl, onos)
    BY <1>2 DEF ExecuteDeploy
  <2>2. outcome' = [outcome EXCEPT ![f] = o]
    BY <1>2 DEF ExecuteDeploy, Return
  <2>3. o \in Outcome /\ o.result = Installed(odl, onos)
    BY LinksHaveNames DEF Outcome, Installed, NetconfCall
  <2>4. QED
    BY <2>1, <2>2, <2>3, AnswersAreGivenOnce, InstallationsAreReported
<1>3. ASSUME NEW src \in Link, NEW dst \in Link, NEW f \in Flow,
             RejectHandoff(src, dst, f) \/ RejectDeploy(src, dst, f)
      PROVE  TellInv'
  <2>1. PICK kind \in {"handoff", "deploy"}, from \in LinkName :
            outcome' = [outcome EXCEPT ![f] =
                          [kind |-> kind, source |-> from, target |-> dst,
                           result |-> "rejected", netconf |-> "untried"]]
    BY <1>3, LinksHaveNames DEF RejectHandoff, RejectDeploy, Return
  <2>2. UNCHANGED <<submitted, asked, forgotten, installed>> /\ outcome[f] = NoOutcome
    BY <1>3 DEF RejectHandoff, RejectDeploy, adapterVars
  <2>3. [kind |-> kind, source |-> from, target |-> dst,
         result |-> "rejected", netconf |-> "untried"] \in Outcome
    BY LinksHaveNames DEF Outcome
  <2>4. /\ outcome' \in [Flow -> Outcome \cup {NoOutcome}]
        /\ \A g \in Flow \ {f} : outcome'[g] = outcome[g]
    BY <2>1, <2>3, AnswersAreGivenOnce
  <2>5. submitted \subseteq Flow \ {f}
    BY <2>2 DEF TellInv, RecordInv, AdapterTypeOK
  <2>6. outcome'[f].result = "rejected"
    BY <2>1, <2>3, AnswersAreGivenOnce, <2>2
  <2>7. QED BY <2>2, <2>4, <2>5, <2>6 DEF TellInv, OnRecord
<1>4. ASSUME NEW f \in Flow, NEW reply \in DeleteReply, RollbackHandoff(f, reply)
      PROVE  TellInv'
  <2>1. /\ installed[f] # NoEntry /\ installed' = [installed EXCEPT ![f] = NoEntry]
        /\ asked' = asked \cup {f} /\ UNCHANGED <<submitted, forgotten, outcome>>
    BY <1>4 DEF RollbackHandoff, RollbackFlow
  <2>2. installed \in [Flow -> Entry \cup {NoEntry}] /\ f \in submitted
    BY <2>1 DEF RecordInv, AdapterTypeOK, OnlySubmitted
  <2>3. \A g \in Flow : OnRecord(g)' <=> OnRecord(g)
    BY <2>1, <2>2 DEF OnRecord
  <2>4. submitted \subseteq Flow
    BY DEF RecordInv, AdapterTypeOK
  <2>5. QED BY <2>1, <2>2, <2>3, <2>4 DEF TellInv
<1>5. ASSUME NEW s \in Session, NEW l \in Link, Register(s, l)
      PROVE  TellInv'
  BY <1>5 DEF Register, adapterVars, TellInv, OnRecord
<1>6. ASSUME NEW r \in table, ControllerDropsRule(r)
      PROVE  TellInv'
  BY <1>6 DEF ControllerDropsRule, Lapse, TellInv, OnRecord
<1>7. ASSUME Restart PROVE TellInv'
  <2>1. /\ installed' = [f \in Flow |-> NoEntry]
        /\ forgotten' = forgotten \cup {f \in Flow : installed[f] # NoEntry}
        /\ UNCHANGED <<submitted, asked, outcome>>
    BY <1>7 DEF Restart, AdapterRestart
  <2>2. \A f \in Flow : OnRecord(f)' <=> OnRecord(f)
    BY <2>1 DEF OnRecord
  <2>3. submitted \subseteq Flow /\ forgotten' \subseteq submitted
    BY <2>1 DEF RecordInv, AdapterTypeOK, OnlySubmitted, TellInv
  <2>4. QED BY <2>1, <2>2, <2>3 DEF TellInv
<1>8. CASE UNCHANGED handoffVars
  BY <1>8 DEF handoffVars, adapterVars, TellInv, OnRecord
<1>9. QED
  BY <1>1, <1>2, <1>3, <1>4, <1>5, <1>6, <1>7, <1>8 DEF HandoffNext

LEMMA TellInvariant == HandoffSpec => []TellInv
<1>1. HandoffInit => TellInv
  BY DEF HandoffInit, AdapterInit, TellInv
<1>2. TellInv /\ RecordInv /\ [HandoffNext]_handoffVars => TellInv'
  BY TellStep
<1>3. HandoffSpec => []RecordInv
  BY FlowsAreTheAdapters, RecordInvariant, PTL
<1>4. QED BY <1>1, <1>2, <1>3, PTL DEF HandoffSpec

\* A caller is told "ok" exactly for the flows that went on record, for any
\* replies of the controllers and any restarts.
THEOREM RecordedIsReported == HandoffSpec => []RecordedIffReported
<1>1. TellInv /\ RecordInv => RecordedIffReported
  <2> SUFFICES ASSUME TellInv, RecordInv, NEW f \in Flow
               PROVE  outcome[f] # NoOutcome /\ outcome[f].result = "ok" <=> OnRecord(f)
    BY DEF RecordedIffReported, OnRecord
  <2>1. CASE f \in submitted
    BY <2>1 DEF TellInv
  <2>2. CASE f \notin submitted
    <3>1. ~OnRecord(f)
      BY <2>2 DEF TellInv, RecordInv, OnlySubmitted, OnRecord
    <3>2. QED BY <2>2, <3>1 DEF TellInv
  <2>3. QED BY <2>1, <2>2
<1>2. HandoffSpec => []RecordInv
  BY FlowsAreTheAdapters, RecordInvariant, PTL
<1>3. QED BY <1>1, <1>2, TellInvariant, PTL

-----------------------------------------------------------------------------
\* What the sandbox passed.

\* In memory mode a rule sits where its flow's caller wanted it, and was not
\* there already.
PlacedInv ==
    /\ \A f \in submitted :
          LinkToNodeId(outcome[f].source) # LinkToNodeId(outcome[f].target)
    /\ \A r \in table : r.node = LinkToNodeId(outcome[r.flow].target)

\* An installation that the sandbox passed places its rules.
LEMMA InstallationsArePlaced ==
    ASSUME PlacedInv, TellInv, RecordInv, NEW src, NEW dst, NEW f \in Flow, NEW id,
           NEW odl, NEW onos,
           UpdateFlowTable(LinkToNodeId(dst), f, id, odl, onos),
           LinkToNodeId(src) # LinkToNodeId(dst),
           outcome'[f].source = src, outcome'[f].target = dst,
           \A g \in Flow \ {f} : outcome'[g] = outcome[g]
    PROVE  PlacedInv'
<1>1. /\ submitted' = submitted \cup {f} /\ f \notin submitted
      /\ table' \subseteq table \cup {OdlRule(LinkToNodeId(dst), f),
                                      OnosRule(LinkToNodeId(dst), f, id)}
  BY DEF UpdateFlowTable
<1>2. submitted \subseteq Flow /\ \A r \in table : r.flow \in submitted
  BY DEF RecordInv, AdapterTypeOK, OnlySubmitted
<1>3. \A g \in submitted' :
          LinkToNodeId(outcome'[g].source) # LinkToNodeId(outcome'[g].target)
  BY <1>1, <1>2 DEF PlacedInv
<1>4. ASSUME NEW r \in table'
      PROVE  r.node = LinkToNodeId(outcome'[r.flow].target)
  <2>1. CASE r \in table
    <3>1. r.flow \in Flow \ {f}
      BY <1>1, <1>2, <2>1
    <3>2. QED BY <2>1, <3>1 DEF PlacedInv
  <2>2. CASE r \notin table
    <3>1. r.node = LinkToNodeId(dst) /\ r.flow = f
      BY <1>1, <1>4, <2>2 DEF OdlRule, OnosRule
    <3>2. QED BY <3>1
  <2>3. QED BY <2>1, <2>2
<1>5. QED BY <1>3, <1>4 DEF PlacedInv

LEMMA PlacedStep ==
    ASSUME Mode = "memory", PlacedInv, TellInv, RecordInv, [HandoffNext]_handoffVars
    PROVE  PlacedInv'
<1>1. ASSUME NEW src \in Link, NEW dst \in Link, NEW f \in Flow, NEW id \in OnosId,
             NEW failed \in SUBSET Session, NEW odl \in OdlCall, NEW onos \in OnosCall,
             ExecuteHandoff(src, dst, f, id, failed, odl, onos)
      PROVE  PlacedInv'
  <2> DEFINE o == [kind |-> "handoff", source |-> src, target |-> dst,
                   result |-> Installed(odl, onos), netconf |-> "untried"]
  <2>1. UpdateFlowTable(LinkToNodeId(dst), f, id, odl, onos)
    BY <1>1 DEF ExecuteHandoff, ResolveNodeId
  <2>2. outcome' = [outcome EXCEPT ![f] = o]
    BY <1>1 DEF ExecuteHandoff, Return
  <2>3. o \in Outcome /\ o.source = src /\ o.target = dst
    BY LinksHaveNames DEF Outcome, Installed
  <2>4. LinkToNodeId(src) # LinkToNodeId(dst)
    BY <1>1, PassedJoinsTwo DEF ExecuteHandoff
  <2>5. QED
    BY <2>1, <2>2, <2>3, <2>4, AnswersAreGivenOnce, InstallationsArePlaced
<1>2. ASSUME NEW src \in Link, NEW dst \in Link, NEW f \in Flow, NEW id \in OnosId,
             NEW netconf \in NetconfCall, NEW odl \in OdlCall, NEW onos \in OnosCall,
             ExecuteDeploy(src, dst, f, id, netconf, odl, onos)
      PROVE  PlacedInv'
  <2> DEFINE from == DeploySource(src, dst)
             o == [kind |-> "deploy", source |-> from, target |-> dst,
                   result |-> Installed(odl, onos), netconf |-> netconf]
  <2>1. UpdateFlowTable(LinkToNodeId(dst), f, id, odl, onos)
    BY <1>2 DEF ExecuteDeploy, ResolveNodeId
  <2>2. outcome' = [outcome EXCEPT ![f] = o]
    BY <1>2 DEF ExecuteDeploy, Return
  <2>3. o \in Outcome /\ o.source = from /\ o.target = dst
    BY LinksHaveNames DEF Outcome, Installed, NetconfCall
  <2>4. LinkToNodeId(from) # LinkToNodeId(dst)
    BY <1>2, PassedJoinsTwo DEF ExecuteDeploy
  <2>5. QED
    BY <2>1, <2>2, <2>3, <2>4, AnswersAreGivenOnce, InstallationsArePlaced
<1>3. ASSUME NEW src \in Link, NEW dst \in Link, NEW f \in Flow,
             RejectHandoff(src, dst, f) \/ RejectDeploy(src, dst, f)
      PROVE  PlacedInv'
  <2>1. UNCHANGED <<submitted, table>> /\ outcome[f] = NoOutcome
    BY <1>3 DEF RejectHandoff, RejectDeploy, adapterVars
  <2>2. \A g \in Flow \ {f} : outcome'[g] = outcome[g]
    BY <1>3 DEF RejectHandoff, RejectDeploy, Return, TellInv
  <2>3. submitted \subseteq Flow \ {f} /\ \A r \in table : r.flow \in submitted
    BY <2>1 DEF TellInv, RecordInv, AdapterTypeOK, OnlySubmitted
  <2>4. QED BY <2>1, <2>2, <2>3 DEF PlacedInv
<1>4. ASSUME NEW f \in Flow, NEW reply \in DeleteReply, RollbackHandoff(f, reply)
      PROVE  PlacedInv'
  BY <1>4 DEF RollbackHandoff, RollbackFlow, PlacedInv
<1>5. ASSUME NEW s \in Session, NEW l \in Link, Register(s, l)
      PROVE  PlacedInv'
  BY <1>5 DEF Register, adapterVars, PlacedInv
<1>6. ASSUME NEW r \in table, ControllerDropsRule(r)
      PROVE  PlacedInv'
  BY <1>6 DEF ControllerDropsRule, Lapse, PlacedInv
<1>7. ASSUME Restart PROVE PlacedInv'
  BY <1>7 DEF Restart, AdapterRestart, PlacedInv
<1>8. CASE UNCHANGED handoffVars
  BY <1>8 DEF handoffVars, adapterVars, PlacedInv
<1>9. QED
  BY <1>1, <1>2, <1>3, <1>4, <1>5, <1>6, <1>7, <1>8 DEF HandoffNext

\* In memory mode every rule at a controller comes from a change that the
\* sandbox passed, on the node of its target.
THEOREM RulesArePassed == Mode = "memory" => (HandoffSpec => []RulesPassedSandbox)
<1> SUFFICES ASSUME Mode = "memory" PROVE HandoffSpec => []RulesPassedSandbox
  OBVIOUS
<1>1. HandoffInit => PlacedInv
  BY DEF HandoffInit, AdapterInit, PlacedInv
<1>2. PlacedInv /\ TellInv /\ RecordInv /\ [HandoffNext]_handoffVars => PlacedInv'
  BY PlacedStep
<1>3. PlacedInv /\ TellInv /\ RecordInv => RulesPassedSandbox
  BY DEF PlacedInv, TellInv, RecordInv, OnlySubmitted, RulesPassedSandbox
<1>4. HandoffSpec => []RecordInv
  BY FlowsAreTheAdapters, RecordInvariant, PTL
<1>5. QED BY <1>1, <1>2, <1>3, <1>4, TellInvariant, PTL DEF HandoffSpec

-----------------------------------------------------------------------------
\* What moved.

\* The handoffs that were carried out.
Executed == {f \in Flow : /\ outcome[f] # NoOutcome
                          /\ outcome[f].kind = "handoff"
                          /\ outcome[f].result # "rejected"}

\* In memory mode there are as many of them as migrations, or more.
MovedInv ==
    /\ history \in Seq(HandoffResult)
    /\ \A i \in 1..Len(history) :
          LinkToNodeId(history[i].source) # LinkToNodeId(history[i].target)
    /\ IsFiniteSet(Executed)
    /\ Len(history) <= Cardinality(Executed)

LEMMA MovedStep ==
    ASSUME Mode = "memory", MovedInv, SessionTypeOK', TellInv, [HandoffNext]_handoffVars
    PROVE  MovedInv'
<1>0. Cardinality(Executed) \in Nat /\ Len(history) \in Nat
  BY FS_CardinalityType DEF MovedInv
<1>1. ASSUME NEW src \in Link, NEW dst \in Link, NEW f \in Flow, NEW id \in OnosId,
             NEW failed \in SUBSET Session, NEW odl \in OdlCall, NEW onos \in OnosCall,
             ExecuteHandoff(src, dst, f, id, failed, odl, onos)
      PROVE  MovedInv'
  <2> DEFINE o == [kind |-> "handoff", source |-> src, target |-> dst,
                   result |-> Installed(odl, onos), netconf |-> "untried"]
  <2>1. outcome[f] = NoOutcome /\ outcome' = [outcome EXCEPT ![f] = o]
    BY <1>1 DEF ExecuteHandoff, Return
  <2>2. o \in Outcome /\ o.kind = "handoff" /\ o.result # "rejected"
    BY LinksHaveNames DEF Outcome, Installed
  <2>3. /\ outcome'[f] = o /\ outcome'[f] # NoOutcome
        /\ \A g \in Flow \ {f} : outcome'[g] = outcome[g]
    BY <2>1, <2>2, AnswersAreGivenOnce
  <2>4. f \notin Executed /\ Executed' = Executed \cup {f}
    BY <2>1, <2>2, <2>3 DEF Executed
  <2>5. IsFiniteSet(Executed') /\ Cardinality(Executed') = Cardinality(Executed) + 1
    BY <2>4, FS_AddElement DEF MovedInv
  <2>6. PICK h : /\ history' = Append(history, h)
                 /\ h.source = src /\ h.target = dst
    BY <1>1 DEF ExecuteHandoff, MigrateSessions, Account
  <2>7. LinkToNodeId(src) # LinkToNodeId(dst)
    BY <1>1, PassedJoinsTwo DEF ExecuteHandoff
  <2>8. Len(history') = Len(history) + 1
    BY <2>6 DEF MovedInv
  <2>9. ASSUME NEW i \in 1..Len(history')
        PROVE  LinkToNodeId(history'[i].source) # LinkToNodeId(history'[i].target)
    <3>1. CASE i \in 1..Len(history)
      BY <2>6, <3>1 DEF MovedInv
    <3>2. CASE i = Len(history) + 1
      BY <2>6, <2>7, <3>2 DEF MovedInv
    <3>3. QED BY <1>0, <2>8, <3>1, <3>2
  <2>10. QED BY <1>0, <2>5, <2>8, <2>9 DEF MovedInv, SessionTypeOK
<1>2. ASSUME NEW f \in Flow, NEW o \in Outcome, outcome[f] = NoOutcome,
             outcome' = [outcome EXCEPT ![f] = o], UNCHANGED history,
             o.kind = "deploy" \/ o.result = "rejected"
      PROVE  MovedInv'
  <2>1. /\ outcome'[f] = o
        /\ \A g \in Flow \ {f} : outcome'[g] = outcome[g]
    BY <1>2, AnswersAreGivenOnce
  <2>2. Executed' = Executed
    BY <1>2, <2>1 DEF Executed
  <2>3. QED BY <1>2, <2>2 DEF MovedInv
<1>3. ASSUME NEW src \in Link, NEW dst \in Link, NEW f \in Flow, NEW id \in OnosId,
             NEW netconf \in NetconfCall, NEW odl \in OdlCall, NEW onos \in OnosCall,
             ExecuteDeploy(src, dst, f, id, netconf, odl, onos)
      PROVE  MovedInv'
  <2> DEFINE o == [kind |-> "deploy", source |-> DeploySource(src, dst), target |-> dst,
                   result |-> Installed(odl, onos), netconf |-> netconf]
  <2>1. outcome[f] = NoOutcome /\ outcome' = [outcome EXCEPT ![f] = o]
    BY <1>3 DEF ExecuteDeploy, Return
  <2>2. o \in Outcome /\ o.kind = "deploy"
    BY LinksHaveNames DEF Outcome, Installed, NetconfCall
  <2>3. UNCHANGED history
    BY <1>3 DEF ExecuteDeploy, sessionVars
  <2>4. QED BY <1>2, <2>1, <2>2, <2>3
<1>4. ASSUME NEW src \in Link, NEW dst \in Link, NEW f \in Flow,
             RejectHandoff(src, dst, f) \/ RejectDeploy(src, dst, f)
      PROVE  MovedInv'
  <2>1. PICK kind \in {"handoff", "deploy"}, from \in LinkName :
            outcome' = [outcome EXCEPT ![f] =
                          [kind |-> kind, source |-> from, target |-> dst,
                           result |-> "rejected", netconf |-> "untried"]]
    BY <1>4, LinksHaveNames DEF RejectHandoff, RejectDeploy, Return
  <2> DEFINE o == [kind |-> kind, source |-> from, target |-> dst,
                   result |-> "rejected", netconf |-> "untried"]
  <2>2. o \in Outcome /\ o.result = "rejected"
    BY LinksHaveNames DEF Outcome
  <2>3. UNCHANGED history /\ outcome[f] = NoOutcome
    BY <1>4 DEF RejectHandoff, RejectDeploy, sessionVars
  <2>4. QED BY <1>2, <2>1, <2>2, <2>3
<1>5. CASE UNCHANGED <<history, outcome>>
  BY <1>5 DEF MovedInv, Executed
<1>6. ASSUME Restart PROVE MovedInv'
  <2>1. history' = <<>> /\ UNCHANGED outcome
    BY <1>6 DEF Restart, SessionRestart
  <2>2. Executed' = Executed
    BY <2>1 DEF Executed
  <2>3. QED BY <1>0, <2>1, <2>2 DEF MovedInv
<1>7. ASSUME NEW f \in Flow, NEW reply \in DeleteReply, RollbackHandoff(f, reply)
      PROVE  UNCHANGED <<history, outcome>>
  BY <1>7 DEF RollbackHandoff, sessionVars
<1>8. ASSUME NEW s \in Session, NEW l \in Link, Register(s, l)
      PROVE  UNCHANGED <<history, outcome>>
  BY <1>8 DEF Register, RegisterSession
<1>9. ASSUME NEW r \in table, ControllerDropsRule(r)
      PROVE  UNCHANGED <<history, outcome>>
  BY <1>9 DEF ControllerDropsRule, sessionVars
<1>10. CASE UNCHANGED handoffVars
  BY <1>5, <1>10 DEF handoffVars, sessionVars
<1>11. QED
  BY <1>1, <1>3, <1>4, <1>5, <1>6, <1>7, <1>8, <1>9, <1>10 DEF HandoffNext

\* In memory mode sessions leave a link only in a handoff that the sandbox
\* passed.
THEOREM MigrationsArePassed ==
    Mode = "memory" => (HandoffSpec => []MigrationsPassedSandbox)
<1> SUFFICES ASSUME Mode = "memory" PROVE HandoffSpec => []MigrationsPassedSandbox
  OBVIOUS
<1>1. HandoffInit => MovedInv
  <2>1. HandoffInit => Executed = {} /\ history = <<>>
    BY DEF HandoffInit, SessionInit, Executed
  <2>2. QED BY <2>1, FS_EmptySet DEF MovedInv
<1>2. MovedInv /\ SessionTypeOK' /\ TellInv /\ [HandoffNext]_handoffVars => MovedInv'
  BY MovedStep
<1>3. MovedInv => MigrationsPassedSandbox
  BY DEF MovedInv, Executed, MigrationsPassedSandbox
<1>4. HandoffSpec => []SessionTypeOK
  BY HandoffsAreMigrations, SessionTypeCorrect, PTL
<1>5. QED BY <1>1, <1>2, <1>3, <1>4, TellInvariant, PTL DEF HandoffSpec

=============================================================================
