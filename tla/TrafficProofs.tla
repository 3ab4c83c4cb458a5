--------------------------- MODULE TrafficProofs ---------------------------
(***************************************************************************)
(* The two components that move or shape traffic themselves: the traffic   *)
(* shaper of the server, for any apps, intents, numeral base and length of *)
(* the list, and the traffic steering service, for any links, classes and  *)
(* kinds of shift.                                                         *)
(***************************************************************************)
EXTENDS TrafficShaper, TrafficSteering, SequenceTheorems, TLAPS

-----------------------------------------------------------------------------
(* What the traffic shaper leaves on the host.  Its calls are functions    *)
(* from what they find to what they leave, so the lemmas are about those   *)
(* functions: each keeps the host accounted for (Good), however many of    *)
(* the scripts it runs work.                                               *)

Found == [list : Seq(TrafficPolicy), host : SUBSET Name, n : Nat,
          enforced : [app : Signed, level : Level] \cup {Nothing}, left : SUBSET Name]

Good(s) ==
    /\ s \in Found
    /\ Len(s.list) <= MaxPolicies
    /\ \A k \in 1..Len(s.list) : s.list[k].name.number <= s.n
    /\ s.host \subseteq ActiveNames(s.list) \cup s.left

ShaperInv ==
    /\ ShaperTypeOK
    /\ \A k \in 1..Len(policies) : policies[k].name.number <= counter
    /\ HostIsAccountedFor

-----------------------------------------------------------------------------
\* The calls as functions.

\* The active names of a list are well typed, and have numbers of that list.
LEMMA ActiveNamesType ==
    ASSUME NEW list \in Seq(TrafficPolicy)
    PROVE  /\ ActiveNames(list) \subseteq Name
           /\ \A m \in ActiveNames(list) : \E k \in 1..Len(list) : m = list[k].name /\ list[k].active
           /\ \A k \in 1..Len(list) : list[k].active => list[k].name \in ActiveNames(list)
<1>1. \A k \in 1..Len(list) : list[k].name \in Name
  <2>1. \A k \in 1..Len(list) : list[k] \in TrafficPolicy
    OBVIOUS
  <2>2. QED BY <2>1 DEF TrafficPolicy
<1>2. ActiveNames(list) \subseteq Name
  BY <1>1, Zenon DEF ActiveNames
<1>3. \A m \in ActiveNames(list) : \E k \in 1..Len(list) : m = list[k].name /\ list[k].active
  BY Zenon DEF ActiveNames
<1>4. \A k \in 1..Len(list) : list[k].active => list[k].name \in ActiveNames(list)
  BY Zenon DEF ActiveNames
<1>5. QED BY <1>2, <1>3, <1>4

\* What a new policy changes.
LEMMA PushedFields ==
    ASSUME NEW s \in Found, NEW app, NEW action, NEW by,
           NEW t, t = Pushed(s, app, action, by)
    PROVE  /\ t.list = Append(IF Len(s.list) = MaxPolicies THEN Tail(s.list) ELSE s.list,
                              [name |-> [action |-> action, app |-> app, number |-> s.n + 1],
                               createdBy |-> by, active |-> TRUE])
           /\ t.host = s.host /\ t.n = s.n + 1 /\ t.enforced = s.enforced
           /\ t.left = s.left \cup (IF Len(s.list) = MaxPolicies THEN {s.list[1].name} ELSE {})
<1>1. t.list = Append(IF Len(s.list) = MaxPolicies THEN Tail(s.list) ELSE s.list,
                      [name |-> [action |-> action, app |-> app, number |-> s.n + 1],
                       createdBy |-> by, active |-> TRUE])
  BY DEF Pushed, Found
<1>2. t.host = s.host /\ t.n = s.n + 1 /\ t.enforced = s.enforced
  BY DEF Pushed, Found
<1>3. t.left = s.left \cup (IF Len(s.list) = MaxPolicies THEN {s.list[1].name} ELSE {})
  BY DEF Pushed, Found
<1>4. QED BY <1>1, <1>2, <1>3

\* A new policy is active under a number of its own; the list loses at most its
\* oldest name, which is left behind.
LEMMA PushedIsGood ==
    ASSUME NEW s, Good(s), NEW app \in App, NEW action \in PolicyAction,
           NEW by \in Intent \cup {Manual},
           NEW t, t = Pushed(s, app, action, by)
    PROVE  /\ Good(t)
           /\ [action |-> action, app |-> app, number |-> t.n] \in ActiveNames(t.list) \cap Name
<1> DEFINE policy == [name |-> [action |-> action, app |-> app, number |-> s.n + 1],
                      createdBy |-> by, active |-> TRUE]
           full == Len(s.list) = MaxPolicies
           old == IF full THEN Tail(s.list) ELSE s.list
           shift == IF full THEN 1 ELSE 0
<1>1. /\ s \in Found /\ s.list \in Seq(TrafficPolicy) /\ s.n \in Nat /\ Len(s.list) \in Nat
      /\ s.host \subseteq Name /\ s.left \subseteq Name
      /\ s.enforced \in [app : Signed, level : Level] \cup {Nothing}
  BY DEF Good, Found
<1>2. policy.name = [action |-> action, app |-> app, number |-> s.n + 1] /\ policy.active
  OBVIOUS
<1>3. policy \in TrafficPolicy /\ policy.name \in Name
  <2>1. [action |-> action, app |-> app, number |-> s.n + 1] \in Name
    BY <1>1 DEF Name
  <2>2. QED BY <2>1 DEF TrafficPolicy
<1>4. /\ old \in Seq(TrafficPolicy) /\ Len(old) = Len(s.list) - shift
      /\ \A k \in 1..Len(old) : old[k] = s.list[k + shift]
  <2>1. CASE full
    <3>1. s.list # <<>>
      BY <1>1, <2>1, PoliciesAssumption
    <3>2. /\ Tail(s.list) \in Seq(TrafficPolicy) /\ Len(Tail(s.list)) = Len(s.list) - 1
          /\ \A k \in 1..Len(Tail(s.list)) : Tail(s.list)[k] = s.list[k + 1]
      BY <1>1, <3>1, HeadTailProperties
    <3>3. QED BY <2>1, <3>2
  <2>2. CASE ~full
    BY <1>1, <2>2
  <2>3. QED BY <2>1, <2>2
<1>5. Len(old) + 1 <= MaxPolicies /\ Len(s.list) <= MaxPolicies
  BY <1>1, <1>4, PoliciesAssumption DEF Good
<1>6. /\ t.list = Append(old, policy) /\ t.host = s.host /\ t.n = s.n + 1
      /\ t.enforced = s.enforced
      /\ t.left = s.left \cup (IF full THEN {s.list[1].name} ELSE {})
  BY <1>1, PushedFields
<1> HIDE DEF policy, old
<1>7. /\ t.list \in Seq(TrafficPolicy) /\ Len(t.list) = Len(old) + 1
      /\ \A k \in 1..Len(old) : t.list[k] = old[k]
      /\ t.list[Len(old) + 1] = policy
  <2>1. policy \in TrafficPolicy /\ old \in Seq(TrafficPolicy)
    BY <1>3, <1>4
  <2>2. /\ Append(old, policy) \in Seq(TrafficPolicy)
        /\ Len(Append(old, policy)) = Len(old) + 1
        /\ \A k \in 1..Len(old) : Append(old, policy)[k] = old[k]
        /\ Append(old, policy)[Len(old) + 1] = policy
    BY <2>1
  <2>3. t.list = Append(old, policy)
    BY <1>6
  <2>4. QED BY <2>2, <2>3
<1>8. Len(old) \in Nat
  BY <1>4
<1>9. policy.name \in ActiveNames(t.list)
  <2>1. Len(old) + 1 \in 1..Len(t.list)
    BY <1>7, <1>8
  <2>2. QED BY <1>2, <1>7, <2>1, ActiveNamesType
<1>10. ActiveNames(t.list) \subseteq ActiveNames(s.list) \cup {policy.name}
  <2> SUFFICES ASSUME NEW m \in ActiveNames(t.list) PROVE m \in ActiveNames(s.list) \cup {policy.name}
    OBVIOUS
  <2>1. PICK k \in 1..Len(t.list) : m = t.list[k].name /\ t.list[k].active
    BY <1>7, ActiveNamesType
  <2>2. CASE k = Len(old) + 1
    BY <2>1, <2>2, <1>7
  <2>3. CASE k # Len(old) + 1
    <3>1. k \in 1..Len(old) /\ k + shift \in 1..Len(s.list)
      BY <2>3, <1>1, <1>4, <1>7
    <3>2. t.list[k] = s.list[k + shift]
      BY <3>1, <1>4, <1>7
    <3>3. QED BY <2>1, <3>1, <3>2, <1>1, ActiveNamesType
  <2>4. QED BY <2>2, <2>3
<1>11. ActiveNames(s.list) \subseteq ActiveNames(t.list) \cup t.left
  <2> SUFFICES ASSUME NEW m \in ActiveNames(s.list) PROVE m \in ActiveNames(t.list) \cup t.left
    OBVIOUS
  <2>1. PICK k \in 1..Len(s.list) : m = s.list[k].name /\ s.list[k].active
    BY <1>1, ActiveNamesType
  <2>2. CASE full /\ k = 1
    BY <2>1, <2>2, <1>6
  <2>3. CASE ~(full /\ k = 1)
    <3>1. k - shift \in 1..Len(old) /\ (k - shift) + shift = k
      BY <2>3, <1>1, <1>4
    <3>2. k - shift \in 1..Len(t.list)
      BY <3>1, <1>7, <1>8
    <3>3. t.list[k - shift] = s.list[k]
      BY <3>1, <1>4, <1>7
    <3>4. QED BY <2>1, <3>2, <3>3, <1>7, ActiveNamesType
  <2>4. QED BY <2>2, <2>3
<1>12. \A k \in 1..Len(t.list) : t.list[k].name.number <= t.n
  <2> SUFFICES ASSUME NEW k \in 1..Len(t.list) PROVE t.list[k].name.number <= t.n
    OBVIOUS
  <2>1. CASE k = Len(old) + 1
    <3>1. t.list[k].name.number = s.n + 1
      BY <2>1, <1>2, <1>7
    <3>2. QED BY <3>1, <1>1, <1>6
  <2>2. CASE k # Len(old) + 1
    <3>1. k \in 1..Len(old)
      BY <2>2, <1>7, <1>8
    <3>2. k \in 1..Len(old) /\ k + shift \in 1..Len(s.list)
      BY <3>1, <1>1, <1>4, <1>8
    <3>3. t.list[k] = s.list[k + shift] /\ s.list[k + shift] \in TrafficPolicy
      BY <3>2, <1>1, <1>4, <1>7
    <3>4. s.list[k + shift].name.number <= s.n
      BY <3>2 DEF Good
    <3>5. s.list[k + shift].name.number \in Nat
      BY <3>3 DEF TrafficPolicy, Name
    <3>6. QED BY <3>3, <3>4, <3>5, <1>1, <1>6
  <2>3. QED BY <2>1, <2>2
<1>13. t.left \subseteq Name
  <2>1. CASE full
    <3>1. s.list[1] \in TrafficPolicy
      BY <2>1, <1>1, PoliciesAssumption
    <3>2. s.list[1].name \in Name
      BY <3>1 DEF TrafficPolicy
    <3>3. QED BY <3>2, <1>1, <1>6
  <2>2. CASE ~full
    BY <2>2, <1>1, <1>6
  <2>3. QED BY <2>1, <2>2
<1>14. t \in Found
  <2>1. t = [s EXCEPT !.n = t.n, !.list = t.list, !.left = t.left]
    BY <1>1 DEF Pushed, Found
  <2>2. QED BY <2>1, <1>1, <1>6, <1>7, <1>13 DEF Found
<1>15. Good(t)
  <2>1. Len(t.list) <= MaxPolicies
    BY <1>5, <1>7
  <2>2. t.host \subseteq ActiveNames(t.list) \cup t.left
    BY <1>6, <1>11 DEF Good
  <2>3. QED BY <1>12, <1>14, <2>1, <2>2 DEF Good
<1>16. QED BY <1>2, <1>3, <1>6, <1>9, <1>15

\* The list keeps its names when some of its policies end.
LEMMA DeactivatedNames ==
    ASSUME NEW list \in Seq(TrafficPolicy), NEW names,
           NEW new, new = Deactivated(list, names)
    PROVE  /\ new \in Seq(TrafficPolicy) /\ Len(new) = Len(list)
           /\ \A k \in 1..Len(list) : new[k].name = list[k].name
           /\ ActiveNames(new) = ActiveNames(list) \ names
<1>1. ASSUME NEW k \in 1..Len(list)
      PROVE  /\ new[k] \in TrafficPolicy /\ new[k].name = list[k].name
             /\ list[k].name \in names => new[k].active = FALSE
             /\ list[k].name \notin names => new[k] = list[k]
  <2>1. list[k] \in TrafficPolicy
    OBVIOUS
  <2>2. new[k] = IF list[k].name \in names THEN [list[k] EXCEPT !.active = FALSE] ELSE list[k]
    BY DEF Deactivated
  <2>3. CASE list[k].name \in names
    BY <2>1, <2>2, <2>3 DEF TrafficPolicy
  <2>4. CASE list[k].name \notin names
    BY <2>1, <2>2, <2>4
  <2>5. QED BY <2>3, <2>4
<1>2. new \in Seq(TrafficPolicy) /\ Len(new) = Len(list)
  <2>1. Len(list) \in Nat /\ DOMAIN new = 1..Len(list)
    BY DEF Deactivated
  <2>2. new = [k \in 1..Len(list) |-> new[k]]
    BY DEF Deactivated
  <2>3. new \in [1..Len(list) -> TrafficPolicy]
    BY <1>1, <2>2
  <2>4. new \in Seq(TrafficPolicy)
    BY <2>1, <2>3, SeqDef
  <2>5. Len(new) = Len(list)
    BY <2>1, <2>4, LenProperties
  <2>6. QED BY <2>4, <2>5
<1>3. \A m \in ActiveNames(new) : m \in ActiveNames(list) \ names
  <2> SUFFICES ASSUME NEW m \in ActiveNames(new) PROVE m \in ActiveNames(list) \ names
    OBVIOUS
  <2>1. PICK k \in 1..Len(new) : m = new[k].name /\ new[k].active
    BY <1>2, ActiveNamesType
  <2>2. k \in 1..Len(list)
    BY <1>2
  <2>3. m = list[k].name /\ list[k].name \notin names
    BY <1>1, <2>1, <2>2
  <2>4. list[k].active
    BY <1>1, <2>1, <2>2, <2>3
  <2>5. QED BY <2>2, <2>3, <2>4, ActiveNamesType
<1>4. \A m \in ActiveNames(list) \ names : m \in ActiveNames(new)
  <2> SUFFICES ASSUME NEW m \in ActiveNames(list), m \notin names PROVE m \in ActiveNames(new)
    OBVIOUS
  <2>1. PICK k \in 1..Len(list) : m = list[k].name /\ list[k].active
    BY ActiveNamesType
  <2>2. k \in 1..Len(new) /\ new[k] = list[k]
    BY <1>1, <1>2, <2>1
  <2>3. QED BY <1>2, <2>1, <2>2, ActiveNamesType
<1>5. ActiveNames(new) = ActiveNames(list) \ names
  BY <1>3, <1>4
<1>6. QED BY <1>1, <1>2, <1>5

\* Policies that end lose what they left on the host, or leave it behind,
\* whichever of their scripts work.
LEMMA EndedIsGood ==
    ASSUME NEW s, Good(s), NEW names \in SUBSET ActiveNames(s.list), NEW taken \in SUBSET names,
           NEW t, t = Ended(s, names, taken)
    PROVE  Good(t)
<1>1. /\ s \in Found /\ s.list \in Seq(TrafficPolicy) /\ s.n \in Nat
      /\ s.host \subseteq Name /\ s.left \subseteq Name
      /\ s.enforced \in [app : Signed, level : Level] \cup {Nothing}
  BY DEF Good, Found
<1>2. /\ t.list = Deactivated(s.list, names) /\ t.n = s.n
      /\ t.host = s.host \ Removed(s.host, taken)
      /\ t.left = s.left \cup (names \ taken)
  BY <1>1 DEF Ended, Found
<1>3. /\ t.list \in Seq(TrafficPolicy) /\ Len(t.list) = Len(s.list)
      /\ \A k \in 1..Len(s.list) : t.list[k].name = s.list[k].name
      /\ ActiveNames(t.list) = ActiveNames(s.list) \ names
  BY <1>1, <1>2, DeactivatedNames
<1>4. t.host \subseteq ActiveNames(t.list) \cup t.left
  <2>1. s.host \subseteq ActiveNames(s.list) \cup s.left
    BY DEF Good
  <2>2. \A m : Matches(m, m)
    BY DEF Matches, Begins
  <2>3. taken \cap s.host \subseteq Removed(s.host, taken)
    BY <2>2 DEF Removed
  <2>4. QED BY <2>1, <2>3, <1>2, <1>3
<1>5. t \in Found
  <2>1. names \subseteq Name
    BY <1>1, ActiveNamesType
  <2>2. t.host \subseteq Name /\ t.left \subseteq Name
    BY <1>1, <1>2, <2>1
  <2>3. t = [s EXCEPT !.list = t.list, !.host = t.host, !.left = t.left]
    BY <1>1 DEF Ended, Found
  <2>4. QED BY <2>2, <2>3, <1>1, <1>3 DEF Found
<1>6. QED
  <2>1. \A k \in 1..Len(t.list) : t.list[k].name.number <= t.n
    BY <1>2, <1>3 DEF Good
  <2>2. Len(t.list) <= MaxPolicies
    BY <1>3 DEF Good
  <2>3. QED BY <1>4, <1>5, <2>1, <2>2 DEF Good

\* The enforcement is on its own.
LEMMA EnforcedApart ==
    ASSUME NEW s, Good(s), NEW e \in [app : Signed, level : Level] \cup {Nothing},
           NEW t, t = [s EXCEPT !.enforced = e]
    PROVE  Good(t) /\ t.list = s.list /\ t.host = s.host /\ t.n = s.n /\ t.left = s.left
<1>1. s \in Found
  BY DEF Good
<1>2. t \in Found
  BY <1>1 DEF Found
<1>3. t.list = s.list /\ t.host = s.host /\ t.n = s.n /\ t.left = s.left
  BY <1>1 DEF Found
<1>4. QED BY <1>2, <1>3 DEF Good

\* A throttled app gets a policy, and with it perhaps an artifact.
LEMMA ThrottledIsGood ==
    ASSUME NEW s, Good(s), NEW app \in App, NEW level \in Level,
           NEW by \in Intent \cup {Manual}, NEW works \in BOOLEAN,
           NEW t, t = Throttled(s, app, level, by, works)
    PROVE  Good(t)
<1> DEFINE u == Pushed(s, app, "throttle", by)
           name == [action |-> "throttle", app |-> app, number |-> u.n]
           e == IF app \in Signed THEN [app |-> app, level |-> level] ELSE u.enforced
           v == [u EXCEPT !.enforced = e]
<1>1. Good(u) /\ name \in ActiveNames(u.list) \cap Name
  BY PushedIsGood DEF PolicyAction
<1>2. t = [u EXCEPT !.host = @ \cup (IF works THEN {name} ELSE {}), !.enforced = e]
  BY DEF Throttled
<1> HIDE DEF u, name
<1>3. e \in [app : Signed, level : Level] \cup {Nothing}
  BY <1>1 DEF Good, Found
<1> HIDE DEF e
<1>4. Good(v) /\ v.list = u.list /\ v.host = u.host /\ v.n = u.n /\ v.left = u.left
  BY <1>1, <1>3, EnforcedApart
<1>5. u \in Found /\ u.host \subseteq Name
  BY <1>1 DEF Good, Found
<1>6. t.list = u.list /\ t.n = u.n /\ t.left = u.left
  BY <1>2, <1>5 DEF Found
<1>7. t.host = u.host \cup (IF works THEN {name} ELSE {})
  BY <1>2, <1>5 DEF Found
<1>8. t \in Found
  <2>1. u.host \cup (IF works THEN {name} ELSE {}) \in SUBSET Name
    BY <1>1, <1>5
  <2>2. QED BY <1>2, <1>3, <1>5, <2>1 DEF Found
<1>9. QED
  <2>1. u.host \subseteq ActiveNames(u.list) \cup u.left
    BY <1>1 DEF Good
  <2>2. t.host \subseteq ActiveNames(t.list) \cup t.left
    BY <2>1, <1>1, <1>6, <1>7
  <2>3. QED BY <1>1, <1>6, <1>8, <2>2 DEF Good

\* A prioritized app loses its policies and gets a new one.
LEMMA PrioritizedIsGood ==
    ASSUME NEW s, Good(s), NEW app \in App, NEW by \in Intent \cup {Manual},
           NEW taken \in SUBSET NamesOf(s.list, app), NEW t, t = Prioritized(s, app, by, taken)
    PROVE  Good(t)
<1> DEFINE names == NamesOf(s.list, app)
           u == Ended(s, names, taken)
<1>1. names \in SUBSET ActiveNames(s.list)
  BY DEF NamesOf
<1>2. t = Pushed(u, app, "prioritize", by)
  BY DEF Prioritized
<1> HIDE DEF names
<1>3. Good(u)
  BY <1>1, EndedIsGood DEF names
<1> HIDE DEF u
<1>4. QED BY <1>2, <1>3, PushedIsGood DEF PolicyAction

-----------------------------------------------------------------------------
\* The state a call finds, and the one it leaves.

\* What a call finds is good.
LEMMA NowIsGood ==
    ASSUME ShaperInv
    PROVE  /\ Good(Now) /\ Now.list = policies /\ Now.host = artifacts /\ Now.n = counter
           /\ Now.left = leftBehind /\ Now.enforced = enforced
<1>1. /\ Now.list = policies /\ Now.host = artifacts /\ Now.n = counter
      /\ Now.left = leftBehind /\ Now.enforced = enforced
  BY DEF Now
<1>2. Now \in Found
  BY DEF Now, Found, ShaperInv, ShaperTypeOK
<1>3. QED
  BY <1>1, <1>2 DEF Good, ShaperInv, ShaperTypeOK, HostIsAccountedFor

\* A call that leaves what is good keeps the invariant.
LEMMA BecomesIsGood ==
    ASSUME ShaperInv, NEW s, Good(s), Becomes(s),
           intents' \in [Intent -> {"new", "compliant", "deleted"}]
    PROVE  ShaperInv'
<1>1. /\ policies' = s.list /\ artifacts' = s.host /\ counter' = s.n
      /\ enforced' = s.enforced /\ leftBehind' = s.left \cap s.host
  BY DEF Becomes
<1>2. /\ s.list \in Seq(TrafficPolicy) /\ s.host \subseteq Name /\ s.n \in Nat
      /\ s.enforced \in [app : Signed, level : Level] \cup {Nothing}
  BY DEF Good, Found
<1>3. ShaperTypeOK'
  BY <1>1, <1>2 DEF ShaperTypeOK, Good
<1>4. (\A k \in 1..Len(policies) : policies[k].name.number <= counter)'
  BY <1>1 DEF Good
<1>5. HostIsAccountedFor'
  <2>1. s.host \subseteq ActiveNames(s.list) \cup (s.left \cap s.host)
    BY DEF Good
  <2>2. ActiveNames(policies)' = ActiveNames(s.list)
    BY <1>1 DEF ActiveNames
  <2>3. QED BY <2>1, <2>2, <1>1 DEF HostIsAccountedFor
<1>6. QED BY <1>3, <1>4, <1>5 DEF ShaperInv

-----------------------------------------------------------------------------
\* The handlers.

Statuses == [Intent -> {"new", "compliant", "deleted"}]

LEMMA ThrottleAppStep ==
    ASSUME ShaperInv, NEW app \in App, NEW level \in Level, NEW by \in Intent \cup {Manual},
           NEW works \in BOOLEAN, ThrottleApp(app, level, by, works), intents' \in Statuses
    PROVE  ShaperInv'
<1> DEFINE t == Throttled(Now, app, level, by, works)
<1>1. Good(t)
  BY NowIsGood, ThrottledIsGood
<1>2. Becomes(t)
  BY DEF ThrottleApp
<1> HIDE DEF t
<1>3. QED BY <1>1, <1>2, BecomesIsGood DEF Statuses

LEMMA PrioritizeAppStep ==
    ASSUME ShaperInv, NEW app \in App, NEW by \in Intent \cup {Manual},
           NEW taken, PrioritizeApp(app, by, taken), intents' \in Statuses
    PROVE  ShaperInv'
<1> DEFINE t == Prioritized(Now, app, by, taken)
<1>1. taken \in SUBSET NamesOf(Now.list, app)
  BY NowIsGood DEF PrioritizeApp
<1>2. Good(t)
  BY <1>1, NowIsGood, PrioritizedIsGood
<1>3. Becomes(t)
  BY DEF PrioritizeApp
<1> HIDE DEF t
<1>4. QED BY <1>2, <1>3, BecomesIsGood DEF Statuses

LEMMA PrioritizeOverStep ==
    ASSUME ShaperInv, NEW high \in App, NEW low \in App, NEW level \in Level,
           NEW by \in Intent \cup {Manual}, NEW taken, NEW works \in BOOLEAN,
           PrioritizeOver(high, low, level, by, taken, works), intents' \in Statuses
    PROVE  ShaperInv'
<1> DEFINE t == Prioritized(Now, high, by, taken)
           u == Throttled(t, low, level, by, works)
<1>1. taken \in SUBSET NamesOf(Now.list, high)
  BY NowIsGood DEF PrioritizeOver
<1>2. Good(t)
  BY <1>1, NowIsGood, PrioritizedIsGood
<1>3. Becomes(u)
  BY DEF PrioritizeOver
<1> HIDE DEF t
<1>4. Good(u)
  BY <1>2, ThrottledIsGood
<1> HIDE DEF u
<1>5. QED BY <1>3, <1>4, BecomesIsGood DEF Statuses

\* Policies end and their removal is tried: remove_policy and delete_intent.
LEMMA EndStep ==
    ASSUME ShaperInv, NEW names \in SUBSET ActiveNames(policies), NEW taken \in SUBSET names,
           NEW e \in [app : Signed, level : Level] \cup {Nothing},
           Becomes([Ended(Now, names, taken) EXCEPT !.enforced = e]), intents' \in Statuses
    PROVE  ShaperInv'
<1> DEFINE t == Ended(Now, names, taken)
           u == [t EXCEPT !.enforced = e]
<1>1. Good(t)
  BY NowIsGood, EndedIsGood
<1> HIDE DEF t
<1>2. Good(u)
  BY <1>1, EnforcedApart
<1>3. Becomes(u)
  BY DEF t
<1> HIDE DEF u
<1>4. QED BY <1>2, <1>3, BecomesIsGood DEF Statuses

LEMMA RemoveAllStep ==
    ASSUME ShaperInv, NEW works \in BOOLEAN, RemoveAll(works), intents' \in Statuses
    PROVE  ShaperInv'
<1> DEFINE names == ActiveNames(policies)
           t == [Now EXCEPT !.list = Deactivated(@, ActiveNames(@)),
                            !.host = IF works THEN {} ELSE @,
                            !.left = @ \cup (IF works THEN {} ELSE ActiveNames(policies))]
<1>1. /\ Good(Now) /\ Now.list = policies /\ Now.host = artifacts /\ Now.n = counter
      /\ Now.left = leftBehind /\ Now \in Found
  BY NowIsGood DEF Good
<1>2. /\ policies \in Seq(TrafficPolicy) /\ counter \in Nat /\ artifacts \subseteq Name
      /\ leftBehind \subseteq Name /\ Len(policies) <= MaxPolicies
  BY DEF ShaperInv, ShaperTypeOK
<1>3. t.list = Deactivated(policies, names) /\ t.n = counter
  BY <1>1 DEF Found
<1>4. works = TRUE => t.host = {} /\ t.left = leftBehind
  BY <1>1 DEF Found
<1>5. works = FALSE => t.host = artifacts /\ t.left = leftBehind \cup names
  BY <1>1 DEF Found
<1>6. t = [Now EXCEPT !.list = t.list, !.host = t.host, !.left = t.left]
  BY <1>1 DEF Found
<1>7. Becomes(t)
  BY DEF RemoveAll
<1> HIDE DEF t
<1>8. /\ t.list \in Seq(TrafficPolicy) /\ Len(t.list) = Len(policies)
      /\ \A k \in 1..Len(policies) : t.list[k].name = policies[k].name
      /\ ActiveNames(t.list) = ActiveNames(policies) \ names
  BY <1>2, <1>3, DeactivatedNames
<1>9. t \in Found
  <2>1. names \subseteq Name
    BY <1>2, ActiveNamesType
  <2>2. t.host \subseteq Name /\ t.left \subseteq Name
    BY <1>2, <1>4, <1>5, <2>1
  <2>3. QED BY <2>2, <1>1, <1>6, <1>8 DEF Found
<1>10. Good(t)
  <2>1. \A k \in 1..Len(t.list) : t.list[k].name.number <= t.n
    BY <1>3, <1>8 DEF ShaperInv
  <2>2. t.host \subseteq ActiveNames(t.list) \cup t.left
    BY <1>4, <1>5 DEF ShaperInv, HostIsAccountedFor
  <2>3. QED BY <2>1, <2>2, <1>2, <1>8, <1>9 DEF Good
<1>11. QED BY <1>7, <1>10, BecomesIsGood DEF Statuses

LEMMA CrashStep ==
    ASSUME ShaperInv, Crash
    PROVE  ShaperInv'
<1>1. ShaperTypeOK'
  BY PoliciesAssumption DEF Crash, ShaperInv, ShaperTypeOK
<1>2. (\A k \in 1..Len(policies) : policies[k].name.number <= counter)'
  BY DEF Crash
<1>3. HostIsAccountedFor'
  BY DEF Crash, HostIsAccountedFor
<1>4. QED BY <1>1, <1>2, <1>3 DEF ShaperInv

\* delete_intent ends active policies only.
LEMMA DeleteIntentStep ==
    ASSUME ShaperInv, NEW i \in Intent, NEW taken, DeleteIntent(i, taken)
    PROVE  ShaperInv'
<1> DEFINE names == {e.name : e \in {p \in AllPolicies : MadeBy(i, p) /\ p.active}}
           e == IF names = {} THEN enforced ELSE Nothing
<1>1. Becomes([Ended(Now, names, taken) EXCEPT !.enforced = e]) /\ taken \in SUBSET names
  BY DEF DeleteIntent, Now, Ended
<1>2. intents' \in Statuses
  BY DEF DeleteIntent, ShaperInv, ShaperTypeOK, Statuses
<1>3. \A p \in AllPolicies : p.active => p.name \in ActiveNames(policies)
  <2> SUFFICES ASSUME NEW p \in AllPolicies, p.active PROVE p.name \in ActiveNames(policies)
    OBVIOUS
  <2>1. PICK k \in 1..Len(policies) :
            p = [name |-> policies[k].name, active |-> policies[k].active]
    BY DEF AllPolicies
  <2>2. p.name = policies[k].name /\ policies[k].active
    BY <2>1
  <2>3. policies \in Seq(TrafficPolicy)
    BY DEF ShaperInv, ShaperTypeOK
  <2>4. QED BY <2>2, <2>3, ActiveNamesType
<1>4. names \in SUBSET ActiveNames(policies)
  BY <1>3
<1>5. e \in [app : Signed, level : Level] \cup {Nothing}
  BY DEF ShaperInv, ShaperTypeOK
<1> HIDE DEF names, e
<1>6. QED BY <1>1, <1>2, <1>4, <1>5, EndStep

LEMMA CreateIntentStep ==
    ASSUME ShaperInv, NEW i \in Intent, NEW high \in App, NEW low \in App, NEW level \in Level,
           NEW taken, NEW works \in BOOLEAN, CreateIntent(i, high, low, level, taken, works)
    PROVE  ShaperInv'
<1>1. intents' \in Statuses
  BY DEF CreateIntent, ShaperInv, ShaperTypeOK, Statuses
<1>2. CASE ThrottleApp(low, level, i, works)
  BY <1>1, <1>2, ThrottleAppStep
<1>3. CASE PrioritizeApp(high, i, taken)
  BY <1>1, <1>3, PrioritizeAppStep
<1>4. CASE PrioritizeOver(high, low, level, i, taken, works)
  BY <1>1, <1>4, PrioritizeOverStep
<1>5. QED BY <1>2, <1>3, <1>4 DEF CreateIntent

LEMMA ShaperStep ==
    ASSUME ShaperInv, ShaperNext
    PROVE  ShaperInv'
<1> USE DEF Statuses
<1>1. intents \in Statuses
  BY DEF ShaperInv, ShaperTypeOK
<1>2. ASSUME NEW app \in App, NEW level \in Level, NEW works \in BOOLEAN,
             ThrottleApp(app, level, Manual, works), UNCHANGED intents
      PROVE  ShaperInv'
  BY <1>1, <1>2, ThrottleAppStep
<1>3. ASSUME NEW app \in App, NEW taken \in SUBSET ActiveNames(policies),
             PrioritizeApp(app, Manual, taken), UNCHANGED intents
      PROVE  ShaperInv'
  BY <1>1, <1>3, PrioritizeAppStep
<1>4. ASSUME NEW high \in App, NEW low \in App, NEW level \in Level,
             NEW taken \in SUBSET ActiveNames(policies), NEW works \in BOOLEAN,
             PrioritizeOver(high, low, level, Manual, taken, works), UNCHANGED intents
      PROVE  ShaperInv'
  BY <1>1, <1>4, PrioritizeOverStep
<1>5. ASSUME NEW name \in ActiveNames(policies), NEW taken \in SUBSET ActiveNames(policies),
             RemovePolicy(name, taken), UNCHANGED intents
      PROVE  ShaperInv'
  <2>1. Becomes([Ended(Now, {name}, taken) EXCEPT !.enforced = Nothing])
    BY <1>5 DEF RemovePolicy
  <2>2. {name} \in SUBSET ActiveNames(policies) /\ taken \in SUBSET {name} /\ intents' \in Statuses
    BY <1>1, <1>5 DEF RemovePolicy
  <2>3. QED BY <2>1, <2>2, EndStep
<1>6. ASSUME NEW works \in BOOLEAN, RemoveAll(works), UNCHANGED intents
      PROVE  ShaperInv'
  BY <1>1, <1>6, RemoveAllStep
<1>7. QED
  BY <1>2, <1>3, <1>4, <1>5, <1>6, CreateIntentStep, DeleteIntentStep, CrashStep DEF ShaperNext

-----------------------------------------------------------------------------
\* The theorems.

LEMMA ShaperInvariance == ShaperSpec => []ShaperInv
<1>1. ShaperInit => ShaperInv
  BY PoliciesAssumption DEF ShaperInit, ShaperInv, ShaperTypeOK, HostIsAccountedFor
<1>2. ShaperInv /\ [ShaperNext]_shaperVars => ShaperInv'
  <2> SUFFICES ASSUME ShaperInv, [ShaperNext]_shaperVars PROVE ShaperInv'
    OBVIOUS
  <2>1. CASE ShaperNext
    BY <2>1, ShaperStep
  <2>2. CASE UNCHANGED shaperVars
    BY <2>2 DEF shaperVars, ShaperInv, ShaperTypeOK, HostIsAccountedFor, ActiveNames
  <2>3. QED BY <2>1, <2>2
<1>3. QED BY <1>1, <1>2, PTL DEF ShaperSpec

\* The state of the shaper is well typed; the list of policies stays within its
\* length and the names left behind are on the host.
THEOREM ShaperTypeCorrect == ShaperSpec => []ShaperTypeOK
<1>1. ShaperInv => ShaperTypeOK
  BY DEF ShaperInv
<1>2. QED BY <1>1, ShaperInvariance, PTL

\* Whatever is on the host has an active policy or was left behind by an
\* eviction, a removal that did not work, or a crash.
THEOREM HostAccounted == ShaperSpec => []HostIsAccountedFor
<1>1. ShaperInv => HostIsAccountedFor
  BY DEF ShaperInv
<1>2. QED BY <1>1, ShaperInvariance, PTL

-----------------------------------------------------------------------------
(* The steering service makes before it breaks.  The invariant follows a   *)
(* shift through its calls: while flows are put, the classes behind `rest' *)
(* have the new one; while flows are deleted, every class of the shift has *)
(* it, and it is another link's than the one that is deleted.              *)

Kind == {"emergency", "preemptive"}
ShiftType == {d \in [kind : Kind, from : Link, to : Link] : d.from # d.to}

\* The classes of the shift that is carried out, and how many have been called.
Classes == Moved[decision.kind]
Called == Len(Classes) - Len(rest)

\* `rest' is what is left of the classes.
RestInv ==
    /\ decision \in ShiftType
    /\ rest \in Seq(STRING) \ {<<>>}
    /\ Len(rest) <= Len(Classes)
    /\ \A i \in 1..Len(rest) : rest[i] = Classes[Called + i]

ShiftInv ==
    /\ flows \in [Class -> SUBSET Link]
    /\ todo \subseteq ShiftType
    /\ phase \in {"put", "delete"} => RestInv
    /\ phase = "put" => \A i \in 1..Called : decision.to \in flows[Classes[i]]
    /\ phase = "delete" => \A i \in 1..Len(Classes) : decision.to \in flows[Classes[i]]

TwinInv ==
    /\ requests \in 0..MaxRequests /\ lastId \in 0..requests
    /\ reports \in [Followed -> Verdicts \cup {NoReport}]

SteeringInv == ShiftInv /\ TwinInv

-----------------------------------------------------------------------------

\* The classes of a kind are a sequence that is not empty.
LEMMA ClassesType ==
    ASSUME NEW kind \in Kind
    PROVE  /\ Moved[kind] \in Seq(STRING) /\ Moved[kind] # <<>>
           /\ Len(Moved[kind]) \in Nat \ {0}
           /\ \A i \in 1..Len(Moved[kind]) : Moved[kind][i] \in Class
<1>1. Moved[kind] \in Seq(STRING) /\ Moved[kind] # <<>> /\ kind \in DOMAIN Moved
  BY SteeringAssumption DEF Kind
<1>2. Len(Moved[kind]) \in Nat \ {0} /\ DOMAIN Moved[kind] = 1..Len(Moved[kind])
  BY <1>1
<1>3. \A i \in 1..Len(Moved[kind]) : Moved[kind][i] \in Class
  BY <1>1, <1>2 DEF Class
<1>4. QED BY <1>1, <1>2, <1>3

LEMMA LastOne ==
    ASSUME NEW a \in Nat, NEW b \in Nat, NEW c \in Nat, a + b = c
    PROVE  b - 1 = 0 <=> a + 1 = c
OBVIOUS

\* The first class that is left, and the ones behind it.
LEMMA RestTells ==
    ASSUME RestInv
    PROVE  /\ Head(rest) = Classes[Called + 1] /\ Called + 1 \in 1..Len(Classes)
           /\ Head(rest) \in Class
           /\ Tail(rest) \in Seq(STRING) /\ Len(Tail(rest)) = Len(rest) - 1
           /\ \A i \in 1..Len(Tail(rest)) : Tail(rest)[i] = Classes[(Called + 1) + i]
           /\ Tail(rest) = <<>> <=> Called + 1 = Len(Classes)
           /\ Len(Classes) \in Nat /\ Len(rest) \in Nat /\ Called \in Nat
           /\ decision.kind \in Kind
<1>1. decision.kind \in Kind /\ rest \in Seq(STRING) /\ rest # <<>> /\ Len(rest) <= Len(Classes)
  BY DEF RestInv, ShiftType
<1>2. /\ Classes \in Seq(STRING) /\ Len(Classes) \in Nat \ {0}
      /\ \A i \in 1..Len(Classes) : Classes[i] \in Class
  BY <1>1, ClassesType DEF Classes
<1>3. /\ Head(rest) = rest[1] /\ Len(rest) \in Nat \ {0}
      /\ Tail(rest) \in Seq(STRING) /\ Len(Tail(rest)) = Len(rest) - 1
      /\ \A i \in 1..Len(Tail(rest)) : Tail(rest)[i] = rest[i + 1]
  BY <1>1, HeadTailProperties
<1>4. Called \in Nat /\ Called + Len(rest) = Len(Classes)
  BY <1>1, <1>2, <1>3 DEF Called
<1>5. Called + 1 \in 1..Len(Classes)
  BY <1>2, <1>3, <1>4
<1>6. Head(rest) = Classes[Called + 1]
  BY <1>3 DEF RestInv
<1>7. ASSUME NEW i \in 1..Len(Tail(rest))
      PROVE  Tail(rest)[i] = Classes[(Called + 1) + i]
  <2>1. i + 1 \in 1..Len(rest) /\ Called + (i + 1) = (Called + 1) + i
    BY <1>3, <1>4
  <2>2. rest[i + 1] = Classes[Called + (i + 1)]
    BY <2>1 DEF RestInv
  <2>3. QED BY <1>3, <2>1, <2>2
<1>8. Tail(rest) = <<>> <=> Called + 1 = Len(Classes)
  <2>1. Tail(rest) = <<>> <=> Len(Tail(rest)) = 0
    BY <1>3, EmptySeq
  <2>2. Len(Tail(rest)) = 0 <=> Called + 1 = Len(Classes)
    <3>1. /\ Len(rest) \in Nat \ {0} /\ Len(Classes) \in Nat /\ Called \in Nat
          /\ Called + Len(rest) = Len(Classes)
      BY <1>2, <1>3, <1>4
    <3>2. Len(rest) - 1 = 0 <=> Called + 1 = Len(Classes)
      BY <3>1, LastOne
    <3>3. QED BY <3>2, <1>3
  <2>3. QED BY <2>1, <2>2
<1>9. QED BY <1>1, <1>2, <1>3, <1>4, <1>5, <1>6, <1>7, <1>8

\* The decision goes on to its next class.
LEMMA RestGoesOn ==
    ASSUME RestInv, Tail(rest) # <<>>, rest' = Tail(rest), UNCHANGED decision
    PROVE  RestInv' /\ Called' = Called + 1 /\ Classes' = Classes
<1>1. Classes' = Classes
  BY DEF Classes
<1>2. Called' = Called + 1 /\ Len(rest') <= Len(Classes)
  BY <1>1, RestTells DEF Called
<1>3. rest' \in Seq(STRING) \ {<<>>}
  BY RestTells
<1>4. \A i \in 1..Len(rest') : rest'[i] = Classes'[Called' + i]
  BY <1>1, <1>2, RestTells
<1>5. decision' \in ShiftType
  BY DEF RestInv
<1>6. QED BY <1>1, <1>2, <1>3, <1>4, <1>5 DEF RestInv

\* All classes of a decision are to be called.
LEMMA RestStarts ==
    ASSUME decision' \in ShiftType, rest' = Moved[decision'.kind]
    PROVE  RestInv' /\ Called' = 0 /\ Classes' = rest'
<1>1. decision'.kind \in Kind
  BY DEF ShiftType
<1>2. Classes' = rest' /\ rest' \in Seq(STRING) \ {<<>>} /\ Len(rest') \in Nat
  BY <1>1, ClassesType DEF Classes
<1>3. Called' = 0
  BY <1>2 DEF Called
<1>4. \A i \in 1..Len(rest') : rest'[i] = Classes'[Called' + i]
  BY <1>2, <1>3
<1>5. QED BY <1>2, <1>3, <1>4 DEF RestInv

-----------------------------------------------------------------------------
\* One lemma for each step that moves flows or decides.

Kept == \A c \in Class : flows[c] # {} => flows'[c] # {}

LEMMA IdleStep ==
    ASSUME ShiftInv, phase' \notin {"put", "delete"}, todo' \subseteq ShiftType,
           flows' \in [Class -> SUBSET Link]
    PROVE  ShiftInv'
BY DEF ShiftInv

LEMMA DecideStep ==
    ASSUME ShiftInv, Decide
    PROVE  ShiftInv' /\ Kept
<1>1. phase' = "idle" /\ flows' = flows
  BY DEF Decide
<1>2. ASSUME NEW best \in Best PROVE Decisions(best) \subseteq ShiftType
  BY DEF Best, Decisions, Shift, ShiftType, Kind
<1>3. todo' \subseteq ShiftType
  BY <1>2 DEF Decide, ShiftInv
<1>4. QED BY <1>1, <1>3, IdleStep DEF ShiftInv, Kept

LEMMA ExecuteStep ==
    ASSUME ShiftInv, NEW d \in todo, Execute(d)
    PROVE  ShiftInv' /\ Kept
<1>1. /\ decision' = d /\ rest' = Moved[decision'.kind] /\ phase' = "put"
      /\ flows' = flows /\ todo' \subseteq ShiftType /\ decision' \in ShiftType
  BY DEF Execute, ShiftInv
<1>2. RestInv' /\ Called' = 0
  BY <1>1, RestStarts
<1>3. QED BY <1>1, <1>2 DEF ShiftInv, Kept

LEMMA PutFlowStep ==
    ASSUME ShiftInv, PutFlow
    PROVE  ShiftInv' /\ Kept
<1> DEFINE c == Head(rest)
<1>1. RestInv /\ phase = "put" /\ flows \in [Class -> SUBSET Link] /\ todo \subseteq ShiftType
      /\ \A i \in 1..Called : decision.to \in flows[Classes[i]]
  BY DEF PutFlow, ShiftInv
<1>2. /\ c = Classes[Called + 1] /\ c \in Class /\ Len(Classes) \in Nat /\ Called \in Nat
      /\ Tail(rest) = <<>> <=> Called + 1 = Len(Classes)
      /\ \A i \in 1..Len(Classes) : Classes[i] \in Class
      /\ decision \in ShiftType /\ decision.to \in Link
  BY <1>1, RestTells, ClassesType DEF RestInv, ShiftType, Classes
<1> HIDE DEF c
<1>3. /\ With(c, decision.to) \in [Class -> SUBSET Link]
      /\ \A k \in Class : flows[k] \subseteq With(c, decision.to)[k]
      /\ decision.to \in With(c, decision.to)[c]
  BY <1>1, <1>2 DEF With
<1>4. CASE flows' = With(c, decision.to) /\ Advance("delete")
  <2>1. decision' = decision /\ todo' = todo
    BY <1>4 DEF Advance
  <2>2. \A i \in 1..Called + 1 : decision.to \in flows'[Classes[i]]
    <3> SUFFICES ASSUME NEW i \in 1..Called + 1 PROVE decision.to \in flows'[Classes[i]]
      OBVIOUS
    <3>1. CASE i = Called + 1
      BY <3>1, <1>2, <1>3, <1>4
    <3>2. CASE i # Called + 1
      <4>1. i \in 1..Called /\ i \in 1..Len(Classes)
        BY <3>2, <1>1, <1>2, RestTells
      <4>2. QED BY <4>1, <1>1, <1>2, <1>3, <1>4
    <3>3. QED BY <3>1, <3>2
  <2>3. CASE Tail(rest) # <<>>
    <3>1. rest' = Tail(rest) /\ phase' = "put"
      BY <1>1, <1>4, <2>3 DEF Advance
    <3>2. RestInv' /\ Called' = Called + 1 /\ Classes' = Classes
      BY <1>1, <2>1, <2>3, <3>1, RestGoesOn
    <3>3. QED BY <1>1, <1>3, <1>4, <2>1, <2>2, <3>1, <3>2 DEF ShiftInv, Kept
  <2>4. CASE Tail(rest) = <<>>
    <3>1. rest' = Moved[decision'.kind] /\ phase' = "delete"
      BY <1>4, <2>1, <2>4 DEF Advance
    <3>2. RestInv' /\ Classes' = Classes
      BY <1>2, <2>1, <3>1, RestStarts DEF Classes
    <3>3. \A i \in 1..Len(Classes) : decision.to \in flows'[Classes[i]]
      BY <1>2, <2>2, <2>4
    <3>4. QED BY <1>1, <1>3, <1>4, <2>1, <3>1, <3>2, <3>3 DEF ShiftInv, Kept
  <2>5. QED BY <2>3, <2>4
<1>5. CASE phase' = "idle" /\ todo' \subseteq todo /\ flows' \in {With(c, decision.to), flows}
  <2>1. flows' \in [Class -> SUBSET Link] /\ \A k \in Class : flows[k] \subseteq flows'[k]
    BY <1>1, <1>3, <1>5
  <2>2. QED BY <2>1, <1>1, <1>5, IdleStep DEF Kept
<1>6. QED BY <1>4, <1>5 DEF PutFlow, Abandoned, c

LEMMA DeleteFlowStep ==
    ASSUME ShiftInv, DeleteFlow
    PROVE  ShiftInv' /\ Kept
<1> DEFINE c == Head(rest)
<1>1. RestInv /\ phase = "delete" /\ flows \in [Class -> SUBSET Link] /\ todo \subseteq ShiftType
      /\ \A i \in 1..Len(Classes) : decision.to \in flows[Classes[i]]
  BY DEF DeleteFlow, ShiftInv
<1>2. /\ c = Classes[Called + 1] /\ Called + 1 \in 1..Len(Classes) /\ c \in Class
      /\ \A i \in 1..Len(Classes) : Classes[i] \in Class
      /\ decision \in ShiftType /\ decision.to # decision.from
  BY <1>1, RestTells, ClassesType DEF RestInv, ShiftType, Classes
<1> HIDE DEF c
<1>3. /\ Without(c, decision.from) \in [Class -> SUBSET Link]
      /\ \A k \in Class : k # c => Without(c, decision.from)[k] = flows[k]
      /\ Without(c, decision.from)[c] = flows[c] \ {decision.from}
  BY <1>1, <1>2 DEF Without
<1>4. decision.to \in Without(c, decision.from)[c]
  BY <1>1, <1>2, <1>3
<1>5. ASSUME flows' \in {Without(c, decision.from), flows}
      PROVE  /\ flows' \in [Class -> SUBSET Link] /\ Kept
             /\ \A i \in 1..Len(Classes) : decision.to \in flows'[Classes[i]]
  <2>1. CASE flows' = flows
    BY <2>1, <1>1 DEF Kept
  <2>2. CASE flows' = Without(c, decision.from)
    <3>1. Kept
      BY <2>2, <1>3, <1>4 DEF Kept
    <3>2. \A i \in 1..Len(Classes) : decision.to \in flows'[Classes[i]]
      BY <2>2, <1>1, <1>2, <1>3, <1>4
    <3>3. QED BY <2>2, <3>1, <3>2, <1>3
  <2>3. QED BY <1>5, <2>1, <2>2
<1>6. CASE phase' = "idle" /\ todo' \subseteq todo /\ flows' \in {Without(c, decision.from), flows}
  BY <1>1, <1>5, <1>6, IdleStep
<1>7. CASE /\ Tail(rest) # <<>> /\ phase' = phase /\ todo' = todo
           /\ rest' = Tail(rest) /\ decision' = decision
           /\ flows' \in {Without(c, decision.from), flows}
  <2>1. RestInv' /\ Classes' = Classes
    BY <1>1, <1>7, RestGoesOn
  <2>2. QED BY <1>1, <1>5, <1>7, <2>1 DEF ShiftInv
<1>8. \/ phase' = "idle" /\ todo' \subseteq todo /\ flows' \in {Without(c, decision.from), flows}
      \/ /\ Tail(rest) # <<>> /\ phase' = phase /\ todo' = todo
         /\ rest' = Tail(rest) /\ decision' = decision
         /\ flows' \in {Without(c, decision.from), flows}
  <2>1. CASE flows' = Without(c, decision.from) /\ Advance("idle")
    BY <2>1 DEF Advance
  <2>2. CASE /\ rest' = Tail(rest)
             /\ phase' = IF Tail(rest) = <<>> THEN "idle" ELSE phase
             /\ decision' = IF Tail(rest) = <<>> THEN NoDecision ELSE decision
             /\ UNCHANGED <<flows, todo>>
    BY <2>2
  <2>3. CASE Abandoned /\ todo' = {} /\ flows' \in {Without(c, decision.from), flows}
    BY <2>3 DEF Abandoned
  <2>4. QED BY <2>1, <2>2, <2>3 DEF DeleteFlow, c
<1>9. QED BY <1>6, <1>7, <1>8

\* The others leave the shift alone.
LEMMA ShiftStays ==
    ASSUME ShiftInv, UNCHANGED <<todo, phase, callVars, flows>>
    PROVE  ShiftInv' /\ Kept
BY DEF ShiftInv, RestInv, Called, Classes, callVars, Kept

LEMMA ReadingStep ==
    ASSUME ShiftInv, Evaluate \/ \E l \in Link : ReadPrediction(l)
    PROVE  ShiftInv' /\ Kept
<1>1. CASE Evaluate
  <2>1. phase' = "reading" /\ todo' = todo /\ flows' = flows
    BY <1>1 DEF Evaluate
  <2>2. QED BY <2>1, IdleStep DEF ShiftInv, Kept
<1>2. CASE \E l \in Link : ReadPrediction(l)
  BY <1>2, ShiftStays DEF ReadPrediction
<1>3. QED BY <1>1, <1>2

LEMMA ShiftStep ==
    ASSUME ShiftInv, Next
    PROVE  ShiftInv' /\ Kept
<1>1. CASE SteeringLoop
  BY <1>1, ReadingStep, DecideStep, PutFlowStep, DeleteFlowStep, ExecuteStep DEF SteeringLoop
<1>2. CASE UNCHANGED steeringVars
  BY <1>2, ShiftStays DEF steeringVars
<1>3. QED BY <1>1, <1>2 DEF Next, Twin, StartTelemetry, Poll, Predict

-----------------------------------------------------------------------------
\* The twin.

LEMMA TwinStep ==
    ASSUME TwinInv, Next
    PROVE  TwinInv'
<1>1. MaxRequests \in Nat /\ requests \in 0..MaxRequests /\ lastId \in 0..requests
      /\ reports \in [Followed -> Verdicts \cup {NoReport}]
  BY TwinBounds DEF TwinInv
<1>2. CASE UNCHANGED twinVars
  BY <1>1, <1>2 DEF twinVars, twinLoop, TwinInv
<1>3. CASE requests' = Submitted /\ UNCHANGED <<twinLoop, reports>>
  BY <1>1, <1>3 DEF Submitted, twinLoop, TwinInv
<1>4. CASE TwinLoop
  <2>1. CASE ReadRequest
    BY <1>1, <2>1 DEF ReadRequest, TwinInv
  <2>2. CASE Validate
    <3>1. reports' \in [Followed -> Verdicts \cup {NoReport}]
      BY <1>1, <2>2 DEF Validate
    <3>2. QED BY <1>1, <2>2, <3>1 DEF Validate, TwinInv
  <2>3. CASE PassOver
    BY <1>1, <2>3 DEF PassOver, TwinInv
  <2>4. QED BY <1>4, <2>1, <2>2, <2>3 DEF TwinLoop
<1>5. CASE TwinCrash
  BY <1>1, <1>5 DEF TwinCrash, TwinInv
<1>6. CASE \E d \in todo : Execute(d)
  <2>1. UNCHANGED <<twinLoop, reports>> /\ (requests' = Submitted \/ requests' = requests)
    BY <1>6 DEF Execute
  <2>2. QED BY <1>1, <2>1 DEF Submitted, twinLoop, TwinInv
<1>7. CASE SteeringLoop
  BY <1>2, <1>6, <1>7
     DEF SteeringLoop, Evaluate, Decide, PutFlow, DeleteFlow, ReadPrediction
<1>8. QED
  BY <1>2, <1>3, <1>4, <1>5, <1>7
     DEF Next, Twin, ValidateInSandbox, ForeignRequest, StartTelemetry, Poll, Predict

-----------------------------------------------------------------------------
\* The theorems.

LEMMA SteeringInvariance == Spec => []SteeringInv
<1>1. Init => SteeringInv
  BY TwinBounds DEF Init, DigitalTwinInit, SteeringInv, ShiftInv, TwinInv, Verdicts
<1>2. SteeringInv /\ [Next]_vars => SteeringInv'
  <2> SUFFICES ASSUME SteeringInv, [Next]_vars PROVE SteeringInv'
    OBVIOUS
  <2>1. CASE Next
    BY <2>1, ShiftStep, TwinStep DEF SteeringInv
  <2>2. CASE UNCHANGED vars
    <3>1. UNCHANGED <<todo, phase, callVars, flows>> /\ UNCHANGED twinVars
      BY <2>2 DEF vars, steeringVars
    <3>2. TwinInv'
      BY <3>1 DEF SteeringInv, TwinInv, twinVars, twinLoop
    <3>3. QED BY <3>1, <3>2, ShiftStays DEF SteeringInv
  <2>3. QED BY <2>1, <2>2
<1>3. QED BY <1>1, <1>2, PTL DEF Spec

\* The services' state is well typed: no decision moves a class to where it is,
\* and the twin's cursor stays within the stream.
THEOREM ServicesTypeCorrect == Spec => []TypeOK
<1>1. SteeringInv => TypeOK
  BY DEF SteeringInv, ShiftInv, TwinInv, TypeOK, ShiftType
<1>2. QED BY <1>1, SteeringInvariance, PTL

\* A class that has a flow always has one, at whatever call a shift goes wrong.
THEOREM FlowsAreMadeBeforeBroken == Spec => MakeBeforeBreak
<1>1. SteeringInv /\ [Next]_vars => [Kept]_vars
  BY ShiftStep DEF SteeringInv
<1>2. QED BY <1>1, SteeringInvariance, PTL DEF Spec, MakeBeforeBreak, Kept

=============================================================================
