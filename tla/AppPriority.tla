---------------------------- MODULE AppPriority -----------------------------
(***************************************************************************)
(* server/app_qos/priority_manager.py and the PowerShell mode of           *)
(* bandwidth_enforcer.py: a user's priorities become bandwidth shares of   *)
(* the link, and the shares become QoS policies on the host: first every   *)
(* PW_ policy goes, then each app gets its own, one for each address range *)
(* and program of its signature, then the shares are recorded.  There is   *)
(* one enforcer for all users and nothing is locked.                       *)
(***************************************************************************)
EXTENDS HostRules, FiniteSetsExt

CONSTANTS
    User,           \* users; the traffic shaper's "ibn" is one of them
    Setting,        \* the priority map and the total_mbps of a request
    Matches,        \* how many policies each app's signature makes
    Link            \* TOTAL_LINK_MBPS; totals are in units of 0.01 Mbit/s

ASSUME LinkAssumption == Link \in Nat \ {0}

\* At most eight address ranges and a program; Chrome has neither.
ASSUME MatchesAssumption == Matches \in [App -> 0..9]

VARIABLES
    priorities,     \* _user_priorities; a user with no entry has no apps
    active,         \* _active_rules: each app's class and share
    settled         \* history: the total of the last enforcement, if it ran
                    \* alone and all its commands worked; 0 otherwise

priorityVars == <<priorities, active, settled>>

\* bandwidth_pct of PRIORITY_CLASSES, in thousandths of the link.
Permille == [CRITICAL |-> 900, HIGH |-> 600, NORMAL |-> 300, LOW |-> 3, BLOCKED |-> 0]

\* Priorities name each app once, and a class for it.
PriorityMap == UNION {[S -> DOMAIN Permille] : S \in SUBSET App}
ASSUME SettingAssumption == Setting \subseteq PriorityMap \X Nat

Nothing == [a \in {} |-> "NORMAL"]

PriorityInit ==
    /\ priorities = [u \in User |-> Nothing]
    /\ active = Nothing
    /\ settled = 0

-----------------------------------------------------------------------------
(* _compute_allocations. *)

TotalOf(map) == MapThenSumSet(LAMBDA a : Permille[map[a]], DOMAIN map)

RoundedQuotient(n, d) == (2 * n + d) \div (2 * d)

\* Faulty variant: the shares are not scaled down.
SharesUnscaled(map, total) ==
    [a \in DOMAIN map |->
        [class |-> map[a], share |-> RoundedQuotient(Permille[map[a]] * total, 1000)]]

\* Shares are of the whole total, or are scaled down to add up to it.
Shares(map, total) ==
    LET asked == TotalOf(map)
        whole == IF asked > 1000 THEN asked ELSE 1000
    IN  [a \in DOMAIN map |->
            [class |-> map[a],
             share |-> RoundedQuotient(Permille[map[a]] * total, whole)]]

\* The policy's rate in kbit/s: never zero, and one for a blocked app.
RateOf(allocation) ==
    IF allocation.class = "BLOCKED" \/ allocation.share = 0 THEN 1
    ELSE 10 * allocation.share

\* `total_mbps or TOTAL_LINK_MBPS`: none and 0 are the link's own capacity.
TotalOr(total) == IF total = 0 THEN Link ELSE total

\* The policies of some apps: each app's, by number.
Slots(apps) == UNION {{a} \X (1..Matches[a]) : a \in apps}

\* Every policy of an app has the rate of the app's whole share.
PolicyOf(slot, shares) ==
    [app |-> slot[1], at |-> slot[2], rate |-> RateOf(shares[slot[1]])]

-----------------------------------------------------------------------------
(* Requests. *)

Enforcing(t) == task[t].step \in {"clear", "create", "record"}

\* A request's first step; one that overlaps another may not settle.
Enforce(t, map, total) ==
    /\ task[t] = Idle
    /\ task' = [x \in Thread |->
                  IF x = t
                  THEN [step |-> "clear", shares |-> Shares(map, total),
                        total |-> total, todo |-> Slots(DOMAIN map),
                        exact |-> \A y \in Thread : ~Enforcing(y)]
                  ELSE IF Enforcing(x) THEN [task[x] EXCEPT !.exact = FALSE]
                  ELSE task[x]]
    /\ settled' = 0
    /\ UNCHANGED <<hostVars, active>>

SetPriorities(t, u, map, total) ==
    /\ priorities' = [priorities EXCEPT ![u] = map]
    /\ Enforce(t, map, TotalOr(total))

\* Faulty variant: the map is enforced that the user had before.
RemoveAppPriorityLate(t, u, a) ==
    LET left == [x \in DOMAIN priorities[u] \ {a} |-> priorities[u][x]]
    IN  /\ priorities' = [priorities EXCEPT ![u] = left]
        /\ Enforce(t, priorities[u], Link)

\* The total of the request that set the map is not kept: what is left is
\* enforced on the whole link.  The last app's removal calls clear_all_rules,
\* which enforces nothing.
RemoveAppPriority(t, u, a) ==
    LET left == [x \in DOMAIN priorities[u] \ {a} |-> priorities[u][x]]
    IN  /\ priorities' = [priorities EXCEPT ![u] = left]
        /\ Enforce(t, left, Link)

ResetAll(t, u) ==
    /\ priorities' = [priorities EXCEPT ![u] = Nothing]
    /\ Enforce(t, Nothing, Link)

-----------------------------------------------------------------------------
(* apply_priorities and clear_all_rules on the host. *)

Creating(t, todo, exact) ==
    Goto(t, [task[t] EXCEPT !.step = IF todo = {} THEN "record" ELSE "create",
                            !.todo = todo, !.exact = exact])

\* Faulty variant: only the apps of the new setting lose their policies.
ClearPoliciesOfSetting(t, works) ==
    /\ task[t].step = "clear"
    /\ Command(works)
    /\ appPolicies' = Keeps(appPolicies, {p \in appPolicies : p.app \notin DOMAIN task[t].shares}, works)
    /\ throttles' = Keeps(throttles, {}, works)
    /\ Creating(t, task[t].todo, task[t].exact /\ works)
    /\ UNCHANGED <<firewall, priorityVars>>

\* Every policy named PW_*, and PW_SelQ_... is such a name.
ClearPolicies(t, works) ==
    /\ task[t].step = "clear"
    /\ Command(works)
    /\ appPolicies' = Keeps(appPolicies, {}, works)
    /\ throttles' = Keeps(throttles, {}, works)
    /\ Creating(t, task[t].todo, task[t].exact /\ works)
    /\ UNCHANGED <<firewall, priorityVars>>

\* An app's policies are made in the order of their numbers.  One whose name is
\* taken is not created.
CreatePolicy(t, slot, works) ==
    LET policy == PolicyOf(slot, task[t].shares)
        taken == \E p \in appPolicies : p.app = policy.app /\ p.at = policy.at
    IN  /\ task[t].step = "create"
        /\ slot \in task[t].todo
        /\ \A n \in 1..(slot[2] - 1) : <<slot[1], n>> \notin task[t].todo
        /\ Command(works)
        /\ appPolicies' = Adds(appPolicies, {policy}, works /\ ~taken)
        /\ Creating(t, task[t].todo \ {slot}, task[t].exact /\ works)
        /\ UNCHANGED <<firewall, throttles, priorityVars>>

RecordAllocations(t) ==
    /\ task[t].step = "record"
    /\ active' = task[t].shares
    /\ settled' = IF task[t].exact THEN task[t].total ELSE 0
    /\ Goto(t, Idle)
    /\ UNCHANGED <<hostVars, priorities>>

PriorityStep(t) ==
    \/ \E u \in User, s \in Setting : SetPriorities(t, u, s[1], s[2])
    \/ \E u \in User, a \in App : RemoveAppPriority(t, u, a)
    \/ \E u \in User : ResetAll(t, u)
    \/ \E works \in BOOLEAN : ClearPolicies(t, works)
    \/ \E slot \in Slots(App), works \in BOOLEAN : CreatePolicy(t, slot, works)
    \/ RecordAllocations(t)

PriorityRestart ==
    /\ priorities' = [u \in User |-> Nothing]
    /\ active' = Nothing
    /\ settled' = 0

=============================================================================
