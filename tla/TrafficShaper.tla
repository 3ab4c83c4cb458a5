---------------------------- MODULE TrafficShaper ----------------------------
(***************************************************************************)
(* server/traffic_shaper.py and the app intents of server/ibn_engine.py    *)
(* that use it.  Their handlers run on the event loop and wait for the     *)
(* elevated script, so each is one step; the script may fail, be refused   *)
(* or time out, and may or may not have taken effect by then.              *)
(*                                                                         *)
(* What one throttle leaves on the host (a QoS policy for the process and  *)
(* each prefix, firewall rules for QUIC and a block) is one artifact under *)
(* its name, PathWise-<app>-<counter>.  A policy that prioritizes is named *)
(* PathWise-pri-<app>-<counter>, and leaves nothing.                       *)
(***************************************************************************)
EXTENDS Naturals, Sequences, FiniteSets

CONSTANTS
    App,            \* keys of APP_REGISTRY
    Signed,         \* those that APP_SIGNATURES of app_qos knows too
    Intent,         \* ids of app intents
    Radix,          \* base of the counter's digits in a name (10 in the code)
    MaxPolicies,    \* maxlen of the deque (100 in the code)
    MaxCounter      \* bound: policies made by one process

ASSUME SignedAssumption == Signed \subseteq App
ASSUME RadixAssumption == Radix \in Nat \ {0, 1}
ASSUME PoliciesAssumption == MaxPolicies \in Nat \ {0}

VARIABLES
    policies,       \* _active_policies, oldest first
    counter,        \* _policy_counter
    artifacts,      \* names that have something on the host
    enforced,       \* what set_priorities("ibn", ...) has put in force
    intents,        \* status of each app intent
    leftBehind      \* history: names on the host that an eviction, a failed
                    \* removal or a crash has taken from the list's care

shaperVars == <<policies, counter, artifacts, enforced, intents, leftBehind>>

Manual == "manual"
Nothing == [level |-> "none"]
Level == {"LOW", "BLOCKED"}
PolicyAction == {"throttle", "prioritize"}
Name == [action : PolicyAction, app : App, number : Nat \ {0}]
TrafficPolicy == [name : Name, createdBy : Intent \cup {Manual}, active : BOOLEAN]

ShaperTypeOK ==
    /\ policies \in Seq(TrafficPolicy)
    /\ Len(policies) <= MaxPolicies
    /\ counter \in Nat
    /\ artifacts \subseteq Name
    /\ enforced \in [app : Signed, level : Level] \cup {Nothing}
    /\ intents \in [Intent -> {"new", "compliant", "deleted"}]
    /\ leftBehind \subseteq artifacts

ShaperInit ==
    /\ policies = <<>>
    /\ counter = 0
    /\ artifacts = {}
    /\ enforced = Nothing
    /\ intents = [i \in Intent |-> "new"]
    /\ leftBehind = {}

-----------------------------------------------------------------------------

\* Does "<n>*" match the number m: m's digits start with those of n.
Begins(n, m) == n = m \/ \E p \in 1..m : n = m \div (Radix ^ p)
Matches(name, other) ==
    /\ name.action = other.action
    /\ name.app = other.app
    /\ Begins(name.number, other.number)

\* What _remove_qos_policies finds on the host for these names.
Removed(host, names) == {a \in host : \E n \in names : Matches(n, a)}

ActiveNames(list) ==
    {list[i].name : i \in {j \in 1..Len(list) : list[j].active}}

NamesOf(list, app) == {n \in ActiveNames(list) : n.app = app}

Deactivated(list, names) ==
    [i \in 1..Len(list) |->
        IF list[i].name \in names THEN [list[i] EXCEPT !.active = FALSE] ELSE list[i]]

-----------------------------------------------------------------------------
(***************************************************************************)
(* The calls, as functions of what they find: the list, the host, the      *)
(* counter, the enforcement, and what has been left behind.                *)
(***************************************************************************)
Now == [list |-> policies, host |-> artifacts, n |-> counter,
        enforced |-> enforced, left |-> leftBehind]

Becomes(s) ==
    /\ s.n <= MaxCounter
    /\ policies' = s.list
    /\ artifacts' = s.host
    /\ counter' = s.n
    /\ enforced' = s.enforced
    /\ leftBehind' = s.left \cap s.host

\* A new policy; a full list forgets its oldest one, active or not.
Pushed(s, app, action, by) ==
    LET policy == [name |-> [action |-> action, app |-> app, number |-> s.n + 1],
                   createdBy |-> by, active |-> TRUE]
        full == Len(s.list) = MaxPolicies
    IN  [s EXCEPT !.n = @ + 1,
                  !.list = Append(IF full THEN Tail(@) ELSE @, policy),
                  !.left = @ \cup (IF full THEN {s.list[1].name} ELSE {})]

\* The policies end, each with a removal script of its own; those of `taken`
\* work.
Ended(s, names, taken) ==
    [s EXCEPT !.list = Deactivated(@, names),
              !.host = @ \ Removed(@, taken),
              !.left = @ \cup (names \ taken)]

\* throttle_app: the enforcer refuses an app it has no signature for, and
\* replaces what the pseudo-user "ibn" had.
Throttled(s, app, level, by, works) ==
    LET t == Pushed(s, app, "throttle", by)
        name == [action |-> "throttle", app |-> app, number |-> t.n]
    IN  [t EXCEPT !.host = @ \cup (IF works THEN {name} ELSE {}),
                  !.enforced = IF app \in Signed THEN [app |-> app, level |-> level] ELSE @]

\* Faulty variant: only one of the app's policies is taken off the host.
PrioritizedOnce(s, app, by, taken) ==
    LET names == NamesOf(s.list, app)
        first == {n \in names : \A k \in names : n.number <= k.number}
    IN  Pushed([Ended(s, first, taken \cap first) EXCEPT !.list = Deactivated(@, names)],
               app, "prioritize", by)

\* prioritize_app: the app's policies end, and one without artifacts is added;
\* what is enforced for the app stays.
Prioritized(s, app, by, taken) ==
    Pushed(Ended(s, NamesOf(s.list, app), taken), app, "prioritize", by)

-----------------------------------------------------------------------------

ThrottleApp(app, level, by, works) == Becomes(Throttled(Now, app, level, by, works))

PrioritizeApp(app, by, taken) ==
    /\ taken \subseteq NamesOf(policies, app)
    /\ Becomes(Prioritized(Now, app, by, taken))

PrioritizeOver(high, low, level, by, taken, works) ==
    /\ taken \subseteq NamesOf(policies, high)
    /\ Becomes(Throttled(Prioritized(Now, high, by, taken), low, level, by, works))

\* remove_policy ends one policy, and everything that is enforced for "ibn".
RemovePolicy(name, taken) ==
    /\ name \in ActiveNames(policies)
    /\ taken \subseteq {name}
    /\ Becomes([Ended(Now, {name}, taken) EXCEPT !.enforced = Nothing])

\* remove_all_policies, called by an administrator and as the server stops;
\* what is enforced for "ibn" stays.
RemoveAll(works) ==
    Becomes([Now EXCEPT !.list = Deactivated(@, ActiveNames(@)),
                        !.host = IF works THEN {} ELSE @,
                        !.left = @ \cup (IF works THEN {} ELSE ActiveNames(policies))])

\* create_intent for an app action (server/ibn_engine.py).
CreateIntent(i, high, low, level, taken, works) ==
    /\ intents[i] = "new"
    /\ intents' = [intents EXCEPT ![i] = "compliant"]
    /\ \/ ThrottleApp(low, level, i, works)
       \/ PrioritizeApp(high, i, taken)
       \/ PrioritizeOver(high, low, level, i, taken, works)

\* The entries of get_all_policies; those of get_active_policies add createdBy.
AllPolicies ==
    {[name |-> p.name, active |-> p.active] :
        p \in {policies[k] : k \in 1..Len(policies)}}

\* p.get("created_by") == intent_id
MadeBy(i, entry) == "createdBy" \in DOMAIN entry /\ entry.createdBy = i

\* delete_intent removes the policies that it finds in get_all_policies.
DeleteIntent(i, taken) ==
    LET names == {e.name : e \in {p \in AllPolicies : MadeBy(i, p) /\ p.active}}
    IN  /\ intents[i] # "new"
        /\ intents' = [intents EXCEPT ![i] = "deleted"]
        /\ taken \subseteq names
        /\ Becomes([Ended(Now, names, taken) EXCEPT
                       !.enforced = IF names = {} THEN @ ELSE Nothing])

\* The process dies: the host keeps its artifacts, the counter starts again.
Crash ==
    /\ policies' = <<>>
    /\ counter' = 0
    /\ enforced' = Nothing
    /\ intents' = [i \in Intent |-> "new"]
    /\ leftBehind' = artifacts
    /\ UNCHANGED artifacts

ShaperNext ==
    \/ \E app \in App, level \in Level, works \in BOOLEAN :
          ThrottleApp(app, level, Manual, works) /\ UNCHANGED intents
    \/ \E app \in App, taken \in SUBSET ActiveNames(policies) :
          PrioritizeApp(app, Manual, taken) /\ UNCHANGED intents
    \/ \E high, low \in App, level \in Level, taken \in SUBSET ActiveNames(policies),
             works \in BOOLEAN :
          PrioritizeOver(high, low, level, Manual, taken, works) /\ UNCHANGED intents
    \/ \E name \in ActiveNames(policies), taken \in SUBSET ActiveNames(policies) :
          RemovePolicy(name, taken) /\ UNCHANGED intents
    \/ \E works \in BOOLEAN : RemoveAll(works) /\ UNCHANGED intents
    \/ \E i \in Intent, high, low \in App, level \in Level,
             taken \in SUBSET ActiveNames(policies), works \in BOOLEAN :
          CreateIntent(i, high, low, level, taken, works)
    \/ \E i \in Intent, taken \in SUBSET ActiveNames(policies) : DeleteIntent(i, taken)
    \/ Crash

ShaperSpec == ShaperInit /\ [][ShaperNext]_shaperVars

-----------------------------------------------------------------------------
\* Properties.

\* Everything on the host belongs to an active policy of the list, or was left
\* behind by an eviction from the full list, by a removal that did not work, or
\* by a crash: no order of throttling, prioritizing and removing, by hand or by
\* intents, forgets an artifact in any other way.
HostIsAccountedFor == artifacts \subseteq ActiveNames(policies) \cup leftBehind

\* "Remove any traffic shaping policies created by this intent": a deleted
\* intent has no active policy.
DeletedIntentsShapeNothing ==
    \A i \in Intent : intents[i] = "deleted" =>
        \A k \in 1..Len(policies) :
            policies[k].createdBy = i => ~policies[k].active

=============================================================================
