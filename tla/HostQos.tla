------------------------------- MODULE HostQos ------------------------------
(***************************************************************************)
(* The two quality-of-service features of server/app_qos on one host: the  *)
(* selective degrader and the app priorities, each thread serving one      *)
(* request of either at a time, and the restart of the process, which      *)
(* forgets both features' records and leaves the host as it is.            *)
(***************************************************************************)
EXTENDS SelectiveDegrader, AppPriority

qosVars == <<hostVars, task, degraderVars, priorityVars>>

Init == HostInit /\ DegraderInit /\ PriorityInit

Restart ==
    /\ DegraderRestart
    /\ PriorityRestart
    /\ Fault
    /\ task' = [t \in Thread |-> Idle]
    /\ UNCHANGED <<firewall, throttles, appPolicies>>

Next ==
    \/ \E t \in Thread : DegraderStep(t) /\ UNCHANGED priorityVars
    \/ \E t \in Thread : PriorityStep(t) /\ UNCHANGED degraderVars
    \/ Restart

Spec == Init /\ [][Next]_qosVars

-----------------------------------------------------------------------------
(* What each feature has in hand. *)

\* Rules some thread is applying, and rules some thread is removing.
BeingApplied == {r \in RuleId : \E t \in Thread :
    task[t].step \in {"apply", "register"} /\ task[t].rule = r}
BeingRemoved == {r \in RuleId : \E t \in Thread :
    /\ task[t].step \in {"remove firewall", "remove policies", "mark"}
    /\ task[t].rule = r}

\* A rule that should be in full effect on the host.
InEffect(r) == rule[r] = "active" /\ r \notin partial \cup BeingRemoved

-----------------------------------------------------------------------------
(* Properties. *)

\* selective_degrader.py removes what it applied: an artifact on the host is
\* one of a rule in force, of a rule being applied or removed, or one that a
\* failed command or the end of the process has left there.  No order of
\* starts and stops of several threads leaves another.
NoStrayArtifacts ==
    \A a \in firewall \cup throttles :
        \/ rule[a.rule] = "active"
        \/ a.rule \in BeingApplied \cup BeingRemoved
        \/ a \in leaked

\* A block holds until its own rule is stopped: whatever other rules and the
\* app priorities do meanwhile, every firewall rule of it stays.
ActiveBlocksHold ==
    \A r \in RuleId : InEffect(r) /\ mode[r] = "block" =>
        [rule : {r}, part : 1..Parts] \subseteq firewall

\* After an enforcement that no other overlapped and none of whose commands
\* failed, the host's app policies are exactly those of the shares on record, and
\* no policy of an earlier setting, user or process is left among them.
SettledIsEnforced ==
    settled # 0 => appPolicies = {PolicyOf(slot, active) : slot \in Slots(DOMAIN active)}

\* The shares on record are those of a setting some user still has: removing
\* an app or resetting a user leaves no share of what was removed.
SettledIsSomeonesSetting ==
    settled # 0 =>
        \/ DOMAIN active = {}
        \/ \E u \in User : priorities[u] = [a \in DOMAIN active |-> active[a].class]

\* The shares on record add up to no more than the total they were asked for,
\* but for their rounding, half a unit for each, and the policies made of them
\* are none of them without a rate.  It says nothing of the sum of the policies:
\* each of an app's has the app's whole share.
SharesFitTheTotal ==
    settled # 0 =>
        /\ 2 * MapThenSumSet(LAMBDA a : active[a].share, DOMAIN active)
              <= 2 * settled + Cardinality(DOMAIN active)
        /\ \A p \in appPolicies : p.rate > 0

=============================================================================
