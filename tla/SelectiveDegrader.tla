------------------------- MODULE SelectiveDegrader --------------------------
(***************************************************************************)
(* server/app_qos/selective_degrader.py: rules that block or throttle some *)
(* addresses for a time.  start_rule runs the rule's commands and then     *)
(* registers it; stop_rule and stop_all look at the registered rules and   *)
(* run the commands that remove theirs.  Nothing is locked.  The sweeper   *)
(* that would end rules on expiry is started nowhere, so time changes      *)
(* nothing here.                                                           *)
(***************************************************************************)
EXTENDS HostRules

VARIABLES
    rule,           \* each id's rule in _rules: its `active` once registered
    mode,           \* each rule's mode
    partial,        \* history: rules not stopped, a command of which had no effect
    leaked          \* history: artifacts that a removal or a restart left

degraderVars == <<rule, mode, partial, leaked>>

DegraderInit ==
    /\ rule = [r \in RuleId |-> "unused"]
    /\ mode = [r \in RuleId |-> "block"]
    /\ partial = {}
    /\ leaked = {}

Artifacts(r) == {a \in firewall \cup throttles : a.rule = r}

-----------------------------------------------------------------------------
(* start_rule. *)

\* The request is valid; an invalid one raises before anything is done.
StartRule(t, r, m) ==
    /\ task[t] = Idle
    /\ rule[r] = "unused"
    /\ rule' = [rule EXCEPT ![r] = "applying"]
    /\ mode' = [mode EXCEPT ![r] = m]
    /\ Goto(t, [step |-> "apply", rule |-> r, part |-> 1])
    /\ UNCHANGED <<hostVars, partial, leaked>>

ApplyPart(t, works) ==
    LET r == task[t].rule
        part == task[t].part
        added == {[rule |-> r, part |-> part]}
    IN  /\ task[t].step = "apply"
        /\ Command(works)
        /\ firewall' = Adds(firewall, added, works /\ mode[r] = "block")
        /\ throttles' = Adds(throttles, added, works /\ mode[r] = "throttle")
        /\ partial' = IF works THEN partial ELSE partial \cup {r}
        /\ Goto(t, IF part < Parts THEN [task[t] EXCEPT !.part = part + 1]
                                   ELSE [step |-> "register", rule |-> r])
        /\ UNCHANGED <<appPolicies, rule, mode, leaked>>

RegisterRule(t) ==
    /\ task[t].step = "register"
    /\ rule' = [rule EXCEPT ![task[t].rule] = "active"]
    /\ Goto(t, Idle)
    /\ UNCHANGED <<hostVars, mode, partial, leaked>>

-----------------------------------------------------------------------------
(* stop_rule and stop_all. *)

\* Inactive rules are passed over, and a rule never becomes active again.
Active == {r \in RuleId : rule[r] = "active"}

\* The commands of _remove for r; `todo` is what stop_all has left.
Removal(r, todo) ==
    [step |-> "remove firewall", rule |-> r, todo |-> todo]

Stopping(todo) == IF todo = {} THEN Idle ELSE [step |-> "next", todo |-> todo]

StopRule(t, r) ==
    /\ task[t] = Idle
    /\ rule[r] = "active"
    /\ Goto(t, Removal(r, {}))
    /\ UNCHANGED <<hostVars, degraderVars>>

StopAll(t) ==
    /\ task[t] = Idle
    /\ Goto(t, Stopping(Active))
    /\ UNCHANGED <<hostVars, degraderVars>>

StopNext(t, r) ==
    /\ task[t].step = "next"
    /\ r \in task[t].todo
    /\ LET todo == task[t].todo \ {r}
       IN  Goto(t, IF rule[r] = "active" THEN Removal(r, todo) ELSE Stopping(todo))
    /\ UNCHANGED <<hostVars, degraderVars>>

\* Faulty variants: the pattern lacks the rule's id; the policies are forgotten.
RemoveFirewallOfAll(t, works) ==
    LET r == task[t].rule
    IN  /\ task[t].step = "remove firewall"
        /\ Command(works)
        /\ firewall' = Keeps(firewall, {}, works)
        /\ leaked' = leaked \cup (Artifacts(r) \cap firewall')
        /\ Goto(t, [task[t] EXCEPT !.step = "remove policies"])
        /\ UNCHANGED <<throttles, appPolicies, rule, mode, partial>>

RemoveFirewallAlone(t, works) ==
    LET r == task[t].rule
    IN  /\ task[t].step = "remove firewall"
        /\ Command(works)
        /\ firewall' = Keeps(firewall, {a \in firewall : a.rule # r}, works)
        /\ leaked' = leaked \cup (Artifacts(r) \cap firewall')
        /\ Goto(t, [task[t] EXCEPT !.step = "mark"])
        /\ UNCHANGED <<throttles, appPolicies, rule, mode, partial>>

RemoveFirewall(t, works) ==
    LET r == task[t].rule
    IN  /\ task[t].step = "remove firewall"
        /\ Command(works)
        /\ firewall' = Keeps(firewall, {a \in firewall : a.rule # r}, works)
        /\ leaked' = leaked \cup (Artifacts(r) \cap firewall')
        /\ Goto(t, [task[t] EXCEPT !.step = "remove policies"])
        /\ UNCHANGED <<throttles, appPolicies, rule, mode, partial>>

RemovePolicies(t, works) ==
    LET r == task[t].rule
    IN  /\ task[t].step = "remove policies"
        /\ Command(works)
        /\ throttles' = Keeps(throttles, {a \in throttles : a.rule # r}, works)
        /\ leaked' = leaked \cup (Artifacts(r) \cap throttles')
        /\ Goto(t, [step |-> "mark", rule |-> r, todo |-> task[t].todo])
        /\ UNCHANGED <<firewall, appPolicies, rule, mode, partial>>

MarkStopped(t) ==
    /\ task[t].step = "mark"
    /\ rule' = [rule EXCEPT ![task[t].rule] = "stopped"]
    /\ Goto(t, Stopping(task[t].todo))
    /\ partial' = partial \ {task[t].rule}
    /\ UNCHANGED <<hostVars, mode, leaked>>

DegraderStep(t) ==
    \/ \E r \in RuleId, m \in {"block", "throttle"} : StartRule(t, r, m)
    \/ \E works \in BOOLEAN : ApplyPart(t, works)
    \/ RegisterRule(t)
    \/ \E r \in RuleId : StopRule(t, r) \/ StopNext(t, r)
    \/ StopAll(t)
    \/ \E works \in BOOLEAN : RemoveFirewall(t, works) \/ RemovePolicies(t, works)
    \/ MarkStopped(t)

\* The process ends: its records are gone, the host keeps every artifact.
DegraderRestart ==
    /\ rule' = [r \in RuleId |-> IF rule[r] = "unused" THEN "unused" ELSE "stopped"]
    /\ leaked' = leaked \cup firewall \cup throttles
    /\ partial' = {}
    /\ UNCHANGED mode

=============================================================================
