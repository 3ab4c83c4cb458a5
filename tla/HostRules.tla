----------------------------- MODULE HostRules ------------------------------
(***************************************************************************)
(* The host that both quality-of-service features of server/app_qos change *)
(* by running commands, and the threads they run in: the handlers of       *)
(* server/routers/app_priority.py are plain functions, so each request has *)
(* a worker thread, and the event loop is one more thread when an intent   *)
(* starts a rule.  Commands of different threads interleave on the host.   *)
(* ENFORCER_MODE is "powershell": "simulate" runs no command, and "tc"     *)
(* leaves what its commands do to iptables and tc.                         *)
(***************************************************************************)
EXTENDS Naturals, FiniteSets

CONSTANTS
    Thread,         \* worker threads, each with one request at a time
    RuleId,         \* ids of selective rules; an id is never used twice
    Parts,          \* commands that apply one selective rule
    App,            \* app ids with a signature
    MaxFaults       \* bound: commands that fail and restarts of the process

ASSUME PartsAssumption == Parts \in Nat \ {0}
ASSUME AppAssumption == IsFiniteSet(App)
ASSUME FaultsAssumption == MaxFaults \in Nat

VARIABLES
    firewall,       \* PW_Sel_ firewall rules
    throttles,      \* PW_SelQ_ QoS policies
    appPolicies,    \* the other PW_ QoS policies: app, number and rate in kbit/s
    task,           \* what each thread is doing
    faults          \* bookkeeping of MaxFaults

hostVars == <<firewall, throttles, appPolicies, faults>>

\* What one command of a selective rule leaves on the host.
Artifact == [rule : RuleId, part : 1..Parts]

Idle == [step |-> "idle"]

HostInit ==
    /\ firewall = {}
    /\ throttles = {}
    /\ appPolicies = {}
    /\ task = [t \in Thread |-> Idle]
    /\ faults = 0

Goto(t, next) == task' = [task EXCEPT ![t] = next]

Fault == faults < MaxFaults /\ faults' = faults + 1

\* A command takes effect or it does not; the helpers that run it log its
\* failure and return normally, so the thread goes on either way.
Command(works) == IF works THEN faults' = faults ELSE Fault
Adds(store, artifacts, works) == IF works THEN store \cup artifacts ELSE store
Keeps(store, artifacts, works) == IF works THEN artifacts ELSE store

=============================================================================
