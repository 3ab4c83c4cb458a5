--------------------------- MODULE HitlessHandoff ---------------------------
(***************************************************************************)
(* server/routing.py: execute_hitless_handoff and rollback_handoff, with   *)
(* the session manager they move sessions in and the SDN adapter they      *)
(* install flows through; and ibn_engine.deploy_intent, which installs     *)
(* flows through the same adapter.                                         *)
(*                                                                         *)
(* Each of these runs to completion on the server's event loop: they call  *)
(* the controllers with a blocking client, so nothing interleaves within   *)
(* one of them.  What varies is the answer of each controller, and whether *)
(* the process survives.                                                   *)
(***************************************************************************)
EXTENDS SessionManager, SdnAdapter, SandboxPipeline

CONSTANT NetconfEnabled     \* NETCONF_ENABLED

ASSUME NetconfEnabledAssumption == NetconfEnabled \in BOOLEAN
ASSUME NodesAssumption == 1..5 \subseteq Node

VARIABLE outcome            \* history: what was returned for each flow id

handoffVars == <<sessionVars, adapterVars, outcome>>

\* What a caller was told about a flow, and the netconf answer next to it.
LinkName == Link \cup {"fiber-primary", "broadband-secondary"}
Outcome == [kind : {"handoff", "deploy"}, source : LinkName, target : LinkName,
            result : {"rejected", "failed", "ok"},
            netconf : {"untried", "ok", "failed"}]
NoOutcome == [kind |-> "none"]

HandoffTypeOK ==
    /\ SessionTypeOK
    /\ AdapterTypeOK
    /\ outcome \in [Flow -> Outcome \cup {NoOutcome}]

HandoffInit ==
    /\ SessionInit
    /\ AdapterInit
    /\ outcome = [f \in Flow |-> NoOutcome]

-----------------------------------------------------------------------------

\* The priority of a traffic class: voip, video, critical, bulk, any other.
ClassPriority == {65535, 50000, 45000, 10000, 20000}

\* The priority of an intent's action; "block" gets 0.
ActionPriority == {65000, 50000, 20000, 10000, 0}

\* What _netconf_submit may answer; ncclient missing counts as failed.
NetconfCall == IF NetconfEnabled THEN {"ok", "failed"} ELSE {"untried"}

\* The names of the nodes on the controllers are "openflow:<id>".
ResolveNodeId(l) == LinkToNodeId(l)

Return(f, kind, src, dst, result, netconf) ==
    outcome' = [outcome EXCEPT ![f] =
                  [kind |-> kind, source |-> src, target |-> dst,
                   result |-> result, netconf |-> netconf]]

\* Faulty variant: a flow counts as installed once a controller has acted on it,
\* though its answer was lost or names no rule.
InstalledIfActedOn(odl, onos) ==
    IF TakesEffect(odl) \/ TakesEffect(onos) THEN "ok" ELSE "failed"

Installed(odl, onos) == IF Succeeds(odl, onos) THEN "ok" ELSE "failed"

\* Faulty variant: the sessions are moved before the verdict is looked at.
RejectHandoffTooLate(src, dst, f) ==
    /\ outcome[f] = NoOutcome
    /\ MayFail(src, dst, ClassPriority)
    /\ MigrateSessions(src, dst, {})
    /\ Return(f, "handoff", src, dst, "rejected", "untried")
    /\ UNCHANGED adapterVars

\* The sandbox rejects the proposal: nothing else happens.
RejectHandoff(src, dst, f) ==
    /\ outcome[f] = NoOutcome
    /\ MayFail(src, dst, ClassPriority)
    /\ Return(f, "handoff", src, dst, "rejected", "untried")
    /\ UNCHANGED <<sessionVars, adapterVars>>

\* Faulty variant: the flow is installed on the node that is left.
ExecuteHandoffOnSource(src, dst, f, id, failed, odl, onos) ==
    /\ outcome[f] = NoOutcome
    /\ MayPass(src, dst, ClassPriority)
    /\ MigrateSessions(src, dst, failed)
    /\ UpdateFlowTable(ResolveNodeId(src), f, id, odl, onos)
    /\ Return(f, "handoff", src, dst, Installed(odl, onos), "untried")

\* The proposal passes: the sessions are moved, then the flow is installed,
\* and the sessions stay moved if the installation fails.
ExecuteHandoff(src, dst, f, id, failed, odl, onos) ==
    /\ outcome[f] = NoOutcome
    /\ MayPass(src, dst, ClassPriority)
    /\ MigrateSessions(src, dst, failed)
    /\ UpdateFlowTable(ResolveNodeId(dst), f, id, odl, onos)
    /\ Return(f, "handoff", src, dst, Installed(odl, onos), "untried")

-----------------------------------------------------------------------------

DefaultSourceFor(dst) ==
    IF dst = "fiber-primary" THEN "broadband-secondary" ELSE "fiber-primary"

\* A source equal to the target is replaced by the default for that target.
DeploySource(src, dst) == IF src = dst THEN DefaultSourceFor(dst) ELSE src

RejectDeploy(src, dst, f) ==
    /\ outcome[f] = NoOutcome
    /\ MayFail(DeploySource(src, dst), dst, ActionPriority)
    /\ Return(f, "deploy", DeploySource(src, dst), dst, "rejected", "untried")
    /\ UNCHANGED <<sessionVars, adapterVars>>

\* The REST installation follows whatever NETCONF answered, and alone decides
\* what is returned.
ExecuteDeploy(src, dst, f, id, netconf, odl, onos) ==
    /\ outcome[f] = NoOutcome
    /\ MayPass(DeploySource(src, dst), dst, ActionPriority)
    /\ UpdateFlowTable(ResolveNodeId(dst), f, id, odl, onos)
    /\ Return(f, "deploy", DeploySource(src, dst), dst, Installed(odl, onos), netconf)
    /\ UNCHANGED sessionVars

RollbackHandoff(f, reply) ==
    /\ RollbackFlow(f, reply)
    /\ UNCHANGED <<sessionVars, outcome>>

-----------------------------------------------------------------------------

Register(s, l) ==
    /\ RegisterSession(s, l)
    /\ UNCHANGED <<adapterVars, outcome>>

ControllerDropsRule(r) ==
    /\ Lapse(r)
    /\ UNCHANGED <<sessionVars, outcome>>

\* The process restarts: the sessions and the record of flows are gone, the
\* controllers keep their rules.
Restart ==
    /\ SessionRestart
    /\ AdapterRestart
    /\ UNCHANGED outcome

HandoffNext ==
    \/ \E s \in Session, l \in Link : Register(s, l)
    \/ \E src, dst \in Link, f \in Flow : RejectHandoff(src, dst, f)
    \/ \E src, dst \in Link, f \in Flow, id \in OnosId,
          failed \in SUBSET Session, odl \in OdlCall, onos \in OnosCall :
         ExecuteHandoff(src, dst, f, id, failed, odl, onos)
    \/ \E src, dst \in Link, f \in Flow : RejectDeploy(src, dst, f)
    \/ \E src, dst \in Link, f \in Flow, id \in OnosId,
          netconf \in NetconfCall, odl \in OdlCall, onos \in OnosCall :
         ExecuteDeploy(src, dst, f, id, netconf, odl, onos)
    \/ \E f \in Flow, reply \in DeleteReply : RollbackHandoff(f, reply)
    \/ \E r \in table : ControllerDropsRule(r)
    \/ Restart

HandoffSpec == HandoffInit /\ [][HandoffNext]_handoffVars

-----------------------------------------------------------------------------
\* Properties.

\* Whatever the two entry points, a rule at a controller comes from a change
\* that the sandbox passed and that was not returned as rejected, and sits on
\* the node of that change's target.
RulesPassedSandbox ==
    \A r \in table :
        LET o == outcome[r.flow]
        IN  /\ o # NoOutcome
            /\ o.result \in {"failed", "ok"}
            /\ LinkToNodeId(o.source) # LinkToNodeId(o.target)
            /\ r.node = LinkToNodeId(o.target)

\* A caller is told "ok" exactly for the flows that went on record: an "ok" flow
\* is on record until its rollback is tried or the process restarts, and no flow
\* that was told "rejected" or "failed" ever was.
RecordedIffReported ==
    \A f \in Flow :
        /\ outcome[f] # NoOutcome
        /\ outcome[f].result = "ok"
        <=> installed[f] # NoEntry \/ f \in asked \cup forgotten

\* Sessions leave a link only in a handoff the sandbox passed: in this process,
\* no more migrations than handoffs that were executed.
MigrationsPassedSandbox ==
    /\ \A i \in 1..Len(history) :
          LinkToNodeId(history[i].source) # LinkToNodeId(history[i].target)
    /\ Len(history) <= Cardinality(
          {f \in Flow : /\ outcome[f] # NoOutcome
                        /\ outcome[f].kind = "handoff"
                        /\ outcome[f].result # "rejected"})

=============================================================================
