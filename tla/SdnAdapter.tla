----------------------------- MODULE SdnAdapter -----------------------------
(***************************************************************************)
(* server/sdn_adapter.py: the adapter that installs steering flows on      *)
(* OpenDaylight, ONOS or both, and the record it keeps so that a flow can  *)
(* be rolled back.  The controllers are external: `table` holds the rules  *)
(* they have accepted.  A call to a controller may be answered, be refused,*)
(* fail before it takes effect, or take effect and lose its answer.        *)
(***************************************************************************)
EXTENDS Naturals, FiniteSets

CONSTANTS
    Node,           \* OpenFlow node ids
    Flow,           \* flow ids, fresh per handoff or deployment
    OnosId,         \* the ids ONOS assigns to the rules posted to it
    CtrlType        \* SDN_CONTROLLER_TYPE

ASSUME CtrlTypeAssumption == CtrlType \in {"odl", "onos", "both"}

VARIABLES
    table,          \* rules held by the controllers
    installed,      \* _installed_flows
    onosUsed,       \* ids ONOS has assigned so far
    submitted,      \* history: flows given to update_flow_table
    forgotten,      \* history: flows whose record a restart has dropped
    asked,          \* history: flows whose recorded rule was to be deleted
    rolledBack      \* history: flows whose rollback_flow returned True

historyVars == <<submitted, forgotten, asked, rolledBack>>
adapterVars == <<table, installed, onosUsed, submitted, forgotten, asked, rolledBack>>

Ctrl == {"odl", "onos"}

\* A rule at a controller: `id` names it there (the flow id in the URL of an
\* ODL PUT, the id ONOS answers with), `flow` is the "id" in the flow body.
Rule == [ctrl : Ctrl, node : Node, id : Flow \cup OnosId, flow : Flow]

\* An entry of _installed_flows; NoEntry for a flow id that is not a key.
Entry == [ctrl : Ctrl, node : Node, id : Flow \cup OnosId]
NoEntry == [ctrl |-> "none"]

AdapterTypeOK ==
    /\ table \subseteq Rule
    /\ installed \in [Flow -> Entry \cup {NoEntry}]
    /\ onosUsed \subseteq OnosId
    /\ submitted \subseteq Flow
    /\ forgotten \subseteq Flow
    /\ asked \subseteq Flow
    /\ rolledBack \subseteq Flow

AdapterInit ==
    /\ table = {}
    /\ installed = [f \in Flow |-> NoEntry]
    /\ onosUsed = {}
    /\ submitted = {}
    /\ forgotten = {}
    /\ asked = {}
    /\ rolledBack = {}

-----------------------------------------------------------------------------
(* Calls to the controllers. *)

\* ok: 2xx.  noid: ONOS answers 2xx without flowIds.  refused: another status.
\* lost: the controller acts, the answer times out.  down: the call raises first.
OdlReply == {"ok", "refused", "lost", "down"}
OnosReply == OdlReply \cup {"noid"}
DeleteReply == {"ok", "refused", "lost", "down"}

TakesEffect(reply) == reply \in {"ok", "noid", "lost"}

Uses(c) == CtrlType \in {c, "both"}

\* The replies of a controller that is called, or the one of one that is not.
OdlCall == IF Uses("odl") THEN OdlReply ELSE {"not called"}
OnosCall == IF Uses("onos") THEN OnosReply ELSE {"not called"}

\* update_flow_table's result.
Succeeds(odl, onos) == odl = "ok" \/ onos = "ok"

OdlRule(n, f) == [ctrl |-> "odl", node |-> n, id |-> f, flow |-> f]

OnosRule(n, f, id) == [ctrl |-> "onos", node |-> n, id |-> id, flow |-> f]

EntryFor(r) == [ctrl |-> r.ctrl, node |-> r.node, id |-> r.id]

Locates(entry, r) == entry = EntryFor(r)

-----------------------------------------------------------------------------
(* The adapter's operations. *)

\* Faulty variant: the ONOS entry has the flow's own id, not the assigned one.
RecordedOwnId(n, f, id, odl, onos) ==
    IF onos = "ok" THEN EntryFor(OnosRule(n, f, f))
    ELSE IF odl = "ok" THEN EntryFor(OdlRule(n, f))
    ELSE installed[f]

\* The entry update_flow_table leaves: ONOS is called last, so its entry
\* replaces the one just written for ODL.
Recorded(n, f, id, odl, onos) ==
    IF onos = "ok" THEN EntryFor(OnosRule(n, f, id))
    ELSE IF odl = "ok" THEN EntryFor(OdlRule(n, f))
    ELSE installed[f]

UpdateFlowTable(n, f, id, odl, onos) ==
    /\ f \notin submitted
    /\ id \notin onosUsed
    /\ table' = table \cup {r \in {OdlRule(n, f)} : TakesEffect(odl)}
                      \cup {r \in {OnosRule(n, f, id)} : TakesEffect(onos)}
    /\ onosUsed' = onosUsed \cup {i \in {id} : TakesEffect(onos)}
    /\ installed' = [installed EXCEPT ![f] = Recorded(n, f, id, odl, onos)]
    /\ submitted' = submitted \cup {f}
    /\ UNCHANGED <<forgotten, asked, rolledBack>>

\* Faulty variant: a refused deletion is taken for a success.
RollbackFlowIgnoringStatus(f, reply) ==
    LET entry == installed[f]
    IN  /\ entry # NoEntry
        /\ installed' = [installed EXCEPT ![f] = NoEntry]
        /\ table' = {r \in table : ~(TakesEffect(reply) /\ Locates(entry, r))}
        /\ asked' = asked \cup {f}
        /\ rolledBack' = rolledBack \cup {g \in {f} : reply \in {"ok", "refused"}}
        /\ UNCHANGED <<onosUsed, submitted, forgotten>>

\* Faulty variant: the node's whole flow table is deleted.
RollbackFlowClearingNode(f, reply) ==
    LET entry == installed[f]
    IN  /\ entry # NoEntry
        /\ installed' = [installed EXCEPT ![f] = NoEntry]
        /\ table' = {r \in table : ~(TakesEffect(reply) /\ r.node = entry.node)}
        /\ asked' = asked \cup {f}
        /\ rolledBack' = rolledBack \cup {g \in {f} : reply = "ok"}
        /\ UNCHANGED <<onosUsed, submitted, forgotten>>

\* rollback_flow pops the entry first, then deletes the rule it names.
RollbackFlow(f, reply) ==
    LET entry == installed[f]
    IN  /\ entry # NoEntry
        /\ installed' = [installed EXCEPT ![f] = NoEntry]
        /\ table' = {r \in table : ~(TakesEffect(reply) /\ Locates(entry, r))}
        /\ asked' = asked \cup {f}
        /\ rolledBack' = rolledBack \cup {g \in {f} : reply = "ok"}
        /\ UNCHANGED <<onosUsed, submitted, forgotten>>

\* A rule lapses at its controller: its timeout, an operator, a cleared switch.
Lapse(r) ==
    /\ r \in table
    /\ table' = table \ {r}
    /\ UNCHANGED <<installed, onosUsed, submitted, forgotten, asked, rolledBack>>

\* The server restarts: _installed_flows is only in memory.
AdapterRestart ==
    /\ installed' = [f \in Flow |-> NoEntry]
    /\ forgotten' = forgotten \cup {f \in Flow : installed[f] # NoEntry}
    /\ UNCHANGED <<table, onosUsed, submitted, asked, rolledBack>>

AdapterNext ==
    \/ \E n \in Node, f \in Flow, id \in OnosId, odl \in OdlCall, onos \in OnosCall :
            UpdateFlowTable(n, f, id, odl, onos)
    \/ \E f \in Flow, reply \in DeleteReply : RollbackFlow(f, reply)
    \/ \E r \in table : Lapse(r)
    \/ AdapterRestart

AdapterSpec == AdapterInit /\ [][AdapterNext]_adapterVars

-----------------------------------------------------------------------------
\* Properties.

\* "Remove a previously installed flow rule (one-click rollback)": once
\* rollback_flow has returned True, no controller holds a rule of that flow.
RollbackTrueMeansGone ==
    \A r \in table : r.flow \notin rolledBack

\* A record names the rule it was written for: whatever a controller holds
\* for a recorded flow is the rule its rollback would delete.
RecordReachesRules ==
    \A r \in table : installed[r.flow] # NoEntry => Locates(installed[r.flow], r)

\* Only the rollback of a flow, or its controller, takes its rule away: an
\* installation or the rollback of another flow never does.
RulesFallOnlyToTheirOwn ==
    [][ \A r \in table :
          r \notin table' => \/ r.flow \in asked' \ asked
                             \/ table' = table \ {r} /\ installed' = installed
      ]_adapterVars

=============================================================================
