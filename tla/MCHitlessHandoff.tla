-------------------------- MODULE MCHitlessHandoff --------------------------
(***************************************************************************)
(* Two links with nodes of their own and an alias of the first: a handoff  *)
(* between "fiber" and "fiber-primary" is between different names of one   *)
(* node.  Two sessions and two flows give a handoff, a second one that   *)
(* starts where the first ended, and a rollback or a deployment with it.   *)
(***************************************************************************)
EXTENDS HitlessHandoff, TLC

CONSTANTS s1, s2, f1, f2, o1, o2

MCLink == {"fiber-primary", "broadband-secondary", "fiber"}
MCSession == {s1, s2}
MCNode == 1..5
MCFlow == {f1, f2}
MCOnosId == {o1, o2}

Symmetry ==
    Permutations(MCSession) \cup Permutations(MCFlow) \cup Permutations(MCOnosId)

\* The sandbox's depth-first search is right about loops, on every undirected
\* graph of four nodes and for the topology of every proposal.
ASSUME SearchIsExact ==
    /\ \A links \in SUBSET {e \in (1..4) \X (1..4) : e[1] <= e[2]} :
          DepthFirst(1..4, links) <=> HasLoop(1..4, links)
    /\ \A src, dst \in MCLink :
          DepthFirst(SnapshotNodes(src, dst), SnapshotLinks(src, dst)) <=> LoopFound(src, dst)

=============================================================================
