-------------------------- MODULE SandboxPipeline ---------------------------
(***************************************************************************)
(* server/sandbox.py, run_sandbox_validation: the synchronous pipeline a   *)
(* handoff and an intent deployment go through before anything is changed. *)
(* The topology it examines is always the two nodes of the proposal and    *)
(* one link between them; the search for loops is defined for any graph.   *)
(***************************************************************************)
EXTENDS Naturals, FiniteSets

CONSTANT Mode       \* SANDBOX_MODE

ASSUME ModeAssumption == Mode \in {"memory", "mininet"}

\* The node of a link name; a name outside the table gets node 1.  routing.py
\* has the same table, ibn_engine.py the same one for the canonical names.
LinkToNodeId(l) ==
    CASE l \in {"fiber", "fiber-primary"}           -> 1
      [] l \in {"broadband", "broadband-secondary"} -> 2
      [] l \in {"satellite", "satellite-backup"}    -> 3
      [] l \in {"5g", "5g-mobile"}                  -> 4
      [] l = "wifi"                                 -> 5
      [] OTHER                                      -> 1

\* The nodes and the one link of the proposal's topology.
SnapshotNodes(src, dst) == {LinkToNodeId(src), LinkToNodeId(dst)}
SnapshotLinks(src, dst) == {<<LinkToNodeId(src), LinkToNodeId(dst)>>}

\* The adjacency, undirected and with self-loops; two links between the same
\* two nodes count as one.
Adj(links, v) == {e[2] : e \in {f \in links : f[1] = v}} \cup {e[1] : e \in {f \in links : f[2] = v}}

\* The depth-first search, from the call dfs(v, parent) in which the neighbours
\* `rest` are still to be looked at: the parent is skipped, a new node is
\* searched, a node on the stack closes a loop.  0 stands for the outer loop and
\* for the parent "" of the nodes where it starts a search.  Nodes and
\* neighbours are taken by their number, where the code has a set's order.
DepthFirst(nodes, links) ==
    LET Any == nodes \cup {0}
        dfs[v \in Any, parent \in Any, rest \in SUBSET nodes,
            visited \in SUBSET nodes, stack \in SUBSET nodes] ==
            IF rest = {} THEN [found |-> FALSE, visited |-> visited]
            ELSE LET nb   == CHOOSE u \in rest : \A w \in rest : u <= w
                     next == rest \ {nb}
                     call == dfs[nb, v, Adj(links, nb), visited \cup {nb}, stack \cup {nb}]
                 IN  IF nb = parent \/ nb \in visited \ stack
                     THEN dfs[v, parent, next, visited, stack]
                     ELSE IF nb \in stack THEN [found |-> TRUE, visited |-> visited]
                     ELSE IF call.found THEN call
                     ELSE dfs[v, parent, next, call.visited, stack]
    IN  dfs[0, 0, nodes, {}, {}].found

\* The nodes and links have a loop iff there is a self-loop, or a non-empty set
\* of nodes each of which has two other neighbours in the set.
HasLoop(nodes, links) ==
    \/ \E v \in nodes : v \in Adj(links, v)
    \/ \E S \in SUBSET nodes \ {{}} :
          \A v \in S : Cardinality((Adj(links, v) \cap S) \ {v}) >= 2

\* One link closes a loop exactly when it joins a node to itself.
LoopFound(src, dst) == \E e \in SnapshotLinks(src, dst) : e[1] = e[2]

PolicyPasses(priority) == 0 < priority /\ priority <= 65535

TargetReachable(src, dst) == LinkToNodeId(dst) \in SnapshotNodes(src, dst)

\* The Mininet server's verdict, or that it does not answer.  A server without
\* Mininet says pass to everything, and one with Mininet never reports a loop.
MininetReply == {"pass", "fail", "unreachable"}

\* Batfish's verdict; an error of any kind counts as a pass.
BatfishReply == {"pass", "fail", "error"}

LoopStagePasses(src, dst, mininet) ==
    IF Mode = "mininet" /\ mininet # "unreachable"
    THEN mininet = "pass"
    ELSE ~LoopFound(src, dst)

ReachabilityStagePasses(src, dst, batfish) ==
    IF Mode = "mininet" THEN batfish # "fail" ELSE TargetReachable(src, dst)

\* All five stages; the snapshot and the performance stage always pass.
SandboxPasses(src, dst, priority, mininet, batfish) ==
    /\ LoopStagePasses(src, dst, mininet)
    /\ PolicyPasses(priority)
    /\ ReachabilityStagePasses(src, dst, batfish)

\* The circumstances of a proposal of one of these priorities, and those in
\* which it passes.
Circumstances(priorities) == priorities \X MininetReply \X BatfishReply

Passing(src, dst, priorities) ==
    {c \in Circumstances(priorities) : SandboxPasses(src, dst, c[1], c[2], c[3])}

MayPass(src, dst, priorities) == Passing(src, dst, priorities) # {}

MayFail(src, dst, priorities) ==
    Passing(src, dst, priorities) # Circumstances(priorities)

=============================================================================
