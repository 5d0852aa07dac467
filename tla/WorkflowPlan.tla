---------------------------- MODULE WorkflowPlan ----------------------------
(***************************************************************************)
(* Compilation of a workflow (kernel/workflow/compile.go) and the routing  *)
(* of a Run through the plan (controller/routing.go, and the part of Drive *)
(* that moves NextNode).  The compiler decides from the graph alone which  *)
(* outputs a node and the result may refer to; the router decides node by  *)
(* node, by outcomes, what runs.  The two never see each other's rules.    *)
(*                                                                         *)
(* Node ids are numbers, for the order of strings.  An edge has a kind, a  *)
(* condition and a gate: its route and source port together.  An outcome   *)
(* opens the gates of the route it took and the ports it published, and no *)
(* others, so that the edges of a node may exclude each other.  Bindings are not kept: a node may refer to  *)
(* every output that is visible to it, a reference to another one is a     *)
(* compile error.  Schemas, expressions and digests are left out.          *)
(***************************************************************************)
EXTENDS Integers, Sequences, FiniteSets, FiniteSetsExt, SequencesExt

CONSTANTS
    Nodes,      \* node ids
    EdgeSpace,  \* the edges a definition may have
    EntrySpace, \* the nodes entrypoints may name
    Gates,      \* routes and source ports an edge may name
    MaxEdges    \* bound: edges of one definition

\* An edge without a route and a source port has no gate.
NoGate == "none"

Edge == {e \in [from : Nodes, to : Nodes, kind : {"data", "control"},
                cond : {"success", "failure", "always"}, gate : Gates \cup {NoGate}] :
            e.from # e.to /\ (e.gate # NoGate => e.cond = "success")}

ASSUME PlanAssumption ==
    /\ Nodes \subseteq Nat /\ IsFiniteSet(Nodes)
    /\ EdgeSpace \subseteq Edge
    /\ EntrySpace \subseteq Nodes
    /\ NoGate \notin Gates
    /\ MaxEdges \in Nat \ {0}

VARIABLES
    edges,    \* definition.Edges
    entries,  \* the nodes entrypoints name
    phase,    \* "authored", "compiled", "rejected", "running", "failed", "ended"
    plan,     \* NodeOrder and what each node, and the result per entry, may see
    entry,    \* the entrypoint of the Run
    order,    \* snapshot.NodeOrder
    outcomes  \* snapshot.NodeOutcomes; NextNode is the number of outcomes

vars == <<edges, entries, phase, plan, entry, order, outcomes>>

NoPlan == [order |-> <<>>, visible |-> <<>>, result |-> <<>>]

Init ==
    /\ \E authored \in [1..MaxEdges -> EdgeSpace] : edges = {authored[i] : i \in 1..MaxEdges}
    /\ entries \in (SUBSET EntrySpace) \ {{}}
    /\ phase = "authored"
    /\ plan = NoPlan
    /\ entry = 0
    /\ order = <<>>
    /\ outcomes = <<>>

-----------------------------------------------------------------------------
(***************************************************************************)
(* The compiler.                                                           *)
(***************************************************************************)

Graph == {<<e.from, e.to>> : e \in edges}
ControlGraph == {<<e.from, e.to>> : e \in {f \in edges : f.kind = "control"}}
Predecessors(graph, n) == {m \in Nodes : <<m, n>> \in graph}
Successors(graph, n) == {m \in Nodes : <<n, m>> \in graph}

\* MUTANT of Pick: the queue is not sorted after an append.
PickLast(ready) == Max(ready)

Pick(ready) == Min(ready)

\* topologicalOrder: the ready node with the least name goes next; a node is
\* ready when its indegree has been counted down to 0.  The queue is filled by
\* ranging over a map but sorted before every pop, so it is a set here and Pick
\* is the pop.  Shorter than Nodes if the graph has a cycle.
TopologicalOrder(graph) ==
    LET prefix[k \in 0..Cardinality(Nodes)] ==
            IF k = 0 THEN <<>>
            ELSE LET done == ToSet(prefix[k - 1])
                     ready == {n \in Nodes \ done : Predecessors(graph, n) \subseteq done}
                 IN  IF ready = {} THEN prefix[k - 1] ELSE Append(prefix[k - 1], Pick(ready))
    IN  prefix[Cardinality(Nodes)]

\* Breadth first, around the excluded node.
Reachable(graph, starts, excluded) ==
    LET level[k \in 0..Cardinality(Nodes)] ==
            IF k = 0 THEN starts \ excluded
            ELSE level[k - 1] \cup
                 ((UNION {Successors(graph, n) : n \in level[k - 1]}) \ excluded)
    IN  level[Cardinality(Nodes)]

Dominates(source, target, graph, starts) ==
    source = target \/ target \notin Reachable(graph, starts, {source})

\* MUTANT of VisiblePredecessors: a data edge is enough.
AllDataPredecessors(target) == {e.from : e \in {f \in edges : f.kind = "data" /\ f.to = target}}

VisiblePredecessors(target) ==
    {source \in {e.from : e \in {f \in edges : f.kind = "data" /\ f.to = target}} :
        Dominates(source, target, ControlGraph, entries)}

\* MUTANT of ResultVisibleNodes: one exit is enough.
ResultVisibleSomewhere(start) ==
    LET reached == Reachable(Graph, {start}, {})
        exits == {n \in reached : Successors(Graph, n) = {}}
    IN  {n \in reached : \E exit \in exits : Dominates(n, exit, Graph, {start})}

ResultVisibleNodes(start) ==
    LET reached == Reachable(Graph, {start}, {})
        exits == {n \in reached : Successors(Graph, n) = {}}
    IN  {n \in reached : \A exit \in exits : Dominates(n, exit, Graph, {start})}

Acyclic == Len(TopologicalOrder(Graph)) = Cardinality(Nodes)
Connected == Reachable(Graph, entries, {}) = Nodes

Compile ==
    /\ phase = "authored"
    /\ Acyclic /\ Connected
    /\ phase' = "compiled"
    /\ plan' = [order |-> TopologicalOrder(Graph),
                visible |-> [n \in Nodes |-> VisiblePredecessors(n)],
                result |-> [n \in entries |-> ResultVisibleNodes(n)]]
    /\ UNCHANGED <<edges, entries, entry, order, outcomes>>

Reject ==
    /\ phase = "authored"
    /\ ~Acyclic \/ ~Connected
    /\ phase' = "rejected"
    /\ UNCHANGED <<edges, entries, plan, entry, order, outcomes>>

-----------------------------------------------------------------------------
(***************************************************************************)
(* The router.                                                             *)
(***************************************************************************)

\* MUTANT of EntrypointNodeOrder: the reachable nodes by name.
EntrypointNodesByName(start) ==
    SetToSortSeq(Reachable(Graph, {start}, {}), <)

\* The plan's order, cut down to what the entrypoint reaches.
EntrypointNodeOrder(start) ==
    LET reached == Reachable(Graph, {start}, {})
        cut[k \in 0..Len(plan.order)] ==
            IF k = 0 THEN <<>>
            ELSE IF plan.order[k] \in reached THEN Append(cut[k - 1], plan.order[k])
            ELSE cut[k - 1]
    IN  cut[Len(plan.order)]

\* A Run is admitted for one entrypoint and gets that entrypoint's order.
StartRun(start) ==
    /\ phase = "compiled"
    /\ entry' = start
    /\ order' = EntrypointNodeOrder(start)
    /\ phase' = "running"
    /\ UNCHANGED <<edges, entries, plan, outcomes>>

NextNode == Len(outcomes) + 1
Current == order[NextNode]
Scope == ToSet(order)

\* NodeOutcomes by node.
Resolved == {order[i] : i \in DOMAIN outcomes}
Outcome(n) == outcomes[CHOOSE i \in DOMAIN outcomes : order[i] = n]

EdgeMatches(e, outcome) ==
    /\ CASE e.cond = "success" -> outcome.status = "succeeded"
         [] e.cond = "failure" -> outcome.status = "failed"
         [] e.cond = "always" -> outcome.status \in {"succeeded", "failed"}
    /\ e.gate # NoGate => e.gate \in outcome.open

\* The AND-join over the edges from nodes in scope.
Incoming(n) == {e \in edges : e.to = n /\ e.from \in Scope}
Blocked == \E e \in Incoming(Current) : e.from \notin Resolved
Ready == \A e \in Incoming(Current) : e.from \in Resolved /\ EdgeMatches(e, Outcome(e.from))

\* currentNodeDisposition looks at the edges one by one and stops at the first
\* that is unresolved or does not match.
Skipped == \E e \in Incoming(Current) : e.from \in Resolved /\ ~EdgeMatches(e, Outcome(e.from))

Record(outcome) ==
    /\ outcomes' = Append(outcomes, outcome)
    /\ UNCHANGED <<edges, entries, plan, entry, order>>

AtNode == phase = "running" /\ NextNode <= Len(order)

SkipNode ==
    /\ AtNode /\ Skipped
    /\ Record([status |-> "skipped", open |-> {}])
    /\ UNCHANGED phase

\* A route or port that no edge of the node names opens nothing.
GatesOf(n) == {e.gate : e \in {f \in edges : f.from = n}}

SucceedNode(open) ==
    /\ AtNode /\ Ready
    /\ open \subseteq GatesOf(Current)
    /\ Record([status |-> "succeeded", open |-> open])
    /\ UNCHANGED phase

FailureHandled(n) ==
    \E e \in edges :
        e.from = n /\ e.to \in Scope /\ EdgeMatches(e, [status |-> "failed", open |-> {}])

\* An unhandled failure puts the Run into stopping.
FailNode ==
    /\ AtNode /\ Ready
    /\ Record([status |-> "failed", open |-> {}])
    /\ phase' = IF FailureHandled(Current) THEN "running" ELSE "failed"

\* Past the last node the result is resolved; the Run succeeds or fails by it.
EndRun ==
    /\ phase = "running" /\ NextNode > Len(order)
    /\ phase' = "ended"
    /\ UNCHANGED <<edges, entries, plan, entry, order, outcomes>>

Next ==
    \/ Compile \/ Reject
    \/ \E start \in entries : StartRun(start)
    \/ SkipNode \/ FailNode \/ EndRun
    \/ \E open \in SUBSET Gates : SucceedNode(open)

Spec == Init /\ [][Next]_vars

-----------------------------------------------------------------------------
(***************************************************************************)
(* Properties.                                                             *)
(***************************************************************************)

Produced(n) == n \in Resolved /\ Outcome(n).status = "succeeded"

\* Every order of the nodes in which no edge points backwards.
LinearExtensions ==
    {s \in SetToSeqs(Nodes) :
        \A i, j \in DOMAIN s : <<s[i], s[j]>> \in Graph => i < j}

Precedes(s, t) ==
    \E i \in DOMAIN s : s[i] < t[i] /\ \A j \in 1..(i - 1) : s[j] = t[j]

\* The plan's order is the least of all topological orders by name: the node by
\* node choice of topologicalOrder yields an order a reader can state without
\* the algorithm, and equal definitions have equal plan digests.
LeastOrder ==
    phase = "compiled" =>
        /\ plan.order \in LinearExtensions
        /\ \A s \in LinearExtensions : s = plan.order \/ Precedes(plan.order, s)

\* Drive's own assertion: no node comes up before the nodes it depends on, also
\* in the order of one entrypoint, which is cut out of the whole one.
NeverBlocked == AtNode => ~Blocked

\* A node that runs finds every output the compiler let it refer to through a
\* success edge, if control flow from the entrypoint leads to it.
InputsProduced ==
    AtNode /\ Ready /\ Current \in Reachable(ControlGraph, {entry}, {}) =>
        \A e \in edges :
            e.kind = "data" /\ e.to = Current /\ e.cond = "success" /\ e.from \in plan.visible[Current]
                => Produced(e.from)

\* Where no edge handles failures, a Run that got through one of its exits has
\* every output its result may refer to.
ResultProduced ==
    /\ phase = "ended"
    /\ \A e \in edges : e.cond = "success"
    /\ \E n \in Scope : Successors(Graph, n) = {} /\ Produced(n)
    => \A n \in plan.result[entry] : Produced(n)
=============================================================================
