--------------------------- MODULE MCWorkflowPlan ---------------------------
(***************************************************************************)
(* Four nodes and up to four edges: diamonds, chains with shortcuts, two   *)
(* entrypoints that share a node, one backward pair for cycles and for     *)
(* orders that differ from the names.                                      *)
(***************************************************************************)
EXTENDS WorkflowPlan

MCPairs == {<<1, 2>>, <<1, 3>>, <<1, 4>>, <<3, 2>>, <<2, 3>>, <<2, 4>>, <<3, 4>>}

MCVariants == {[kind |-> "control", cond |-> "success", gate |-> NoGate],
               [kind |-> "control", cond |-> "success", gate |-> "a"],
               [kind |-> "control", cond |-> "failure", gate |-> NoGate],
               [kind |-> "data", cond |-> "success", gate |-> NoGate],
               [kind |-> "data", cond |-> "always", gate |-> NoGate]}

MCPlain == {[from |-> p[1], to |-> p[2], kind |-> v.kind, cond |-> v.cond, gate |-> v.gate] :
                p \in MCPairs, v \in MCVariants}

\* Node 1 has a second route, which excludes the first.
MCSecondRoute == {[from |-> 1, to |-> n, kind |-> "control", cond |-> "success", gate |-> "b"] :
                      n \in {3, 4}}

MCEdgeSpace == MCPlain \cup MCSecondRoute
=============================================================================
