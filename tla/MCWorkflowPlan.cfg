SPECIFICATION Spec
CONSTANTS
    Nodes = {1, 2, 3, 4}
    EdgeSpace <- MCEdgeSpace
    EntrySpace = {1, 2}
    Gates = {"a", "b"}
    MaxEdges = 4
CHECK_DEADLOCK FALSE
INVARIANTS LeastOrder NeverBlocked InputsProduced ResultProduced
