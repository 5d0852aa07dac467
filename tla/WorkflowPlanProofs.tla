------------------------- MODULE WorkflowPlanProofs -------------------------
(***************************************************************************)
(* Proofs about WorkflowPlan, for every finite set of nodes and every      *)
(* definition: the compiler's order is the least topological one, and the  *)
(* router never meets a node before the nodes it depends on, nor an output *)
(* that the compiler made visible and that does not exist.                 *)
(*                                                                         *)
(* topologicalOrder, reachable and the cut of an entrypoint are recursive. *)
(* What they compute is proved by induction over sets: a property is the   *)
(* set of the steps at which it holds, and the least step outside of it    *)
(* does not exist.                                                         *)
(***************************************************************************)
EXTENDS WorkflowPlan, FiniteSetTheorems, WellFoundedInduction, TLAPS

-----------------------------------------------------------------------------
(* Induction and recursion.                                                *)

\* A set of naturals has a least element.
LEMMA LeastNumber ==
    ASSUME NEW T, T \subseteq Nat, T # {}
    PROVE  \E x \in T : \A y \in T : x <= y
<1>1. PICK x \in T : \A y \in T : ~(<<y, x>> \in OpToRel(<, Nat))
  <2>1. IsWellFoundedOn(OpToRel(<, Nat), Nat)
    BY NatLessThanWellFounded, Zenon
  <2> QED  BY <2>1, WFMin, Zenon
<1>2. ASSUME NEW y \in T
      PROVE  x <= y
  <2>1. ~(y < x)
    BY <1>1 DEF OpToRel
  <2> QED  BY <2>1
<1> QED  BY <1>2

\* What holds at 0 and passes from each step to the next holds at every step.
LEMMA EveryStep ==
    ASSUME NEW n \in Nat, NEW P, 0 \in P, \A k \in 1..n : k - 1 \in P => k \in P
    PROVE  \A k \in 0..n : k \in P
<1> DEFINE bad == (0..n) \ P
<1> SUFFICES ASSUME bad # {} PROVE FALSE
  OBVIOUS
<1>1. bad \subseteq Nat
  OBVIOUS
<1>2. PICK x \in bad : \A y \in bad : x <= y
  BY <1>1, LeastNumber
<1>3. x \in 1..n /\ x - 1 \in 0..n /\ ~(x <= x - 1)
  BY <1>2
<1>4. x - 1 \in P
  BY <1>2, <1>3
<1> QED  BY <1>2, <1>3, <1>4

\* A step that may depend on its number, taken n times, is a function.
Iterates(f, n, start, step) ==
    f = [k \in 0..n |-> IF k = 0 THEN start ELSE step[k][f[k - 1]]]

\* Such a function exists.
LEMMA Recursion ==
    ASSUME NEW n \in Nat, NEW S, NEW start \in S, NEW step \in [1..n -> [S -> S]]
    PROVE  \E f \in [0..n -> S] : Iterates(f, n, start, step)
<1> DEFINE Partial(f, m) == f[0] = start /\ \A k \in 1..m : f[k] = step[k][f[k - 1]]
           P == {m \in 0..n : \E f \in [0..m -> S] : Partial(f, m)}
<1>1. 0 \in P
  <2>1. PICK f \in [0..0 -> S] : f = [k \in 0..0 |-> start]
    OBVIOUS
  <2>2. Partial(f, 0)
    BY <2>1
  <2> HIDE DEF Partial
  <2> QED  BY <2>2
<1>2. ASSUME NEW m \in 1..n, m - 1 \in P
      PROVE  m \in P
  <2>1. PICK f \in [0..(m - 1) -> S] : Partial(f, m - 1)
    BY <1>2
  <2>2. f[m - 1] \in S /\ step[m] \in [S -> S]
    BY <2>1
  <2> DEFINE g == [k \in 0..m |-> IF k = m THEN step[m][f[m - 1]] ELSE f[k]]
  <2>3. g \in [0..m -> S]
    BY <2>1, <2>2
  <2>4. g[0] = start
    BY <2>1
  <2>5. ASSUME NEW k \in 1..m
        PROVE  g[k] = step[k][g[k - 1]]
    <3>1. k - 1 \in 0..m /\ k - 1 # m /\ k \in 0..m
      OBVIOUS
    <3>2. g[k - 1] = f[k - 1]
      BY <3>1
    <3>3. CASE k = m
      BY <3>1, <3>2, <3>3
    <3>4. CASE k # m
      <4>1. k \in 1..(m - 1)
        BY <3>4
      <4> QED  BY <2>1, <3>1, <3>2, <3>4, <4>1
    <3> QED  BY <3>3, <3>4
  <2> HIDE DEF g
  <2>6. Partial(g, m)
    BY <2>4, <2>5
  <2> HIDE DEF Partial
  <2>7. m \in 0..n
    OBVIOUS
  <2> QED  BY <2>3, <2>6, <2>7
<1> HIDE DEF P
<1>3. n \in P
  <2>1. \A k \in 0..n : k \in P
    BY <1>1, <1>2, EveryStep
  <2> QED  BY <2>1
<1>4. PICK f \in [0..n -> S] : Partial(f, n)
  BY <1>3 DEF P
<1>5. \A k \in 0..n : f[k] = IF k = 0 THEN start ELSE step[k][f[k - 1]]
  BY <1>4
<1> QED  BY <1>4, <1>5 DEF Iterates

-----------------------------------------------------------------------------
(* topologicalOrder.                                                       *)

\* The nodes before place i.
Before(s, i) == {s[j] : j \in 1..(i - 1)}

\* One turn of the loop.
ReadyNodes(graph, s) ==
    {n \in Nodes \ ToSet(s) : Predecessors(graph, n) \subseteq ToSet(s)}

Turn(graph, s) ==
    IF ReadyNodes(graph, s) = {} THEN s ELSE Append(s, Pick(ReadyNodes(graph, s)))

\* The loop, as a function of the number of turns.
Turns(graph) ==
    CHOOSE f : f = [k \in 0..Cardinality(Nodes) |->
                      IF k = 0 THEN <<>> ELSE Turn(graph, f[k - 1])]

\* Every node once, behind its predecessors, and the least that could go there.
Topological(graph, s) ==
    \A i \in 1..Len(s) :
        /\ s[i] \notin Before(s, i)
        /\ Predecessors(graph, s[i]) \subseteq Before(s, i)
        /\ \A n \in Nodes \ Before(s, i) :
              Predecessors(graph, n) \subseteq Before(s, i) => s[i] <= n

\* There are finitely many nodes, with numbers for names.
LEMMA NodeFacts ==
    /\ Nodes \subseteq Nat /\ IsFiniteSet(Nodes) /\ Cardinality(Nodes) \in Nat
    /\ \A n \in Nodes : n \in Nat
  BY PlanAssumption, FS_CardinalityType

\* Pick takes the least.
LEMMA PickFacts ==
    ASSUME NEW T, T \subseteq Nodes, T # {}
    PROVE  Pick(T) \in T /\ \A n \in T : Pick(T) <= n
<1>1. T \subseteq Nat
  BY NodeFacts
<1>2. \E x \in T : \A y \in T : x <= y
  BY <1>1, LeastNumber, Zenon
<1> QED  BY <1>2, Zenon DEF Pick, Min

\* A turn leaves a sequence of nodes.
LEMMA TurnTyped ==
    ASSUME NEW graph, NEW s \in Seq(Nodes)
    PROVE  Turn(graph, s) \in Seq(Nodes)
<1>1. CASE ReadyNodes(graph, s) = {}
  BY <1>1, Zenon DEF Turn
<1>2. CASE ReadyNodes(graph, s) # {}
  <2>1. Pick(ReadyNodes(graph, s)) \in Nodes
    <3>1. ReadyNodes(graph, s) \subseteq Nodes
      BY Zenon DEF ReadyNodes
    <3> QED  BY <1>2, <3>1, PickFacts, Zenon
  <2> QED  BY <1>2, <2>1 DEF Turn
<1> QED  BY <1>1, <1>2

\* The turns are what topologicalOrder computes.
LEMMA OrderIsTurns ==
    ASSUME NEW graph
    PROVE  TopologicalOrder(graph) = Turns(graph)[Cardinality(Nodes)]
  BY Zenon DEF TopologicalOrder, Turns, Turn, ReadyNodes

\* The turns follow each other.
LEMMA TurnsFacts ==
    ASSUME NEW graph
    PROVE  /\ Turns(graph) \in [0..Cardinality(Nodes) -> Seq(Nodes)]
           /\ Turns(graph)[0] = <<>>
           /\ \A k \in 1..Cardinality(Nodes) :
                 Turns(graph)[k] = Turn(graph, Turns(graph)[k - 1])
<1>1. PICK n \in Nat : n = Cardinality(Nodes)
  BY NodeFacts
<1>2. PICK step \in [1..n -> [Seq(Nodes) -> Seq(Nodes)]] :
         \A k \in 1..n : \A s \in Seq(Nodes) : step[k][s] = Turn(graph, s)
  <2>1. PICK turn : turn = [s \in Seq(Nodes) |-> Turn(graph, s)]
    OBVIOUS
  <2>2. turn \in [Seq(Nodes) -> Seq(Nodes)] /\ \A s \in Seq(Nodes) : turn[s] = Turn(graph, s)
    BY <2>1, TurnTyped
  <2>3. PICK step : step = [k \in 1..n |-> turn]
    OBVIOUS
  <2>4. step \in [1..n -> [Seq(Nodes) -> Seq(Nodes)]] /\ \A k \in 1..n : step[k] = turn
    BY <2>2, <2>3
  <2> QED  BY <2>2, <2>4, Zenon
<1>3. <<>> \in Seq(Nodes)
  OBVIOUS
<1>4. PICK f \in [0..n -> Seq(Nodes)] : Iterates(f, n, <<>>, step)
  BY <1>3, Recursion, Zenon
<1>5. f[0] = <<>> /\ \A k \in 1..n : f[k] = step[k][f[k - 1]] /\ k - 1 \in 0..n /\ k # 0
  BY <1>4 DEF Iterates
<1>6. \A k \in 1..n : f[k] = Turn(graph, f[k - 1])
  BY <1>2, <1>4, <1>5, Zenon
<1>7. \A k \in 0..n : f[k] = IF k = 0 THEN <<>> ELSE Turn(graph, f[k - 1])
  <2> TAKE k \in 0..n
  <2>1. k = 0 \/ k \in 1..n
    OBVIOUS
  <2> QED  BY <1>5, <1>6, <2>1
<1>8. f = [k \in 0..n |-> IF k = 0 THEN <<>> ELSE Turn(graph, f[k - 1])]
  BY <1>4, <1>7
<1>9. PICK t : t = Turns(graph)
  OBVIOUS
<1>10. t = [k \in 0..n |-> IF k = 0 THEN <<>> ELSE Turn(graph, t[k - 1])]
  BY <1>1, <1>8, <1>9, Zenon DEF Turns
<1>11. t[0] = <<>> /\ \A k \in 1..n : t[k] = Turn(graph, t[k - 1])
  BY <1>10
<1>12. \A k \in 0..n : t[k] \in Seq(Nodes)
  <2> DEFINE P == {k \in 0..n : t[k] \in Seq(Nodes)}
  <2>1. 0 \in P
    <3>1. 0 \in 0..n /\ t[0] \in Seq(Nodes)
      BY <1>3, <1>11
    <3> QED  BY <3>1, Zenon
  <2>2. ASSUME NEW k \in 1..n, k - 1 \in P
        PROVE  k \in P
    <3>1. t[k - 1] \in Seq(Nodes)
      BY <2>2
    <3>2. t[k] \in Seq(Nodes)
      BY <1>11, <3>1, TurnTyped, Zenon
    <3> QED  BY <3>2
  <2> HIDE DEF P
  <2>3. \A k \in 0..n : k \in P
    BY <2>1, <2>2, EveryStep
  <2> QED  BY <2>3 DEF P
<1>13. t \in [0..n -> Seq(Nodes)]
  BY <1>10, <1>12
<1> QED  BY <1>1, <1>9, <1>11, <1>13, Zenon

\* The elements of a sequence.
LEMMA ElementFacts ==
    ASSUME NEW s \in Seq(Nodes)
    PROVE  /\ Len(s) \in Nat
           /\ ToSet(s) = {s[i] : i \in 1..Len(s)}
           /\ \A i \in 1..Len(s) : s[i] \in Nodes
           /\ ToSet(s) = Before(s, Len(s) + 1)
  BY DEF ToSet, Before

\* What an append does to what comes before.
LEMMA AppendFacts ==
    ASSUME NEW s \in Seq(Nodes), NEW x \in Nodes
    PROVE  LET t == Append(s, x) IN
           /\ t \in Seq(Nodes) /\ Len(t) = Len(s) + 1 /\ t[Len(s) + 1] = x
           /\ \A i \in 1..Len(s) : t[i] = s[i] /\ Before(t, i) = Before(s, i)
           /\ Before(t, Len(s) + 1) = ToSet(s)
           /\ ToSet(t) = ToSet(s) \cup {x}
<1>1. PICK t : t = Append(s, x)
  OBVIOUS
<1>2. /\ t \in Seq(Nodes) /\ Len(t) = Len(s) + 1 /\ t[Len(s) + 1] = x /\ Len(s) \in Nat
      /\ \A i \in 1..Len(s) : t[i] = s[i]
  BY <1>1
<1>3. ASSUME NEW i \in 1..(Len(s) + 1)
      PROVE  Before(t, i) = Before(s, i)
  <2>1. \A j \in 1..(i - 1) : t[j] = s[j]
    BY <1>2
  <2> QED  BY <2>1 DEF Before
<1>4. \A i \in 1..Len(s) : i \in 1..(Len(s) + 1)
  BY <1>2
<1>5. Before(t, Len(s) + 1) = ToSet(s)
  <2>1. Len(s) + 1 \in 1..(Len(s) + 1)
    BY <1>2
  <2> QED  BY <1>3, <2>1, ElementFacts, Zenon
<1>6. ToSet(t) = ToSet(s) \cup {x}
  <2>1. ToSet(t) = {t[i] : i \in 1..(Len(s) + 1)} /\ ToSet(s) = {s[i] : i \in 1..Len(s)}
    BY <1>2, ElementFacts
  <2>2. 1..(Len(s) + 1) = 1..Len(s) \cup {Len(s) + 1}
    BY <1>2
  <2> QED  BY <1>2, <2>1, <2>2
<1> QED  BY <1>1, <1>2, <1>3, <1>4, <1>5, <1>6, Zenon

\* A turn keeps the order topological.
LEMMA TurnKeeps ==
    ASSUME NEW graph, NEW s \in Seq(Nodes), Topological(graph, s)
    PROVE  Topological(graph, Turn(graph, s))
<1>1. CASE ReadyNodes(graph, s) = {}
  BY <1>1, Zenon DEF Turn
<1>2. CASE ReadyNodes(graph, s) # {}
  <2>1. PICK x : x = Pick(ReadyNodes(graph, s))
    OBVIOUS
  <2>2. ReadyNodes(graph, s) \subseteq Nodes
    BY Zenon DEF ReadyNodes
  <2>3. x \in ReadyNodes(graph, s) /\ \A n \in ReadyNodes(graph, s) : x <= n
    BY <1>2, <2>1, <2>2, PickFacts, Zenon
  <2>4. x \in Nodes /\ x \notin ToSet(s) /\ Predecessors(graph, x) \subseteq ToSet(s)
    BY <2>3, Zenon DEF ReadyNodes
  <2>5. PICK t : t = Append(s, x)
    OBVIOUS
  <2>6. /\ t \in Seq(Nodes) /\ Len(t) = Len(s) + 1 /\ t[Len(s) + 1] = x
        /\ \A i \in 1..Len(s) : t[i] = s[i] /\ Before(t, i) = Before(s, i)
        /\ Before(t, Len(s) + 1) = ToSet(s)
    BY <2>4, <2>5, AppendFacts, Zenon
  <2>7. ASSUME NEW i \in 1..Len(t)
        PROVE  /\ t[i] \notin Before(t, i)
               /\ Predecessors(graph, t[i]) \subseteq Before(t, i)
               /\ \A n \in Nodes \ Before(t, i) :
                     Predecessors(graph, n) \subseteq Before(t, i) => t[i] <= n
    <3>1. i \in 1..Len(s) \/ i = Len(s) + 1
      BY <2>6, ElementFacts
    <3>2. CASE i \in 1..Len(s)
      <4>1. t[i] = s[i] /\ Before(t, i) = Before(s, i)
        BY <2>6, <3>2, Zenon
      <4> QED  BY <3>2, <4>1, Zenon DEF Topological
    <3>3. CASE i = Len(s) + 1
      <4>1. t[i] = x /\ Before(t, i) = ToSet(s)
        BY <2>6, <3>3, Zenon
      <4>2. \A n \in Nodes \ ToSet(s) : Predecessors(graph, n) \subseteq ToSet(s) => x <= n
        BY <2>3, Zenon DEF ReadyNodes
      <4> QED  BY <2>4, <4>1, <4>2, Zenon
    <3> QED  BY <3>1, <3>2, <3>3
  <2>8. Turn(graph, s) = t
    BY <1>2, <2>1, <2>5, Zenon DEF Turn
  <2> QED  BY <2>7, <2>8, Zenon DEF Topological
<1> QED  BY <1>1, <1>2

\* topologicalOrder is a topological order of the nodes it lists.
LEMMA OrderIsTopological ==
    ASSUME NEW graph
    PROVE  TopologicalOrder(graph) \in Seq(Nodes) /\ Topological(graph, TopologicalOrder(graph))
<1>1. PICK n \in Nat : n = Cardinality(Nodes)
  BY NodeFacts
<1>2. PICK t \in [0..n -> Seq(Nodes)] : t = Turns(graph)
  BY <1>1, TurnsFacts, Zenon
<1>3. t[0] = <<>> /\ \A k \in 1..n : t[k] = Turn(graph, t[k - 1])
  BY <1>1, <1>2, TurnsFacts, Zenon
<1> DEFINE P == {k \in 0..n : Topological(graph, t[k])}
<1>4. 0 \in P
  <2>1. Topological(graph, <<>>)
    BY DEF Topological
  <2> QED  BY <1>3, <2>1
<1>5. ASSUME NEW k \in 1..n, k - 1 \in P
      PROVE  k \in P
  <2>1. Topological(graph, t[k - 1]) /\ t[k - 1] \in Seq(Nodes)
    BY <1>5
  <2>2. Topological(graph, t[k])
    BY <1>3, <2>1, TurnKeeps, Zenon
  <2> QED  BY <2>2
<1> HIDE DEF P
<1>6. \A k \in 0..n : k \in P
  BY <1>4, <1>5, EveryStep
<1>7. Topological(graph, t[n]) /\ t[n] \in Seq(Nodes)
  BY <1>6 DEF P
<1> QED  BY <1>1, <1>2, <1>7, OrderIsTurns, Zenon
-----------------------------------------------------------------------------
(* The least order.                                                        *)

\* No node twice.
LEMMA OnceFacts ==
    ASSUME NEW s \in Seq(Nodes), \A i \in 1..Len(s) : s[i] \notin Before(s, i)
    PROVE  \A i, j \in 1..Len(s) : s[i] = s[j] => i = j
<1> SUFFICES ASSUME NEW i \in 1..Len(s), NEW j \in 1..Len(s), s[i] = s[j], i # j
             PROVE  FALSE
  OBVIOUS
<1>1. Len(s) \in Nat
  BY ElementFacts, Zenon
<1>2. CASE i < j
  <2>1. i \in 1..(j - 1)
    BY <1>1, <1>2
  <2>2. s[i] \in Before(s, j)
    BY <2>1 DEF Before
  <2> QED  BY <2>2, Zenon
<1>3. CASE j < i
  <2>1. j \in 1..(i - 1)
    BY <1>1, <1>3
  <2>2. s[j] \in Before(s, i)
    BY <2>1 DEF Before
  <2> QED  BY <2>2, Zenon
<1> QED  BY <1>1, <1>2, <1>3

\* As many different nodes as there are are all of them.
LEMMA AllNodes ==
    ASSUME NEW n \in Nat, n = Cardinality(Nodes), NEW f \in [1..n -> Nodes],
           \A i, j \in 1..n : f[i] = f[j] => i = j
    PROVE  \A m \in Nodes : \E i \in 1..n : f[i] = m
<1>1. IsFiniteSet(Nodes)
  BY NodeFacts, Zenon
<1>2. Cardinality(1..n) = Cardinality(Nodes)
  <2>1. 1 \in Int /\ n \in Int
    OBVIOUS
  <2>2. Cardinality(1..n) = IF 1 > n THEN 0 ELSE n - 1 + 1
    BY <2>1, FS_Interval
  <2> QED  BY <2>2
<1>3. f \in Injection(1..n, Nodes)
  BY DEF Injection, IsInjective
<1>4. f \in Surjection(1..n, Nodes)
  BY <1>1, <1>2, <1>3, FS_Injection, Zenon
<1> QED  BY <1>4, Zenon DEF Surjection

\* A whole order lists every node.
LEMMA WholeFacts ==
    ASSUME NEW s \in Seq(Nodes), Len(s) = Cardinality(Nodes),
           \A i \in 1..Len(s) : s[i] \notin Before(s, i)
    PROVE  /\ s \in [1..Cardinality(Nodes) -> Nodes]
           /\ ToSet(s) = Nodes
<1>1. PICK n \in Nat : n = Cardinality(Nodes)
  BY NodeFacts
<1>2. s \in [1..n -> Nodes]
  BY <1>1
<1>3. \A i, j \in 1..n : s[i] = s[j] => i = j
  BY <1>1, OnceFacts, Zenon
<1>4. \A m \in Nodes : \E i \in 1..n : s[i] = m
  BY <1>1, <1>2, <1>3, AllNodes, Zenon
<1>5. ToSet(s) = {s[i] : i \in 1..n}
  BY <1>1, ElementFacts, Zenon
<1>6. ToSet(s) = Nodes
  BY <1>2, <1>4, <1>5
<1> QED  BY <1>1, <1>2, <1>6, Zenon

\* A topological order of all nodes is a linear extension of the graph.
LEMMA OrderExtends ==
    ASSUME NEW s \in Seq(Nodes), Len(s) = Cardinality(Nodes), Topological(Graph, s)
    PROVE  s \in LinearExtensions
<1>1. PICK n \in Nat : n = Cardinality(Nodes)
  BY NodeFacts
<1>2. /\ \A i \in 1..n : s[i] \notin Before(s, i)
      /\ \A i \in 1..n : Predecessors(Graph, s[i]) \subseteq Before(s, i)
  BY <1>1, Zenon DEF Topological
<1>3. s \in [1..n -> Nodes]
  BY <1>1, <1>2, WholeFacts, Zenon
<1>4. \A i, j \in 1..n : s[i] = s[j] => i = j
  BY <1>1, <1>2, OnceFacts, Zenon
<1>5. s \in SetToSeqs(Nodes)
  BY <1>1, <1>3, <1>4, Zenon DEF SetToSeqs
<1>6. ASSUME NEW i \in 1..n, NEW j \in 1..n, <<s[i], s[j]>> \in Graph
      PROVE  i < j
  <2>1. s[i] \in Predecessors(Graph, s[j])
    BY <1>3, <1>6 DEF Predecessors
  <2>2. s[i] \in Before(s, j)
    BY <1>2, <2>1, Zenon
  <2>3. PICK l \in 1..(j - 1) : s[i] = s[l]
    BY <2>2, Zenon DEF Before
  <2>4. l \in 1..n /\ l < j
    OBVIOUS
  <2> QED  BY <1>4, <2>3, <2>4
<1>7. DOMAIN s = 1..n
  BY <1>3
<1> QED  BY <1>5, <1>6, <1>7, Zenon DEF LinearExtensions

\* It precedes every other linear extension.
LEMMA OrderIsLeast ==
    ASSUME NEW s \in Seq(Nodes), Len(s) = Cardinality(Nodes), Topological(Graph, s),
           NEW t \in LinearExtensions, t # s
    PROVE  Precedes(s, t)
<1>1. PICK n \in Nat : n = Cardinality(Nodes)
  BY NodeFacts
<1>2. s \in [1..n -> Nodes]
  BY <1>1
<1>3. /\ t \in [1..n -> Nodes]
      /\ \A i, j \in 1..n : i # j => t[i] # t[j]
  BY <1>1, Zenon DEF LinearExtensions, SetToSeqs
<1>4. \A i, j \in 1..n : <<t[i], t[j]>> \in Graph => i < j
  BY <1>3, Zenon DEF LinearExtensions
<1>5. PICK d : d = {i \in 1..n : s[i] # t[i]}
  OBVIOUS
<1>6. d \subseteq Nat /\ d # {}
  BY <1>2, <1>3, <1>5
<1>7. PICK i \in d : \A j \in d : i <= j
  BY <1>6, LeastNumber, Zenon
<1>8. i \in 1..n /\ s[i] # t[i]
  BY <1>5
<1>9. \A j \in 1..(i - 1) : j \in 1..n /\ s[j] = t[j]
  BY <1>5, <1>7, <1>8
<1>10. Before(s, i) = Before(t, i)
  BY <1>9 DEF Before
<1>11. t[i] \in Nodes /\ t[i] \notin Before(t, i)
  <2>1. \A j \in 1..(i - 1) : t[j] # t[i]
    BY <1>3, <1>8, <1>9
  <2> QED  BY <1>3, <1>8, <2>1 DEF Before
<1>12. Predecessors(Graph, t[i]) \subseteq Before(t, i)
  <2> SUFFICES ASSUME NEW m \in Nodes, <<m, t[i]>> \in Graph
               PROVE  m \in Before(t, i)
    BY Zenon DEF Predecessors
  <2>1. \A a, b \in 1..n : t[a] = t[b] => a = b
    BY <1>3, Zenon
  <2>2. PICK j \in 1..n : t[j] = m
    <3>1. t \in [1..n -> Nodes]
      BY <1>3, Zenon
    <3>2. \A x \in Nodes : \E j \in 1..n : t[j] = x
      BY <1>1, <2>1, <3>1, AllNodes, Zenon
    <3> QED  BY <3>2, Zenon
  <2>3. j < i
    BY <1>4, <1>8, <2>2, Zenon
  <2>4. j \in 1..(i - 1)
    BY <1>8, <2>3
  <2> QED  BY <2>2, <2>4 DEF Before
<1>13. s[i] <= t[i]
  <2>1. t[i] \in Nodes \ Before(s, i) /\ Predecessors(Graph, t[i]) \subseteq Before(s, i)
    BY <1>10, <1>11, <1>12, Zenon
  <2>2. i \in 1..Len(s)
    BY <1>1, <1>8
  <2> QED  BY <2>1, <2>2, Zenon DEF Topological
<1>14. s[i] \in Nat /\ t[i] \in Nat
  BY <1>2, <1>3, <1>8, NodeFacts
<1>15. s[i] < t[i]
  BY <1>8, <1>13, <1>14
<1>16. i \in DOMAIN s
  BY <1>2, <1>8
<1> QED  BY <1>9, <1>15, <1>16, Zenon DEF Precedes
-----------------------------------------------------------------------------
(* reachable.                                                              *)

\* One turn of the search: the level and its successors.
Widen(graph, excluded, level) ==
    level \cup ((UNION {Successors(graph, n) : n \in level}) \ excluded)

\* The search, as a function of the number of turns.
Levels(graph, starts, excluded) ==
    CHOOSE f : f = [k \in 0..Cardinality(Nodes) |->
                      IF k = 0 THEN starts \ excluded ELSE Widen(graph, excluded, f[k - 1])]

\* A turn leaves a set of nodes.
LEMMA WidenFacts ==
    ASSUME NEW graph, NEW excluded, NEW level, level \subseteq Nodes
    PROVE  /\ Widen(graph, excluded, level) \subseteq Nodes
           /\ level \subseteq Widen(graph, excluded, level)
           /\ \A m : m \in Widen(graph, excluded, level) <=>
                 \/ m \in level
                 \/ /\ m \in Nodes /\ m \notin excluded
                    /\ \E n \in level : <<n, m>> \in graph
<1>1. \A m, n : m \in Successors(graph, n) <=> (m \in Nodes /\ <<n, m>> \in graph)
  BY Zenon DEF Successors
<1>2. \A m : m \in UNION {Successors(graph, n) : n \in level} <=>
               \E n \in level : m \in Successors(graph, n)
  BY Zenon
<1>3. \A m : m \in Widen(graph, excluded, level) <=>
               \/ m \in level
               \/ (\E n \in level : m \in Successors(graph, n)) /\ m \notin excluded
  <2>1. PICK u : u = UNION {Successors(graph, n) : n \in level}
    OBVIOUS
  <2>2. Widen(graph, excluded, level) = level \cup (u \ excluded)
    BY <2>1, Zenon DEF Widen
  <2>3. \A m : m \in u <=> \E n \in level : m \in Successors(graph, n)
    BY <1>2, <2>1, Zenon
  <2> QED  BY <2>2, <2>3, Zenon
<1>4. \A m : m \in Widen(graph, excluded, level) <=>
               \/ m \in level
               \/ /\ m \in Nodes /\ m \notin excluded
                  /\ \E n \in level : <<n, m>> \in graph
  BY <1>1, <1>3, Zenon
<1> QED  BY <1>4, Zenon

\* The turns are what reachable computes.
LEMMA ReachableIsLevels ==
    ASSUME NEW graph, NEW starts, NEW excluded
    PROVE  Reachable(graph, starts, excluded) = Levels(graph, starts, excluded)[Cardinality(Nodes)]
  BY Zenon DEF Reachable, Levels, Widen

\* The levels follow each other.
LEMMA LevelsFacts ==
    ASSUME NEW graph, NEW starts, NEW excluded, starts \subseteq Nodes
    PROVE  /\ \A k \in 0..Cardinality(Nodes) : Levels(graph, starts, excluded)[k] \subseteq Nodes
           /\ Levels(graph, starts, excluded)[0] = starts \ excluded
           /\ \A k \in 1..Cardinality(Nodes) :
                 Levels(graph, starts, excluded)[k]
                    = Widen(graph, excluded, Levels(graph, starts, excluded)[k - 1])
<1>1. PICK n \in Nat : n = Cardinality(Nodes)
  BY NodeFacts
<1>2. PICK S : S = SUBSET Nodes
  OBVIOUS
<1>3. \A s \in S : Widen(graph, excluded, s) \in S
  BY <1>2, WidenFacts
<1>4. PICK step \in [1..n -> [S -> S]] :
         \A k \in 1..n : \A s \in S : step[k][s] = Widen(graph, excluded, s)
  <2>1. PICK turn : turn = [s \in S |-> Widen(graph, excluded, s)]
    OBVIOUS
  <2>2. /\ turn \in [S -> S]
        /\ \A s \in S : turn[s] = Widen(graph, excluded, s)
    BY <1>3, <2>1, Zenon
  <2>3. PICK step : step = [k \in 1..n |-> turn]
    OBVIOUS
  <2>4. step \in [1..n -> [S -> S]] /\ \A k \in 1..n : step[k] = turn
    BY <2>2, <2>3, Zenon
  <2> QED  BY <2>2, <2>4, Zenon
<1>5. PICK first \in S : first = starts \ excluded
  BY <1>2
<1>6. PICK f \in [0..n -> S] : Iterates(f, n, first, step)
  BY <1>5, Recursion, Zenon
<1>7. f[0] = first /\ \A k \in 1..n : f[k] = step[k][f[k - 1]] /\ k - 1 \in 0..n /\ k # 0
  BY <1>6 DEF Iterates
<1>8. \A k \in 1..n : f[k] = Widen(graph, excluded, f[k - 1])
  BY <1>4, <1>6, <1>7, Zenon
<1>9. \A k \in 0..n : f[k] = IF k = 0 THEN first ELSE Widen(graph, excluded, f[k - 1])
  <2> TAKE k \in 0..n
  <2>1. k = 0 \/ k \in 1..n
    OBVIOUS
  <2> QED  BY <1>7, <1>8, <2>1
<1>10. f = [k \in 0..n |-> IF k = 0 THEN first ELSE Widen(graph, excluded, f[k - 1])]
  BY <1>6, <1>9
<1>11. PICK t : t = Levels(graph, starts, excluded)
  OBVIOUS
<1>12. t = [k \in 0..n |-> IF k = 0 THEN first ELSE Widen(graph, excluded, t[k - 1])]
  BY <1>1, <1>5, <1>10, <1>11, Zenon DEF Levels
<1>13. t[0] = first /\ \A k \in 1..n : t[k] = Widen(graph, excluded, t[k - 1])
  BY <1>12
<1>14. \A k \in 0..n : t[k] \in S
  <2> DEFINE P == {k \in 0..n : t[k] \in S}
  <2>1. 0 \in P
    <3>1. 0 \in 0..n /\ t[0] \in S
      BY <1>13
    <3> QED  BY <3>1, Zenon
  <2>2. ASSUME NEW k \in 1..n, k - 1 \in P
        PROVE  k \in P
    <3>1. t[k - 1] \in S
      BY <2>2, Zenon
    <3>2. t[k] \in S
      BY <1>3, <1>13, <3>1, Zenon
    <3>3. k \in 0..n
      OBVIOUS
    <3> QED  BY <3>2, <3>3, Zenon
  <2> HIDE DEF P
  <2>3. \A k \in 0..n : k \in P
    BY <2>1, <2>2, EveryStep
  <2> QED  BY <2>3, Zenon DEF P
<1>15. \A k \in 0..n : t[k] \subseteq Nodes
  BY <1>2, <1>14, Zenon
<1> QED  BY <1>1, <1>2, <1>5, <1>11, <1>13, <1>15, Zenon

\* A level, and what is in the next one.
LEMMA LevelStep ==
    ASSUME NEW graph, NEW starts, NEW excluded, NEW k \in 1..Cardinality(Nodes), NEW m,
           starts \subseteq Nodes
    PROVE  m \in Levels(graph, starts, excluded)[k] <=>
              \/ m \in Levels(graph, starts, excluded)[k - 1]
              \/ /\ m \in Nodes /\ m \notin excluded
                 /\ \E n \in Levels(graph, starts, excluded)[k - 1] : <<n, m>> \in graph
<1>1. PICK N \in Nat : N = Cardinality(Nodes)
  BY NodeFacts
<1>2. PICK t : t = Levels(graph, starts, excluded)
  OBVIOUS
<1>3. /\ \A j \in 0..N : t[j] \subseteq Nodes
      /\ \A j \in 1..N : t[j] = Widen(graph, excluded, t[j - 1])
  BY <1>1, <1>2, LevelsFacts, SMT
<1>4. k - 1 \in 0..N /\ k \in 1..N
  BY <1>1
<1>5. PICK level : level = t[k - 1]
  OBVIOUS
<1>6. m \in t[k] <=> \/ m \in level
                     \/ /\ m \in Nodes /\ m \notin excluded
                        /\ \E n \in level : <<n, m>> \in graph
  <2>1. level \subseteq Nodes /\ t[k] = Widen(graph, excluded, level)
    BY <1>3, <1>4, <1>5, Zenon
  <2>2. \A x : x \in Widen(graph, excluded, level) <=>
                 \/ x \in level
                 \/ /\ x \in Nodes /\ x \notin excluded
                    /\ \E n \in level : <<n, x>> \in graph
    BY <2>1, WidenFacts, SMT
  <2> QED  BY <2>1, <2>2, Zenon
<1> QED  BY <1>2, <1>5, <1>6, Zenon

\* Every level is part of what is reachable.
LEMMA LevelsGrow ==
    ASSUME NEW graph, NEW starts, NEW excluded, starts \subseteq Nodes
    PROVE  /\ Reachable(graph, starts, excluded) \subseteq Nodes
           /\ \A k \in 0..Cardinality(Nodes) :
                 Levels(graph, starts, excluded)[k] \subseteq Reachable(graph, starts, excluded)
<1>1. PICK N \in Nat : N = Cardinality(Nodes)
  BY NodeFacts
<1>2. PICK t : t = Levels(graph, starts, excluded)
  OBVIOUS
<1>3. \A k \in 1..N : t[k - 1] \subseteq t[k]
  BY <1>1, <1>2, LevelStep, Zenon
<1> DEFINE P == {k \in 0..N : \A j \in 0..k : t[j] \subseteq t[k]}
<1>4. 0 \in P
  <2>1. \A j \in 0..0 : t[j] \subseteq t[0]
    OBVIOUS
  <2>2. 0 \in 0..N
    OBVIOUS
  <2> QED  BY <2>1, <2>2, Zenon
<1>5. ASSUME NEW k \in 1..N, k - 1 \in P
      PROVE  k \in P
  <2>1. \A j \in 0..(k - 1) : t[j] \subseteq t[k - 1]
    BY <1>5, Zenon
  <2>2. ASSUME NEW j \in 0..k
        PROVE  t[j] \subseteq t[k]
    <3>1. CASE j = k
      BY <3>1, Zenon
    <3>2. CASE j # k
      <4>1. j \in 0..(k - 1)
        BY <3>2
      <4> QED  BY <1>3, <2>1, <4>1, Zenon
    <3> QED  BY <3>1, <3>2
  <2>3. k \in 0..N
    OBVIOUS
  <2> QED  BY <2>2, <2>3, Zenon
<1> HIDE DEF P
<1>6. \A k \in 0..N : k \in P
  BY <1>4, <1>5, EveryStep
<1>7. N \in 0..N
  OBVIOUS
<1>8. t[N] \subseteq Nodes /\ \A k \in 0..N : t[k] \subseteq t[N]
  <2>1. t[N] \subseteq Nodes
    BY <1>1, <1>2, <1>7, LevelsFacts, Zenon
  <2> QED  BY <1>6, <1>7, <2>1, Zenon DEF P
<1> QED  BY <1>1, <1>2, <1>8, ReachableIsLevels, Zenon
\* One search finds what another one finds, as far as X goes: X contains, with a
\* node that is found, the nodes it is found from, and the other search may walk
\* the same edges.
LEMMA SearchCompare ==
    ASSUME NEW g, NEW a, NEW x, NEW h, NEW b, NEW y, NEW X,
           a \subseteq Nodes, b \subseteq Nodes,
           \A m \in a : m \notin x /\ m \in X => m \in b /\ m \notin y,
           \A m \in X \cap Reachable(g, a, x) : \A n \in Reachable(g, a, x) :
              <<n, m>> \in g => n \in X /\ <<n, m>> \in h /\ m \notin y
    PROVE  \A m \in X \cap Reachable(g, a, x) : m \in Reachable(h, b, y)
<1>1. PICK N \in Nat : N = Cardinality(Nodes)
  BY NodeFacts
<1>2. PICK s, t, R : s = Levels(g, a, x) /\ t = Levels(h, b, y) /\ R = Reachable(g, a, x)
  OBVIOUS
<1>3. R \subseteq Nodes /\ (\A k \in 0..N : s[k] \subseteq R) /\ R = s[N]
  BY <1>1, <1>2, LevelsGrow, ReachableIsLevels, SMT
<1> DEFINE P == {k \in 0..N : \A m \in X : m \in s[k] => m \in t[k]}
<1>4. 0 \in P
  <2>1. s[0] = a \ x /\ t[0] = b \ y
    BY <1>2, LevelsFacts, SMT
  <2>2. \A m \in X : m \in s[0] => m \in t[0]
    BY <2>1, Zenon
  <2>3. 0 \in 0..N
    OBVIOUS
  <2> QED  BY <2>2, <2>3, Zenon
<1>5. ASSUME NEW k \in 1..N, k - 1 \in P
      PROVE  k \in P
  <2>1. \A m \in X : m \in s[k - 1] => m \in t[k - 1]
    BY <1>5, Zenon
  <2>2. k \in 0..N /\ k - 1 \in 0..N /\ k \in 1..Cardinality(Nodes)
    BY <1>1
  <2>3. ASSUME NEW m \in X, m \in s[k]
        PROVE  m \in t[k]
    <3>1. m \in R
      BY <1>3, <2>2, <2>3, Zenon
    <3>2. \/ m \in s[k - 1]
          \/ m \in Nodes /\ \E n \in s[k - 1] : <<n, m>> \in g
      BY <1>2, <2>2, <2>3, LevelStep, SMT
    <3>3. CASE m \in s[k - 1]
      <4>1. m \in t[k - 1]
        BY <2>1, <3>3, Zenon
      <4> QED  BY <1>2, <2>2, <4>1, LevelStep, SMT
    <3>4. ASSUME m \in Nodes, NEW n \in s[k - 1], <<n, m>> \in g
          PROVE  m \in t[k]
      <4>1. n \in R
        BY <1>3, <2>2, Zenon
      <4>2. n \in X /\ <<n, m>> \in h /\ m \notin y
        BY <1>2, <3>1, <3>4, <4>1, Zenon
      <4>3. n \in t[k - 1]
        BY <2>1, <4>2, Zenon
      <4> QED  BY <1>2, <2>2, <3>4, <4>2, <4>3, LevelStep, SMT
    <3> QED  BY <3>2, <3>3, <3>4, Zenon
  <2> QED  BY <2>2, <2>3, Zenon
<1> HIDE DEF P
<1>6. \A k \in 0..N : k \in P
  BY <1>4, <1>5, EveryStep
<1>7. \A m \in X : m \in s[N] => m \in t[N]
  <2>1. N \in 0..N
    OBVIOUS
  <2> QED  BY <1>6, <2>1, Zenon DEF P
<1>8. t[N] = Reachable(h, b, y)
  BY <1>1, <1>2, ReachableIsLevels, Zenon
<1> QED  BY <1>2, <1>3, <1>7, <1>8, Zenon

\* What control edges reach, edges reach.
LEMMA ControlReaches ==
    ASSUME NEW start \in Nodes
    PROVE  Reachable(ControlGraph, {start}, {}) \subseteq Reachable(Graph, {start}, {})
<1>1. ControlGraph \subseteq Graph
  BY Zenon DEF ControlGraph, Graph
<1>2. Reachable(ControlGraph, {start}, {}) \subseteq Nodes
  BY LevelsGrow, SMT
<1>3. PICK R : R = Reachable(ControlGraph, {start}, {})
  OBVIOUS
<1>4. \A m \in Nodes \cap R : \A n \in R :
         <<n, m>> \in ControlGraph => n \in Nodes /\ <<n, m>> \in Graph /\ m \notin {}
  BY <1>1, <1>2, <1>3, Zenon
<1>5. \A m \in {start} : m \notin {} /\ m \in Nodes => m \in {start} /\ m \notin {}
  OBVIOUS
<1>6. {start} \subseteq Nodes
  OBVIOUS
<1>7. \A m \in Nodes \cap R : m \in Reachable(Graph, {start}, {})
  BY <1>3, <1>4, <1>5, <1>6, SearchCompare, Zenon
<1> QED  BY <1>2, <1>3, <1>7, Zenon

\* A node that dominates what the entrypoint reaches is itself reached.
LEMMA DominatorReached ==
    ASSUME NEW starts, NEW start \in starts, NEW source \in Nodes, NEW target,
           starts \subseteq Nodes, source # target,
           Dominates(source, target, ControlGraph, starts),
           target \in Reachable(ControlGraph, {start}, {})
    PROVE  source \in Reachable(ControlGraph, {start}, {})
<1> SUFFICES ASSUME source \notin Reachable(ControlGraph, {start}, {}) PROVE FALSE
  OBVIOUS
<1>1. {start} \subseteq Nodes
  OBVIOUS
<1>2. PICK R : R = Reachable(ControlGraph, {start}, {})
  OBVIOUS
<1>3. R \subseteq Nodes
  BY <1>1, <1>2, LevelsGrow, SMT
<1>4. start \in R
  <2>1. Levels(ControlGraph, {start}, {})[0] = {start} \ {}
    BY <1>1, LevelsFacts, SMT
  <2>2. 0 \in 0..Cardinality(Nodes)
    BY NodeFacts
  <2>3. Levels(ControlGraph, {start}, {})[0] \subseteq R
    BY <1>1, <1>2, <2>2, LevelsGrow, SMT
  <2> QED  BY <2>1, <2>3
<1>5. \A m \in {start} : m \notin {} /\ m \in Nodes => m \in starts /\ m \notin {source}
  BY <1>2, <1>4, Zenon
<1>6. \A m \in Nodes \cap R : \A n \in R :
         <<n, m>> \in ControlGraph => n \in Nodes /\ <<n, m>> \in ControlGraph /\ m \notin {source}
  BY <1>2, <1>3, Zenon
<1>7. \A m \in Nodes \cap R : m \in Reachable(ControlGraph, starts, {source})
  BY <1>1, <1>2, <1>5, <1>6, SearchCompare, Zenon
<1>8. target \in Reachable(ControlGraph, starts, {source})
  BY <1>2, <1>3, <1>7, Zenon
<1> QED  BY <1>8, Zenon DEF Dominates

\* If X contains, with a node, the nodes in scope that it depends on, and an exit,
\* then it contains every node that dominates the exit.
LEMMA DominatorIn ==
    ASSUME NEW start \in Nodes, NEW X, NEW source, NEW exit,
           \A m \in X \cap Reachable(Graph, {start}, {}) : \A n \in Reachable(Graph, {start}, {}) :
              <<n, m>> \in Graph => n \in X,
           exit \in X, exit \in Reachable(Graph, {start}, {}),
           Dominates(source, exit, Graph, {start})
    PROVE  source \in X
<1> SUFFICES ASSUME source \notin X PROVE FALSE
  OBVIOUS
<1>1. {start} \subseteq Nodes
  OBVIOUS
<1>2. PICK R : R = Reachable(Graph, {start}, {})
  OBVIOUS
<1>3. \A m \in {start} : m \notin {} /\ m \in X => m \in {start} /\ m \notin {source}
  BY Zenon
<1>4. \A m \in X \cap R : \A n \in R :
         <<n, m>> \in Graph => n \in X /\ <<n, m>> \in Graph /\ m \notin {source}
  BY <1>2, Zenon
<1>5. \A m \in X \cap R : m \in Reachable(Graph, {start}, {source})
  BY <1>1, <1>2, <1>3, <1>4, SearchCompare, Zenon
<1>6. exit \in Reachable(Graph, {start}, {source})
  BY <1>2, <1>5, Zenon
<1>7. source # exit
  BY Zenon
<1> QED  BY <1>6, <1>7, Zenon DEF Dominates
-----------------------------------------------------------------------------
(* The order of one entrypoint.                                            *)

\* One step of the cut: the node at place k is kept if it is reached.
Keep(o, R, k, s) == IF o[k] \in R THEN Append(s, o[k]) ELSE s

\* The cut, as a function of the number of steps.
Cuts(o, R) ==
    CHOOSE f : f = [k \in 0..Len(o) |->
                      IF k = 0 THEN <<>> ELSE IF o[k] \in R THEN Append(f[k - 1], o[k]) ELSE f[k - 1]]

\* c is what is reached of the first k nodes of o, once each and in the same order.
CutTo(o, R, k, c) ==
    /\ \A j \in 1..Len(c) :
          /\ c[j] \in R /\ c[j] \notin Before(c, j)
          /\ \E q \in 1..k : /\ c[j] = o[q]
                             /\ \A p \in 1..(q - 1) : o[p] \in R => o[p] \in Before(c, j)
    /\ \A p \in 1..k : o[p] \in R => o[p] \in ToSet(c)

\* The cut is what the router uses.
LEMMA OrderIsCut ==
    ASSUME NEW start
    PROVE  EntrypointNodeOrder(start)
              = Cuts(plan.order, Reachable(Graph, {start}, {}))[Len(plan.order)]
  BY Zenon DEF EntrypointNodeOrder, Cuts

\* The steps of the cut follow each other.
LEMMA CutsFacts ==
    ASSUME NEW o \in Seq(Nodes), NEW R
    PROVE  /\ \A k \in 0..Len(o) : Cuts(o, R)[k] \in Seq(Nodes)
           /\ Cuts(o, R)[0] = <<>>
           /\ \A k \in 1..Len(o) : Cuts(o, R)[k] = Keep(o, R, k, Cuts(o, R)[k - 1])
<1>1. PICK n \in Nat : n = Len(o)
  BY ElementFacts
<1>2. \A k \in 1..n : \A s \in Seq(Nodes) : Keep(o, R, k, s) \in Seq(Nodes)
  BY <1>1 DEF Keep
<1>3. PICK step \in [1..n -> [Seq(Nodes) -> Seq(Nodes)]] :
         \A k \in 1..n : \A s \in Seq(Nodes) : step[k][s] = Keep(o, R, k, s)
  <2>1. PICK step : step = [k \in 1..n |-> [s \in Seq(Nodes) |-> Keep(o, R, k, s)]]
    OBVIOUS
  <2>2. /\ step \in [1..n -> [Seq(Nodes) -> Seq(Nodes)]]
        /\ \A k \in 1..n : \A s \in Seq(Nodes) : step[k][s] = Keep(o, R, k, s)
    BY <1>2, <2>1, Zenon
  <2> QED  BY <2>2, Zenon
<1>4. <<>> \in Seq(Nodes)
  OBVIOUS
<1>5. PICK f \in [0..n -> Seq(Nodes)] : Iterates(f, n, <<>>, step)
  BY <1>4, Recursion, Zenon
<1>6. f[0] = <<>> /\ \A k \in 1..n : f[k] = step[k][f[k - 1]] /\ k - 1 \in 0..n /\ k # 0
  BY <1>5 DEF Iterates
<1>7. \A k \in 1..n : f[k] = Keep(o, R, k, f[k - 1])
  BY <1>3, <1>5, <1>6, Zenon
<1>8. \A k \in 0..n : f[k] = IF k = 0 THEN <<>> ELSE Keep(o, R, k, f[k - 1])
  <2> TAKE k \in 0..n
  <2>1. k = 0 \/ k \in 1..n
    OBVIOUS
  <2> QED  BY <1>6, <1>7, <2>1
<1>9. f = [k \in 0..n |-> IF k = 0 THEN <<>> ELSE Keep(o, R, k, f[k - 1])]
  BY <1>5, <1>8
<1>10. PICK t : t = Cuts(o, R)
  OBVIOUS
<1>11. t = [k \in 0..n |-> IF k = 0 THEN <<>> ELSE Keep(o, R, k, t[k - 1])]
  BY <1>1, <1>9, <1>10, Zenon DEF Cuts, Keep
<1>12. t[0] = <<>> /\ \A k \in 1..n : t[k] = Keep(o, R, k, t[k - 1])
  BY <1>11
<1>13. \A k \in 0..n : t[k] \in Seq(Nodes)
  <2> DEFINE P == {k \in 0..n : t[k] \in Seq(Nodes)}
  <2>1. 0 \in P
    <3>1. 0 \in 0..n /\ t[0] \in Seq(Nodes)
      BY <1>4, <1>12
    <3> QED  BY <3>1, Zenon
  <2>2. ASSUME NEW k \in 1..n, k - 1 \in P
        PROVE  k \in P
    <3>1. t[k - 1] \in Seq(Nodes)
      BY <2>2
    <3>2. t[k] \in Seq(Nodes)
      BY <1>2, <1>12, <3>1, Zenon
    <3> QED  BY <3>2
  <2> HIDE DEF P
  <2>3. \A k \in 0..n : k \in P
    BY <2>1, <2>2, EveryStep
  <2> QED  BY <2>3 DEF P
<1> QED  BY <1>1, <1>10, <1>12, <1>13, Zenon

\* A step keeps the cut a cut.
LEMMA KeepKeeps ==
    ASSUME NEW o \in Seq(Nodes), NEW R, NEW k \in 1..Len(o), NEW c \in Seq(Nodes),
           \A i, j \in 1..Len(o) : o[i] = o[j] => i = j,
           CutTo(o, R, k - 1, c)
    PROVE  CutTo(o, R, k, Keep(o, R, k, c))
<1>1. k \in 1..k /\ Len(o) \in Nat /\ (\A q \in 1..(k - 1) : q \in 1..k /\ q \in 1..Len(o) /\ q # k)
      /\ (\A p \in 1..k : p \in 1..(k - 1) \/ p = k)
  BY ElementFacts
<1>2. CASE o[k] \notin R
  <2>1. Keep(o, R, k, c) = c
    BY <1>2, Zenon DEF Keep
  <2>2. CutTo(o, R, k, c)
    <3>1. ASSUME NEW j \in 1..Len(c)
          PROVE  /\ c[j] \in R /\ c[j] \notin Before(c, j)
                 /\ \E q \in 1..k : /\ c[j] = o[q]
                                    /\ \A p \in 1..(q - 1) : o[p] \in R => o[p] \in Before(c, j)
      BY <1>1, <3>1, Zenon DEF CutTo
    <3>2. \A p \in 1..k : o[p] \in R => o[p] \in ToSet(c)
      BY <1>1, <1>2, Zenon DEF CutTo
    <3> QED  BY <3>1, <3>2, Zenon DEF CutTo
  <2> QED  BY <2>1, <2>2, Zenon
<1>3. CASE o[k] \in R
  <2>1. PICK x \in Nodes : x = o[k]
    BY ElementFacts, Zenon
  <2>2. PICK t : t = Append(c, x)
    OBVIOUS
  <2>3. /\ t \in Seq(Nodes) /\ Len(t) = Len(c) + 1 /\ t[Len(c) + 1] = x
        /\ \A i \in 1..Len(c) : t[i] = c[i] /\ Before(t, i) = Before(c, i)
        /\ Before(t, Len(c) + 1) = ToSet(c)
        /\ ToSet(t) = ToSet(c) \cup {x}
    BY <2>1, <2>2, AppendFacts, SMT
  <2>4. x \notin ToSet(c)
    <3> SUFFICES ASSUME x \in ToSet(c) PROVE FALSE
      OBVIOUS
    <3>1. PICK j \in 1..Len(c) : c[j] = x
      <4>1. ToSet(c) = {c[j] : j \in 1..Len(c)}
        BY ElementFacts, Zenon
      <4> QED  BY <4>1, Zenon
    <3>2. PICK q \in 1..(k - 1) : c[j] = o[q]
      BY <3>1, Zenon DEF CutTo
    <3> QED  BY <1>1, <2>1, <3>1, <3>2, Zenon
  <2>5. ASSUME NEW j \in 1..Len(t)
        PROVE  /\ t[j] \in R /\ t[j] \notin Before(t, j)
               /\ \E q \in 1..k : /\ t[j] = o[q]
                                  /\ \A p \in 1..(q - 1) : o[p] \in R => o[p] \in Before(t, j)
    <3>1. j \in 1..Len(c) \/ j = Len(c) + 1
      BY <2>3, ElementFacts
    <3>2. CASE j \in 1..Len(c)
      <4>1. t[j] = c[j] /\ Before(t, j) = Before(c, j)
        BY <2>3, <3>2, Zenon
      <4>2. /\ c[j] \in R /\ c[j] \notin Before(c, j)
            /\ \E q \in 1..k : /\ c[j] = o[q]
                               /\ \A p \in 1..(q - 1) : o[p] \in R => o[p] \in Before(c, j)
        BY <1>1, <3>2, Zenon DEF CutTo
      <4> QED  BY <4>1, <4>2, Zenon
    <3>3. CASE j = Len(c) + 1
      <4>1. t[j] = x /\ Before(t, j) = ToSet(c)
        BY <2>3, <3>3, Zenon
      <4>2. \A p \in 1..(k - 1) : o[p] \in R => o[p] \in ToSet(c)
        BY Zenon DEF CutTo
      <4>3. \E q \in 1..k : /\ x = o[q]
                             /\ \A p \in 1..(q - 1) : o[p] \in R => o[p] \in ToSet(c)
        BY <1>1, <2>1, <4>2, Zenon
      <4> QED  BY <1>3, <2>1, <2>4, <4>1, <4>3, Zenon
    <3> QED  BY <3>1, <3>2, <3>3
  <2>6. \A p \in 1..k : o[p] \in R => o[p] \in ToSet(t)
    BY <1>1, <2>1, <2>3, Zenon DEF CutTo
  <2>7. Keep(o, R, k, c) = t
    BY <1>3, <2>1, <2>2, Zenon DEF Keep
  <2> QED  BY <2>5, <2>6, <2>7, Zenon DEF CutTo
<1> QED  BY <1>2, <1>3

\* The whole cut.
LEMMA CutIsWhole ==
    ASSUME NEW o \in Seq(Nodes), NEW R, \A i \in 1..Len(o) : o[i] \notin Before(o, i)
    PROVE  Cuts(o, R)[Len(o)] \in Seq(Nodes) /\ CutTo(o, R, Len(o), Cuts(o, R)[Len(o)])
<1>1. PICK n \in Nat : n = Len(o)
  BY ElementFacts
<1>2. PICK t : t = Cuts(o, R)
  OBVIOUS
<1>3. /\ \A k \in 0..n : t[k] \in Seq(Nodes)
      /\ t[0] = <<>>
      /\ \A k \in 1..n : t[k] = Keep(o, R, k, t[k - 1])
  BY <1>1, <1>2, CutsFacts, Zenon
<1>4. \A i, j \in 1..Len(o) : o[i] = o[j] => i = j
  BY OnceFacts, Zenon
<1> DEFINE P == {k \in 0..n : CutTo(o, R, k, t[k])}
<1>5. 0 \in P
  <2>1. CutTo(o, R, 0, <<>>)
    BY DEF CutTo
  <2>2. 0 \in 0..n /\ CutTo(o, R, 0, t[0])
    BY <1>3, <2>1
  <2> QED  BY <2>2, Zenon
<1>6. ASSUME NEW k \in 1..n, k - 1 \in P
      PROVE  k \in P
  <2>1. k - 1 \in 0..n /\ k \in 0..n
    OBVIOUS
  <2>2. CutTo(o, R, k - 1, t[k - 1]) /\ t[k - 1] \in Seq(Nodes)
    BY <1>3, <1>6, <2>1, Zenon
  <2>3. CutTo(o, R, k, t[k])
    <3>1. k \in 1..Len(o) /\ t[k] = Keep(o, R, k, t[k - 1])
      BY <1>1, <1>3, Zenon
    <3>2. PICK c \in Seq(Nodes) : c = t[k - 1] /\ CutTo(o, R, k - 1, c)
      BY <2>2, Zenon
    <3>3. CutTo(o, R, k, Keep(o, R, k, c))
      BY <1>4, <3>1, <3>2, KeepKeeps
    <3> QED  BY <3>1, <3>2, <3>3, Zenon
  <2> QED  BY <2>1, <2>3, Zenon
<1> HIDE DEF P
<1>7. \A k \in 0..n : k \in P
  BY <1>5, <1>6, EveryStep
<1>8. n \in 0..n
  OBVIOUS
<1> QED  BY <1>1, <1>2, <1>3, <1>7, <1>8, Zenon DEF P

\* An order for an entrypoint: what it reaches, once each, and in it no node before
\* a node it depends on.
OrderOf(o, start) ==
    /\ o \in Seq(Nodes)
    /\ ToSet(o) = Reachable(Graph, {start}, {})
    /\ \A i \in 1..Len(o) : o[i] \notin Before(o, i)
    /\ \A i \in 1..Len(o) : \A e \in edges :
          e.to = o[i] /\ e.from \in ToSet(o) => e.from \in Before(o, i)

\* The cut of a topological order is one.
LEMMA CutIsOrder ==
    ASSUME NEW start \in Nodes, edges \subseteq Edge, plan.order \in Seq(Nodes),
           Topological(Graph, plan.order), Len(plan.order) = Cardinality(Nodes)
    PROVE  OrderOf(EntrypointNodeOrder(start), start)
<1>1. PICK o \in Seq(Nodes) : o = plan.order
  BY Zenon
<1>2. PICK R : R = Reachable(Graph, {start}, {})
  OBVIOUS
<1>3. PICK c : c = EntrypointNodeOrder(start)
  OBVIOUS
<1>4. \A i \in 1..Len(o) : o[i] \notin Before(o, i) /\ Predecessors(Graph, o[i]) \subseteq Before(o, i)
  BY <1>1, Zenon DEF Topological
<1>5. c \in Seq(Nodes) /\ CutTo(o, R, Len(o), c)
  BY <1>1, <1>2, <1>3, <1>4, OrderIsCut, CutIsWhole, Zenon
<1>6. R \subseteq Nodes
  <2>1. {start} \subseteq Nodes
    OBVIOUS
  <2> QED  BY <1>2, <2>1, LevelsGrow, SMT
<1>7. ToSet(c) = R
  <2>1. \A m \in ToSet(c) : m \in R
    <3>1. ToSet(c) = {c[j] : j \in 1..Len(c)}
      BY <1>5, ElementFacts, Zenon
    <3> QED  BY <1>5, <3>1, Zenon DEF CutTo
  <2>2. \A m \in R : m \in ToSet(c)
    <3>1. ToSet(o) = Nodes
      BY <1>1, <1>4, WholeFacts, Zenon
    <3>2. ToSet(o) = {o[p] : p \in 1..Len(o)}
      BY ElementFacts, Zenon
    <3> QED  BY <1>5, <1>6, <3>1, <3>2, Zenon DEF CutTo
  <2> QED  BY <2>1, <2>2, Zenon
<1>8. ASSUME NEW i \in 1..Len(c), NEW e \in edges, e.to = c[i], e.from \in ToSet(c)
      PROVE  e.from \in Before(c, i)
  <2>1. PICK q \in 1..Len(o) : /\ c[i] = o[q]
                               /\ \A p \in 1..(q - 1) : o[p] \in R => o[p] \in Before(c, i)
    BY <1>5, Zenon DEF CutTo
  <2>2. e.from \in Nodes
    BY DEF Edge
  <2>3. <<e.from, o[q]>> \in Graph
    BY <1>8, <2>1, Zenon DEF Graph
  <2>4. e.from \in Before(o, q)
    BY <1>4, <2>2, <2>3, Zenon DEF Predecessors
  <2>5. PICK p \in 1..(q - 1) : e.from = o[p]
    BY <2>4, Zenon DEF Before
  <2> QED  BY <1>7, <1>8, <2>1, <2>5, Zenon
<1>9. \A i \in 1..Len(c) : c[i] \notin Before(c, i)
  BY <1>5, Zenon DEF CutTo
<1> QED  BY <1>2, <1>3, <1>5, <1>7, <1>8, <1>9, Zenon DEF OrderOf

-----------------------------------------------------------------------------
(* The inductive invariant.                                                *)

\* What the author wrote is well formed.
DefinitionOK == edges \subseteq Edge /\ entries \subseteq Nodes

\* The plan is the compiler's, for this definition.
PlanOK ==
    phase \in {"compiled", "running", "failed", "ended"} =>
        /\ Acyclic
        /\ plan.order = TopologicalOrder(Graph)
        /\ plan.visible = [n \in Nodes |-> VisiblePredecessors(n)]
        /\ plan.result = [n \in entries |-> ResultVisibleNodes(n)]

\* The Run has the order of its entrypoint, and no outcome before it starts.
RunOK ==
    /\ phase \in {"authored", "compiled", "rejected"} => outcomes = <<>>
    /\ phase \in {"running", "failed", "ended"} => entry \in entries /\ OrderOf(order, entry)

\* A node that succeeded came behind the nodes in scope it depends on, and each of
\* their outcomes opened the edge.
OutcomesOK ==
    /\ outcomes \in Seq([status : {"succeeded", "failed", "skipped"}, open : SUBSET Gates])
    /\ Len(outcomes) <= Len(order)
    /\ \A i \in 1..Len(outcomes) : outcomes[i].status = "succeeded" =>
          \A e \in edges : e.to = order[i] /\ e.from \in ToSet(order) =>
             \E j \in 1..(i - 1) : order[j] = e.from /\ EdgeMatches(e, outcomes[j])

Phases == {"authored", "compiled", "rejected", "running", "failed", "ended"}

Inv == phase \in Phases /\ DefinitionOK /\ PlanOK /\ RunOK /\ OutcomesOK

\* The initial states satisfy it.
LEMMA InitInv == Init => Inv
<1> SUFFICES ASSUME Init PROVE Inv
  OBVIOUS
<1>1. DefinitionOK
  <2>1. PICK authored \in [1..MaxEdges -> EdgeSpace] : edges = {authored[i] : i \in 1..MaxEdges}
    BY Zenon DEF Init
  <2>2. edges \subseteq EdgeSpace
    BY <2>1, Zenon
  <2>3. entries \subseteq EntrySpace
    BY Zenon DEF Init
  <2> QED  BY <2>2, <2>3, PlanAssumption, Zenon DEF DefinitionOK
<1>2. phase = "authored" /\ order = <<>> /\ outcomes = <<>>
  BY Zenon DEF Init
<1>3. phase \in Phases /\ PlanOK /\ RunOK
  BY <1>2 DEF PlanOK, RunOK, Phases
<1>4. OutcomesOK
  BY <1>2 DEF OutcomesOK
<1> QED  BY <1>1, <1>3, <1>4, Zenon DEF Inv

\* While the definition stays, what is computed from it stays.
LEMMA SameDefinition ==
    ASSUME edges' = edges, entries' = entries
    PROVE  /\ Graph' = Graph /\ ControlGraph' = ControlGraph
           /\ Acyclic' = Acyclic
           /\ TopologicalOrder(Graph)' = TopologicalOrder(Graph)
           /\ \A n : VisiblePredecessors(n)' = VisiblePredecessors(n)
           /\ \A n : ResultVisibleNodes(n)' = ResultVisibleNodes(n)
           /\ \A n : Reachable(Graph, {n}, {})' = Reachable(Graph, {n}, {})
<1>1. Graph' = Graph /\ ControlGraph' = ControlGraph
  BY DEF Graph, ControlGraph
<1>2. TopologicalOrder(Graph)' = TopologicalOrder(Graph)
  BY <1>1
<1>3. Acyclic' = Acyclic
  BY <1>2 DEF Acyclic
<1>4. ASSUME NEW n PROVE Reachable(Graph, {n}, {})' = Reachable(Graph, {n}, {})
  BY <1>1
<1>5. ASSUME NEW n PROVE VisiblePredecessors(n)' = VisiblePredecessors(n)
  BY <1>1 DEF VisiblePredecessors
<1>6. ASSUME NEW n PROVE ResultVisibleNodes(n)' = ResultVisibleNodes(n)
  BY <1>1 DEF ResultVisibleNodes
<1> QED  BY <1>1, <1>2, <1>3, <1>4, <1>5, <1>6

\* Compile gives the plan.
LEMMA CompileInv ==
    ASSUME Inv, Compile
    PROVE  Inv'
<1>1. edges' = edges /\ entries' = entries /\ phase = "authored" /\ phase' = "compiled"
      /\ outcomes' = outcomes /\ order' = order /\ Acyclic
  BY Zenon DEF Compile
<1>2. phase' \in Phases /\ DefinitionOK'
  BY <1>1 DEF Inv, DefinitionOK, Phases
<1>3. PlanOK'
  <2>1. /\ plan'.order = TopologicalOrder(Graph)
        /\ plan'.visible = [n \in Nodes |-> VisiblePredecessors(n)]
        /\ plan'.result = [n \in entries |-> ResultVisibleNodes(n)]
    BY DEF Compile
  <2>2. [n \in Nodes |-> VisiblePredecessors(n)]' = [n \in Nodes |-> VisiblePredecessors(n)]
    BY <1>1, SameDefinition
  <2>3. [n \in entries |-> ResultVisibleNodes(n)]' = [n \in entries |-> ResultVisibleNodes(n)]
    BY <1>1, SameDefinition
  <2>4. Acyclic' /\ TopologicalOrder(Graph)' = TopologicalOrder(Graph)
    BY <1>1, SameDefinition
  <2> QED  BY <2>1, <2>2, <2>3, <2>4, Zenon DEF PlanOK
<1>4. RunOK'
  BY <1>1 DEF Inv, RunOK
<1>5. OutcomesOK'
  <2>1. outcomes = <<>> /\ outcomes' = <<>>
    BY <1>1 DEF Inv, RunOK
  <2>2. Len(outcomes) <= Len(order)
    BY Zenon DEF Inv, OutcomesOK
  <2> QED  BY <1>1, <2>1, <2>2 DEF OutcomesOK
<1> QED  BY <1>2, <1>3, <1>4, <1>5, Zenon DEF Inv

\* While the definition and the plan stay, the plan stays the compiler's.
LEMMA SamePlan ==
    ASSUME DefinitionOK, PlanOK, edges' = edges, entries' = entries, plan' = plan,
           phase \in {"compiled", "running", "failed", "ended"}
    PROVE  DefinitionOK' /\ PlanOK'
<1>1. DefinitionOK'
  BY DEF DefinitionOK
<1>2. [n \in Nodes |-> VisiblePredecessors(n)]' = [n \in Nodes |-> VisiblePredecessors(n)]
  BY SameDefinition
<1>3. [n \in entries |-> ResultVisibleNodes(n)]' = [n \in entries |-> ResultVisibleNodes(n)]
  BY SameDefinition
<1>4. Acyclic' = Acyclic /\ TopologicalOrder(Graph)' = TopologicalOrder(Graph)
  BY SameDefinition
<1>5. PlanOK'
  BY <1>2, <1>3, <1>4, Zenon DEF PlanOK
<1> QED  BY <1>1, <1>5

\* While the definition stays, an order for an entrypoint stays one.
LEMMA SameOrder ==
    ASSUME NEW o, NEW start, edges' = edges, entries' = entries, OrderOf(o, start)
    PROVE  OrderOf(o, start)'
<1>1. Reachable(Graph, {start}, {})' = Reachable(Graph, {start}, {})
  BY SameDefinition
<1> QED  BY <1>1 DEF OrderOf

\* What the compiler's order is.
LEMMA PlanFacts ==
    ASSUME PlanOK, phase \in {"compiled", "running", "failed", "ended"}
    PROVE  /\ plan.order \in Seq(Nodes) /\ Topological(Graph, plan.order)
           /\ Len(plan.order) = Cardinality(Nodes)
  BY OrderIsTopological, Zenon DEF PlanOK, Acyclic

\* StartRun gives the order.
LEMMA StartInv ==
    ASSUME NEW start \in entries, Inv, StartRun(start)
    PROVE  Inv'
<1>1. edges' = edges /\ entries' = entries /\ phase = "compiled" /\ phase' = "running"
      /\ outcomes' = outcomes /\ plan' = plan /\ entry' = start
      /\ order' = EntrypointNodeOrder(start)
  BY Zenon DEF StartRun
<1>2. DefinitionOK' /\ PlanOK'
  BY <1>1, SamePlan DEF Inv
<1>3. OrderOf(order, entry)'
  <2>1. PICK o, s : o = order' /\ s = start
    OBVIOUS
  <2>2. OrderOf(o, s)
    <3>1. start \in Nodes /\ edges \subseteq Edge
      BY DEF Inv, DefinitionOK
    <3> QED  BY <1>1, <2>1, <3>1, PlanFacts, CutIsOrder DEF Inv
  <2>3. OrderOf(o, s)'
    BY <1>1, <2>2, SameOrder
  <2> QED  BY <1>1, <2>1, <2>3 DEF OrderOf
<1>4. RunOK'
  BY <1>1, <1>3 DEF RunOK
<1>5. OutcomesOK'
  <2>1. outcomes' = <<>>
    BY <1>1 DEF Inv, RunOK
  <2>2. order' \in Seq(Nodes)
    BY <1>3 DEF OrderOf
  <2> QED  BY <2>1, <2>2 DEF OutcomesOK
<1>6. phase' \in Phases
  BY <1>1 DEF Phases
<1> QED  BY <1>2, <1>4, <1>5, <1>6, Zenon DEF Inv

\* The outcome of the node at a place is the outcome at that place.
LEMMA OutcomeFacts ==
    ASSUME Inv, phase \in {"running", "failed", "ended"}
    PROVE  /\ \A i \in 1..Len(outcomes) : Outcome(order[i]) = outcomes[i]
           /\ Resolved = {order[i] : i \in 1..Len(outcomes)}
           /\ \A n : n \in Resolved <=> \E i \in 1..Len(outcomes) : n = order[i]
           /\ Len(outcomes) \in Nat /\ Len(order) \in Nat
           /\ DOMAIN outcomes = 1..Len(outcomes)
<1>1. order \in Seq(Nodes) /\ \A i \in 1..Len(order) : order[i] \notin Before(order, i)
  BY DEF Inv, RunOK, OrderOf
<1>2. \A i, j \in 1..Len(order) : order[i] = order[j] => i = j
  BY <1>1, OnceFacts, Zenon
<1>3. /\ Len(outcomes) \in Nat /\ Len(order) \in Nat /\ DOMAIN outcomes = 1..Len(outcomes)
      /\ \A i \in 1..Len(outcomes) : i \in 1..Len(order)
  <2>1. outcomes \in Seq([status : {"succeeded", "failed", "skipped"}, open : SUBSET Gates])
        /\ Len(outcomes) <= Len(order)
    BY DEF Inv, OutcomesOK
  <2> QED  BY <1>1, <2>1
<1>4. ASSUME NEW i \in 1..Len(outcomes)
      PROVE  Outcome(order[i]) = outcomes[i]
  <2>1. PICK k : k = CHOOSE x \in DOMAIN outcomes : order[x] = order[i]
    OBVIOUS
  <2>2. k \in 1..Len(outcomes) /\ order[k] = order[i]
    BY <1>3, <2>1, Zenon
  <2>3. k = i
    BY <1>2, <1>3, <2>2, Zenon
  <2> QED  BY <2>1, <2>3, Zenon DEF Outcome
<1>5. Resolved = {order[i] : i \in 1..Len(outcomes)}
  BY <1>3, Zenon DEF Resolved
<1> QED  BY <1>3, <1>4, <1>5, Zenon

\* The node that is up is not blocked, and what Ready says of it.
LEMMA CurrentFacts ==
    ASSUME Inv, AtNode
    PROVE  /\ NextNode \in 1..Len(order) /\ NextNode = Len(outcomes) + 1
           /\ \A e \in Incoming(Current) :
                 \E j \in 1..Len(outcomes) : e.from = order[j] /\ Outcome(e.from) = outcomes[j]
<1>1. phase = "running" /\ OrderOf(order, entry)
  BY DEF Inv, RunOK, AtNode
<1>2. /\ \A i \in 1..Len(outcomes) : Outcome(order[i]) = outcomes[i]
      /\ Len(outcomes) \in Nat /\ Len(order) \in Nat
  BY <1>1, OutcomeFacts
<1>3. NextNode \in 1..Len(order) /\ NextNode = Len(outcomes) + 1 /\ NextNode - 1 = Len(outcomes)
  BY <1>2 DEF AtNode, NextNode
<1>4. ASSUME NEW e \in Incoming(Current)
      PROVE  \E j \in 1..Len(outcomes) : e.from = order[j] /\ Outcome(e.from) = outcomes[j]
  <2>1. e \in edges /\ e.to = order[NextNode] /\ e.from \in ToSet(order)
    BY Zenon DEF Incoming, Current, Scope
  <2>2. e.from \in Before(order, NextNode)
    BY <1>1, <1>3, <2>1, Zenon DEF OrderOf
  <2>3. PICK j \in 1..Len(outcomes) : e.from = order[j]
    BY <1>3, <2>2, Zenon DEF Before
  <2> QED  BY <1>2, <2>3, Zenon
<1> QED  BY <1>3, <1>4

\* Recording an outcome keeps it, if only a ready node succeeds.
LEMMA RecordInv ==
    ASSUME NEW outcome \in [status : {"succeeded", "failed", "skipped"}, open : SUBSET Gates],
           Inv, AtNode, Record(outcome), phase' \in {"running", "failed"},
           outcome.status = "succeeded" => Ready
    PROVE  Inv'
<1>1. edges' = edges /\ entries' = entries /\ plan' = plan /\ entry' = entry /\ order' = order
      /\ outcomes' = Append(outcomes, outcome)
  BY Zenon DEF Record
<1>2. phase = "running"
  BY Zenon DEF AtNode
<1>3. DefinitionOK' /\ PlanOK'
  BY <1>1, <1>2, SamePlan DEF Inv
<1>4. OrderOf(order, entry) /\ entry \in entries
  BY <1>2 DEF Inv, RunOK
<1>5. RunOK'
  <2>1. PICK o, s : o = order /\ s = entry
    OBVIOUS
  <2>2. OrderOf(o, s)'
    BY <1>1, <1>4, <2>1, SameOrder
  <2>3. OrderOf(order, entry)'
    BY <1>1, <2>1, <2>2 DEF OrderOf
  <2> QED  BY <1>1, <1>4, <2>3 DEF RunOK
<1>6. OutcomesOK'
  <2>1. PICK L : L = Len(outcomes)
    OBVIOUS
  <2>2. PICK t : t = outcomes'
    OBVIOUS
  <2>3. /\ outcomes \in Seq([status : {"succeeded", "failed", "skipped"}, open : SUBSET Gates])
        /\ \A i \in 1..L : outcomes[i].status = "succeeded" =>
              \A e \in edges : e.to = order[i] /\ e.from \in ToSet(order) =>
                 \E j \in 1..(i - 1) : order[j] = e.from /\ EdgeMatches(e, outcomes[j])
    BY <2>1, Zenon DEF Inv, OutcomesOK
  <2>4. L \in Nat /\ Len(order) \in Nat /\ L + 1 <= Len(order) /\ NextNode = L + 1
    <3>1. order \in Seq(Nodes)
      BY <1>4, Zenon DEF OrderOf
    <3> QED  BY <2>1, <2>3, <3>1, CurrentFacts
  <2>5. /\ t \in Seq([status : {"succeeded", "failed", "skipped"}, open : SUBSET Gates])
        /\ Len(t) = L + 1 /\ t[L + 1] = outcome /\ \A i \in 1..L : t[i] = outcomes[i]
    BY <1>1, <2>1, <2>2, <2>3
  <2>6. ASSUME NEW i \in 1..(L + 1), t[i].status = "succeeded",
               NEW e \in edges, e.to = order[i], e.from \in ToSet(order)
        PROVE  \E j \in 1..(i - 1) : order[j] = e.from /\ EdgeMatches(e, t[j])
    <3>1. i \in 1..L \/ (i = L + 1 /\ i - 1 = L)
      BY <2>4
    <3>2. CASE i \in 1..L
      <4>1. PICK j \in 1..(i - 1) : order[j] = e.from /\ EdgeMatches(e, outcomes[j])
        BY <2>3, <2>5, <2>6, <3>2, Zenon
      <4>2. t[j] = outcomes[j]
        <5>1. j \in 1..L
          BY <2>4, <3>2, <4>1
        <5> QED  BY <2>5, <5>1, Zenon
      <4> QED  BY <4>1, <4>2, Zenon
    <3>3. CASE i = L + 1 /\ i - 1 = L
      <4>1. Ready
        BY <2>5, <2>6, <3>3, Zenon
      <4>2. e \in Incoming(Current)
        BY <2>4, <2>6, <3>3, Zenon DEF Incoming, Current, Scope
      <4>3. PICK j \in 1..L : e.from = order[j] /\ Outcome(e.from) = outcomes[j]
        BY <2>1, <4>2, CurrentFacts, Zenon
      <4>4. EdgeMatches(e, outcomes[j])
        BY <4>1, <4>2, <4>3, Zenon DEF Ready
      <4> QED  BY <2>5, <3>3, <4>3, <4>4, Zenon
    <3> QED  BY <3>1, <3>2, <3>3
  <2>7. Len(t) <= Len(order)
    BY <2>4, <2>5
  <2> QED  BY <1>1, <2>2, <2>5, <2>6, <2>7, Zenon DEF OutcomesOK
<1>7. phase' \in Phases
  BY DEF Phases
<1> QED  BY <1>3, <1>5, <1>6, <1>7, Zenon DEF Inv

\* Every step keeps the invariant.
LEMMA NextInv == Inv /\ [Next]_vars => Inv'
<1> SUFFICES ASSUME Inv, [Next]_vars PROVE Inv'
  OBVIOUS
<1>1. CASE Compile
  BY <1>1, CompileInv
<1>2. CASE Reject
  <2>1. edges' = edges /\ entries' = entries /\ order' = order /\ outcomes' = outcomes
        /\ phase = "authored" /\ phase' = "rejected"
    BY <1>2, Zenon DEF Reject
  <2>2. phase' \in Phases /\ DefinitionOK' /\ PlanOK' /\ RunOK'
    BY <2>1 DEF Inv, DefinitionOK, PlanOK, RunOK, Phases
  <2>3. OutcomesOK'
    <3>1. outcomes = <<>> /\ outcomes' = <<>>
      BY <2>1 DEF Inv, RunOK
    <3>2. Len(outcomes) <= Len(order)
      BY Zenon DEF Inv, OutcomesOK
    <3> QED  BY <2>1, <3>1, <3>2 DEF OutcomesOK
  <2> QED  BY <2>2, <2>3, Zenon DEF Inv
<1>3. ASSUME NEW start \in entries, StartRun(start)
      PROVE  Inv'
  BY <1>3, StartInv
<1>4. CASE SkipNode
  <2>1. PICK outcome : outcome = [status |-> "skipped", open |-> {}]
    OBVIOUS
  <2>2. outcome \in [status : {"succeeded", "failed", "skipped"}, open : SUBSET Gates]
        /\ outcome.status # "succeeded"
    BY <2>1
  <2>3. AtNode /\ Record(outcome) /\ phase' = phase
    BY <1>4, <2>1, Zenon DEF SkipNode
  <2>4. phase' \in {"running", "failed"}
    BY <2>3 DEF AtNode
  <2> QED  BY <2>2, <2>3, <2>4, RecordInv
<1>5. CASE FailNode
  <2>1. PICK outcome : outcome = [status |-> "failed", open |-> {}]
    OBVIOUS
  <2>2. outcome \in [status : {"succeeded", "failed", "skipped"}, open : SUBSET Gates]
        /\ outcome.status # "succeeded"
    BY <2>1
  <2>3. AtNode /\ Record(outcome) /\ phase' = IF FailureHandled(Current) THEN "running" ELSE "failed"
    BY <1>5, <2>1, Zenon DEF FailNode
  <2>4. phase' \in {"running", "failed"}
    BY <2>3, Zenon
  <2> QED  BY <2>2, <2>3, <2>4, RecordInv
<1>6. ASSUME NEW open \in SUBSET Gates, SucceedNode(open)
      PROVE  Inv'
  <2>1. PICK outcome : outcome = [status |-> "succeeded", open |-> open]
    OBVIOUS
  <2>2. outcome \in [status : {"succeeded", "failed", "skipped"}, open : SUBSET Gates]
    BY <2>1
  <2>3. AtNode /\ Ready /\ Record(outcome) /\ phase' = phase
    BY <1>6, <2>1, Zenon DEF SucceedNode
  <2>4. phase' \in {"running", "failed"}
    BY <2>3 DEF AtNode
  <2> QED  BY <2>2, <2>3, <2>4, RecordInv
<1>7. CASE EndRun \/ UNCHANGED vars
  <2>1. /\ edges' = edges /\ entries' = entries /\ order' = order /\ outcomes' = outcomes
        /\ entry' = entry /\ plan' = plan
        /\ phase' = phase \/ (phase = "running" /\ phase' = "ended")
    BY <1>7, Zenon DEF EndRun, vars
  <2>2. DefinitionOK' /\ PlanOK'
    <3>1. CASE phase \in {"compiled", "running", "failed", "ended"}
      BY <2>1, <3>1, SamePlan DEF Inv
    <3>2. CASE phase \notin {"compiled", "running", "failed", "ended"}
      BY <2>1, <3>2 DEF Inv, DefinitionOK, PlanOK
    <3> QED  BY <3>1, <3>2
  <2>3. RunOK'
    <3>1. phase \in {"running", "failed", "ended"} => OrderOf(order, entry)'
      <4> SUFFICES ASSUME phase \in {"running", "failed", "ended"} PROVE OrderOf(order, entry)'
        OBVIOUS
      <4>1. PICK o, s : o = order /\ s = entry
        OBVIOUS
      <4>2. OrderOf(o, s)'
        BY <2>1, <4>1, SameOrder DEF Inv, RunOK
      <4> QED  BY <2>1, <4>1, <4>2 DEF OrderOf
    <3> QED  BY <2>1, <3>1 DEF Inv, RunOK
  <2>4. OutcomesOK'
    BY <2>1, Zenon DEF Inv, OutcomesOK
  <2>5. phase' \in Phases
    BY <2>1 DEF Inv, Phases
  <2> QED  BY <2>2, <2>3, <2>4, <2>5, Zenon DEF Inv
<1> QED  BY <1>1, <1>2, <1>3, <1>4, <1>5, <1>6, <1>7, Zenon DEF Next

\* The invariant holds in every reachable state.
THEOREM InvHolds == Spec => []Inv
  BY InitInv, NextInv, PTL DEF Spec

-----------------------------------------------------------------------------
(* The properties.                                                         *)

\* The order that topologicalOrder computes, by taking the least ready node in every
\* turn, is the least of all linear extensions of the definition's edges: the plan
\* and its digest depend on the definition alone.
THEOREM OrderIsCanonical == Spec => []LeastOrder
<1>1. ASSUME Inv PROVE LeastOrder
  <2> SUFFICES ASSUME phase = "compiled"
               PROVE  /\ plan.order \in LinearExtensions
                      /\ \A s \in LinearExtensions : s = plan.order \/ Precedes(plan.order, s)
    BY Zenon DEF LeastOrder
  <2>1. /\ plan.order \in Seq(Nodes) /\ Topological(Graph, plan.order)
        /\ Len(plan.order) = Cardinality(Nodes)
    <3>1. phase \in {"compiled", "running", "failed", "ended"}
      OBVIOUS
    <3> QED  BY <1>1, <3>1, PlanFacts, Zenon DEF Inv
  <2>2. plan.order \in LinearExtensions
    BY <2>1, OrderExtends, Zenon
  <2>3. ASSUME NEW s \in LinearExtensions, s # plan.order
        PROVE  Precedes(plan.order, s)
    BY <2>1, <2>3, OrderIsLeast, Zenon
  <2> QED  BY <2>2, <2>3, Zenon
<1> QED  BY <1>1, InvHolds, PTL

\* currentNodeDisposition never finds an incoming edge of the node that is up whose
\* source has no outcome, whatever entrypoint the plan's order is cut down to.
THEOREM DependenciesFirst == Spec => []NeverBlocked
<1>1. ASSUME Inv PROVE NeverBlocked
  <2> SUFFICES ASSUME AtNode, NEW e \in Incoming(Current)
               PROVE  e.from \in Resolved
    BY Zenon DEF NeverBlocked, Blocked
  <2>1. PICK j \in 1..Len(outcomes) : e.from = order[j]
    BY <1>1, CurrentFacts, Zenon
  <2>2. phase \in {"running", "failed", "ended"}
    BY DEF AtNode
  <2> QED  BY <1>1, <2>1, <2>2, OutcomeFacts
<1> QED  BY <1>1, InvHolds, PTL

\* A node that is ready to run finds the output of every visible predecessor it is
\* joined to by a success edge: what dominates it in control flow from all
\* entrypoints is in the scope of this one, and its outcome opened the edge.
THEOREM InputsExist == Spec => []InputsProduced
<1>1. ASSUME Inv PROVE InputsProduced
  <2> SUFFICES ASSUME AtNode, Ready, Current \in Reachable(ControlGraph, {entry}, {}),
                      NEW e \in edges, e.kind = "data", e.to = Current, e.cond = "success",
                      e.from \in plan.visible[Current]
               PROVE  Produced(e.from)
    BY Zenon DEF InputsProduced
  <2>1. phase = "running" /\ phase \in {"compiled", "running", "failed", "ended"}
        /\ phase \in {"running", "failed", "ended"}
    BY DEF AtNode
  <2>2. entry \in entries /\ OrderOf(order, entry) /\ entries \subseteq Nodes /\ edges \subseteq Edge
    BY <1>1, <2>1, Zenon DEF Inv, RunOK, DefinitionOK
  <2>3. Current \in Nodes
    <3>1. NextNode \in 1..Len(order) /\ order \in Seq(Nodes)
      BY <1>1, <2>2, CurrentFacts, Zenon DEF OrderOf
    <3> QED  BY <3>1 DEF Current
  <2>4. e.from \in Nodes /\ e.from # e.to
    BY <2>2 DEF Edge
  <2>5. Dominates(e.from, Current, ControlGraph, entries)
    <3>1. plan.visible = [n \in Nodes |-> VisiblePredecessors(n)]
      BY <1>1, <2>1, Zenon DEF Inv, PlanOK
    <3>2. e.from \in VisiblePredecessors(Current)
      BY <2>3, <3>1
    <3> QED  BY <3>2, Zenon DEF VisiblePredecessors
  <2>6. e.from \in Reachable(ControlGraph, {entry}, {})
    BY <2>2, <2>4, <2>5, DominatorReached, Zenon
  <2>7. e.from \in Scope
    <3>1. entry \in Nodes
      BY <2>2, Zenon
    <3>2. e.from \in Reachable(Graph, {entry}, {})
      BY <2>6, <3>1, ControlReaches, Zenon
    <3> QED  BY <2>2, <3>2, Zenon DEF OrderOf, Scope
  <2>8. e \in Incoming(Current)
    BY <2>7, Zenon DEF Incoming
  <2>9. e.from \in Resolved /\ EdgeMatches(e, Outcome(e.from))
    BY <2>8, Zenon DEF Ready
  <2> QED  BY <2>9 DEF EdgeMatches, Produced
<1> QED  BY <1>1, InvHolds, PTL

\* Where every edge asks for success, a Run that got through one of its exits has
\* the output of every node that compileWorkflow made visible to the result: such a
\* node dominates every exit, and what succeeded depends on what succeeded.
THEOREM ResultExists == Spec => []ResultProduced
<1>1. ASSUME Inv PROVE ResultProduced
  <2> SUFFICES ASSUME phase = "ended", \A e \in edges : e.cond = "success",
                      NEW exit \in Scope, Successors(Graph, exit) = {}, Produced(exit),
                      NEW n \in plan.result[entry]
               PROVE  Produced(n)
    BY Zenon DEF ResultProduced
  <2>1. phase \in {"compiled", "running", "failed", "ended"} /\ phase \in {"running", "failed", "ended"}
    OBVIOUS
  <2>2. entry \in entries /\ OrderOf(order, entry) /\ entries \subseteq Nodes
    BY <1>1, <2>1, Zenon DEF Inv, RunOK, DefinitionOK
  <2>3. PICK R : R = Reachable(Graph, {entry}, {})
    OBVIOUS
  <2>4. ToSet(order) = R /\ Scope = R
    BY <2>2, <2>3, Zenon DEF OrderOf, Scope
  <2>5. Dominates(n, exit, Graph, {entry})
    <3>1. plan.result = [m \in entries |-> ResultVisibleNodes(m)]
      BY <1>1, <2>1, Zenon DEF Inv, PlanOK
    <3>2. n \in ResultVisibleNodes(entry)
      BY <2>2, <3>1
    <3>3. exit \in {m \in R : Successors(Graph, m) = {}}
      BY <2>4, Zenon
    <3> QED  BY <2>3, <3>2, <3>3, Zenon DEF ResultVisibleNodes
  <2>6. PICK X : X = {m \in R : Produced(m)}
    OBVIOUS
  <2>7. ASSUME NEW m \in X, NEW k \in R, <<k, m>> \in Graph
        PROVE  k \in X
    <3>1. PICK e \in edges : k = e.from /\ m = e.to
      BY <2>7, Zenon DEF Graph
    <3>2. m \in Resolved /\ Outcome(m).status = "succeeded"
      BY <2>6, Zenon DEF Produced
    <3>3. PICK i \in 1..Len(outcomes) : m = order[i]
      BY <1>1, <2>1, <3>2, OutcomeFacts, Zenon
    <3>4. outcomes[i].status = "succeeded"
      BY <1>1, <2>1, <3>2, <3>3, OutcomeFacts, Zenon
    <3>5. PICK j \in 1..(i - 1) : order[j] = e.from /\ EdgeMatches(e, outcomes[j])
      BY <1>1, <2>4, <3>1, <3>3, <3>4, Zenon DEF Inv, OutcomesOK
    <3>6. outcomes[j].status = "succeeded"
      BY <3>5 DEF EdgeMatches
    <3>7. j \in 1..Len(outcomes)
      <4>1. Len(outcomes) \in Nat
        BY <1>1, <2>1, OutcomeFacts, Zenon
      <4> QED  BY <3>3, <3>5, <4>1
    <3>8. k \in Resolved /\ Outcome(k) = outcomes[j]
      BY <1>1, <2>1, <3>1, <3>5, <3>7, OutcomeFacts, Zenon
    <3> QED  BY <2>6, <3>6, <3>8, Zenon DEF Produced
  <2>8. exit \in X /\ exit \in R
    BY <2>4, <2>6, Zenon
  <2>9. entry \in Nodes
    BY <2>2, Zenon
  <2>10. n \in X
    BY <2>3, <2>5, <2>7, <2>8, <2>9, DominatorIn
  <2> QED  BY <2>6, <2>10, Zenon
<1> QED  BY <1>1, InvHolds, PTL
=============================================================================
