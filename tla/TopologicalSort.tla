--------------------------- MODULE TopologicalSort ---------------------------
(***************************************************************************)
(* Pipeline.__init__: the checks on the list of nodes, then Kahn's         *)
(* algorithm, one popped node a step.  A graph is the list of the nodes'   *)
(* names and, per node, the list of the names it depends on (which may     *)
(* name a node twice, or itself).  The deque is a set: what is proved      *)
(* holds for every order of popping, the FIFO order included.              *)
(***************************************************************************)
EXTENDS Naturals, Sequences, FiniteSets

CONSTANT Graphs  \* the arguments of Pipeline(): [names : Seq, deps : per name a Seq]

VARIABLES
    graph,     \* the argument
    progress,  \* "new", "sorting", "returned" or "refused" (ValueError)
    inDegree,  \* in_degree, per name
    ready,     \* the names in `queue`
    order      \* the names in `order`

sortVars == <<graph, progress, inDegree, ready, order>>

NamesOf(list) == {list[i] : i \in DOMAIN list}
Nodes(g) == NamesOf(g.names)

IsGraph(g) ==
    /\ g.names \in Seq(Nodes(g))
    /\ Nodes(g) \subseteq DOMAIN g.deps
    /\ \A n \in Nodes(g) : g.deps[n] \in Seq(NamesOf(g.deps[n]))

ASSUME GraphsAssumption == \A g \in Graphs : IsGraph(g)

NoGraph == [names |-> <<>>, deps |-> <<>>]

SortType ==
    /\ graph \in Graphs \cup {NoGraph}
    /\ progress \in {"new", "sorting", "returned", "refused"}
    /\ inDegree \in [DOMAIN inDegree -> Nat]
    /\ ready \subseteq Nodes(graph) /\ order \in Seq(Nodes(graph))

SortInit ==
    /\ graph = NoGraph /\ progress = "new"
    /\ inDegree = <<>> /\ ready = {} /\ order = <<>>

----------------------------------------------------------------------------

UniqueNames(g) == \A i, j \in DOMAIN g.names : g.names[i] = g.names[j] => i = j

Registered(g) == \A n \in Nodes(g) : NamesOf(g.deps[n]) \subseteq Nodes(g)

Accepted(g) == g.names # <<>> /\ UniqueNames(g) /\ Registered(g)

\* Mutant: a node with one dependency starts in the queue.
SourcesOfOne(g) == {n \in Nodes(g) : Len(g.deps[n]) <= 1}

Sources(g) == {n \in Nodes(g) : Len(g.deps[n]) = 0}

Construct ==
    /\ progress = "new"
    /\ graph' \in Graphs
    /\ IF Accepted(graph')
       THEN /\ progress' = "sorting"
            /\ inDegree' = [n \in Nodes(graph') |-> Len(graph'.deps[n])]
            /\ ready' = Sources(graph')
       ELSE progress' = "refused" /\ UNCHANGED <<inDegree, ready>>
    /\ UNCHANGED order

\* The edges from child to n: dependents[n] names child once for each.
Edges(n, child) == {k \in DOMAIN graph.deps[child] : graph.deps[child][k] = n}

Visit ==
    /\ progress = "sorting"
    /\ \E n \in ready :
        /\ order' = Append(order, n)
        /\ inDegree' = [m \in DOMAIN inDegree |-> inDegree[m] - Cardinality(Edges(n, m))]
        /\ ready' = (ready \ {n}) \cup {m \in Nodes(graph) : inDegree[m] # 0 /\ inDegree'[m] = 0}
    /\ UNCHANGED <<graph, progress>>

Conclude ==
    /\ progress = "sorting" /\ ready = {}
    /\ progress' = IF Len(order) = Len(graph.names) THEN "returned" ELSE "refused"
    /\ UNCHANGED <<graph, inDegree, ready, order>>

SortNext == Construct \/ Visit \/ Conclude

SortSpec == SortInit /\ [][SortNext]_sortVars

----------------------------------------------------------------------------
(* Properties. *)

\* What the constructor returns runs every node once, after all its
\* dependencies (pipeline.py:98-131, run_batch relies on it).
OrderRespectsDeps ==
    /\ NamesOf(order) = Nodes(graph)
    /\ \A i, j \in DOMAIN order : order[i] = order[j] => i = j
    /\ \A i \in DOMAIN order :
        \A d \in NamesOf(graph.deps[order[i]]) : \E j \in 1 .. i - 1 : order[j] = d

\* A graph is cyclic when some of its nodes all wait for one another.
Cyclic(g) ==
    \E S \in (SUBSET Nodes(g)) \ {{}} :
        \A n \in S : NamesOf(g.deps[n]) \cap S # {}

\* The order is right when one is returned, and an accepted list of nodes is
\* refused only for a cycle.
SortIsSound ==
    /\ progress = "returned" => Accepted(graph) /\ OrderRespectsDeps
    /\ progress = "refused" => ~Accepted(graph) \/ Cyclic(graph)
=============================================================================
