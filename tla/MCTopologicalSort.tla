------------------------- MODULE MCTopologicalSort -------------------------
(* Instances of TopologicalSort for TLC: the graphs over three names with  *)
(* up to two dependencies a node, complete, incomplete or doubly named.    *)
EXTENDS TopologicalSort

NameLists == {<<>>, <<"a", "b", "c">>, <<"b", "a">>, <<"a", "b", "a">>}
DepLists == UNION {[1 .. k -> {"a", "b", "c"}] : k \in 0 .. 2}

SmallGraphs == {[names |-> l, deps |-> d] : l \in NameLists, d \in [{"a", "b", "c"} -> DepLists]}
=============================================================================
