--------------------------- MODULE MCDependencyTable ---------------------------
(* Small instances of DependencyTable. *)
EXTENDS DependencyTable

\* Hashes that collide: the nodes 0 and 1, every edge of node 1, and the cells
\* of the lists with the heads.
MCHashNode(k) == k \div 2
MCHashEdge(e) == e[2] \div 2

\* Three edges of node 1, with the value 0 among them, and one of node 0: one
\* more than fits into three slots.
Edges == {<<1, 0>>, <<1, 1>>, <<1, 2>>, <<0, 2>>}

=============================================================================
