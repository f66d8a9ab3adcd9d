------------------------ MODULE MCConnectedComponents ------------------------
EXTENDS ConnectedComponents

Both(E) == E \cup {<<e[2], e[1]>> : e \in E}

Graph(n, edges, directed, algorithm) ==
    LET N == 0 .. n - 1
    IN  [n |-> n, edges |-> edges, directed |-> directed, algorithm |-> algorithm,
         out |-> [u \in N |-> SetToSortSeq({v \in N : <<u, v>> \in edges}, <)],
         in |-> [u \in N |-> SetToSortSeq({v \in N : <<v, u>> \in edges}, <)]]

(* A star around the highest vertex, a path that zigzags so that trees get *)
(* deep, a cycle, two components, an isolated vertex.                      *)
Undirected ==
    { {<<0, 3>>, <<1, 3>>, <<2, 3>>}, {<<0, 2>>, <<1, 2>>, <<1, 3>>},
      {<<0, 1>>, <<1, 3>>, <<2, 3>>, <<0, 2>>}, {<<0, 2>>, <<1, 3>>}, {<<1, 2>>, <<2, 3>>} }

Directed == { {<<3, 0>>, <<3, 1>>, <<2, 1>>}, {<<0, 3>>, <<1, 3>>, <<2, 3>>} }

MCInputs ==
    {Graph(4, Both(E), FALSE, a) : E \in Undirected, a \in {"afforest", "sv"}}
    \cup {Graph(4, E, TRUE, a) : E \in Directed, a \in {"afforest", "sv"}}

=============================================================================
