----------------------------- MODULE MCDeltaSSSP -----------------------------
EXTENDS DeltaSSSP

(* The rows of a graph given as triples: from, to, weight.                 *)
Rows(n, edges) ==
    [u \in 0 .. n - 1 |->
        SetToSortSeq({<<e[2], e[3]>> : e \in {d \in edges : d[1] = u}}, LAMBDA x, y : x[1] < y[1])]

Graph(n, edges, delta) == [n |-> n, out_neigh |-> Rows(n, edges), source |-> 0, delta |-> delta]

(* Three ways to one vertex, each shorter than the one before; a diamond   *)
(* whose longer way is the shorter; a star; a cycle through the source     *)
(* with an unreachable vertex; a fork; and three ways again, to a vertex   *)
(* with three edges out: when they all lie in the first bin, one thread    *)
(* can fill the second beyond the frontier's length.                       *)
Ways == {<<0, 1, 1>>, <<0, 2, 1>>, <<0, 3, 1>>, <<1, 4, 3>>, <<2, 4, 2>>, <<3, 4, 1>>, <<4, 5, 1>>}
Diamond == {<<0, 1, 1>>, <<0, 2, 4>>, <<1, 2, 1>>, <<2, 3, 1>>, <<1, 3, 4>>}
Star == {<<0, 1, 3>>, <<0, 2, 3>>, <<0, 3, 3>>, <<1, 2, 1>>, <<2, 3, 1>>, <<3, 1, 1>>}
Cycle == {<<0, 1, 2>>, <<1, 0, 1>>, <<0, 2, 2>>, <<1, 2, 1>>, <<2, 1, 1>>}
Fork == {<<0, 1, 1>>, <<0, 2, 1>>}
Fusion == {<<0, 1, 5>>, <<0, 2, 1>>, <<2, 1, 3>>, <<2, 3, 1>>, <<3, 1, 1>>,
           <<1, 4, 3>>, <<1, 5, 3>>, <<1, 6, 3>>}

MCInputs == {Graph(6, Ways, 1), Graph(6, Ways, 2), Graph(4, Diamond, 1), Graph(4, Diamond, 2),
             Graph(4, Diamond, 3), Graph(4, Diamond, 6), Graph(4, Star, 2), Graph(4, Star, 4),
             Graph(4, Star, 9), Graph(4, Cycle, 2), Graph(3, Fork, 1),
             Graph(7, Fusion, 1), Graph(7, Fusion, 6)}

=============================================================================
