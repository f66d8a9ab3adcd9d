----------------------------- MODULE MCFrontierBFS -----------------------------
(* A directed graph with vertices that cannot be reached and one without    *)
(* out-edges, where paths meet and threads claim the same vertices; one     *)
(* whose frontier has two vertices of a word when the search turns          *)
(* bottom-up; one whose search goes bottom-up, back to the top-down step,   *)
(* and bottom-up again with stale bits in the bitmap; and every undirected  *)
(* graph on four vertices, for two values of alpha.                         *)
EXTENDS FrontierBFS

Undirected(S) == S \cup {<<e[2], e[1]>> : e \in S}

Graph(n, edges, source, alpha, beta) ==
    [n |-> n, edges |-> edges, source |-> source, alpha |-> alpha, beta |-> beta,
     out_neigh |-> [u \in 0 .. n - 1 |->
                      SetToSortSeq({e[2] : e \in {d \in edges : d[1] = u}}, <)]]

MCInputs ==
    {Graph(6, {<<0, 1>>, <<0, 2>>, <<1, 3>>, <<2, 3>>, <<1, 4>>, <<2, 4>>, <<5, 4>>}, 0, 1, 2),
     Graph(5, Undirected({<<2, 0>>, <<2, 1>>, <<0, 3>>, <<0, 4>>, <<1, 4>>, <<3, 4>>}), 2, 4, 2),
     Graph(8, Undirected({<<0, 1>>, <<0, 2>>, <<1, 3>>, <<3, 4>>, <<4, 5>>, <<4, 6>>, <<3, 7>>}), 0, 8, 4)}
    \cup {Graph(4, Undirected(S), 1, a, 6) :
            S \in SUBSET {<<i, j>> \in (0 .. 3) \X (0 .. 3) : i < j}, a \in {1, 6}}
=============================================================================
