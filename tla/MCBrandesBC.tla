----------------------------- MODULE MCBrandesBC -----------------------------
EXTENDS BrandesBC

Both(E) == E \cup {<<e[2], e[1]>> : e \in E}

(* Two diamonds on the same sides (two paths to each of their ends), with  *)
(* an edge back and a vertex no source reaches; a square, searched from    *)
(* two corners; a fan into one vertex.                                     *)
MCInputs ==
    { [n |-> 6, sources |-> <<0>>,
       edges |-> {<<0, 1>>, <<0, 2>>, <<1, 3>>, <<2, 3>>, <<1, 4>>, <<2, 4>>, <<3, 0>>}],
      [n |-> 4, sources |-> <<0, 1>>, edges |-> Both({<<0, 1>>, <<1, 2>>, <<2, 3>>, <<3, 0>>})],
      [n |-> 5, sources |-> <<0>>,
       edges |-> {<<0, 1>>, <<0, 2>>, <<0, 3>>, <<1, 4>>, <<2, 4>>, <<3, 4>>}] }

=============================================================================
