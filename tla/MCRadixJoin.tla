------------------------------ MODULE MCRadixJoin ------------------------------
EXTENDS RadixJoin

(* Two radix bits: the low bit divides in the first pass, the next in the  *)
(* second. More than four tuples make a partition large, more than two a   *)
(* join. Nothing large; large on both sides, and joins that are split;     *)
(* large in S only, with one tuple in R; large in S where R has none       *)
(* (bucket_chaining_join is not given an empty R: it would read beyond its *)
(* buckets).                                                               *)
MCInputs ==
    { [R |-> <<3, 0, 1, 2, 6>>, S |-> <<1, 2, 1, 3, 6, 5>>, join |-> j] : j \in {"PRO", "PRH"} }
    \cup { [R |-> <<0, 4, 2, 1, 6, 8, 3>>, S |-> <<4, 0, 2, 3, 8, 0, 5>>, join |-> j] :
             j \in {"PRO", "PRH"} }
    \cup { [R |-> <<4>>, S |-> <<0, 8, 4, 8, 2, 1>>, join |-> "PRO"],
           [R |-> <<1, 3>>, S |-> <<0, 4, 8, 1, 0, 2>>, join |-> "PRH"] }

=============================================================================
