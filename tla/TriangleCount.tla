----------------------------- MODULE TriangleCount -----------------------------
(***************************************************************************)
(* Triangle counting, src/gap/src/tc.cc: the graph is built, perhaps       *)
(* relabelled by degree, and the threads count for each vertex u the       *)
(* triangles u > v > w, walking the rows of u and v together. The walk has *)
(* no test for the end of a row: it relies on how the builder leaves them. *)
(***************************************************************************)
EXTENDS GraphBuilder

CONSTANT min_degree   \* the average below which WorthRelabelling says no

VARIABLES
    stage,     \* where Hybrid is
    g,         \* the graph OrderedCount works on
    left,      \* the chunks (here vertices) of the dynamic loop nobody has taken
    total      \* per thread, as the reduction keeps it

tvars == <<stage, g, left, total>>
vars == <<bvars, tvars>>

num_edges == (out.index[num_nodes] - out.index[0]) \div 2
out_degree(u) == out.index[u + 1] - out.index[u]

Init == BuilderInit /\ stage = "build" /\ g = None /\ left = {} /\ total = Each(0)

(* main gives up on a directed graph.                                      *)
GiveUp ==
    /\ phase = "built" /\ stage = "build" /\ ~symmetrize
    /\ stage' = "done"
    /\ UNCHANGED <<bvars, g, left, total>>

(* Below min_degree never, otherwise as the degrees of random samples say. *)
WorthRelabelling ==
    IF num_edges \div num_nodes < min_degree THEN {FALSE} ELSE BOOLEAN

(* Decreasing degree, and decreasing identifier among equals.              *)
RelabelByDegree ==
    LET Before(u, v) ==
            \/ out_degree(u) > out_degree(v)
            \/ out_degree(u) = out_degree(v) /\ u > v
        new_ids == [u \in Nodes |-> Cardinality({v \in Nodes : Before(v, u)})]
        Old(x) == CHOOSE u \in Nodes : new_ids[u] = x
        Renamed(row) == [k \in DOMAIN row |-> new_ids[row[k]]]
    IN  CSR([x \in Nodes |-> Sorted(Renamed(Row(out, Old(x))))])

Hybrid ==
    /\ phase = "built" /\ stage = "build" /\ symmetrize
    /\ \E worth \in WorthRelabelling : g' = IF worth THEN RelabelByDegree ELSE out
    /\ stage' = "count" /\ left' = Nodes
    /\ UNCHANGED <<bvars, total>>

(* The place `it` comes to when it is moved on to the first element that   *)
(* is not below w, wherever in the array that is.                          *)
MovedOn(it, w) ==
    Min({s \in it .. Cardinality(DOMAIN g.neighs) :
            s \notin DOMAIN g.neighs \/ g.neighs[s] >= w})

(* The neighbours w of u that the inner loop looks at for v.               *)
(* Mutant: it goes on past v.                                              *)
MutUpTo(u, v) == Row(g, u)
UpTo(u, v) == SelectSeq(Row(g, u), LAMBDA x : x <= v)

(* The inner loop: where `it` ends, and how often it met w.                *)
Walk(u, v) ==
    LET Meet(walk, w) ==
            LET it == MovedOn(walk.it, w)
            IN  [it |-> it,
                 met |-> walk.met + IF it \in DOMAIN g.neighs /\ g.neighs[it] = w
                                    THEN 1 ELSE 0]
    IN  FoldLeft(Meet, [it |-> g.index[v], met |-> 0], UpTo(u, v))

OrderedCount(t) ==
    /\ stage = "count"
    /\ \E u \in left :
         /\ left' = left \ {u}
         /\ total' = [total EXCEPT ![t] = @ +
                MapThenSumSet(LAMBDA v : Walk(u, v).met, {v \in ToSet(Row(g, u)) : v <= u})]
    /\ UNCHANGED <<bvars, stage, g>>

(* The end of the region adds the threads' totals.                         *)
Return ==
    /\ stage = "count" /\ left = {}
    /\ stage' = "done"
    /\ UNCHANGED <<bvars, g, left, total>>

Build == Builder /\ UNCHANGED tvars
Terminated == (stage = "done" \/ phase = "exit") /\ UNCHANGED vars

Next == Build \/ GiveUp \/ Hybrid \/ Return \/ Terminated \/ \E t \in Threads : OrderedCount(t)

Spec == Init /\ [][Next]_vars

-----------------------------------------------------------------------------
Triangles ==
    {T \in SUBSET Nodes :
        Cardinality(T) = 3 /\ \A u \in T : T \ {u} \subseteq Neighbours(u)}

(* While rows are walked, `it` never leaves the row of v, although only    *)
(* the values stop it: u is in that row and is not below any w.            *)
WalksStayInRows ==
    stage = "count" =>
        \A u \in Nodes : \A v \in ToSet(Row(g, u)) :
            v <= u => Walk(u, v).it < g.index[v + 1]

(* Every triangle of the edge list is counted once, however the graph was  *)
(* built, relabelled and shared out.                                       *)
TrianglesExact ==
    /\ WalksStayInRows
    /\ stage = "done" /\ symmetrize =>
         SumOf(total, Threads) = Cardinality(Triangles)
=============================================================================
