----------------------------- MODULE GraphBuilder ------------------------------
(***************************************************************************)
(* How src/gap/src/builder.h makes a graph from an edge list. Normally the *)
(* threads count degrees and fill the rows of a CSR, once per direction,   *)
(* and the result is squished. In place (-m) the sorted list is turned     *)
(* into the CSR in its own memory, and missing inverses are moved in.      *)
(*                                                                         *)
(* A CSR is an index (where row n begins, at n; the end, at num_nodes) and *)
(* the array the rows lie in. Unweighted graphs, with inverses.            *)
(***************************************************************************)
EXTENDS Integers, Sequences, SequencesExt, FiniteSets, FiniteSetsExt, TLC

CONSTANTS
    Threads,
    block_size,   \* of ParallelPrefixSum
    Inputs        \* records: the edge list el, symmetrize (-s), in_place (-m)

ASSUME SizesAssumption == block_size \in Nat \ {0}

ASSUME InputsAssumption ==
    \A in \in Inputs :
        /\ in.el \in Seq(Nat \X Nat)
        /\ in.symmetrize \in BOOLEAN /\ in.in_place \in BOOLEAN

VARIABLES
    input,
    el,                 \* the edge list, as MakeCSRInPlace shrinks it
    transpose,          \* the argument of MakeCSR
    degrees, offsets,
    neighs,             \* the memory being filled; None where nothing was written
    out, in,            \* the CSRs of the graph
    invs_needed, missing, n, i, tail_index,   \* locals of MakeCSRInPlace
    phase,
    work,               \* the edges of a parallel loop nobody has taken
    pc, todo            \* per thread: what is left to do for its edge

graph == <<out, in>>
inplace == <<invs_needed, missing, n, i, tail_index>>
threads == <<work, pc, todo>>
bvars == <<input, el, transpose, degrees, offsets, neighs, graph, inplace, phase, threads>>

-----------------------------------------------------------------------------
symmetrize == input.symmetrize
in_place == input.in_place
None == -1

FindMaxNodeID == Max({0} \cup UNION {{input.el[k][1], input.el[k][2]} : k \in DOMAIN input.el})
num_nodes == FindMaxNodeID + 1
Nodes == 0 .. num_nodes - 1

Array(size) == [s \in 0 .. size - 1 |-> None]
SumOf(f, S) == MapThenSumSet(LAMBDA x : f[x], S)

(* Sums of the blocks, their prefix sums, and prefix sums within blocks.   *)
ParallelPrefixSum(sizes) ==
    LET Block(b) == {x \in Nodes : x \div block_size = b}
        num_blocks == (num_nodes + block_size - 1) \div block_size
        local_sums == [b \in 0 .. num_blocks - 1 |-> SumOf(sizes, Block(b))]
        bulk_prefix == [b \in 0 .. num_blocks |-> SumOf(local_sums, 0 .. b - 1)]
        prefix(x) == bulk_prefix[x \div block_size]
                     + SumOf(sizes, {y \in Block(x \div block_size) : y < x})
    IN  [x \in 0 .. num_nodes |->
            IF x = num_nodes THEN bulk_prefix[num_blocks] ELSE prefix(x)]

(* What std::sort and std::unique leave of a sequence.                     *)
Unique(s) == FoldLeft(LAMBDA u, x : IF u # <<>> /\ Last(u) = x THEN u ELSE Append(u, x), <<>>, s)
Sorted(s) == SortSeq(s, <)
EdgeLess(d, e) == IF d[1] = e[1] THEN d[2] < e[2] ELSE d[1] < e[1]

Row(csr, x) ==
    [k \in 1 .. csr.index[x + 1] - csr.index[x] |-> csr.neighs[csr.index[x] + k - 1]]

(* The CSR with the given rows: a prefix sum of their lengths, and copies. *)
CSR(rows) ==
    LET index == ParallelPrefixSum([x \in Nodes |-> Len(rows[x])])
        all == FlattenSeq([k \in 1 .. num_nodes |-> rows[k - 1]])
    IN  [index |-> index, neighs |-> [s \in 0 .. Len(all) - 1 |-> all[s + 1]]]

Each(x) == [t \in Threads |-> x]

BuilderInit ==
    /\ input \in Inputs /\ el = input.el
    /\ transpose = FALSE
    /\ degrees = <<>> /\ offsets = <<>> /\ neighs = <<>>
    /\ out = None /\ in = None
    /\ invs_needed = <<>> /\ missing = 0 /\ n = 0 /\ i = 0 /\ tail_index = 0
    /\ phase = "start"
    /\ work = {} /\ pc = Each("end") /\ todo = Each(<<>>)

-----------------------------------------------------------------------------
(* CountDegrees, whose threads add to the degrees atomically and in any    *)
(* order, and nobody reads them before the loop has ended: one step.       *)

CountDegrees(edges, tr) ==
    LET Ends(e) ==
            (IF symmetrize \/ ~tr THEN <<e[1]>> ELSE <<>>)
            \o (IF (symmetrize /\ ~in_place) \/ (~symmetrize /\ tr) THEN <<e[2]>> ELSE <<>>)
        ends == FlattenSeq([k \in DOMAIN edges |-> Ends(edges[k])])
    IN  [x \in Nodes |-> Cardinality({k \in DOMAIN ends : ends[k] = x})]

-----------------------------------------------------------------------------
(* The parallel loop of MakeCSR: a thread takes an edge and puts its       *)
(* neighbours into their rows.                                             *)

Placed(e) ==
    (IF symmetrize \/ ~transpose THEN <<e>> ELSE <<>>)
    \o (IF symmetrize \/ transpose THEN <<<<e[2], e[1]>>>> ELSE <<>>)

Take(t) ==
    /\ pc[t] = "take" /\ work # {}
    /\ \E k \in work :
         /\ work' = work \ {k}
         /\ todo' = [todo EXCEPT ![t] = Placed(el[k])]
    /\ pc' = [pc EXCEPT ![t] = "edge"]
    /\ UNCHANGED <<input, el, transpose, degrees, offsets, neighs, graph, inplace, phase>>

RunsOut(t) ==
    /\ pc[t] = "take" /\ work = {}
    /\ pc' = [pc EXCEPT ![t] = "end"]
    /\ UNCHANGED <<input, el, transpose, degrees, offsets, neighs, graph, inplace, phase,
                   work, todo>>

EdgeDone(t) ==
    /\ pc[t] = "edge" /\ todo[t] = <<>>
    /\ pc' = [pc EXCEPT ![t] = "take"]
    /\ UNCHANGED <<input, el, transpose, degrees, offsets, neighs, graph, inplace, phase,
                   work, todo>>

(* A slot is reserved by fetch_and_add and is then the thread's alone.     *)
Place(t) ==
    /\ pc[t] = "edge" /\ todo[t] # <<>>
    /\ LET row == Head(todo[t])[1]
       IN  /\ neighs' = [neighs EXCEPT ![offsets[row]] = Head(todo[t])[2]]
           /\ offsets' = [offsets EXCEPT ![row] = @ + 1]
    /\ todo' = [todo EXCEPT ![t] = Tail(@)]
    /\ UNCHANGED <<input, el, transpose, degrees, graph, inplace, phase, work, pc>>

-----------------------------------------------------------------------------
(* MakeGraphFromEL, MakeCSR and SquishGraph.                               *)

(* MakeCSR up to its loop. GenIndex keeps where the rows begin; the        *)
(* offsets move as the rows fill.                                          *)
MakeCSR(tr) ==
    /\ transpose' = tr
    /\ degrees' = CountDegrees(el, tr)
    /\ offsets' = ParallelPrefixSum(degrees')
    /\ neighs' = Array(offsets'[num_nodes])
    /\ phase' = "fill" /\ work' = DOMAIN el /\ pc' = Each("take") /\ todo' = Each(<<>>)

Filled == phase = "fill" /\ \A t \in Threads : pc[t] = "end"

MakeOut ==
    /\ phase = "start" /\ ~in_place
    /\ MakeCSR(FALSE)
    /\ out' = [index |-> offsets', neighs |-> <<>>]
    /\ UNCHANGED <<input, el, in, inplace>>

MakeIn ==
    /\ Filled /\ ~symmetrize /\ ~transpose
    /\ MakeCSR(TRUE)
    /\ out' = [out EXCEPT !.neighs = neighs]
    /\ in' = [index |-> offsets', neighs |-> <<>>]
    /\ UNCHANGED <<input, el, inplace>>

(* Mutant of SquishCSR: self-loops are not removed.                        *)
MutSquishRow(row, x) == Unique(Sorted(row))

(* sort, unique and remove of one row.                                     *)
SquishRow(row, x) == SelectSeq(Unique(Sorted(row)), LAMBDA y : y # x)

SquishCSR(csr) == CSR([x \in Nodes |-> SquishRow(Row(csr, x), x)])

SquishGraph ==
    /\ Filled /\ (symmetrize \/ transpose)
    /\ IF symmetrize
       THEN out' = SquishCSR([out EXCEPT !.neighs = neighs]) /\ in' = out'
       ELSE out' = SquishCSR(out) /\ in' = SquishCSR([in EXCEPT !.neighs = neighs])
    /\ phase' = "built"
    /\ UNCHANGED <<input, el, transpose, degrees, offsets, neighs, inplace, threads>>

-----------------------------------------------------------------------------
(* MakeCSRInPlace.                                                         *)

(* The list is sorted and squished, and its memory becomes that of the     *)
(* neighbours: an edge is two places long, a neighbour one.                *)
Preprocess ==
    /\ phase = "start" /\ in_place
    /\ el' = SelectSeq(Unique(SortSeq(el, EdgeLess)), LAMBDA e : e[1] # e[2])
    /\ offsets' = ParallelPrefixSum(CountDegrees(el', FALSE))
    /\ degrees' = CountDegrees(el', TRUE)
    /\ neighs' = [s \in 0 .. 2 * Len(el') - 1 |-> el'[(s \div 2) + 1][(s % 2) + 1]]
    /\ n' = 0
    /\ phase' = "overlay"
    /\ UNCHANGED <<input, transpose, graph, invs_needed, missing, i, tail_index, threads>>

OverlayEdge ==
    /\ phase = "overlay" /\ n < Len(el)
    /\ LET u == neighs[2 * n]
           v == neighs[2 * n + 1]
       IN  /\ neighs' = [neighs EXCEPT ![offsets[u]] = v]
           /\ offsets' = [offsets EXCEPT ![u] = @ + 1]
    /\ n' = n + 1
    /\ UNCHANGED <<input, el, transpose, degrees, graph, invs_needed, missing, i, tail_index,
                   phase, threads>>

(* The offsets are moved down by one row, back to where the rows begin.    *)
Reverted == [x \in 0 .. num_nodes |-> IF x = 0 THEN 0 ELSE offsets[x - 1]]
First(size) == [s \in 0 .. size - 1 |-> IF s \in DOMAIN neighs THEN neighs[s] ELSE None]

(* The inverse, filled row by row of csr; degrees are the indegrees.       *)
InverseOf(csr) ==
    LET index == ParallelPrefixSum(degrees)
        edges == FlattenSeq([k \in 1 .. num_nodes |->
            [j \in DOMAIN Row(csr, k - 1) |-> <<k - 1, Row(csr, k - 1)[j]>>]])
        Put(inv, e) == [inoffsets |-> [inv.inoffsets EXCEPT ![e[2]] = @ + 1],
                        neighs |-> [inv.neighs EXCEPT ![inv.inoffsets[e[2]]] = e[1]]]
        filled == FoldLeft(Put, [inoffsets |-> index, neighs |-> Array(index[num_nodes])], edges)
    IN  [index |-> index, neighs |-> filled.neighs]

KeepDirected ==
    /\ phase = "overlay" /\ n = Len(el) /\ ~symmetrize
    /\ out' = [index |-> Reverted, neighs |-> First(Len(el))]
    /\ in' = InverseOf(out')
    /\ offsets' = Reverted
    /\ phase' = "built"
    /\ UNCHANGED <<input, el, transpose, degrees, neighs, inplace, threads>>

(* std::binary_search for x in the places lo .. hi - 1 of a.               *)
BinarySearch(a, lo, hi, x) ==
    LET lower[first \in lo .. hi, len \in 0 .. hi - lo] ==
            LET half == len \div 2
            IN  IF len = 0 THEN first
                ELSE IF a[first + half] < x THEN lower[first + half + 1, len - half - 1]
                ELSE lower[first, half]
        found == lower[lo, hi - lo]
    IN  found < hi /\ ~(x < a[found])

(* A list of self-loops only leaves nothing: newsize is 0, glibc's realloc *)
(* frees the array and returns NULL, and the program exits.                *)
ReallocFails ==
    /\ phase = "overlay" /\ n = Len(el) /\ symmetrize /\ el = <<>>
    /\ phase' = "exit"
    /\ UNCHANGED <<input, el, transpose, degrees, offsets, neighs, graph, inplace, threads>>

(* Step 1: count the inverses each row lacks, and make the array longer.   *)
MakeRoom ==
    /\ phase = "overlay" /\ n = Len(el) /\ symmetrize /\ el # <<>>
    /\ LET begin == Reverted
           Slots(u) == begin[u] .. begin[u + 1] - 1
           Lacks(u, v) == ~BinarySearch(neighs, begin[v], begin[v + 1], u)
           lacking == [v \in Nodes |->
               Cardinality({u \in Nodes : \E s \in Slots(u) : neighs[s] = v /\ Lacks(u, v)})]
       IN  /\ invs_needed' = lacking
           /\ offsets' = [x \in 0 .. num_nodes |-> begin[x] + SumOf(lacking, 0 .. x - 1)]
           /\ missing' = SumOf(lacking, Nodes)
    /\ neighs' = First(offsets'[num_nodes])
    /\ n' = num_nodes - 1
    /\ i' = offsets'[num_nodes] - 1 /\ tail_index' = offsets'[num_nodes] - 1
    /\ phase' = "spread"
    /\ UNCHANGED <<input, el, transpose, degrees, graph, threads>>

(* Step 2: the rows are moved up, from the last, to make room before each. *)
MoveNeighbour ==
    /\ phase = "spread" /\ n >= 0 /\ i >= offsets[n] + invs_needed[n]
    /\ neighs' = [neighs EXCEPT ![tail_index] = neighs[i - missing]]
    /\ tail_index' = tail_index - 1 /\ i' = i - 1
    /\ UNCHANGED <<input, el, transpose, degrees, offsets, graph, invs_needed, missing, n,
                   phase, threads>>

RowMoved ==
    /\ phase = "spread" /\ n >= 0 /\ i < offsets[n] + invs_needed[n]
    /\ missing' = missing - invs_needed[n]
    /\ tail_index' = tail_index - invs_needed[n]
    /\ n' = n - 1 /\ i' = offsets[n] - 1
    /\ UNCHANGED <<input, el, transpose, degrees, offsets, neighs, graph, invs_needed,
                   phase, threads>>

AllMoved ==
    /\ phase = "spread" /\ n < 0
    /\ n' = 0 /\ i' = offsets[0] + invs_needed[0]
    /\ phase' = "add"
    /\ UNCHANGED <<input, el, transpose, degrees, offsets, neighs, graph, invs_needed,
                   missing, tail_index, threads>>

(* Step 3: the missing inverses go in front of their rows, the last free   *)
(* place first. Mutant: the first place first.                             *)
MutAddInverse ==
    /\ phase = "add" /\ n < num_nodes /\ i < offsets[n + 1]
    /\ i' = i + 1
    /\ LET v == neighs[i]
       IN  IF BinarySearch(neighs, offsets[v] + invs_needed[v], offsets[v + 1], n)
           THEN UNCHANGED <<neighs, invs_needed>>
           ELSE /\ neighs' = [neighs EXCEPT ![offsets[v]] = n]
                /\ invs_needed' = [invs_needed EXCEPT ![v] = @ - 1]
    /\ UNCHANGED <<input, el, transpose, degrees, offsets, graph, missing, n, tail_index,
                   phase, threads>>

AddInverse ==
    /\ phase = "add" /\ n < num_nodes /\ i < offsets[n + 1]
    /\ i' = i + 1
    /\ LET v == neighs[i]
       IN  IF BinarySearch(neighs, offsets[v] + invs_needed[v], offsets[v + 1], n)
           THEN UNCHANGED <<neighs, invs_needed>>
           ELSE /\ neighs' = [neighs EXCEPT ![offsets[v] + invs_needed[v] - 1] = n]
                /\ invs_needed' = [invs_needed EXCEPT ![v] = @ - 1]
    /\ UNCHANGED <<input, el, transpose, degrees, offsets, graph, missing, n, tail_index,
                   phase, threads>>

NextRow ==
    /\ phase = "add" /\ n < num_nodes /\ i >= offsets[n + 1]
    /\ n' = n + 1
    /\ i' = IF n + 1 = num_nodes THEN i ELSE offsets[n + 1] + invs_needed[n + 1]
    /\ UNCHANGED <<input, el, transpose, degrees, offsets, neighs, graph, invs_needed,
                   missing, tail_index, phase, threads>>

SortRows ==
    /\ phase = "add" /\ n = num_nodes
    /\ LET made == [index |-> offsets, neighs |-> neighs]
       IN  out' = [CSR([x \in Nodes |-> Sorted(Row(made, x))]) EXCEPT !.index = offsets]
    /\ in' = out'
    /\ phase' = "built"
    /\ UNCHANGED <<input, el, transpose, degrees, offsets, neighs, inplace, threads>>

-----------------------------------------------------------------------------
Builder ==
    \/ MakeOut \/ MakeIn \/ SquishGraph
    \/ Preprocess \/ OverlayEdge \/ KeepDirected
    \/ ReallocFails \/ MakeRoom \/ MoveNeighbour \/ RowMoved \/ AllMoved
    \/ AddInverse \/ NextRow \/ SortRows
    \/ \E t \in Threads : Take(t) \/ RunsOut(t) \/ EdgeDone(t) \/ Place(t)

-----------------------------------------------------------------------------
(* The neighbours a vertex has in the list, and in the graph to be built.  *)
Listed(u) == {v \in Nodes : v # u /\ <<u, v>> \in ToSet(input.el)}
ListedBy(u) == {v \in Nodes : v # u /\ <<v, u>> \in ToSet(input.el)}
Neighbours(u) == IF symmetrize THEN Listed(u) \cup ListedBy(u) ELSE Listed(u)
Inverses(u) == IF symmetrize THEN Neighbours(u) ELSE ListedBy(u)

BuilderTypeOK ==
    /\ input \in Inputs
    /\ phase \in {"start", "fill", "overlay", "spread", "add", "built", "exit"}
    /\ work \subseteq DOMAIN el /\ DOMAIN todo = Threads
    /\ pc \in [Threads -> {"take", "edge", "end"}]

(* However it was built, a graph has every edge of the list once, in the   *)
(* direction or directions asked for, no self-loop, and sorted rows, which *)
(* the kernels' searches and tc's early exits rely on.                     *)
GraphExact ==
    /\ BuilderTypeOK
    /\ phase = "built" =>
         \A u \in Nodes :
             /\ Row(out, u) = Sorted(SetToSeq(Neighbours(u)))
             /\ Row(in, u) = Sorted(SetToSeq(Inverses(u)))

(* Moving rows up in one array overwrites no neighbour that has not been   *)
(* moved yet: the k-th of a row is at its new place, or at its old one.    *)
NothingOverwritten ==
    phase = "spread" =>
        \A u \in Nodes : \A k \in 1 .. Cardinality(Listed(u)) :
            LET new == offsets[u] + invs_needed[u] + k - 1
                old == new - SumOf(invs_needed, 0 .. u)
            IN  neighs[IF new > tail_index THEN new ELSE old] = Sorted(SetToSeq(Listed(u)))[k]

(* Rows are searched while they grow at the front and are not sorted. Yet  *)
(* no inverse is added twice or forgotten: the filled places of a row hold *)
(* different neighbours, and the free ones wait for exactly the others.    *)
RowsGrowRight ==
    phase = "add" =>
        \A u \in Nodes :
            LET filled == offsets[u] + invs_needed[u] .. offsets[u + 1] - 1
                held == {neighs[s] : s \in filled}
            IN  /\ Cardinality(held) = Cardinality(filled)
                /\ Listed(u) \subseteq held /\ held \subseteq Neighbours(u)
                /\ invs_needed[u] = Cardinality(Neighbours(u) \ held)

(* The in-place build is right at every moment, not only in its result.    *)
InPlaceSound == NothingOverwritten /\ RowsGrowRight
=============================================================================
