------------------------------- MODULE DeltaSSSP -------------------------------
(***************************************************************************)
(* Delta-stepping shortest paths, src/gap/src/sssp.cc (DeltaStep). Threads *)
(* relax the edges of the vertices in a shared frontier, lower distances   *)
(* by compare-and-swap, keep what they have lowered in bins of their own,  *)
(* agree on the least bin anyone still has, and copy that bin into the     *)
(* next frontier. The index of the bin and the length of the frontier are  *)
(* double-buffered: the next iteration's are made while a thread resets    *)
(* the current ones.                                                       *)
(*                                                                         *)
(* One parallel region holds the whole loop: there is no master, only two  *)
(* barriers an iteration. A step of a thread makes one access to memory    *)
(* that another thread may be writing.                                     *)
(*                                                                         *)
(* The frontier has a slot for every edge and the copy into it is not      *)
(* checked. With bins wider than 1 a vertex may be in one bin several      *)
(* times and the copy may run past the end. What the program does then is  *)
(* undefined: that copy has no step, and no claim is made beyond it.       *)
(***************************************************************************)
EXTENDS Integers, Sequences, SequencesExt, FiniteSets, FiniteSetsExt

CONSTANTS
    Threads,
    Inputs,              \* records: n vertices, the rows of the graph, source, delta
    kDistInf,            \* the distance of a vertex not reached (2^30 - 1)
    kMaxBin,             \* the index of no bin (2^63 - 1)
    kBinSizeThreshold    \* how long a bin a thread empties by itself (1000)

ASSUME ThreadsAssumption == Threads # {}

(* No distance falls into the bin that is none.                            *)
ASSUME BoundsAssumption ==
    kDistInf \in Nat \ {0} /\ kMaxBin \in Nat /\ kMaxBin > kDistInf /\ kBinSizeThreshold \in Nat

(* A row holds the edges out of a vertex as pairs: end, weight. There is   *)
(* an edge: SourcePicker looks for a vertex with one.                      *)
ASSUME InputsAssumption ==
    \A g \in Inputs :
        /\ g.n \in Nat /\ g.source \in 0 .. g.n - 1 /\ g.delta \in Nat \ {0}
        /\ g.out_neigh \in [0 .. g.n - 1 -> Seq((0 .. g.n - 1) \X (Nat \ {0}))]
        /\ \E u \in 0 .. g.n - 1 : g.out_neigh[u] # <<>>

VARIABLES
    input, dist,
    frontier,                          \* the vertices of this or the next iteration
    shared_indexes, frontier_tails,    \* by iteration, even and odd
    work,         \* the slots of the frontier nobody has taken
    pc, iter,     \* where a thread is; its count of iterations, even or odd
    local_bins,   \* its bins, a bin it never used the same as an empty one
    curr_bin_copy,\* the rest of the bin it is emptying by itself
    at, todo,     \* RelaxEdges: the vertex u, and its edges still to relax
    old_dist, new_dist,
    copy_start    \* the slots it has reserved in the next frontier

shared == <<frontier, shared_indexes, frontier_tails>>
relaxing == <<at, todo, old_dist, new_dist>>
vars == <<input, dist, shared, work, pc, iter, local_bins, curr_bin_copy, relaxing, copy_start>>

-----------------------------------------------------------------------------
V == 0 .. input.n - 1

out_neigh(u) == input.out_neigh[u]

(* Every edge of the graph, as its vertex and its place in the row.        *)
Edges == UNION {{u} \X DOMAIN out_neigh(u) : u \in V}

(* The length of the frontier's array.                                     *)
num_edges_directed == Cardinality(Edges)

(* The bins that a distance can fall into.                                 *)
Bins == 0 .. kDistInf \div input.delta

curr(t) == iter[t]
next(t) == (iter[t] + 1) % 2

Each(x) == [t \in Threads |-> x]

Init ==
    /\ input \in Inputs
    /\ dist = [v \in V |-> IF v = input.source THEN 0 ELSE kDistInf]
    /\ frontier = [s \in {0} |-> input.source]
    /\ shared_indexes = [i \in 0 .. 1 |-> IF i = 0 THEN 0 ELSE kMaxBin]
    /\ frontier_tails = [i \in 0 .. 1 |-> IF i = 0 THEN 1 ELSE 0]
    /\ work = {0}
    /\ pc = Each("loop") /\ iter = Each(0)
    /\ local_bins = Each([b \in Bins |-> <<>>]) /\ curr_bin_copy = Each(<<>>)
    /\ at = Each(0) /\ todo = Each(<<>>) /\ old_dist = Each(0) /\ new_dist = Each(0)
    /\ copy_start = Each(0)

-----------------------------------------------------------------------------
(* RelaxEdges(u, ...). For each edge: dist[v] is read, then dist[u]; when  *)
(* the sum is less it is swapped in, or dist[v] read again and compared.   *)

Relax(t, u) ==
    /\ at' = [at EXCEPT ![t] = u]
    /\ todo' = [todo EXCEPT ![t] = out_neigh(u)]
    /\ pc' = [pc EXCEPT ![t] = "edge"]

v_(t) == Head(todo[t])[1]
w_(t) == Head(todo[t])[2]

NextEdge(t) ==
    /\ todo' = [todo EXCEPT ![t] = Tail(@)]
    /\ pc' = [pc EXCEPT ![t] = "edge"]

ReadOld(t) ==
    /\ pc[t] = "edge" /\ todo[t] # <<>>
    /\ old_dist' = [old_dist EXCEPT ![t] = dist[v_(t)]]
    /\ pc' = [pc EXCEPT ![t] = "new"]
    /\ UNCHANGED <<dist, work, local_bins, curr_bin_copy, at, todo, new_dist>>

(* Go on while new_dist < old_dist.                                        *)
Compare(t, new, old) ==
    IF new < old THEN pc' = [pc EXCEPT ![t] = "cas"] /\ UNCHANGED todo ELSE NextEdge(t)

ReadNew(t) ==
    /\ pc[t] = "new"
    /\ LET new == dist[at[t]] + w_(t)
       IN  new_dist' = [new_dist EXCEPT ![t] = new] /\ Compare(t, new, old_dist[t])
    /\ UNCHANGED <<dist, work, local_bins, curr_bin_copy, at, old_dist>>

(* Mutant: the lower distance is stored whatever has been stored since.    *)
MutSwap(t) ==
    /\ pc[t] = "cas"
    /\ dist' = [dist EXCEPT ![v_(t)] = new_dist[t]]
    /\ local_bins' = [local_bins EXCEPT ![t][new_dist[t] \div input.delta] = Append(@, v_(t))]
    /\ NextEdge(t)
    /\ UNCHANGED <<work, curr_bin_copy, at, old_dist, new_dist>>

Swap(t) ==
    /\ pc[t] = "cas"
    /\ IF dist[v_(t)] = old_dist[t]
       THEN /\ dist' = [dist EXCEPT ![v_(t)] = new_dist[t]]
            /\ local_bins' = [local_bins EXCEPT ![t][new_dist[t] \div input.delta] =
                                                    Append(@, v_(t))]
            /\ NextEdge(t)
       ELSE pc' = [pc EXCEPT ![t] = "again"] /\ UNCHANGED <<dist, local_bins, todo>>
    /\ UNCHANGED <<work, curr_bin_copy, at, old_dist, new_dist>>

ReadAgain(t) ==
    /\ pc[t] = "again"
    /\ old_dist' = [old_dist EXCEPT ![t] = dist[v_(t)]]
    /\ Compare(t, new_dist[t], dist[v_(t)])
    /\ UNCHANGED <<dist, work, local_bins, curr_bin_copy, at, new_dist>>

(* u is done with: the next of the copied bin, or the next of the frontier.*)
Relaxed(t) ==
    /\ pc[t] = "edge" /\ todo[t] = <<>>
    /\ IF curr_bin_copy[t] = <<>>
       THEN pc' = [pc EXCEPT ![t] = "take"] /\ UNCHANGED <<at, todo, curr_bin_copy>>
       ELSE /\ Relax(t, Head(curr_bin_copy[t]))
            /\ curr_bin_copy' = [curr_bin_copy EXCEPT ![t] = Tail(@)]
    /\ UNCHANGED <<dist, work, local_bins, old_dist, new_dist>>

-----------------------------------------------------------------------------
(* The loop of an iteration.                                               *)

LoopTest(t) ==
    /\ pc[t] = "loop"
    /\ pc' = [pc EXCEPT ![t] = IF shared_indexes[curr(t)] # kMaxBin THEN "take" ELSE "end"]
    /\ UNCHANGED <<dist, work, local_bins, curr_bin_copy, relaxing>>

(* A slot of the frontier is taken; a vertex that has been lowered into an *)
(* earlier bin since is passed over.                                       *)
Take(t) ==
    /\ pc[t] = "take"
    /\ \E i \in work :
         /\ work' = work \ {i}
         /\ IF dist[frontier[i]] >= input.delta * shared_indexes[curr(t)]
            THEN Relax(t, frontier[i]) ELSE UNCHANGED <<pc, at, todo>>
    /\ UNCHANGED <<dist, local_bins, curr_bin_copy, old_dist, new_dist>>

(* The bin a thread has filled for this same index.                        *)
Own(t) == local_bins[t][shared_indexes[curr(t)]]

(* Bin fusion: while it is short, the thread empties it by itself.         *)
TakeOwn(t) ==
    /\ pc[t] = "take" /\ work = {}
    /\ Own(t) # <<>> /\ Len(Own(t)) < kBinSizeThreshold
    /\ local_bins' = [local_bins EXCEPT ![t][shared_indexes[curr(t)]] = <<>>]
    /\ Relax(t, Head(Own(t)))
    /\ curr_bin_copy' = [curr_bin_copy EXCEPT ![t] = Tail(Own(t))]
    /\ UNCHANGED <<dist, work, old_dist, new_dist>>

(* Mutant: the search for a filled bin starts after the current one.       *)
MutFilled(t) == {i \in Bins : i > shared_indexes[curr(t)] /\ local_bins[t][i] # <<>>}

Filled(t) == {i \in Bins : i >= shared_indexes[curr(t)] /\ local_bins[t][i] # <<>>}

(* The critical section: the least filled bin is proposed for the next     *)
(* iteration.                                                              *)
Propose(t) ==
    /\ pc[t] = "take" /\ work = {}
    /\ Own(t) = <<>> \/ Len(Own(t)) >= kBinSizeThreshold
    /\ shared_indexes' = [shared_indexes EXCEPT ![next(t)] = Min(Filled(t) \cup {@})]
    /\ pc' = [pc EXCEPT ![t] = "barrier1"]
    /\ UNCHANGED <<input, dist, frontier, frontier_tails, work, iter, local_bins,
                   curr_bin_copy, relaxing, copy_start>>

(* All have proposed. The first past the barrier executes the single.      *)
Barrier1 ==
    /\ \A t \in Threads : pc[t] = "barrier1"
    /\ \E s \in Threads : pc' = [Each("reserve") EXCEPT ![s] = "single"]
    /\ UNCHANGED <<input, dist, shared, work, iter, local_bins, curr_bin_copy,
                   relaxing, copy_start>>

(* Mutant: the single leaves its own iteration's index as it is.           *)
MutSingle(t) ==
    /\ pc[t] = "single"
    /\ frontier_tails' = [frontier_tails EXCEPT ![curr(t)] = 0]
    /\ pc' = [pc EXCEPT ![t] = "reserve"]
    /\ UNCHANGED <<frontier, shared_indexes, iter, local_bins, copy_start>>

Single(t) ==
    /\ pc[t] = "single"
    /\ shared_indexes' = [shared_indexes EXCEPT ![curr(t)] = kMaxBin]
    /\ frontier_tails' = [frontier_tails EXCEPT ![curr(t)] = 0]
    /\ pc' = [pc EXCEPT ![t] = "reserve"]
    /\ UNCHANGED <<frontier, iter, local_bins, copy_start>>

(* The thread's part of the chosen bin, empty when it has none.            *)
Part(t) == IF shared_indexes[next(t)] \in Bins
           THEN local_bins[t][shared_indexes[next(t)]] ELSE <<>>

(* Mutant: the fetch_and_add gives the tail it leaves, not the one it found. *)
MutReserve(t) ==
    /\ pc[t] = "reserve"
    /\ frontier_tails' = [frontier_tails EXCEPT ![next(t)] = @ + Len(Part(t))]
    /\ copy_start' = [copy_start EXCEPT ![t] = frontier_tails'[next(t)]]
    /\ pc' = [pc EXCEPT ![t] = "copy"]
    /\ UNCHANGED <<frontier, shared_indexes, iter, local_bins>>

(* The fetch_and_add.                                                      *)
Reserve(t) ==
    /\ pc[t] = "reserve"
    /\ copy_start' = [copy_start EXCEPT ![t] = frontier_tails[next(t)]]
    /\ frontier_tails' = [frontier_tails EXCEPT ![next(t)] = @ + Len(Part(t))]
    /\ pc' = [pc EXCEPT ![t] = "copy"]
    /\ UNCHANGED <<frontier, shared_indexes, iter, local_bins>>

(* The thread's part of the bin does not fit into the frontier.            *)
PastEnd(t) == pc[t] = "copy" /\ copy_start[t] + Len(Part(t)) > num_edges_directed

Copy(t) ==
    /\ pc[t] = "copy" /\ ~PastEnd(t)
    /\ LET mine == copy_start[t] .. copy_start[t] + Len(Part(t)) - 1
       IN  frontier' = [s \in DOMAIN frontier \cup mine |->
                          IF s \in mine THEN Part(t)[s - copy_start[t] + 1] ELSE frontier[s]]
    /\ IF Part(t) # <<>>
       THEN local_bins' = [local_bins EXCEPT ![t][shared_indexes[next(t)]] = <<>>]
       ELSE UNCHANGED local_bins
    /\ iter' = [iter EXCEPT ![t] = next(t)]
    /\ pc' = [pc EXCEPT ![t] = "barrier2"]
    /\ UNCHANGED <<shared_indexes, frontier_tails, copy_start>>

(* The loop over the next frontier opens with the iteration.               *)
Barrier2 ==
    /\ \A t \in Threads : pc[t] = "barrier2"
    /\ \E t \in Threads : work' = 0 .. frontier_tails[curr(t)] - 1
    /\ pc' = Each("loop")
    /\ UNCHANGED <<input, dist, shared, iter, local_bins, curr_bin_copy, relaxing, copy_start>>

-----------------------------------------------------------------------------
RelaxEdges(t) ==
    /\ LoopTest(t) \/ Take(t) \/ TakeOwn(t) \/ Relaxed(t)
       \/ ReadOld(t) \/ ReadNew(t) \/ Swap(t) \/ ReadAgain(t)
    /\ UNCHANGED <<input, shared, iter, copy_start>>

Exchange(t) ==
    /\ Single(t) \/ Reserve(t) \/ Copy(t)
    /\ UNCHANGED <<input, dist, work, curr_bin_copy, relaxing>>

ThreadStep(t) == RelaxEdges(t) \/ Propose(t) \/ Exchange(t)

(* A thread is about to copy past the end of the frontier.                 *)
Overrun == \E t \in Threads : PastEnd(t)

(* Every thread has left the loop, or what happens is undefined.           *)
Terminated == ((\A t \in Threads : pc[t] = "end") \/ Overrun) /\ UNCHANGED vars

Next == Barrier1 \/ Barrier2 \/ (\E t \in Threads : ThreadStep(t)) \/ Terminated

Spec == Init /\ [][Next]_vars

(* Threads run; a barrier opens when all have come.                        *)
FairSpec == Spec /\ WF_vars(Barrier1 \/ Barrier2) /\ \A t \in Threads : WF_vars(ThreadStep(t))

-----------------------------------------------------------------------------
(* Reference: where the walks of up to d edges lead, and their lengths.    *)
Walks(g) ==
    LET W[d \in Nat] ==
          IF d = 0 THEN {<<g.source, 0>>}
          ELSE W[d - 1] \cup UNION {{<<e[1], x[2] + e[2]>> : e \in ToSet(g.out_neigh[x[1]])} :
                                     x \in W[d - 1]}
    IN  W

Shortest(g) ==
    LET W == Walks(g)[g.n - 1]
    IN  [v \in 0 .. g.n - 1 |-> Min({kDistInf} \cup {x[2] : x \in {y \in W : y[1] = v}})]

(* The variables have their types.                                         *)
TypeOK ==
    /\ input \in Inputs
    /\ dist \in [V -> 0 .. kDistInf]
    /\ DOMAIN frontier \in SUBSET (0 .. num_edges_directed - 1) /\ frontier \in [DOMAIN frontier -> V]
    /\ shared_indexes \in [0 .. 1 -> Bins \cup {kMaxBin}]
    /\ frontier_tails \in [0 .. 1 -> Nat]
    /\ work \in SUBSET DOMAIN frontier
    /\ iter \in [Threads -> 0 .. 1]
    /\ pc \in [Threads -> {"loop", "take", "edge", "new", "cas", "again", "barrier1",
                           "single", "reserve", "copy", "barrier2", "end"}]
    /\ local_bins \in [Threads -> [Bins -> Seq(V)]]
    /\ curr_bin_copy \in [Threads -> Seq(V)]
    /\ at \in [Threads -> V] /\ todo \in [Threads -> Seq(V \X (Nat \ {0}))]
    /\ old_dist \in [Threads -> Nat] /\ new_dist \in [Threads -> Nat]
    /\ copy_start \in [Threads -> Nat]

(* The slots of the next frontier that are reserved and not yet written.   *)
Unfilled == UNION {copy_start[t] .. copy_start[t] + Len(Part(t)) - 1 :
                     t \in {x \in Threads : pc[x] = "copy"}}

(* The slots of the frontier still to be taken: in this iteration or, once *)
(* threads have begun to copy, in the next.                                *)
Slots == LET reserved == UNION {0 .. frontier_tails[curr(t)] - 1 :
                                  t \in {x \in Threads : pc[x] = "barrier2"}}
         IN  work \cup (reserved \ Unfilled)

(* No lowered distance is forgotten, whatever the interleaving of swaps:   *)
(* while u can still lower v, u is in a slot of the frontier that is still *)
(* to be taken, in the bin of someone that its distance belongs to, in a   *)
(* copied bin, or someone is at that very edge or before it. The loop can  *)
(* therefore stop when all bins are empty.                                 *)
NothingForgotten ==
    \A u \in V : \A e \in ToSet(out_neigh(u)) :
        dist[u] + e[2] < dist[e[1]] =>
            \/ \E s \in Slots \cap DOMAIN frontier : frontier[s] = u
            \/ \E t \in Threads :
                 \/ u \in ToSet(local_bins[t][dist[u] \div input.delta])
                 \/ u \in ToSet(curr_bin_copy[t])
                 \/ at[t] = u /\ e \in ToSet(todo[t])

(* Distances are never below the shortest; when an iteration begins they   *)
(* are exact for every vertex nearer than the bin it works on, and when    *)
(* the threads have left the loop for all (what SSSPVerifier checks).      *)
DistancesExact ==
    LET shortest == Shortest(input)
    IN  /\ TypeOK
        /\ \A v \in V : dist[v] >= shortest[v]
        /\ \A t \in Threads : pc[t] = "loop" =>
             \A v \in V : \/ dist[v] = shortest[v]
                          \/ shortest[v] >= input.delta * shared_indexes[curr(t)]
        /\ (\A t \in Threads : pc[t] = "end") => dist = shortest

(* All threads leave the loop: none decides to stop while another goes on  *)
(* to wait at a barrier, and no relaxation is retried for good. Only an    *)
(* overrun of the frontier is another end.                                 *)
SearchEnds == <>((\A t \in Threads : pc[t] = "end") \/ Overrun)

(* With bins of width 1, the default of -d, the unchecked copy stays in    *)
(* the frontier: a bin holds the vertices of one distance, and a vertex    *)
(* comes to a distance once, whatever swaps race, so that the threads'     *)
(* parts of a bin are together no longer than there are vertices with an   *)
(* edge to them.                                                           *)
FrontierFits == input.delta = 1 => ~Overrun

=============================================================================
