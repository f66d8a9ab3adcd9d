-------------------------- MODULE ConnectedComponents --------------------------
(***************************************************************************)
(* The two kernels of src/gap/src that label the vertices of a graph with  *)
(* their connected components: Afforest (cc.cc), which links trees by      *)
(* compare-and-swap and skips what it takes for the largest component, and *)
(* Shiloach-Vishkin (cc_sv.cc), which hooks roots by plain stores and      *)
(* repeats. In both, threads climb, hook and flatten the trees of `comp`   *)
(* while others do the same.                                               *)
(*                                                                         *)
(* The master opens a parallel region (`phase`), the threads share out the *)
(* vertices, and the master goes on when all have ended. A step of a       *)
(* thread makes one access to `comp`.                                      *)
(***************************************************************************)
EXTENDS Integers, Sequences, SequencesExt, FiniteSets, FiniteSetsExt

CONSTANTS
    Threads,
    Inputs,             \* records: n vertices, edges, directed, algorithm,
                        \* and the rows of out- and of in-neighbours
    neighbor_rounds     \* of Afforest's sampling

ASSUME ThreadsAssumption == Threads # {}

ASSUME RoundsAssumption == neighbor_rounds \in Nat

ASSUME InputsAssumption ==
    \A g \in Inputs :
        /\ g.n \in Nat \ {0} /\ g.algorithm \in {"afforest", "sv"}
        /\ g.edges \subseteq (0 .. g.n - 1) \X (0 .. g.n - 1)
        /\ g.out \in [0 .. g.n - 1 -> Seq(0 .. g.n - 1)]
        /\ g.in \in [0 .. g.n - 1 -> Seq(0 .. g.n - 1)]
        /\ \A x \in 0 .. g.n - 1 :
             /\ ToSet(g.out[x]) = {y \in 0 .. g.n - 1 : <<x, y>> \in g.edges}
             /\ ToSet(g.in[x]) = {y \in 0 .. g.n - 1 : <<y, x>> \in g.edges}
        /\ ~g.directed => \A e \in g.edges : <<e[2], e[1]>> \in g.edges

VARIABLES
    input,
    comp,         \* the parent of each vertex in its tree, in the end its label
    phase,        \* the region the master has opened
    r,            \* the round of sampling
    c,            \* the label Afforest takes for the largest component
    change,       \* Shiloach-Vishkin: a hook was made in this iteration
    work,         \* the vertices of the region nobody has taken
    pc, at,       \* where a thread is, and its vertex u (or n)
    todo,         \* the neighbours u has yet to be linked with, v first
    p1, p2,       \* the two vertices Link has reached (comp_u and comp_v)
    got           \* the value it has read, to climb by or to store

local == <<at, todo, p1, p2, got>>
vars == <<input, comp, phase, r, c, change, work, pc, local>>

-----------------------------------------------------------------------------
V == 0 .. input.n - 1

(* The neighbours in the order the builder left them, from an offset on.   *)
out_neigh(u, offset) == SubSeq(input.out[u], offset + 1, Len(input.out[u]))
FirstOf(s) == IF s = <<>> THEN <<>> ELSE <<Head(s)>>
in_neigh(u) == input.in[u]

(* Mutant: the lower vertex taken for the higher.                          *)
MutHigh(t) == IF p1[t] < p2[t] THEN p1[t] ELSE p2[t]

high(t) == IF p1[t] > p2[t] THEN p1[t] ELSE p2[t]
low(t) == p1[t] + (p2[t] - high(t))

Each(x) == [t \in Threads |-> x]

Init ==
    /\ input \in Inputs
    /\ comp = [n \in V |-> n]
    /\ phase = "start" /\ r = 0 /\ c = 0 /\ change = TRUE
    /\ work = {} /\ pc = Each("end")
    /\ at = Each(0) /\ todo = Each(<<>>)
    /\ p1 = Each(0) /\ p2 = Each(0) /\ got = Each(0)

-----------------------------------------------------------------------------
(* The master.                                                             *)

Fork(p) ==
    /\ phase' = p /\ work' = V
    /\ pc' = Each("take")
    /\ at' = Each(0) /\ todo' = Each(<<>>)
    /\ p1' = Each(0) /\ p2' = Each(0) /\ got' = Each(0)
    /\ UNCHANGED <<input, comp>>

Joined(p) == phase = p /\ \A t \in Threads : pc[t] = "end"

Between == phase = "start" \/ Joined("compress")

(* Afforest: rounds of sampling, each followed by a compression; then the  *)
(* remaining edges, and a last compression.                                *)
Sample ==
    /\ input.algorithm = "afforest" /\ Between /\ r < neighbor_rounds
    /\ Fork("sample")
    /\ UNCHANGED <<r, c, change>>

CompressSample ==
    /\ Joined("sample")
    /\ r' = r + 1
    /\ Fork("compress")
    /\ UNCHANGED <<c, change>>

(* Any label can turn out the most frequent of the ones sampled.           *)
SampleFrequentElement == {comp[n] : n \in V}

LinkRest ==
    /\ input.algorithm = "afforest" /\ Between /\ r = neighbor_rounds
    /\ c' \in SampleFrequentElement
    /\ Fork("link")
    /\ UNCHANGED <<r, change>>

CompressLast ==
    /\ Joined("link")
    /\ Fork("flatten")
    /\ UNCHANGED <<r, c, change>>

(* Mutant: Shiloach-Vishkin never clears `change`.                         *)
MutHookAll ==
    /\ input.algorithm = "sv"
    /\ phase = "start" \/ Joined("flatten")
    /\ change
    /\ change' = TRUE
    /\ Fork("hook")
    /\ UNCHANGED <<r, c>>

(* Shiloach-Vishkin: hooks and compressions until nothing has changed.     *)
HookAll ==
    /\ input.algorithm = "sv"
    /\ phase = "start" \/ Joined("flatten")
    /\ change
    /\ change' = FALSE
    /\ Fork("hook")
    /\ UNCHANGED <<r, c>>

CompressHooked ==
    /\ Joined("hook")
    /\ Fork("flatten")
    /\ UNCHANGED <<r, c, change>>

Return ==
    /\ Joined("flatten")
    /\ input.algorithm = "sv" => ~change
    /\ phase' = "done"
    /\ UNCHANGED <<input, comp, r, c, change, work, pc, local>>

-----------------------------------------------------------------------------
(* A thread takes a vertex. In the last link phase it passes over those    *)
(* whose label is c.                                                       *)

(* Mutant: the in-neighbours of a directed graph are forgotten.            *)
MutLinks(u) ==
    CASE phase = "sample" -> FirstOf(out_neigh(u, r))
      [] phase = "link" -> out_neigh(u, neighbor_rounds)
      [] phase = "hook" -> out_neigh(u, 0)
      [] OTHER -> <<>>

(* The neighbours a phase links u with.                                    *)
Links(u) ==
    CASE phase = "sample" -> FirstOf(out_neigh(u, r))
      [] phase = "link" -> out_neigh(u, neighbor_rounds)
                             \o (IF input.directed THEN in_neigh(u) ELSE <<>>)
      [] phase = "hook" -> out_neigh(u, 0)
      [] OTHER -> <<>>

Take(t) ==
    /\ pc[t] = "take"
    /\ \E u \in work :
         /\ work' = work \ {u}
         /\ at' = [at EXCEPT ![t] = u]
         /\ todo' = [todo EXCEPT ![t] = Links(u)]
    /\ pc' = [pc EXCEPT ![t] = CASE phase = "link" -> "test"
                                 [] phase \in {"sample", "hook"} -> "edge"
                                 [] OTHER -> "climb"]
    /\ UNCHANGED <<comp, change, p1, p2, got>>

RunsOut(t) ==
    /\ pc[t] = "take" /\ work = {}
    /\ pc' = [pc EXCEPT ![t] = "end"]
    /\ UNCHANGED <<comp, change, work, local>>

Test(t) ==
    /\ pc[t] = "test"
    /\ pc' = [pc EXCEPT ![t] = IF comp[at[t]] = c THEN "take" ELSE "edge"]
    /\ UNCHANGED <<comp, change, work, local>>

(* Link(u, v) begins: comp[u], then comp[v].                               *)
ReadU(t) ==
    /\ pc[t] = "edge"
    /\ IF todo[t] = <<>>
       THEN pc' = [pc EXCEPT ![t] = "take"] /\ UNCHANGED p1
       ELSE pc' = [pc EXCEPT ![t] = "v"] /\ p1' = [p1 EXCEPT ![t] = comp[at[t]]]
    /\ UNCHANGED <<comp, change, work, at, todo, p2, got>>

NextEdge(t) ==
    /\ pc' = [pc EXCEPT ![t] = "edge"]
    /\ todo' = [todo EXCEPT ![t] = Tail(@)]

(* p2 is read; when it equals p1 the edge is done with.                    *)
ReadP2(t, x) ==
    /\ p2' = [p2 EXCEPT ![t] = comp[x]]
    /\ IF comp[x] = p1[t] THEN NextEdge(t)
       ELSE pc' = [pc EXCEPT ![t] = "high"] /\ UNCHANGED todo
    /\ UNCHANGED <<comp, change, work, at, p1, got>>

ReadV(t) == pc[t] = "v" /\ ReadP2(t, Head(todo[t]))

(* p_high = comp[high]: Link is done when it is low, tries to hook when it *)
(* is a root, and otherwise climbs; Shiloach-Vishkin hooks roots only.     *)
ReadHigh(t) ==
    /\ pc[t] = "high"
    /\ LET p_high == comp[high(t)]
           root == p_high = high(t)
       IN  \/ /\ input.algorithm = "afforest" /\ p_high = low(t)
              /\ NextEdge(t) /\ UNCHANGED change
           \/ /\ input.algorithm = "afforest" /\ p_high # low(t)
              /\ pc' = [pc EXCEPT ![t] = IF root THEN "cas" ELSE "up"]
              /\ UNCHANGED <<todo, change>>
           \/ /\ input.algorithm = "sv" /\ root
              /\ change' = TRUE
              /\ pc' = [pc EXCEPT ![t] = "store"] /\ UNCHANGED todo
           \/ /\ input.algorithm = "sv" /\ ~root
              /\ NextEdge(t) /\ UNCHANGED change
    /\ UNCHANGED <<comp, work, at, p1, p2, got>>

(* Mutant: Link hooks by a plain store.                                    *)
MutCas(t) ==
    /\ pc[t] = "cas"
    /\ comp' = [comp EXCEPT ![high(t)] = low(t)] /\ NextEdge(t)
    /\ UNCHANGED <<change, work, at, p1, p2, got>>

Cas(t) ==
    /\ pc[t] = "cas"
    /\ IF comp[high(t)] = high(t)
       THEN comp' = [comp EXCEPT ![high(t)] = low(t)] /\ NextEdge(t)
       ELSE pc' = [pc EXCEPT ![t] = "up"] /\ UNCHANGED <<comp, todo>>
    /\ UNCHANGED <<change, work, at, p1, p2, got>>

(* The hook of Shiloach-Vishkin.                                           *)
Store(t) ==
    /\ pc[t] = "store"
    /\ comp' = [comp EXCEPT ![high(t)] = low(t)]
    /\ NextEdge(t)
    /\ UNCHANGED <<change, work, at, p1, p2, got>>

(* p1 = comp[comp[high]], by two reads, and p2 = comp[low]. `low` is still *)
(* the one computed at the top of the loop, kept here in got.              *)
Up(t) ==
    /\ pc[t] = "up"
    /\ pc' = [pc EXCEPT ![t] = "upper"]
    /\ p1' = [p1 EXCEPT ![t] = comp[high(t)]]
    /\ got' = [got EXCEPT ![t] = low(t)]
    /\ UNCHANGED <<comp, change, work, at, todo, p2>>

Upper(t) ==
    /\ pc[t] = "upper"
    /\ pc' = [pc EXCEPT ![t] = "low"]
    /\ p1' = [p1 EXCEPT ![t] = comp[p1[t]]]
    /\ UNCHANGED <<comp, change, work, at, todo, p2, got>>

ReadLow(t) == pc[t] = "low" /\ ReadP2(t, got[t])

-----------------------------------------------------------------------------
(* Compress: comp[n] is replaced by its parent's parent until the two are  *)
(* the same. Nobody else writes comp[n] in the meantime; its parent may    *)
(* move between the test and the second read.                              *)

Climb(t) ==
    /\ pc[t] = "climb"
    /\ pc' = [pc EXCEPT ![t] = IF comp[at[t]] = comp[comp[at[t]]] THEN "take" ELSE "grand"]
    /\ UNCHANGED <<comp, change, work, local>>

Grand(t) ==
    /\ pc[t] = "grand"
    /\ pc' = [pc EXCEPT ![t] = "jump"]
    /\ got' = [got EXCEPT ![t] = comp[comp[at[t]]]]
    /\ UNCHANGED <<comp, change, work, at, todo, p1, p2>>

Jump(t) ==
    /\ pc[t] = "jump"
    /\ pc' = [pc EXCEPT ![t] = "climb"]
    /\ comp' = [comp EXCEPT ![at[t]] = got[t]]
    /\ UNCHANGED <<change, work, local>>

-----------------------------------------------------------------------------
ThreadStep(t) ==
    /\ \/ Take(t) \/ RunsOut(t) \/ Test(t)
       \/ ReadU(t) \/ ReadV(t) \/ ReadHigh(t) \/ Cas(t) \/ Store(t)
       \/ Up(t) \/ Upper(t) \/ ReadLow(t)
       \/ Climb(t) \/ Grand(t) \/ Jump(t)
    /\ UNCHANGED <<input, phase, r, c>>

MasterStep ==
    \/ Sample \/ CompressSample \/ LinkRest \/ CompressLast
    \/ HookAll \/ CompressHooked \/ Return

(* The labels have been returned.                                          *)
Terminated == phase = "done" /\ UNCHANGED vars

Next == MasterStep \/ (\E t \in Threads : ThreadStep(t)) \/ Terminated

Spec == Init /\ [][Next]_vars

(* Every thread of the team runs; the only wait is for the join.           *)
FairSpec == Spec /\ WF_vars(MasterStep) /\ \A t \in Threads : WF_vars(ThreadStep(t))

-----------------------------------------------------------------------------
(* Reference: the sets of vertices no edge leaves are the unions of        *)
(* components; w is connected with v when no such set tells them apart.    *)
Unions == {S \in SUBSET V : \A e \in input.edges : e[1] \in S <=> e[2] \in S}
Component(v) == {w \in V : \A S \in Unions : v \in S => w \in S}

(* The same of the trees of comp.                                          *)
TreeUnions == {S \in SUBSET V : \A x \in V : x \in S <=> comp[x] \in S}
SameTree(u, v) == \A S \in TreeUnions : u \in S <=> v \in S

(* The variables have their types.                                         *)
TypeOK ==
    /\ input \in Inputs
    /\ comp \in [V -> V]
    /\ phase \in {"start", "sample", "compress", "link", "hook", "flatten", "done"}
    /\ r \in 0 .. neighbor_rounds /\ c \in V /\ change \in BOOLEAN
    /\ work \subseteq V
    /\ pc \in [Threads -> {"take", "end", "test", "edge", "v", "high", "cas", "store",
                           "up", "upper", "low", "climb", "grand", "jump"}]
    /\ at \in [Threads -> V] /\ p1 \in [Threads -> V]
    /\ p2 \in [Threads -> V] /\ got \in [Threads -> V]
    /\ todo \in [Threads -> Seq(V)]

(* However hooks, climbs and jumps interleave, a parent is never above its *)
(* child, so that the trees have no cycle for a climb to be caught in, and *)
(* never in another component.                                             *)
ForestSound == TypeOK /\ \A v \in V : comp[v] <= v /\ comp[v] \in Component(v)

(* Afforest never undoes a link: a step leaves the trees as they are, or   *)
(* joins two of them between which there is an edge. (Shiloach-Vishkin may *)
(* lose a hook to another thread's store and must come back to the edge.)  *)
Merges ==
    input.algorithm = "afforest" =>
        \E J \in {{}} \cup {{e} : e \in input.edges} :
            \A u, v \in V :
                SameTree(u, v)' <=>
                    \/ SameTree(u, v)
                    \/ \E e \in J : \/ SameTree(u, e[1]) /\ SameTree(v, e[2])
                                    \/ SameTree(u, e[2]) /\ SameTree(v, e[1])

OnlyMerges == [][Merges]_comp

(* What a region leaves behind once all its threads have ended. Sampling:  *)
(* u and its neighbour of that round are in one tree. The last links: all  *)
(* edges are, those of the vertices passed over included. A compression:   *)
(* every tree is flat. And when the kernel returns the labels are exactly  *)
(* the components, each named by its least vertex (what CCVerifier checks  *)
(* after a run).                                                           *)
RegionsDeliver ==
    /\ Joined("sample") =>
         \A u \in V : \A v \in ToSet(Links(u)) : SameTree(u, v)
    /\ Joined("link") \/ (Joined("hook") /\ ~change) =>
         \A e \in input.edges : SameTree(e[1], e[2])
    /\ Joined("compress") \/ Joined("flatten") => \A v \in V : comp[comp[v]] = comp[v]
    /\ phase = "done" => \A v \in V : comp[v] = Min(Component(v))

(* The kernel returns: no Link retries for good, and Shiloach-Vishkin runs *)
(* out of hooks although it may lose some.                                 *)
LabellingEnds == <>(phase = "done")

=============================================================================
