------------------------------- MODULE BrandesBC -------------------------------
(***************************************************************************)
(* Betweenness centrality, src/gap/src/bc.cc: for each source a breadth-   *)
(* first search counts the shortest paths to every vertex and marks the    *)
(* edges they end with (PBFS); a sweep back from the farthest level turns  *)
(* the counts into dependencies, which are added to the scores (Brandes).  *)
(*                                                                         *)
(* The search is one parallel region with two barriers a level; `phase` is *)
(* where the master is. Nobody reads a slot of the queue, a bit of succ or *)
(* a count of the level being made before a barrier, so a flush of a       *)
(* buffer is one step here (FrontierBFS has its two), as is the marking of *)
(* an edge and the addition of its count.                                  *)
(***************************************************************************)
EXTENDS Integers, Sequences, SequencesExt, FiniteSets, FiniteSetsExt

CONSTANTS
    Threads,
    Inputs,        \* records: n vertices, directed edges, the sources picked
    local_size,    \* of a QueueBuffer
    Unit           \* what a score of 1 is represented by

ASSUME SizesAssumption == local_size \in Nat \ {0} /\ Unit \in Nat \ {0}

ASSUME InputsAssumption ==
    \A g \in Inputs :
        /\ ToSet(g.sources) \subseteq 0 .. g.n - 1
        /\ \A e \in g.edges : {e[1], e[2]} \subseteq 0 .. g.n - 1

VARIABLES
    input, run,           \* iter of Brandes: how many sources have been begun
    depths, path_counts,
    succ,                 \* the bitmap, as the set of the edges whose bit is set
    queue,                \* the filled slots, shared_out_start and shared_out_end
    depth_index,          \* where each level starts in the queue
    deltas, scores,
    phase, d,             \* the master; the level it sweeps
    work,                 \* the iterations of the loop nobody has taken
    pc, depth, at, todo, lqueue

slots == queue.slots
Window == queue.out_start .. queue.out_end - 1
local == <<depth, at, todo, lqueue>>
vars == <<input, run, depths, path_counts, succ, queue, depth_index, deltas, scores,
          phase, d, work, pc, local>>

-----------------------------------------------------------------------------
V == 0 .. input.n - 1
Succ(u) == {v \in V : <<u, v>> \in input.edges}
out_neigh(u) == SetToSortSeq(Succ(u), <)
source == input.sources[run]

Each(x) == [t \in Threads |-> x]
Joined(p) == phase = p /\ \A t \in Threads : pc[t] = "end"

EmptyQueue == [slots |-> <<>>, out_start |-> 0, out_end |-> 0]
Slide(q) == [q EXCEPT !.out_start = q.out_end, !.out_end = Len(q.slots)]

Init ==
    /\ input \in Inputs /\ run = 0
    /\ scores = [v \in V |-> 0]
    /\ depths = [v \in V |-> -1] /\ path_counts = [v \in V |-> 0]
    /\ deltas = [v \in V |-> 0]
    /\ succ = {} /\ queue = EmptyQueue /\ depth_index = <<>>
    /\ phase = "next" /\ d = 0 /\ work = {}
    /\ pc = Each("end") /\ depth = Each(0) /\ at = Each(0)
    /\ todo = Each(<<>>) /\ lqueue = Each(<<>>)

-----------------------------------------------------------------------------
(* The master: an iteration of Brandes resets what the last one has left,  *)
(* and PBFS begins with the source in the queue.                           *)

(* Mutant: the successor bits of the last source are kept.                 *)
MutPickNext ==
    /\ phase = "next" /\ run < Len(input.sources)
    /\ run' = run + 1 /\ phase' = "search"
    /\ LET s == input.sources[run + 1]
       IN  /\ depths' = [v \in V |-> IF v = s THEN 0 ELSE -1]
           /\ path_counts' = [v \in V |-> IF v = s THEN 1 ELSE 0]
           /\ queue' = Slide([EmptyQueue EXCEPT !.slots = <<s>>])
    /\ depth_index' = <<0>>
    /\ work' = {0} /\ pc' = Each("loop") /\ depth' = Each(0)
    /\ UNCHANGED <<input, succ, deltas, scores, d, at, todo, lqueue>>

PickNext ==
    /\ phase = "next" /\ run < Len(input.sources)
    /\ run' = run + 1 /\ phase' = "search"
    /\ LET s == input.sources[run + 1]
       IN  /\ depths' = [v \in V |-> IF v = s THEN 0 ELSE -1]
           /\ path_counts' = [v \in V |-> IF v = s THEN 1 ELSE 0]
           /\ queue' = Slide([EmptyQueue EXCEPT !.slots = <<s>>])
    /\ succ' = {}
    /\ depth_index' = <<0>>
    /\ work' = {0} /\ pc' = Each("loop") /\ depth' = Each(0)
    /\ UNCHANGED <<input, deltas, scores, d, at, todo, lqueue>>

(* Slots of level d, and the parallel loop over them.                      *)
Level(k) == depth_index'[k + 1] .. depth_index'[k + 2] - 1

Sweep(k) ==
    /\ phase' = "sweep" /\ d' = k
    /\ work' = Level(k) /\ pc' = Each("take")
    /\ UNCHANGED <<input, run, depths, path_counts, succ, queue, scores, local>>

(* The search has ended: the last index, and the farthest level.           *)
SearchEnds ==
    /\ Joined("search")
    /\ depth_index' = Append(depth_index, queue.out_start)
    /\ deltas' = [v \in V |-> 0]
    /\ Sweep(Len(depth_index) - 1)

SweepOn ==
    /\ Joined("sweep") /\ d > 0
    /\ UNCHANGED <<depth_index, deltas>>
    /\ Sweep(d - 1)

SweepEnds ==
    /\ Joined("sweep") /\ d = 0
    /\ phase' = "next"
    /\ UNCHANGED <<input, run, depths, path_counts, succ, queue, depth_index, deltas,
                   scores, d, work, pc, local>>

-----------------------------------------------------------------------------
(* PBFS.                                                                   *)

LoopTest(t) ==
    /\ pc[t] = "loop"
    /\ IF Window = {}
       THEN pc' = [pc EXCEPT ![t] = "end"] /\ UNCHANGED depth
       ELSE pc' = [pc EXCEPT ![t] = "take"] /\ depth' = [depth EXCEPT ![t] = @ + 1]
    /\ UNCHANGED <<depths, path_counts, succ, queue, work, at, todo, lqueue>>

Take(t) ==
    /\ pc[t] = "take"
    /\ \E i \in work :
         /\ work' = work \ {i}
         /\ at' = [at EXCEPT ![t] = slots[i + 1]]
         /\ todo' = [todo EXCEPT ![t] = out_neigh(slots[i + 1])]
    /\ pc' = [pc EXCEPT ![t] = "look"]
    /\ UNCHANGED <<depths, path_counts, succ, queue, depth, lqueue>>

(* depths[*v] == -1 ?                                                      *)
Look(t) ==
    /\ pc[t] = "look"
    /\ pc' = [pc EXCEPT ![t] = IF todo[t] = <<>> THEN "take"
                               ELSE IF depths[Head(todo[t])] = -1 THEN "claim" ELSE "check"]
    /\ UNCHANGED <<depths, path_counts, succ, queue, work, local>>

(* The compare-and-swap, and a push that flushes the buffer when it is     *)
(* full.                                                                   *)
Claim(t) ==
    /\ pc[t] = "claim"
    /\ LET v == Head(todo[t])
           full == Len(lqueue[t]) >= local_size
       IN  IF depths[v] = -1
           THEN /\ depths' = [depths EXCEPT ![v] = depth[t]]
                /\ queue' = IF full THEN [queue EXCEPT !.slots = @ \o lqueue[t]] ELSE queue
                /\ lqueue' = [lqueue EXCEPT ![t] = IF full THEN <<v>> ELSE Append(@, v)]
           ELSE UNCHANGED <<depths, queue, lqueue>>
    /\ pc' = [pc EXCEPT ![t] = "check"]
    /\ UNCHANGED <<path_counts, succ, work, depth, at, todo>>

(* Mutant: only the thread that has found v adds its count.                *)
MutCheck(t) ==
    /\ pc[t] = "check"
    /\ LET v == Head(todo[t])
       IN  pc' = [pc EXCEPT ![t] = IF depths[v] = depth[t] /\ v \in ToSet(lqueue[t])
                                   THEN "count" ELSE "look"]
    /\ todo' = IF pc'[t] = "look" THEN [todo EXCEPT ![t] = Tail(@)] ELSE todo
    /\ UNCHANGED <<depths, path_counts, succ, queue, work, depth, at, lqueue>>

(* depths[*v] == depth ? Also when another thread has found v.             *)
Check(t) ==
    /\ pc[t] = "check"
    /\ pc' = [pc EXCEPT ![t] = IF depths[Head(todo[t])] = depth[t] THEN "count" ELSE "look"]
    /\ todo' = IF pc'[t] = "look" THEN [todo EXCEPT ![t] = Tail(@)] ELSE todo
    /\ UNCHANGED <<depths, path_counts, succ, queue, work, depth, at, lqueue>>

(* set_bit_atomic and the atomic addition.                                 *)
Count(t) ==
    /\ pc[t] = "count"
    /\ LET v == Head(todo[t])
       IN  /\ succ' = succ \cup {<<at[t], v>>}
           /\ path_counts' = [path_counts EXCEPT ![v] = @ + path_counts[at[t]]]
    /\ todo' = [todo EXCEPT ![t] = Tail(@)]
    /\ pc' = [pc EXCEPT ![t] = "look"]
    /\ UNCHANGED <<depths, queue, work, depth, at, lqueue>>

(* Mutant: a thread with nothing to flush leaves the loop.                 *)
MutFlush(t) ==
    /\ pc[t] = "take" /\ work = {}
    /\ queue' = [queue EXCEPT !.slots = @ \o lqueue[t]]
    /\ lqueue' = [lqueue EXCEPT ![t] = <<>>]
    /\ pc' = [pc EXCEPT ![t] = IF lqueue[t] = <<>> THEN "end" ELSE "barrier"]
    /\ UNCHANGED <<depths, path_counts, succ, work, depth, at, todo>>

(* Nothing is left to take: flush, and wait for the others.                *)
Flush(t) ==
    /\ pc[t] = "take" /\ work = {}
    /\ queue' = [queue EXCEPT !.slots = @ \o lqueue[t]]
    /\ lqueue' = [lqueue EXCEPT ![t] = <<>>]
    /\ pc' = [pc EXCEPT ![t] = "barrier"]
    /\ UNCHANGED <<depths, path_counts, succ, work, depth, at, todo>>

(* All have come; one executes the single while the others wait at its end.*)
LevelEnds ==
    /\ phase = "search" /\ \A t \in Threads : pc[t] = "barrier"
    /\ depth_index' = Append(depth_index, queue.out_start)
    /\ queue' = Slide(queue)
    /\ work' = queue'.out_start .. queue'.out_end - 1
    /\ pc' = Each("loop")
    /\ UNCHANGED <<input, run, depths, path_counts, succ, deltas, scores, phase, d, local>>

PBFS(t) ==
    /\ phase = "search"
    /\ LoopTest(t) \/ Take(t) \/ Look(t) \/ Claim(t) \/ Check(t) \/ Count(t) \/ Flush(t)
    /\ UNCHANGED <<input, run, depth_index, deltas, scores, phase, d>>

-----------------------------------------------------------------------------
(* The sweep back: a vertex reads the counts and dependencies of its       *)
(* successors, all of the next level and finished.                         *)

delta(u) == MapThenSumSet(LAMBDA v : (path_counts[u] * (Unit + deltas[v])) \div path_counts[v],
                          {v \in Succ(u) : <<u, v>> \in succ})

Accumulate(t) ==
    /\ pc[t] = "take"
    /\ \E i \in work :
         LET u == slots[i + 1]
         IN  /\ work' = work \ {i}
             /\ deltas' = [deltas EXCEPT ![u] = delta(u)]
             /\ scores' = [scores EXCEPT ![u] = @ + delta(u)]
    /\ UNCHANGED pc

SweptOut(t) ==
    /\ pc[t] = "take" /\ work = {}
    /\ pc' = [pc EXCEPT ![t] = "end"]
    /\ UNCHANGED <<work, deltas, scores>>

Dependencies(t) ==
    /\ phase = "sweep"
    /\ Accumulate(t) \/ SweptOut(t)
    /\ UNCHANGED <<input, run, depths, path_counts, succ, queue, depth_index, phase, d, local>>

MasterStep == PickNext \/ SearchEnds \/ SweepOn \/ SweepEnds \/ LevelEnds
ThreadStep(t) == PBFS(t) \/ Dependencies(t)

AllDone == phase = "next" /\ run = Len(input.sources)
Terminated == AllDone /\ UNCHANGED vars

Next == MasterStep \/ (\E t \in Threads : ThreadStep(t)) \/ Terminated

Spec == Init /\ [][Next]_vars

(* Threads run; a barrier opens when all have come.                        *)
FairSpec == Spec /\ WF_vars(MasterStep) /\ \A t \in Threads : WF_vars(ThreadStep(t))

-----------------------------------------------------------------------------
(* Reference: the shortest paths from s, as sequences of vertices.         *)

Walks(s) ==
    LET W[k \in 1 .. input.n] ==
          IF k = 1 THEN {<<s>>}
          ELSE UNION {{Append(p, v) : v \in Succ(p[k - 1])} : p \in W[k - 1]}
    IN  UNION {W[k] : k \in 1 .. input.n}

ShortestTo(W, v) ==
    LET to == {p \in W : p[Len(p)] = v}
    IN  {p \in to : \A q \in to : Len(p) <= Len(q)}

(* The dependency of s on u: the share of the shortest paths to t that run *)
(* through u, summed over t.                                               *)
Dependency(s, u) ==
    LET W == Walks(s)
        through(t) == {p \in ShortestTo(W, t) : u \in ToSet(p)}
    IN  MapThenSumSet(LAMBDA t : (Unit * Cardinality(through(t))) \div Cardinality(ShortestTo(W, t)),
                      {t \in V \ {u} : through(t) # {}})

(* The variables have their types; the queue has a slot for every vertex,  *)
(* and no vertex is in two of them.                                        *)
TypeOK ==
    /\ input \in Inputs /\ run \in 0 .. Len(input.sources)
    /\ depths \in [V -> -1 .. input.n] /\ path_counts \in [V -> Nat]
    /\ succ \subseteq input.edges
    /\ ToSet(slots) \subseteq V /\ IsInjective(slots)
    /\ 0 <= queue.out_start /\ queue.out_start <= queue.out_end /\ queue.out_end <= Len(slots)
    /\ ToSet(depth_index) \subseteq 0 .. input.n
    /\ deltas \in [V -> Nat] /\ scores \in [V -> Nat]
    /\ phase \in {"next", "search", "sweep"} /\ d \in 0 .. input.n + 1
    /\ work \subseteq 0 .. input.n
    /\ pc \in [Threads -> {"loop", "take", "look", "claim", "check", "count", "barrier", "end"}]
    /\ \A t \in Threads :
         /\ depth[t] \in 0 .. input.n /\ at[t] \in V
         /\ ToSet(todo[t]) \cup ToSet(lqueue[t]) \subseteq V /\ Len(lqueue[t]) <= local_size

(* When the search is over every shortest path has been counted once,      *)
(* though several threads find a vertex at once: path_counts[v] is the     *)
(* number of shortest paths to v, succ the edges they consist of, and      *)
(* depth_index cuts the queue into the levels.                             *)
PathsCounted ==
    Joined("search") =>
        LET W == Walks(source)
            all == depth_index \o <<queue.out_start>>
        IN  /\ \A v \in V : path_counts[v] = Cardinality(ShortestTo(W, v))
            /\ succ = {e \in input.edges :
                         \E p \in ShortestTo(W, e[2]) : Len(p) > 1 /\ p[Len(p) - 1] = e[1]}
            /\ \A k \in 1 .. Len(all) - 1 :
                 {slots[i] : i \in all[k] + 1 .. all[k + 1]} =
                     {v \in V : \E p \in ShortestTo(W, v) : Len(p) = k - 1}
            /\ all[Len(all)] = Len(slots)

(* When the kernel returns, a vertex's score is the sum over the sources   *)
(* of their dependencies on it, nothing being left of one source in the    *)
(* computation of the next (what BCVerifier recomputes serially).          *)
ScoresExact ==
    /\ TypeOK
    /\ AllDone => \A u \in V : scores[u] =
         MapThenSumSet(LAMBDA k : Dependency(input.sources[k], u), DOMAIN input.sources)

(* The kernel returns: the levels come to an end, and the threads agree on *)
(* which is the last.                                                      *)
ScoresReturned == <>AllDone

=============================================================================
