------------------------------ MODULE FrontierBFS ------------------------------
(***************************************************************************)
(* The direction-optimizing breadth-first search of src/gap/src/bfs.cc     *)
(* (DOBFS) with the structures its threads share: the array of parents,    *)
(* claimed by compare-and-swap; the sliding queue, which a thread fills    *)
(* from a buffer of its own by reserving slots and copying into them       *)
(* later; and two bitmaps, of the frontier and of the next frontier.       *)
(*                                                                         *)
(* The master forks a parallel region (its letter in the code's log is     *)
(* `phase`), the threads share out the iterations, and the master goes on  *)
(* when all have ended. A step of a thread makes at most one access to     *)
(* memory that another thread may be writing.                              *)
(***************************************************************************)
EXTENDS Integers, Sequences, SequencesExt, FiniteSets, FiniteSetsExt

CONSTANTS
    Threads,
    Inputs,       \* records: n vertices, directed edges, their rows, source, alpha, beta
    local_size,   \* of a QueueBuffer
    kBitsPerWord,
    ChunkSize     \* of the dynamic schedule of BUStep (1024)

ASSUME SizesAssumption ==
    /\ local_size \in Nat \ {0} /\ kBitsPerWord \in Nat \ {0}
    /\ ChunkSize \in Nat \ {0} /\ ChunkSize % kBitsPerWord = 0

ASSUME ThreadsAssumption == Threads # {}

(* A row holds the out-neighbours of a vertex, each once.                  *)
ASSUME InputsAssumption ==
    \A g \in Inputs :
        /\ g.n \in Nat /\ g.source \in 0 .. g.n - 1
        /\ g.edges \subseteq (0 .. g.n - 1) \X (0 .. g.n - 1)
        /\ g.out_neigh \in [0 .. g.n - 1 -> Seq(0 .. g.n - 1)]
        /\ \A u \in 0 .. g.n - 1 : /\ IsInjective(g.out_neigh[u])
                                  /\ ToSet(g.out_neigh[u]) = {e[2] : e \in {d \in g.edges : d[1] = u}}
        /\ {g.alpha, g.beta} \subseteq Nat \ {0}

VARIABLES
    input,            \* the graph, the source and the two parameters
    parent,           \* negative while a vertex is unvisited
    shared, shared_in, shared_out_start, shared_out_end,   \* the sliding queue
    front, curr,      \* the bitmaps, as the sets of their bits
    scout_count, edges_to_check, awake_count, old_awake_count,
    phase,            \* where the master is
    work,             \* the iterations of the region nobody has taken
    pc,               \* where each thread is in the region
    at,               \* the vertex (top-down) or the range of vertices at hand
    nth,              \* top-down: how many of its neighbours are done
    seen,             \* the value or word it has read, to compare or to extend
    local_queue,      \* its QueueBuffer
    hold,             \* vertices it could not push before a flush
    copy_start        \* the slots its flush has reserved

queue == <<shared, shared_in, shared_out_start, shared_out_end>>
counts == <<scout_count, edges_to_check, awake_count, old_awake_count>>
buffer == <<local_queue, hold, copy_start>>
master == <<input, phase, edges_to_check, old_awake_count, shared_out_start, shared_out_end>>
vars == <<input, parent, queue, front, curr, counts, phase, work, pc, at, nth,
          seen, buffer>>

-----------------------------------------------------------------------------
V == 0 .. input.n - 1
Succ(u) == {v \in V : <<u, v>> \in input.edges}
Pred(u) == {v \in V : <<v, u>> \in input.edges}
out_neigh(u) == input.out_neigh[u]

TruncDiv(a, b) == IF a >= 0 THEN a \div b ELSE -((-a) \div b)

Word(v) == {x \in V : x \div kBitsPerWord = v \div kBitsPerWord}

InitParent == [v \in V |-> IF Succ(v) # {} THEN -Cardinality(Succ(v)) ELSE -1]

(* The queue's empty(), size() and the slots between begin() and end().    *)
QueueEmpty == shared_out_start = shared_out_end
QueueSize == shared_out_end - shared_out_start
Window == shared_out_start .. shared_out_end - 1

SlideWindow == /\ shared_out_start' = shared_out_end
               /\ shared_out_end' = shared_in

NoSlot == -1      \* what a slot holds before it is filled

Each(x) == [t \in Threads |-> x]

Init ==
    /\ input \in Inputs
    /\ parent = [InitParent EXCEPT ![input.source] = input.source]
    /\ shared = [s \in V |-> IF s = 0 THEN input.source ELSE NoSlot]
    /\ shared_in = 1 /\ shared_out_start = 0 /\ shared_out_end = 1
    /\ front = {} /\ curr = {}
    /\ scout_count = Cardinality(Succ(input.source))
    /\ edges_to_check = Cardinality(input.edges)
    /\ awake_count = 0 /\ old_awake_count = 0
    /\ phase = "loop" /\ work = {}
    /\ pc = Each("end")
    /\ at = Each({}) /\ nth = Each(0) /\ seen = Each({})
    /\ local_queue = Each(<<>>) /\ hold = Each(<<>>) /\ copy_start = Each(0)

-----------------------------------------------------------------------------
(* The master. Fork(p, w) opens the parallel region p over iterations w,   *)
(* with fresh local variables for each thread.                             *)

Fork(p, w) ==
    /\ phase' = p /\ work' = w
    /\ pc' = Each("take")
    /\ at' = Each({}) /\ nth' = Each(0) /\ seen' = Each({})
    /\ local_queue' = Each(<<>>) /\ hold' = Each(<<>>) /\ copy_start' = Each(0)
    /\ UNCHANGED <<input, parent, shared, shared_in>>

Joined(p) == phase = p /\ \A t \in Threads : pc[t] = "end"

(* Mutant: chunks that do not start with a word of the bitmap.             *)
MutChunks ==
    {{v \in V : (v + 1) \div ChunkSize = c} : c \in 0 .. input.n \div ChunkSize} \ {{}}

(* The iterations a thread takes at once in BUStep.                        *)
Chunks == {{v \in V : v \div ChunkSize = c} : c \in 0 .. (input.n - 1) \div ChunkSize}

BeginTD == edges_to_check' = edges_to_check - scout_count /\ scout_count' = 0

(* One round of the outer loop: the direction is chosen, or the search is  *)
(* over and the vertices still unvisited get parent -1.                    *)
BottomUp ==
    /\ phase = "loop" /\ ~QueueEmpty
    /\ scout_count > TruncDiv(edges_to_check, input.alpha)
    /\ Fork("e", Window)
    /\ UNCHANGED <<front, curr, counts, shared_out_start, shared_out_end>>

TopDown ==
    /\ phase = "loop" /\ ~QueueEmpty
    /\ scout_count <= TruncDiv(edges_to_check, input.alpha)
    /\ BeginTD
    /\ Fork("td", Window)
    /\ UNCHANGED <<front, curr, awake_count, old_awake_count, shared_out_start, shared_out_end>>

Finish ==
    /\ phase = "loop" /\ QueueEmpty
    /\ phase' = "done"
    /\ parent' = [v \in V |-> IF parent[v] < -1 THEN -1 ELSE parent[v]]
    /\ UNCHANGED <<input, queue, front, curr, counts, work, pc, at, nth, seen, buffer>>

TDEnds ==
    /\ Joined("td")
    /\ phase' = "loop" /\ SlideWindow
    /\ UNCHANGED <<input, parent, shared, shared_in, front, curr, counts, work, pc,
                   at, nth, seen, buffer>>

(* A pass of BUStep starts: the size of the frontier is remembered and     *)
(* the next frontier's bitmap cleared.                                     *)
BeginBU(size) ==
    /\ old_awake_count' = size /\ awake_count' = 0
    /\ curr' = {}

BUStarts ==
    /\ Joined("e")
    /\ BeginBU(QueueSize) /\ SlideWindow
    /\ Fork("bu", Chunks)
    /\ UNCHANGED <<front, scout_count, edges_to_check>>

(* Mutant: >= for > in the test of the loop.                               *)
MutBUContinues == \/ awake_count >= old_awake_count
                  \/ awake_count >= input.n \div input.beta

BUContinues == \/ awake_count >= old_awake_count
               \/ awake_count > input.n \div input.beta

(* A pass has ended: the bitmaps are swapped, and the next pass clears     *)
(* the one that was the frontier.                                          *)
BUAgain ==
    /\ Joined("bu") /\ BUContinues
    /\ BeginBU(awake_count) /\ front' = curr
    /\ Fork("bu", Chunks)
    /\ UNCHANGED <<shared_out_start, shared_out_end, scout_count, edges_to_check>>

BUEnds ==
    /\ Joined("bu") /\ ~BUContinues
    /\ front' = curr /\ curr' = front
    /\ Fork("c", V)
    /\ UNCHANGED <<shared_out_start, shared_out_end, counts>>

QueueFilled ==
    /\ Joined("c")
    /\ phase' = "loop" /\ SlideWindow
    /\ scout_count' = 1
    /\ UNCHANGED <<input, parent, shared, shared_in, front, curr, edges_to_check,
                   awake_count, old_awake_count, work, pc, at, nth, seen, buffer>>

-----------------------------------------------------------------------------
(* A thread's buffer. push_back keeps v when there is room, and otherwise  *)
(* flushes first: Reserve (the fetch_and_add), Copy, and then the push.    *)

PushBack(t, v, then) ==
    IF Len(local_queue[t]) < local_size
    THEN /\ local_queue' = [local_queue EXCEPT ![t] = Append(@, v)]
         /\ pc' = [pc EXCEPT ![t] = then]
         /\ UNCHANGED hold
    ELSE /\ hold' = [hold EXCEPT ![t] = <<v>>]
         /\ pc' = [pc EXCEPT ![t] = "reserve"]
         /\ UNCHANGED local_queue

Reserve(t) ==
    /\ pc[t] = "reserve"
    /\ pc' = [pc EXCEPT ![t] = "copy"]
    /\ copy_start' = [copy_start EXCEPT ![t] = shared_in]
    /\ shared_in' = shared_in + Len(local_queue[t])
    /\ UNCHANGED <<shared, local_queue, hold>>

AfterPush == IF phase = "td" THEN "look" ELSE "take"

Copy(t) ==
    /\ pc[t] = "copy"
    /\ shared' = [s \in DOMAIN shared |->
                    IF s - copy_start[t] \in 0 .. Len(local_queue[t]) - 1
                    THEN local_queue[t][s - copy_start[t] + 1] ELSE shared[s]]
    /\ local_queue' = [local_queue EXCEPT ![t] = hold[t]]
    /\ hold' = [hold EXCEPT ![t] = <<>>]
    /\ pc' = [pc EXCEPT ![t] = IF hold[t] = <<>> THEN "end" ELSE AfterPush]
    /\ UNCHANGED <<shared_in, copy_start>>

(* Mutant: without the last lqueue.flush().                                *)
MutRunsOut(t) ==
    /\ pc[t] = "take" /\ work = {}
    /\ pc' = [pc EXCEPT ![t] = "end"]
    /\ UNCHANGED <<shared, shared_in, buffer>>

(* No iteration is left: a thread that buffers flushes, and ends.          *)
RunsOut(t) ==
    /\ pc[t] = "take" /\ work = {}
    /\ pc' = [pc EXCEPT ![t] = IF phase \in {"td", "c"} THEN "reserve" ELSE "end"]
    /\ UNCHANGED <<shared, shared_in, buffer>>

-----------------------------------------------------------------------------
(* QueueToBitmap: every vertex of the window is set in `front` by          *)
(* compare-and-swap of its word.                                           *)

TakeQueued(t) ==
    /\ pc[t] = "take"
    /\ \E s \in work : work' = work \ {s} /\ at' = [at EXCEPT ![t] = {shared[s]}]
    /\ pc' = [pc EXCEPT ![t] = "read_word"]
    /\ UNCHANGED <<front, seen>>

ReadWord(t) ==
    /\ pc[t] = "read_word"
    /\ seen' = [seen EXCEPT ![t] = front \cap Word(Min(at[t]))]
    /\ pc' = [pc EXCEPT ![t] = "cas_word"]
    /\ UNCHANGED <<front, work, at>>

CasWord(t) ==
    /\ pc[t] = "cas_word"
    /\ IF front \cap Word(Min(at[t])) = seen[t]
       THEN front' = front \cup at[t] /\ pc' = [pc EXCEPT ![t] = "take"]
       ELSE pc' = [pc EXCEPT ![t] = "read_word"] /\ UNCHANGED front
    /\ UNCHANGED <<work, at, seen>>

-----------------------------------------------------------------------------
(* BUStep: chunks of vertices are handed out in order. An unvisited vertex *)
(* takes as parent its first in-neighbour in the frontier, and its bit in  *)
(* the next frontier is set by a plain read and write of the word.         *)

TakeChunk(t) ==
    /\ pc[t] = "take" /\ work # {}
    /\ \E c \in work :
         /\ \A d \in work : Min(c) <= Min(d)
         /\ at' = [at EXCEPT ![t] = c]
         /\ work' = work \ {c}
    /\ pc' = [pc EXCEPT ![t] = "scan"]
    /\ UNCHANGED <<parent, curr, awake_count, seen>>

(* Mutant: BUStep without its test of parent[u].                           *)
MutFound(u) == Pred(u) \cap front # {}

Found(u) == parent[u] < 0 /\ Pred(u) \cap front # {}

(* The next vertex of the chunk that has a parent in the frontier.         *)
Adopt(t) ==
    /\ pc[t] = "scan"
    /\ \E u \in at[t] :
         /\ Found(u) /\ \A x \in at[t] : x < u => ~Found(x)
         /\ parent' = [parent EXCEPT ![u] = Min(Pred(u) \cap front)]
         /\ seen' = [seen EXCEPT ![t] = curr \cap Word(u)]
         /\ at' = [at EXCEPT ![t] = {x \in @ : x >= u}]
    /\ awake_count' = awake_count + 1
    /\ pc' = [pc EXCEPT ![t] = "set_bit"]
    /\ UNCHANGED <<curr, work>>

SetBit(t) ==
    /\ pc[t] = "set_bit"
    /\ LET u == Min(at[t])
       IN  /\ curr' = (curr \ Word(u)) \cup seen[t] \cup {u}
           /\ at' = [at EXCEPT ![t] = @ \ {u}]
    /\ pc' = [pc EXCEPT ![t] = "scan"]
    /\ UNCHANGED <<parent, awake_count, work, seen>>

ChunkEnds(t) ==
    /\ pc[t] = "scan" /\ \A u \in at[t] : ~Found(u)
    /\ pc' = [pc EXCEPT ![t] = "take"]
    /\ at' = [at EXCEPT ![t] = {}]
    /\ UNCHANGED <<parent, curr, awake_count, work, seen>>

-----------------------------------------------------------------------------
(* BitmapToQueue: the vertices whose bit is set are pushed.                *)
TakeBit(t) ==
    /\ pc[t] = "take"
    /\ \E v \in work :
         /\ work' = work \ {v}
         /\ IF v \in front THEN PushBack(t, v, "take")
            ELSE UNCHANGED <<pc, local_queue, hold>>
    /\ UNCHANGED <<parent, scout_count, at, nth, seen>>

-----------------------------------------------------------------------------
(* TDStep: each out-neighbour of a vertex of the window whose parent is    *)
(* read as negative is claimed by compare-and-swap.                        *)

TakeVertex(t) ==
    /\ pc[t] = "take"
    /\ \E s \in work : work' = work \ {s} /\ at' = [at EXCEPT ![t] = {shared[s]}]
    /\ nth' = [nth EXCEPT ![t] = 0]
    /\ pc' = [pc EXCEPT ![t] = "look"]
    /\ UNCHANGED <<parent, scout_count, seen, local_queue, hold>>

Neighbours(t) == out_neigh(Min(at[t]))

Unvisited(val) == val < 0

(* parent[*v] is read into curr_val.                                       *)
Look(t) ==
    /\ pc[t] = "look" /\ nth[t] < Len(Neighbours(t))
    /\ LET curr_val == parent[Neighbours(t)[nth[t] + 1]]
       IN  IF Unvisited(curr_val)
           THEN /\ seen' = [seen EXCEPT ![t] = {curr_val}]
                /\ pc' = [pc EXCEPT ![t] = "claim"]
                /\ UNCHANGED nth
           ELSE /\ nth' = [nth EXCEPT ![t] = @ + 1]
                /\ UNCHANGED <<seen, pc>>
    /\ UNCHANGED <<parent, scout_count, work, at, local_queue, hold>>

(* Mutant: a plain write of parent[*v].                                    *)
MutClaim(t) ==
    /\ pc[t] = "claim"
    /\ nth' = [nth EXCEPT ![t] = @ + 1]
    /\ LET v == Neighbours(t)[nth[t] + 1]
       IN  /\ parent' = [parent EXCEPT ![v] = Min(at[t])]
           /\ scout_count' = scout_count - Min(seen[t])
           /\ PushBack(t, v, "look")
    /\ UNCHANGED <<work, at, seen>>

Claim(t) ==
    /\ pc[t] = "claim"
    /\ nth' = [nth EXCEPT ![t] = @ + 1]
    /\ LET v == Neighbours(t)[nth[t] + 1]
       IN  IF {parent[v]} = seen[t]
           THEN /\ parent' = [parent EXCEPT ![v] = Min(at[t])]
                /\ scout_count' = scout_count - parent[v]
                /\ PushBack(t, v, "look")
           ELSE /\ pc' = [pc EXCEPT ![t] = "look"]
                /\ UNCHANGED <<parent, scout_count, local_queue, hold>>
    /\ UNCHANGED <<work, at, seen>>

VertexEnds(t) ==
    /\ pc[t] = "look" /\ nth[t] = Len(Neighbours(t))
    /\ pc' = [pc EXCEPT ![t] = "take"]
    /\ UNCHANGED <<parent, scout_count, work, at, nth, seen, local_queue, hold>>

-----------------------------------------------------------------------------
(* What each region leaves alone, whatever its threads do.                 *)

Flushing(t) ==
    /\ Reserve(t) \/ Copy(t) \/ RunsOut(t)
    /\ UNCHANGED <<master, parent, front, curr, scout_count, awake_count, work, at, nth, seen>>

QueueToBitmap(t) ==
    /\ phase = "e"
    /\ TakeQueued(t) \/ ReadWord(t) \/ CasWord(t)
    /\ UNCHANGED <<master, parent, shared, shared_in, curr, scout_count, awake_count, nth, buffer>>

BUStep(t) ==
    /\ phase = "bu"
    /\ TakeChunk(t) \/ Adopt(t) \/ SetBit(t) \/ ChunkEnds(t)
    /\ UNCHANGED <<master, shared, shared_in, front, scout_count, nth, buffer>>

Exploring ==
    UNCHANGED <<master, shared, shared_in, front, curr, awake_count, copy_start>>

BitmapToQueue(t) == phase = "c" /\ TakeBit(t) /\ Exploring

TDStep(t) ==
    /\ phase = "td"
    /\ TakeVertex(t) \/ Look(t) \/ Claim(t) \/ VertexEnds(t)
    /\ Exploring

ThreadStep(t) ==
    Flushing(t) \/ QueueToBitmap(t) \/ BUStep(t) \/ BitmapToQueue(t) \/ TDStep(t)

MasterStep ==
    \/ BottomUp \/ TopDown \/ Finish \/ TDEnds
    \/ BUStarts \/ BUAgain \/ BUEnds \/ QueueFilled

(* The search has returned.                                                *)
Terminated == phase = "done" /\ UNCHANGED vars

Next == MasterStep \/ (\E t \in Threads : ThreadStep(t)) \/ Terminated

Spec == Init /\ [][Next]_vars

(* Every thread of the team runs; no step waits for anything but a join.   *)
FairSpec == Spec /\ WF_vars(MasterStep) /\ \A t \in Threads : WF_vars(ThreadStep(t))

-----------------------------------------------------------------------------
(* Reference: the vertices within d edges of the source, and the distance. *)

Levels(g) ==
    LET W[d \in 0 .. g.n] ==
          IF d = 0 THEN {g.source}
          ELSE W[d - 1] \cup UNION {ToSet(g.out_neigh[u]) : u \in W[d - 1]}
    IN  W

Within == Levels(input)
Dist(v) == Min({d \in 0 .. input.n : v \in Within[d]})
Ring(d) == {v \in Within[d] : Dist(v) = d}
Reachable == Within[input.n]
Visited == {v \in V : parent[v] >= 0}

(* The variables have their types: threads are at labels of the region the *)
(* master has opened, a buffer holds local_size vertices at most, and the  *)
(* queue never needs more slots than there are vertices.                   *)
TypeOK ==
    /\ input \in Inputs
    /\ parent \in [V -> -input.n .. input.n - 1]
    /\ shared \in [V -> V \cup {NoSlot}]
    /\ {shared_out_start, shared_out_end, shared_in} \subseteq 0 .. input.n
    /\ shared_out_start <= shared_out_end /\ shared_out_end <= shared_in
    /\ front \subseteq V /\ curr \subseteq V
    /\ {awake_count, old_awake_count} \subseteq 0 .. input.n
    /\ scout_count \in 0 .. Cardinality(input.edges) + input.n
    /\ edges_to_check \in Int
    /\ phase \in {"loop", "e", "bu", "c", "td", "done"}
    /\ work \in CASE phase = "bu" -> SUBSET Chunks
                   [] phase = "c" -> SUBSET V
                   [] OTHER -> SUBSET Window
    /\ pc \in [Threads -> {"take", "end"} \cup
                  CASE phase = "e" -> {"read_word", "cas_word"}
                    [] phase = "bu" -> {"scan", "set_bit"}
                    [] phase = "td" -> {"look", "claim", "reserve", "copy"}
                    [] phase = "c" -> {"reserve", "copy"}
                    [] OTHER -> {}]
    /\ at \in [Threads -> SUBSET V]
    /\ seen \in [Threads -> SUBSET (-input.n .. input.n - 1)]
    /\ local_queue \in [Threads -> Seq(V)]
    /\ hold \in [Threads -> {<<>>} \cup {<<v>> : v \in V}]
    /\ nth \in [Threads -> 0 .. input.n] /\ copy_start \in [Threads -> 0 .. input.n]
    /\ \A t \in Threads : Len(local_queue[t]) <= local_size

(* Whatever mix of directions and interleaving of claims, parent is at     *)
(* every moment a tree of shortest paths, and when the search returns it   *)
(* spans exactly what can be reached (what BFSVerifier checks after a run).*)
TreeExact ==
    /\ \A v \in Visited \ {input.source} :
         /\ <<parent[v], v>> \in input.edges
         /\ Dist(v) = Dist(parent[v]) + 1
    /\ parent[input.source] = input.source
    /\ phase = "done" => /\ Visited = Reachable
                         /\ \A v \in V \ Visited : parent[v] = -1

(* When the master looks at the queue, every slot of the window has been   *)
(* filled, although slots are reserved and filled in two steps, and the    *)
(* window is the whole frontier: everything nearer has been visited,       *)
(* nothing farther has.                                                    *)
WindowExact ==
    phase = "loop" =>
        LET window == {shared[s] : s \in Window}
        IN  /\ shared_in = shared_out_end
            /\ IF window = {} THEN Visited = Reachable
               ELSE \E d \in 0 .. input.n : window = Ring(d) /\ Visited = Within[d]

(* No vertex is enqueued twice: those in filled slots and in the threads'  *)
(* buffers are all different. The shared array, one slot a vertex, is      *)
(* therefore never overrun, and no two flushes write one slot.             *)
EnqueuedOnce ==
    LET filled == {s \in V : shared[s] # NoSlot}
        waiting(t) == ToSet(local_queue[t] \o hold[t])
    IN  /\ TypeOK
        /\ \A s, r \in filled : shared[s] = shared[r] => s = r
        /\ \A t \in Threads :
             /\ IsInjective(local_queue[t] \o hold[t])
             /\ waiting(t) \cap {shared[s] : s \in filled} = {}
             /\ \A w \in Threads \ {t} : waiting(t) \cap waiting(w) = {}
             /\ pc[t] = "copy" => \A s \in filled :
                  s \notin copy_start[t] .. copy_start[t] + Len(local_queue[t]) - 1

(* `front` is not cleared between two bottom-up phases. During a pass it   *)
(* holds the whole current frontier, and the bits left from the phase      *)
(* before are of vertices whose out-neighbours have all been visited, so   *)
(* that none of them can be taken for a parent. When the pass is over the  *)
(* next frontier's bitmap holds what it has visited, no more and no less,  *)
(* and awake_count is its size: no bit is lost to another thread's write   *)
(* of the same word.                                                       *)
BitmapsExact ==
    phase = "bu" =>
        LET d == Max({Dist(v) : v \in front})
            next == IF d = input.n THEN d ELSE d + 1
        IN  /\ Ring(d) \subseteq front
            /\ \A v \in front \ Ring(d) : Succ(v) \subseteq Visited
            /\ Joined("bu") =>
                 /\ curr = IF d = input.n THEN {} ELSE Ring(next)
                 /\ Visited = Within[next]
                 /\ awake_count = Cardinality(curr)

(* Both representations of the frontier are right when they are used, and  *)
(* so are the conversions from one into the other.                         *)
FrontierExact == WindowExact /\ BitmapsExact

(* The search returns: neither loop goes on with an empty frontier, and no *)
(* compare-and-swap is retried for good.                                   *)
SearchEnds == <>(phase = "done")

=============================================================================
