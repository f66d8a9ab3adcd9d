-------------------------------- MODULE RadixJoin --------------------------------
(***************************************************************************)
(* The parallel radix join of                                              *)
(* src/hpc/hashjoin-ph-2/src/parallel_radix_join.c (join_init_run with     *)
(* bucket_chaining_join or histogram_join, and the sequential RJ) on the   *)
(* task queues of task_queue.h.                                            *)
(*                                                                         *)
(* All threads partition both relations by the low bits of the keys; the   *)
(* first makes a task of each pair of partitions; threads take tasks,      *)
(* partition them by the next bits, and queue join tasks. A partition that *)
(* is too large is divided by all threads together, and a join that is too *)
(* large is split among them. Then the join tasks are joined.              *)
(*                                                                         *)
(* Between barriers threads write places of the arrays that others do not  *)
(* look at (RangesDisjoint), so that a pass over a range is one step; the  *)
(* tuples histogram_join moves are written one by one, since the parts of  *)
(* a split join are moved to the same place.                               *)
(***************************************************************************)
EXTENDS Integers, Sequences, SequencesExt, FiniteSets, FiniteSetsExt

CONSTANTS
    nthreads,
    NUM_RADIX_BITS,
    SMALL_PADDING_TUPLES,  \* between partitions in the second pass
    L1_CACHE_TUPLES,       \* a partition of so many per thread is large
    Inputs                 \* records: the keys of R and S, the join function

ASSUME SizesAssumption ==
    /\ nthreads \in Nat \ {0} /\ NUM_RADIX_BITS \in Nat \ {0, 1}
    /\ SMALL_PADDING_TUPLES \in Nat /\ L1_CACHE_TUPLES \in Nat

ASSUME InputsAssumption ==
    \A in \in Inputs : in.R \in Seq(Nat) /\ in.S \in Seq(Nat) /\ in.join \in {"PRO", "PRH"}

Threads == 0 .. nthreads - 1

(* Mutant: no gap between the partitions of the first pass.                *)
MutPADDING_TUPLES == 0

(* The bits of each pass, and the gaps between partitions.                 *)
Bits1 == NUM_RADIX_BITS \div 2
Bits2 == NUM_RADIX_BITS - Bits1
FANOUT_PASS1 == 2 ^ Bits1
FANOUT_PASS2 == 2 ^ Bits2
PADDING_TUPLES == SMALL_PADDING_TUPLES * (FANOUT_PASS2 + 1)
THRESHOLD1 == nthreads * L1_CACHE_TUPLES
thresh1 == (IF Bits2 > Bits1 THEN FANOUT_PASS2 ELSE 2 ^ Bits1) * THRESHOLD1

VARIABLES
    input,
    tuples,     \* the arrays rel and tmp of R and of S: positions in the input, or 0
    hist,       \* histR and histS, by thread
    output,     \* of each thread: outputR and outputS
    queue,      \* the part, join and skew queues: slots, head first, and allocation
    slots,      \* the tasks in the slots that have been handed out
    skewtask,
    pc, after,  \* where a thread is; where it goes on after the barrier
    pass, x,    \* which partitioning pass, and of which relation
    task,       \* the slot in hand
    fresh,      \* the slot of the join task it is about to add
    i,          \* the loop index
    results

partition == <<hist, output, pass, x>>
queues == <<queue, slots, skewtask>>
local == <<task, fresh, i, results>>
vars == <<input, tuples, partition, queues, pc, after, local>>

-----------------------------------------------------------------------------
(* HASH_BIT_MODULO of a key, for the D bits above the lowest R.            *)
HASH_BIT_MODULO(key, D, R) == (key \div 2 ^ R) % 2 ^ D

Key(y, id) == input[y][id]
Other(side) == IF side = "rel" THEN "tmp" ELSE "rel"
Positions(s) == s.start .. s.start + s.n - 1

(* The positions of s, in a given array, whose tuples belong in cluster c. *)
InCluster(y, side, s, c, D, R) ==
    {p \in Positions(s) : HASH_BIT_MODULO(Key(y, tuples[y][side][p]), D, R) = c}

Cluster(y, side, s, p, D, R) == HASH_BIT_MODULO(Key(y, tuples[y][side][p]), D, R)

(* The copy of s to the other array, cluster c from position dst[c] on.    *)
CopyOut(y, side, s, dst, D, R) ==
    LET c(p) == Cluster(y, side, s, p, D, R)
        to(p) == dst[c(p)] + Cardinality({q \in InCluster(y, side, s, c(p), D, R) : q < p})
        to_set == {to(p) : p \in Positions(s)}
    IN  [q \in DOMAIN tuples[y][Other(side)] |->
           IF q \in to_set THEN tuples[y][side][CHOOSE p \in Positions(s) : to(p) = q]
           ELSE tuples[y][Other(side)][q]]

(* f[from] + ... + f[to - 1], added up in this order.                      *)
SumOver(f, from, to) ==
    LET sums[k \in from .. to] == IF k = from THEN 0 ELSE sums[k - 1] + f[k - 1]
    IN  sums[to]

SumBelow(f, c) == SumOver(f, 0, c)
Zero(n) == [j \in 0 .. n - 1 |-> 0]

ArraySize(y) == Len(input[y]) + PADDING_TUPLES * FANOUT_PASS1

Each(v) == [t \in Threads |-> v]
NoSlot == <<>>
EmptyQueue == [list |-> <<>>, blocks |-> 1, curr |-> 0]

Init ==
    /\ input \in Inputs
    /\ tuples = [y \in {"R", "S"} |->
         [rel |-> [p \in 0 .. ArraySize(y) - 1 |-> IF p < Len(input[y]) THEN p + 1 ELSE 0],
          tmp |-> [p \in 0 .. ArraySize(y) - 1 |-> 0]]]
    /\ hist = [y \in {"R", "S"} |-> Each(Zero(FANOUT_PASS1))]
    /\ output = Each([y \in {"R", "S"} |-> Zero(FANOUT_PASS1 + 1)])
    /\ queue = [q \in {"part", "join", "skew"} |-> EmptyQueue]
    /\ slots = [s \in {} |-> NoSlot] /\ skewtask = NoSlot
    /\ pc = Each("start") /\ after = Each("hist")
    /\ pass = Each(1) /\ x = Each("R")
    /\ task = Each(NoSlot) /\ fresh = Each(NoSlot) /\ i = Each(0) /\ results = Each(0)

-----------------------------------------------------------------------------
(* pthread_barrier_wait, whichever of its calls the threads have come to.  *)

Arrive(t, next) ==
    /\ pc' = [pc EXCEPT ![t] = "barrier"]
    /\ after' = [after EXCEPT ![t] = next]

Goto(t, next) == pc' = [pc EXCEPT ![t] = next] /\ UNCHANGED after

Barrier ==
    /\ \A t \in Threads : pc[t] = "barrier"
    /\ pc' = after
    /\ UNCHANGED <<input, tuples, partition, queues, after, local>>

Start(t) ==
    /\ pc[t] = "start"
    /\ Arrive(t, "hist")
    /\ UNCHANGED <<tuples, partition, queues, local>>

-----------------------------------------------------------------------------
(* task_queue.h. A slot comes from the last block, or from a new one.      *)

alloc_size(q) == IF q = "join" THEN 2 ^ NUM_RADIX_BITS ELSE FANOUT_PASS1

(* task_queue_get_slot from the queue qu, called q.                        *)
get_slot(qu, q) ==
    LET room == qu.curr < alloc_size(q)
        free == [blocks |-> IF room THEN qu.blocks ELSE qu.blocks + 1,
                 curr |-> IF room THEN qu.curr + 1 ELSE 1]
    IN  [slot |-> <<q, free.blocks, free.curr>>,
         queue |-> [list |-> qu.list, blocks |-> free.blocks, curr |-> free.curr]]

add(qu, slot) == [qu EXCEPT !.list = <<slot>> \o @]

Holding(slot, tk) == [s \in DOMAIN slots \cup {slot} |-> IF s = slot THEN tk ELSE slots[s]]

(* The first thread's unlocked calls: a slot is got, filled and added.     *)
AddTask(q, tk) ==
    LET g == get_slot(queue[q], q)
    IN  /\ queue' = [queue EXCEPT ![q] = add(g.queue, g.slot)]
        /\ slots' = Holding(g.slot, tk)

(* Mutant: the thread that takes a task leaves it in the queue.            *)
MutGetTask(q, slot) ==
    /\ slot = (IF queue[q].list = <<>> THEN NoSlot ELSE Head(queue[q].list))
    /\ UNCHANGED queue

(* task_queue_get_atomic gives the head, or nothing.                       *)
GetTask(q, slot) ==
    \/ queue[q].list = <<>> /\ slot = NoSlot /\ UNCHANGED queue
    \/ /\ queue[q].list # <<>> /\ slot = Head(queue[q].list)
       /\ queue' = [queue EXCEPT ![q].list = Tail(@)]

-----------------------------------------------------------------------------
(* parallel_radix_partition, of relation x: in the first pass the whole of *)
(* it, in the second what skewtask says.                                   *)

Part(t) ==
    IF pass[t] = 1
    THEN [side |-> "rel", start |-> 0, n |-> Len(input[x[t]]),
          R |-> 0, D |-> Bits1, padding |-> PADDING_TUPLES]
    ELSE [side |-> "tmp", start |-> slots[skewtask][x[t]].start, n |-> slots[skewtask][x[t]].n,
          R |-> Bits1, D |-> Bits2, padding |-> SMALL_PADDING_TUPLES]

(* The last thread takes what the division leaves over.                    *)
Share(t, s) ==
    LET numperthr == s.n \div nthreads
    IN  [start |-> s.start + t * numperthr,
         n |-> IF t = nthreads - 1 THEN s.n - t * numperthr ELSE numperthr]

(* Its histogram, summed up from cluster 0 on.                             *)
Histogram(t) ==
    /\ pc[t] = "hist"
    /\ LET p == Part(t)
           my_hist == [c \in DOMAIN hist[x[t]][t] |->
                         hist[x[t]][t][c] +
                           Cardinality(InCluster(x[t], p.side, Share(t, p), c, p.D, p.R))]
       IN  hist' = [hist EXCEPT ![x[t]][t] = [c \in DOMAIN @ |-> SumOver(my_hist, 0, c + 1)]]
    /\ Arrive(t, "copy")
    /\ UNCHANGED <<tuples, output, pass, x, queues, local>>

(* The c-th sums of the histograms of y, by thread.                        *)
Column(y, c) == [u \in Threads |-> hist[y][u][c]]

(* Mutant: the counts of the threads after this one are not shifted.       *)
MutClusterStart(t, c) ==
    LET y == x[t]
    IN  output[t][y][c] + c * Part(t).padding
          + SumOver(Column(y, c), 0, t)
          + (IF c = 0 THEN 0 ELSE SumOver(Column(y, c - 1), t + 1, nthreads))

(* Where this thread puts its tuples of cluster c: after those of the      *)
(* clusters before it, and after those the threads before it put there.    *)
ClusterStart(t, c) ==
    LET y == x[t]
    IN  output[t][y][c] + c * Part(t).padding
          + SumOver(Column(y, c), 0, t)
          + (IF c = 0 THEN 0 ELSE SumOver(Column(y, c - 1), t, nthreads))

Copy(t) ==
    /\ pc[t] = "copy"
    /\ LET p == Part(t)
           y == x[t]
           fanOut == 2 ^ p.D
           dst == [c \in 0 .. fanOut - 1 |-> p.start + ClusterStart(t, c)]
       IN  /\ output' = [output EXCEPT ![t][y] =
                           [c \in DOMAIN @ |-> IF c = fanOut THEN p.n + fanOut * p.padding
                                               ELSE ClusterStart(t, c)]]
           /\ tuples' = [tuples EXCEPT ![y][Other(p.side)] =
                           CopyOut(y, p.side, Share(t, p), dst, p.D, p.R)]
    /\ IF x[t] = "R"
       THEN x' = [x EXCEPT ![t] = "S"] /\ Goto(t, "hist")
       ELSE /\ UNCHANGED x
            /\ Arrive(t, IF t = 0 THEN (IF pass[t] = 1 THEN "make" ELSE "split")
                         ELSE IF pass[t] = 1 THEN "made" ELSE "skew")
    /\ i' = [i EXCEPT ![t] = 0]
    /\ UNCHANGED <<hist, pass, queues, task, fresh, results>>

-----------------------------------------------------------------------------
(* The first thread makes a task of each pair of partitions.               *)

(* The c-th cluster by the first thread's output.                          *)
Partition(y, c, padding) ==
    [start |-> output[0][y][c], n |-> output[0][y][c + 1] - output[0][y][c] - padding]

MakeTask(t) ==
    /\ pc[t] = "make"
    /\ IF i[t] = FANOUT_PASS1
       THEN Goto(t, "made") /\ UNCHANGED <<queue, slots, i>>
       ELSE LET R == Partition("R", i[t], PADDING_TUPLES)
                S == Partition("S", i[t], PADDING_TUPLES)
                tk == [R |-> R, S |-> S, side |-> "tmp"]
            IN  /\ IF R.n > thresh1 \/ S.n > thresh1 THEN AddTask("skew", tk)
                   ELSE IF R.n > 0 /\ S.n > 0 THEN AddTask("part", tk)
                   ELSE UNCHANGED <<queue, slots>>
                /\ i' = [i EXCEPT ![t] = @ + 1]
                /\ UNCHANGED <<pc, after>>
    /\ UNCHANGED <<tuples, partition, skewtask, task, fresh, results>>

Made(t) ==
    /\ pc[t] = "made"
    /\ Arrive(t, "part")
    /\ UNCHANGED <<tuples, partition, queues, local>>

-----------------------------------------------------------------------------
(* Threads take partitioning tasks (serial_radix_partition).               *)

TakePart(t) ==
    /\ pc[t] = "part"
    /\ \E s \in DOMAIN slots \cup {NoSlot} :
         /\ GetTask("part", s)
         /\ task' = [task EXCEPT ![t] = s]
         /\ Goto(t, IF s = NoSlot THEN "skew" ELSE "cluster")
    /\ UNCHANGED <<tuples, partition, slots, skewtask, fresh, i, results>>

(* Counts of the clusters of y in a task.                                  *)
Counts(tk, y) ==
    [c \in 0 .. FANOUT_PASS2 |->
       IF c = FANOUT_PASS2 THEN 0
       ELSE Cardinality(InCluster(y, tk.side, tk[y], c, Bits2, Bits1))]

(* radix_cluster: cluster c starts c gaps after the ones before it.        *)
ClusterFrom(y, tk, cnt) ==
    CopyOut(y, tk.side, tk[y],
            [c \in 0 .. FANOUT_PASS2 - 1 |-> tk[y].start + SumBelow(cnt, c) + c * SMALL_PADDING_TUPLES],
            Bits2, Bits1)

radix_cluster(t) ==
    /\ pc[t] = "cluster"
    /\ LET tk == slots[task[t]]
       IN  /\ output' = [output EXCEPT ![t] = [y \in {"R", "S"} |-> Counts(tk, y)]]
           /\ tuples' = [y \in {"R", "S"} |->
                [tuples[y] EXCEPT ![Other(tk.side)] = ClusterFrom(y, tk, Counts(tk, y))]]
    /\ i' = [i EXCEPT ![t] = 0]
    /\ Goto(t, "offer")
    /\ UNCHANGED <<hist, pass, x, queues, task, fresh, results>>

(* The task of cluster c, when both its sides have tuples.                 *)
Offered(t, c) ==
    LET tk == slots[task[t]]
    IN  [y \in {"R", "S"} |->
           [start |-> tk[y].start + SumBelow(output[t][y], c) + c * SMALL_PADDING_TUPLES,
            n |-> output[t][y][c]]]

Joinable(c) == c.R.n > 0 /\ c.S.n > 0

(* A slot under alloc_lock, filled before it is added under lock.          *)
Offer(t) ==
    /\ pc[t] = "offer"
    /\ LET rest == {c \in i[t] .. FANOUT_PASS2 - 1 : Joinable(Offered(t, c))}
           g == get_slot(queue["join"], "join")
           c == Offered(t, Min(rest))
       IN  IF rest = {}
           THEN Goto(t, "part") /\ UNCHANGED <<queue, slots, i, fresh>>
           ELSE /\ i' = [i EXCEPT ![t] = Min(rest)]
                /\ queue' = [queue EXCEPT !["join"] = g.queue]
                /\ slots' = Holding(g.slot, [R |-> c.R, S |-> c.S, side |-> "rel"])
                /\ fresh' = [fresh EXCEPT ![t] = g.slot]
                /\ Goto(t, "add")
    /\ UNCHANGED <<tuples, partition, skewtask, task, results>>

task_queue_add_atomic(t) ==
    /\ pc[t] = "add"
    /\ queue' = [queue EXCEPT !["join"] = add(@, fresh[t])]
    /\ i' = [i EXCEPT ![t] = @ + 1]
    /\ Goto(t, "offer")
    /\ UNCHANGED <<tuples, partition, slots, skewtask, task, fresh, results>>

-----------------------------------------------------------------------------
(* The loop over the large partitions: the first thread takes one, all     *)
(* divide it, and the first makes its join tasks.                          *)

(* Mutant: the first thread leaves the loop before the barrier.            *)
MutTakeSkew(t) ==
    /\ pc[t] = "skew"
    /\ IF t = 0
       THEN \E s \in DOMAIN slots \cup {NoSlot} : GetTask("skew", s) /\ skewtask' = s
       ELSE UNCHANGED <<queue, skewtask>>
    /\ IF t = 0 /\ skewtask' = NoSlot THEN Goto(t, "move") ELSE Arrive(t, "skewtask")
    /\ UNCHANGED <<tuples, partition, slots, local>>

TakeSkew(t) ==
    /\ pc[t] = "skew"
    /\ IF t = 0
       THEN \E s \in DOMAIN slots \cup {NoSlot} : GetTask("skew", s) /\ skewtask' = s
       ELSE UNCHANGED <<queue, skewtask>>
    /\ Arrive(t, "skewtask")
    /\ UNCHANGED <<tuples, partition, slots, local>>

(* The histograms and outputs are allocated anew; or the loop is left.     *)
SkewTask(t) ==
    /\ pc[t] = "skewtask"
    /\ IF skewtask = NoSlot
       THEN /\ IF t = 0 THEN Goto(t, "move") ELSE Arrive(t, "join")
            /\ UNCHANGED partition
       ELSE /\ output' = [output EXCEPT ![t] = [y \in {"R", "S"} |-> Zero(FANOUT_PASS2 + 1)]]
            /\ hist' = [y \in {"R", "S"} |-> [hist[y] EXCEPT ![t] = Zero(FANOUT_PASS2)]]
            /\ pass' = [pass EXCEPT ![t] = 2]
            /\ x' = [x EXCEPT ![t] = "R"]
            /\ Arrive(t, "hist")
    /\ UNCHANGED <<tuples, queues, local>>

(* The k-th part of a join that is split: all of R, and a share of S.      *)
Piece(k, R, S) ==
    [R |-> R, side |-> "rel",
     S |-> [start |-> S.start + k * (S.n \div nthreads),
            n |-> IF k = nthreads - 1 THEN S.n - k * (S.n \div nthreads) ELSE S.n \div nthreads]]

(* Slots for the pieces, got and added one after the other.                *)
WithPieces(R, S) ==
    LET After[k \in 0 .. nthreads] ==
          IF k = 0 THEN [queue |-> queue["part"], slots |-> slots]
          ELSE LET g == get_slot(After[k - 1].queue, "part")
               IN  [queue |-> add(g.queue, g.slot),
                    slots |-> [s \in DOMAIN After[k - 1].slots \cup {g.slot} |->
                                 IF s = g.slot THEN Piece(k - 1, R, S) ELSE After[k - 1].slots[s]]]
    IN  After

AddPieces(R, S) ==
    LET all == WithPieces(R, S)[nthreads]
    IN  queue' = [queue EXCEPT !["part"] = all.queue] /\ slots' = all.slots

(* Cluster c of the large partition.                                       *)
SkewRange(y, c) ==
    LET r == Partition(y, c, SMALL_PADDING_TUPLES)
    IN  [start |-> slots[skewtask][y].start + r.start, n |-> r.n]

Split(t) ==
    /\ pc[t] = "split"
    /\ IF i[t] = FANOUT_PASS2
       THEN Goto(t, "skew") /\ UNCHANGED <<queue, slots, i>>
       ELSE LET R == SkewRange("R", i[t])
                S == SkewRange("S", i[t])
            IN  /\ IF R.n > THRESHOLD1 \/ S.n > THRESHOLD1 THEN AddPieces(R, S)
                   ELSE IF R.n > 0 /\ S.n > 0
                   THEN AddTask("join", [R |-> R, S |-> S, side |-> "rel"])
                   ELSE UNCHANGED <<queue, slots>>
                /\ i' = [i EXCEPT ![t] = @ + 1]
                /\ UNCHANGED <<pc, after>>
    /\ UNCHANGED <<tuples, partition, skewtask, task, fresh, results>>

(* The pieces are moved to the front of the join queue.                    *)
Move(t) ==
    /\ pc[t] = "move"
    /\ IF queue["part"].list = <<>>
       THEN Arrive(t, "join") /\ UNCHANGED queue
       ELSE /\ queue' = [queue EXCEPT !["part"].list = Tail(@),
                                      !["join"] = add(@, Head(queue["part"].list))]
            /\ UNCHANGED <<pc, after>>
    /\ UNCHANGED <<tuples, partition, slots, skewtask, local>>

-----------------------------------------------------------------------------
(* The join tasks.                                                         *)

TakeJoin(t) ==
    /\ pc[t] = "join"
    /\ \E s \in DOMAIN slots \cup {NoSlot} :
         /\ GetTask("join", s)
         /\ task' = [task EXCEPT ![t] = s]
         /\ IF s = NoSlot THEN Arrive(t, "end")
            ELSE Goto(t, IF input.join = "PRO" THEN "chain" ELSE "reorder")
    /\ i' = [i EXCEPT ![t] = 0]
    /\ UNCHANGED <<tuples, partition, slots, skewtask, fresh, results>>

NEXT_POW_2(v) == Min({2 ^ k : k \in 0 .. v} \ 0 .. v - 1)

(* Keys of a range, in the order of the array.                             *)
Keys(y, side, s) == [k \in 1 .. s.n |-> Key(y, tuples[y][side][s.start + k - 1])]

(* bucket_chaining_join of the keys R and S: each bucket heads a chain of  *)
(* positions in R (from 1 on), the last inserted first.                    *)
bucket_chaining_join(R, S) ==
    LET N == NEXT_POW_2(Len(R))
        idx(key) == (key \div 2 ^ NUM_RADIX_BITS) % N
        Built[n \in 0 .. Len(R)] ==
            IF n = 0 THEN [bucket |-> Zero(N), next |-> <<>>]
            ELSE LET b == Built[n - 1]
                 IN  [bucket |-> [b.bucket EXCEPT ![idx(R[n])] = n],
                      next |-> Append(b.next, b.bucket[idx(R[n])])]
        built == Built[Len(R)]
        Chain[hit \in 0 .. Len(R)] == IF hit = 0 THEN {} ELSE {hit} \cup Chain[built.next[hit]]
        hits(key) == {hit \in Chain[built.bucket[idx(key)]] : R[hit] = key}
    IN  MapThenSumSet(LAMBDA k : Cardinality(hits(S[k])), DOMAIN S)

ChainJoin(t) ==
    /\ pc[t] = "chain"
    /\ LET tk == slots[task[t]]
       IN  results' = [results EXCEPT ![t] =
                         @ + bucket_chaining_join(Keys("R", tk.side, tk.R), Keys("S", tk.side, tk.S))]
    /\ Goto(t, "join")
    /\ UNCHANGED <<tuples, partition, queues, task, fresh, i>>

(* histogram_join: R is moved to the other array bucket by bucket, then    *)
(* each tuple of S is compared with those of its bucket.                   *)
get_hist_size(n) == LET q == (IF n = 0 THEN 0 ELSE NEXT_POW_2(n)) \div 4 IN IF q < 4 THEN 4 ELSE q

Bucket(tk, key) == (key \div 2 ^ NUM_RADIX_BITS) % get_hist_size(tk.R.n)

(* How many tuples of R come before bucket b.                              *)
BucketStart(tk, b) ==
    Cardinality({p \in Positions(tk.R) : Bucket(tk, Key("R", tuples.R[tk.side][p])) < b})

Reorder(t) ==
    /\ pc[t] = "reorder"
    /\ LET tk == slots[task[t]]
           from == tk.R.start + i[t]
           b(p) == Bucket(tk, Key("R", tuples.R[tk.side][p]))
           before == {p \in tk.R.start .. from - 1 : b(p) = b(from)}
       IN  IF i[t] = tk.R.n
           THEN i' = [i EXCEPT ![t] = 0] /\ Goto(t, "probe") /\ UNCHANGED tuples
           ELSE /\ tuples' = [tuples EXCEPT !.R[Other(tk.side)][
                                tk.R.start + BucketStart(tk, b(from)) + Cardinality(before)] =
                                  tuples.R[tk.side][from]]
                /\ i' = [i EXCEPT ![t] = @ + 1]
                /\ UNCHANGED <<pc, after>>
    /\ UNCHANGED <<partition, queues, task, fresh, results>>

Probe(t) ==
    /\ pc[t] = "probe"
    /\ LET tk == slots[task[t]]
           key == Key("S", tuples.S[tk.side][tk.S.start + i[t]])
           b == Bucket(tk, key)
           bucket == tk.R.start + BucketStart(tk, b) .. tk.R.start + BucketStart(tk, b + 1) - 1
           match == {j \in bucket : Key("R", tuples.R[Other(tk.side)][j]) = key}
       IN  IF i[t] = tk.S.n
           THEN Goto(t, "join") /\ UNCHANGED <<i, results>>
           ELSE /\ results' = [results EXCEPT ![t] = @ + Cardinality(match)]
                /\ i' = [i EXCEPT ![t] = @ + 1]
                /\ UNCHANGED <<pc, after>>
    /\ UNCHANGED <<tuples, partition, queues, task, fresh>>

-----------------------------------------------------------------------------
prj_thread(t) ==
    /\ \/ Start(t) \/ Histogram(t) \/ Copy(t) \/ MakeTask(t) \/ Made(t)
       \/ TakePart(t) \/ radix_cluster(t) \/ Offer(t) \/ task_queue_add_atomic(t)
       \/ TakeSkew(t) \/ SkewTask(t) \/ Split(t) \/ Move(t)
       \/ TakeJoin(t) \/ ChainJoin(t) \/ Reorder(t) \/ Probe(t)
    /\ UNCHANGED input

(* All have ended: join_init_run has joined them and adds up the results.  *)
Ended == \A t \in Threads : pc[t] = "end"
result == MapThenSumSet(LAMBDA t : results[t], Threads)
Terminated == Ended /\ UNCHANGED vars

Next == Barrier \/ (\E t \in Threads : prj_thread(t)) \/ Terminated

Spec == Init /\ [][Next]_vars

(* Threads run; a barrier opens when all have come.                        *)
FairSpec == Spec /\ WF_vars(Barrier) /\ \A t \in Threads : WF_vars(prj_thread(t))

-----------------------------------------------------------------------------
(* RJ: radix_cluster_nopadding twice, then a join of each cluster.         *)

radix_cluster_nopadding(keys, R, D) ==
    FlattenSeq([c \in 1 .. 2 ^ D |-> SelectSeq(keys, LAMBDA k : HASH_BIT_MODULO(k, D, R) = c - 1)])

RJ ==
    LET clustered(keys) ==
          radix_cluster_nopadding(radix_cluster_nopadding(keys, 0, Bits1), Bits1, Bits2)
        count(keys, c) == Cardinality({k \in DOMAIN keys : keys[k] % 2 ^ NUM_RADIX_BITS = c})
        cluster(keys, c) ==
          LET from == SumBelow([d \in 0 .. c |-> count(keys, d)], c)
          IN  SubSeq(clustered(keys), from + 1, from + count(keys, c))
        joinable == {c \in 0 .. 2 ^ NUM_RADIX_BITS - 1 : count(input.R, c) > 0 /\ count(input.S, c) > 0}
    IN  MapThenSumSet(LAMBDA c : bucket_chaining_join(cluster(input.R, c), cluster(input.S, c)),
                      joinable)

-----------------------------------------------------------------------------
(* Reference: the pairs of tuples with the same key, those of two ranges.  *)
Exact == Cardinality({p \in (DOMAIN input.R) \X (DOMAIN input.S) : input.R[p[1]] = input.S[p[2]]})

Matches(tk) ==
    Cardinality({p \in Positions(tk.R) \X Positions(tk.S) :
        LET a == tuples.R[tk.side][p[1]]
            b == tuples.S[tk.side][p[2]]
        IN  a # 0 /\ b # 0 /\ Key("R", a) = Key("S", b)})

SumOf(f(_), S) == MapThenSumSet(f, S)

(* What is left of a task a thread has in hand.                            *)
InHand(t) ==
    CASE pc[t] \in {"cluster", "chain", "reorder"} -> Matches(slots[task[t]])
      [] pc[t] \in {"offer", "add"} ->
           SumOf(LAMBDA c : Matches([R |-> Offered(t, c).R, S |-> Offered(t, c).S, side |-> "rel"]),
                 i[t] .. FANOUT_PASS2 - 1)
      [] pc[t] = "probe" ->
           Matches([slots[task[t]] EXCEPT !.S = [start |-> @.start + i[t], n |-> @.n - i[t]]])
      [] pc[t] = "make" ->
           SumOf(LAMBDA c : Matches([R |-> Partition("R", c, PADDING_TUPLES),
                                     S |-> Partition("S", c, PADDING_TUPLES), side |-> "tmp"]),
                 i[t] .. FANOUT_PASS1 - 1)
      [] pc[t] = "split" ->
           SumOf(LAMBDA c : Matches([R |-> SkewRange("R", c), S |-> SkewRange("S", c), side |-> "rel"]),
                 i[t] .. FANOUT_PASS2 - 1)
      [] OTHER -> 0

Queued(q) == SumOf(LAMBDA k : Matches(slots[queue[q].list[k]]), DOMAIN queue[q].list)

(* The first thread has the partitions of the first pass to make tasks of. *)
Partitioned ==
    \/ pass[0] = 2
    \/ /\ pc[0] \notin {"start", "hist", "copy"}
       /\ pc[0] = "barrier" => after[0] \notin {"hist", "copy", "make"}

(* The large partition is being divided.                                   *)
Dividing == skewtask # NoSlot /\ pc[0] \notin {"skew", "split"}

(* The tasks whose ranges are yet to be read.                              *)
InHands == {t \in Threads : pc[t] \in {"cluster", "chain", "reorder", "probe"}}
Live == (UNION {ToSet(queue[q].list) : q \in DOMAIN queue})
          \cup {task[t] : t \in InHands} \cup {fresh[t] : t \in {u \in Threads : pc[u] = "add"}}
          \cup (IF Dividing THEN {skewtask} ELSE {})

Cells(y, side, s) == {<<y, side, p>> : p \in Positions(s)}
Reads(tk) == Cells("R", tk.side, tk.R) \cup Cells("S", tk.side, tk.S)
Writes(tk) ==
    LET spread(s) == [s EXCEPT !.n = @ + (FANOUT_PASS2 - 1) * SMALL_PADDING_TUPLES]
    IN  CASE tk.side = "tmp" -> Cells("R", "rel", spread(tk.R)) \cup Cells("S", "rel", spread(tk.S))
          [] tk.side = "rel" -> IF input.join = "PRH" THEN Cells("R", "tmp", tk.R) ELSE {}

(* Where a thread puts what is in its share of a range.                    *)
CopyWrites(t) ==
    LET p == Part(t)
        y == x[t]
        cluster(c) ==
          [start |-> p.start + ClusterStart(t, c),
           n |-> Cardinality(InCluster(y, p.side, Share(t, p), c, p.D, p.R))]
    IN  UNION {Cells(y, Other(p.side), cluster(c)) : c \in 0 .. 2 ^ p.D - 1}

(* The variables have their types.                                         *)
TypeOK ==
    /\ input \in Inputs
    /\ \A y \in {"R", "S"} : \A side \in {"rel", "tmp"} :
         tuples[y][side] \in [0 .. ArraySize(y) - 1 -> 0 .. Len(input[y])]
    /\ pc \in [Threads -> {"start", "barrier", "hist", "copy", "make", "made", "part", "cluster",
                           "offer", "add", "skew", "skewtask", "split", "move", "join", "chain",
                           "reorder", "probe", "end"}]
    /\ pass \in [Threads -> {1, 2}] /\ x \in [Threads -> {"R", "S"}]
    /\ \A q \in DOMAIN queue : ToSet(queue[q].list) \subseteq DOMAIN slots
    /\ \A t \in Threads : {task[t], fresh[t], skewtask} \subseteq DOMAIN slots \cup {NoSlot}
    /\ i \in [Threads -> Nat] /\ results \in [Threads -> Nat]

(* No match is lost or counted twice, whoever takes which task in which    *)
(* order: what the threads have counted, and what the tasks that are       *)
(* queued, in hand, being made or being split will find in the arrays as   *)
(* they are, always add up to the number of matches. In the end the result *)
(* is that number, and the one the sequential RJ computes.                 *)
MatchesConserved ==
    /\ TypeOK
    /\ Partitioned =>
         result + Queued("part") + Queued("join") + Queued("skew") + SumOf(InHand, Threads)
           + (IF Dividing THEN Matches(slots[skewtask]) ELSE 0) = Exact
    /\ Ended => result = RJ

(* Two tasks that are alive at once do not get in each other's way in the  *)
(* arrays: neither writes, gaps and the second array of a join included,   *)
(* what the other reads or writes, unless both are pieces of one join. And *)
(* the gaps fit into what is allocated.                                    *)
TasksApart ==
    \A a \in Live :
        /\ \A c \in Writes(slots[a]) : c[3] \in DOMAIN tuples[c[1]][c[2]]
        /\ \A b \in Live \ {a} :
             /\ Writes(slots[a]) \cap Reads(slots[b]) = {}
             /\ \/ Writes(slots[a]) \cap Writes(slots[b]) = {}
                \/ slots[a].side = "rel" /\ slots[a].R = slots[b].R

(* Threads that divide a range together put their tuples in different      *)
(* places, of the array in the first pass, of those the large partition    *)
(* may be written to in the second.                                        *)
CopiesApart ==
    \A t \in Threads : pc[t] = "copy" =>
        /\ IF pass[t] = 1
           THEN \A c \in CopyWrites(t) : c[3] \in DOMAIN tuples[c[1]][c[2]]
           ELSE CopyWrites(t) \subseteq Writes(slots[skewtask])
        /\ \A u \in Threads \ {t} : pc[u] = "copy" => CopyWrites(t) \cap CopyWrites(u) = {}

(* Neither tasks nor the threads at one task write to the same places, nor *)
(* where another task is still to be read.                                 *)
RangesDisjoint == TasksApart /\ CopiesApart

(* While the first thread makes its unlocked calls on the queues no other  *)
(* thread is at a call on any of them, and a task is in one place only: in *)
(* one queue, once, or in the hands of one thread.                         *)
TasksHeldOnce ==
    /\ \A t \in Threads : pc[t] \in {"make", "split", "move"} =>
         \A u \in Threads \ {t} : pc[u] \notin {"part", "offer", "add", "join", "make", "split", "move"}
    /\ LET all == queue["part"].list \o queue["join"].list \o queue["skew"].list
           hands == InHands \cup {t \in Threads : pc[t] \in {"offer", "add"}}
       IN  /\ IsInjective(all)
           /\ \A t \in hands : task[t] \notin ToSet(all)
           /\ \A t, u \in hands : t # u => task[t] # task[u]

(* All threads come to the same barriers and leave.                        *)
JoinEnds == <>Ended

=============================================================================
