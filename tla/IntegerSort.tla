------------------------------ MODULE IntegerSort ------------------------------
(***************************************************************************)
(* The NAS integer sort, src/hpc/nas-is/is_omp.c: rank counts the keys     *)
(* that are at most v for every v, MAX_ITERATIONS times over keys of which *)
(* it changes two each time; full_verify sorts them by the last ranks.     *)
(* The program is built with buckets or without (USE_BUCKETS), which       *)
(* `buckets` tells.                                                        *)
(*                                                                         *)
(* `phase` is where the master is, pc[t] where thread t is in the parallel *)
(* region. What a thread does to its own counts before a barrier, or to a  *)
(* bucket it has taken, is one step; an addition to shared counts is two.  *)
(***************************************************************************)
EXTENDS Integers, Sequences, FiniteSets

CONSTANTS
    nthreads,
    MAX_KEY,          \* keys are 0 .. MAX_KEY - 1
    NUM_BUCKETS,
    MAX_ITERATIONS,
    Inputs            \* records: buckets, and the keys create_seq makes

ASSUME SizesAssumption ==
    /\ nthreads \in Nat \ {0} /\ MAX_ITERATIONS \in Nat \ {0}
    /\ NUM_BUCKETS \in Nat \ {0} /\ MAX_KEY \in Nat \ {0}
    /\ MAX_KEY % NUM_BUCKETS = 0 /\ MAX_ITERATIONS < MAX_KEY

ASSUME InputsAssumption ==
    \A in \in Inputs :
        /\ in.buckets \in BOOLEAN
        /\ in.keys \in Seq(0 .. MAX_KEY - 1) /\ Len(in.keys) > 2 * MAX_ITERATIONS

VARIABLES
    input,
    calls,             \* of rank: the first is the free one of main
    key_array, key_buff2,
    key_buff1,         \* also key_buff1_aptr[0] and key_buff_ptr_global
    key_buff1_aptr,    \* the counts of the threads but the first
    bucket_size,       \* the counts of every thread
    bucket_ptrs,       \* private to each thread, kept from region to region
    passed,            \* whether full_verify found the keys in order
    phase,
    work,              \* the iterations of a dynamic loop nobody has taken
    pc,
    index, round,      \* loop indexes: the inner, and k of the accumulation
    sum

arrays == <<key_array, key_buff1, key_buff2, key_buff1_aptr, bucket_size, bucket_ptrs>>
control == <<input, calls, passed, phase>>
loops == <<index, round, sum>>
vars == <<control, arrays, work, pc, loops>>

-----------------------------------------------------------------------------
buckets == input.buckets
Threads == 0 .. nthreads - 1
Keys == 0 .. MAX_KEY - 1
Buckets == 0 .. NUM_BUCKETS - 1
Positions == DOMAIN key_array
NUM_KEYS == Cardinality(Positions)

num_bucket_keys == MAX_KEY \div NUM_BUCKETS
BucketOf(key) == key \div num_bucket_keys
FirstKey(b) == b * num_bucket_keys
KeysOf(b) == FirstKey(b) .. FirstKey(b + 1) - 1

(* The iteration rank is called with.                                      *)
iteration == IF calls <= 1 THEN 1 ELSE calls - 1

(* schedule(static): thread t has Chunk(n, t) of the iterations 0 .. n - 1. *)
ChunkStart(n, t) ==
    LET longer == n % nthreads
    IN  t * (n \div nthreads) + IF t < longer THEN t ELSE longer
Chunk(n, t) == ChunkStart(n, t) .. ChunkStart(n, t + 1) - 1

(* How many of keys at P are at most x, and how many are x.                *)
UpTo(keys, P, x) == Cardinality({p \in P : keys[p] <= x})
Occurrences(keys, P, x) == Cardinality({p \in P : keys[p] = x})

(* f[from] + ... + f[to - 1], as a loop adds them up.                      *)
SumOver(f, from, to) ==
    LET sums[k \in from .. to] == IF k = from THEN 0 ELSE sums[k - 1] + f[k - 1]
    IN  sums[to]

Each(x) == [t \in Threads |-> x]
Joined(p) == phase = p /\ \A t \in Threads : pc[t] = "end"
Fork(p, start) == phase' = p /\ pc' = Each(start)
Goto(t, there) == pc' = [pc EXCEPT ![t] = there]

Init ==
    /\ input \in Inputs
    /\ key_array = [i \in 0 .. Len(input.keys) - 1 |-> input.keys[i + 1]]
    /\ calls = 0 /\ passed = FALSE
    /\ key_buff1 = [key \in Keys |-> 0] /\ key_buff2 = [i \in Positions |-> 0]
    /\ key_buff1_aptr = [t \in Threads \ {0} |-> [key \in Keys |-> 0]]
    /\ bucket_size = Each([b \in Buckets |-> 0])
    /\ bucket_ptrs = Each([b \in Buckets |-> 0])
    /\ phase = "main" /\ work = {}
    /\ pc = Each("end") /\ index = Each(0) /\ round = Each(1) /\ sum = Each(0)

-----------------------------------------------------------------------------
(* The master: rank(1), then rank(1) .. rank(MAX_ITERATIONS), full_verify. *)

Rank ==
    /\ phase = "main" /\ calls <= MAX_ITERATIONS
    /\ calls' = calls + 1
    /\ key_array' = [key_array EXCEPT ![iteration'] = iteration',
                        ![iteration' + MAX_ITERATIONS] = MAX_KEY - iteration']
    /\ Fork("rank", "count")
    /\ work' = Buckets
    /\ UNCHANGED <<input, passed, key_buff1, key_buff2, key_buff1_aptr, bucket_size,
                   bucket_ptrs, loops>>

RankEnds ==
    /\ Joined("rank")
    /\ phase' = "main"
    /\ UNCHANGED <<input, calls, passed, arrays, work, pc, loops>>

FullVerify ==
    /\ phase = "main" /\ calls = MAX_ITERATIONS + 1
    /\ Fork("sort", IF buckets THEN "place" ELSE "copy")
    /\ work' = Buckets
    /\ UNCHANGED <<input, calls, passed, arrays, loops>>

Confirm ==
    /\ Joined("sort")
    /\ passed' = \A i \in Positions \ {0} : key_array[i - 1] <= key_array[i]
    /\ phase' = "done"
    /\ UNCHANGED <<input, calls, arrays, work, pc, loops>>

(* Where the threads of a region wait for each other, and go on to.        *)
After(there) ==
    CASE there = "counted" -> IF buckets THEN "point" ELSE "add"
      [] there = "scattered" -> "fix"
      [] there = "copied" -> "place"

Barrier ==
    /\ \E here \in {"counted", "scattered", "copied"} :
         (\A t \in Threads : pc[t] = here) /\ pc' = Each(After(here))
    /\ UNCHANGED <<control, arrays, work, loops>>

-----------------------------------------------------------------------------
(* rank, without buckets                                                   *)

(* Clear the work array, count the thread's chunk, accumulate the counts.  *)
CountKeys(t) ==
    /\ pc[t] = "count" /\ ~buckets
    /\ LET counts == [key \in Keys |-> UpTo(key_array, Chunk(NUM_KEYS, t), key)]
       IN  IF t = 0
           THEN key_buff1' = counts /\ UNCHANGED key_buff1_aptr
           ELSE key_buff1_aptr' = [key_buff1_aptr EXCEPT ![t] = counts] /\ UNCHANGED key_buff1
    /\ index' = [index EXCEPT ![t] = ChunkStart(MAX_KEY, t)]
    /\ round' = [round EXCEPT ![t] = 1]
    /\ Goto(t, "counted")
    /\ UNCHANGED <<control, key_array, key_buff2, bucket_size, bucket_ptrs, work, sum>>

(* For every other array of counts k, the thread adds those of its chunk of *)
(* the keys to the global ones: key_buff_ptr[i] += key_buff1_aptr[k][i] is *)
(* two loads and a store. The loops over i are nowait.                     *)
AddLoad(t) ==
    /\ pc[t] = "add" /\ round[t] < nthreads /\ index[t] < ChunkStart(MAX_KEY, t + 1)
    /\ sum' = [sum EXCEPT ![t] = key_buff1[index[t]] + key_buff1_aptr[round[t]][index[t]]]
    /\ Goto(t, "store")
    /\ UNCHANGED <<control, arrays, work, index, round>>

AddStore(t) ==
    /\ pc[t] = "store"
    /\ key_buff1' = [key_buff1 EXCEPT ![index[t]] = sum[t]]
    /\ index' = [index EXCEPT ![t] = @ + 1]
    /\ Goto(t, "add")
    /\ UNCHANGED <<control, key_array, key_buff2, key_buff1_aptr, bucket_size,
                   bucket_ptrs, work, round, sum>>

(* Mutant: the chunks of a later loop go to other threads.                 *)
MutNextRound(t) ==
    /\ pc[t] = "add" /\ round[t] < nthreads /\ index[t] = ChunkStart(MAX_KEY, t + 1)
    /\ round' = [round EXCEPT ![t] = @ + 1]
    /\ index' = [index EXCEPT ![t] = ChunkStart(MAX_KEY, (t + 1) % nthreads)]
    /\ UNCHANGED <<control, arrays, work, pc, sum>>

NextRound(t) ==
    /\ pc[t] = "add" /\ round[t] < nthreads /\ index[t] = ChunkStart(MAX_KEY, t + 1)
    /\ round' = [round EXCEPT ![t] = @ + 1]
    /\ index' = [index EXCEPT ![t] = ChunkStart(MAX_KEY, t)]
    /\ UNCHANGED <<control, arrays, work, pc, sum>>

AddsEnd(t) ==
    /\ pc[t] = "add" /\ round[t] = nthreads
    /\ Goto(t, "end")
    /\ UNCHANGED <<control, arrays, work, loops>>

-----------------------------------------------------------------------------
(* rank, with buckets                                                      *)

CountBuckets(t) ==
    /\ pc[t] = "count" /\ buckets
    /\ bucket_size' = [bucket_size EXCEPT ![t] =
           [b \in Buckets |-> Cardinality({p \in Chunk(NUM_KEYS, t) : BucketOf(key_array[p]) = b})]]
    /\ Goto(t, "counted")
    /\ UNCHANGED <<control, key_array, key_buff1, key_buff2, key_buff1_aptr, bucket_ptrs,
                   work, loops>>

(* The keys of bucket b that the threads u, from <= u < to, have counted.  *)
Sizes(b, from, to) == SumOver([u \in Threads |-> bucket_size[u][b]], from, to)

(* Where thread t begins to write bucket b: after the smaller buckets and  *)
(* what the threads before it have for this one.                           *)
Pointers(t) ==
    /\ pc[t] = "point"
    /\ bucket_ptrs' = [bucket_ptrs EXCEPT ![t] =
           [b \in Buckets |-> SumOver([c \in Buckets |-> Sizes(c, 0, nthreads)], 0, b) + Sizes(b, 0, t)]]
    /\ index' = [index EXCEPT ![t] = ChunkStart(NUM_KEYS, t)]
    /\ Goto(t, "scatter")
    /\ UNCHANGED <<control, key_array, key_buff1, key_buff2, key_buff1_aptr, bucket_size,
                   work, round, sum>>

Scatter(t) ==
    /\ pc[t] = "scatter" /\ index[t] < ChunkStart(NUM_KEYS, t + 1)
    /\ LET key == key_array[index[t]]
           b == BucketOf(key)
       IN  /\ key_buff2' = [key_buff2 EXCEPT ![bucket_ptrs[t][b]] = key]
           /\ bucket_ptrs' = [bucket_ptrs EXCEPT ![t][b] = @ + 1]
    /\ index' = [index EXCEPT ![t] = @ + 1]
    /\ UNCHANGED <<control, key_array, key_buff1, key_buff1_aptr, bucket_size, work, pc, round, sum>>

(* The loop ends with a barrier.                                           *)
ScatterEnds(t) ==
    /\ pc[t] = "scatter" /\ index[t] = ChunkStart(NUM_KEYS, t + 1)
    /\ Goto(t, "scattered")
    /\ UNCHANGED <<control, arrays, work, loops>>

(* The pointers of thread t are moved past what later threads have written. *)
FixPointers(t) ==
    /\ pc[t] = "fix"
    /\ bucket_ptrs' = [bucket_ptrs EXCEPT ![t] =
           [b \in Buckets |-> @[b] + Sizes(b, t + 1, nthreads)]]
    /\ Goto(t, "take")
    /\ UNCHANGED <<control, key_array, key_buff1, key_buff2, key_buff1_aptr, bucket_size,
                   work, loops>>

(* Where bucket b begins, and its slots, for thread t.                     *)
BucketStart(t, b) == IF b = 0 THEN 0 ELSE bucket_ptrs[t][b - 1]
Slots(t, b) == BucketStart(t, b) .. bucket_ptrs[t][b] - 1

(* A bucket's part of key_buff1 is cleared, its slots are counted, and the *)
(* counts accumulated from the number of lesser keys on.                   *)
TakeBucket(t) ==
    /\ pc[t] = "take"
    /\ \E b \in work :
         LET counts == [key \in Keys |->
                 (IF key \in KeysOf(b) THEN 0 ELSE key_buff1[key])
                 + Occurrences(key_buff2, Slots(t, b), key)]
         IN  /\ work' = work \ {b}
             /\ key_buff1' = [key \in Keys |->
                    IF key \in KeysOf(b)
                    THEN BucketStart(t, b) + SumOver(counts, FirstKey(b), key + 1)
                    ELSE counts[key]]
    /\ UNCHANGED <<control, key_array, key_buff2, key_buff1_aptr, bucket_size, bucket_ptrs,
                   pc, loops>>

(* Nothing is left of the dynamic loop, of rank or of full_verify.         *)
BucketsEnd(t) ==
    /\ \/ pc[t] = "take"
       \/ pc[t] = "place" /\ buckets
    /\ work = {}
    /\ Goto(t, "end")
    /\ UNCHANGED <<control, arrays, work, loops>>

-----------------------------------------------------------------------------
(* full_verify                                                             *)

(* k = --key_buff_ptr_global[key]; key_array[k] = key, for the keys in the *)
(* slots P of key_buff2.                                                   *)
PlaceKeys(P) ==
    LET left == [key \in Keys |->
            key_buff1[key] - Occurrences(key_buff2, P, key)]
        Of(p) == {key \in Keys : left[key] <= p /\ p < key_buff1[key]}
    IN  /\ key_buff1' = left
        /\ key_array' = [p \in Positions |->
               IF Of(p) = {} THEN key_array[p] ELSE CHOOSE key \in Of(p) : TRUE]

(* The buckets are sorted one by one.                                      *)
PlaceBucket(t) ==
    /\ pc[t] = "place" /\ buckets
    /\ \E b \in work : work' = work \ {b} /\ PlaceKeys(Slots(t, b))
    /\ UNCHANGED <<control, key_buff2, key_buff1_aptr, bucket_size, bucket_ptrs, pc,
                   loops>>

(* Without them the keys are copied away, and then each thread places the  *)
(* keys of a range of its own. Mutant: no barrier between the two.         *)
MutCopyKeys(t) ==
    /\ pc[t] = "copy"
    /\ key_buff2' = [p \in Positions |->
           IF p \in Chunk(NUM_KEYS, t) THEN key_array[p] ELSE key_buff2[p]]
    /\ index' = [index EXCEPT ![t] = 0]
    /\ Goto(t, "place")
    /\ UNCHANGED <<control, key_array, key_buff1, key_buff1_aptr, bucket_size, bucket_ptrs,
                   work, round, sum>>

CopyKeys(t) ==
    /\ pc[t] = "copy"
    /\ key_buff2' = [p \in Positions |->
           IF p \in Chunk(NUM_KEYS, t) THEN key_array[p] ELSE key_buff2[p]]
    /\ index' = [index EXCEPT ![t] = 0]
    /\ Goto(t, "copied")
    /\ UNCHANGED <<control, key_array, key_buff1, key_buff1_aptr, bucket_size, bucket_ptrs,
                   work, round, sum>>

OwnKeys(t) ==
    LET j == (MAX_KEY + nthreads - 1) \div nthreads
    IN  {key \in Keys : j * t <= key /\ key < j * t + j}

PlaceKey(t) ==
    /\ pc[t] = "place" /\ ~buckets /\ index[t] < NUM_KEYS
    /\ IF key_buff2[index[t]] \in OwnKeys(t)
       THEN PlaceKeys({index[t]})
       ELSE UNCHANGED <<key_buff1, key_array>>
    /\ index' = [index EXCEPT ![t] = @ + 1]
    /\ UNCHANGED <<control, key_buff2, key_buff1_aptr, bucket_size, bucket_ptrs, work, pc,
                   round, sum>>

PlacesEnd(t) ==
    /\ pc[t] = "place" /\ ~buckets /\ index[t] = NUM_KEYS
    /\ Goto(t, "end")
    /\ UNCHANGED <<control, arrays, work, loops>>

-----------------------------------------------------------------------------
Master == Rank \/ RankEnds \/ FullVerify \/ Confirm \/ Barrier

Step(t) ==
    \/ CountKeys(t) \/ AddLoad(t) \/ AddStore(t) \/ NextRound(t) \/ AddsEnd(t)
    \/ CountBuckets(t) \/ Pointers(t) \/ Scatter(t) \/ ScatterEnds(t)
    \/ FixPointers(t) \/ TakeBucket(t) \/ BucketsEnd(t)
    \/ PlaceBucket(t) \/ CopyKeys(t) \/ PlaceKey(t) \/ PlacesEnd(t)

Terminated == phase = "done" /\ UNCHANGED vars

Next == Master \/ Terminated \/ \E t \in Threads : Step(t)

Spec == Init /\ [][Next]_vars
FairSpec == Spec /\ WF_vars(Master) /\ \A t \in Threads : WF_vars(Step(t))

-----------------------------------------------------------------------------
AtMost(key) == UpTo(key_array, Positions, key)

(* Whenever rank has returned, the count of every key is the number of     *)
(* keys at most as large, whoever counted, scattered or added what part of *)
(* it and in which order, and whatever the rank before it had left.        *)
RanksExact ==
    phase = "main" /\ calls > 0 => \A key \in Keys : key_buff1[key] = AtMost(key)

TypeOK ==
    /\ input \in Inputs /\ passed \in BOOLEAN
    /\ calls \in 0 .. MAX_ITERATIONS + 1
    /\ phase \in {"main", "rank", "sort", "done"}
    /\ key_array \in [Positions -> Keys] /\ key_buff2 \in [Positions -> Keys]
    /\ key_buff1 \in [Keys -> 0 .. NUM_KEYS]
    /\ \A t \in Threads, b \in Buckets : bucket_ptrs[t][b] \in 0 .. NUM_KEYS
    /\ work \subseteq Buckets
    /\ pc \in [Threads -> {"count", "counted", "add", "store", "point", "scatter",
                           "scattered", "fix", "take", "copy", "copied", "place", "end"}]

(* The keys of the last iteration: rank has changed two in each.           *)
LastKeys == [i \in Positions |->
    CASE i \in 1 .. MAX_ITERATIONS -> i
      [] i - MAX_ITERATIONS \in 1 .. MAX_ITERATIONS -> MAX_KEY - (i - MAX_ITERATIONS)
      [] OTHER -> input.keys[i + 1]]

(* full_verify places keys into the array they come from, by counts it     *)
(* lowers as it goes: at the end the keys of the last iteration are all    *)
(* there, in order, and the program says so.                               *)
SortExact ==
    /\ TypeOK
    /\ phase = "done" =>
         /\ passed
         /\ \A i \in Positions \ {0} : key_array[i - 1] <= key_array[i]
         /\ \A key \in Keys : Occurrences(key_array, Positions, key)
                              = Occurrences(LastKeys, Positions, key)
=============================================================================
