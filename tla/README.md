# Ghost threading: specifications, model checks and proofs

The repository evaluates *ghost threads*: helper threads on sibling hardware
contexts that run ahead of a main loop and prefetch for it. The programs it
evaluates them on are the GAP graph kernels (`src/gap`), two hash joins, NAS
integer sort, kangaroo and camel (`src/hpc`), some with ghosts made and joined per
pass, some with ghosts queued as jobs of a small pthread pool.

This directory specifies the parts of those programs in which threads meet: the
pool, the counter by which a ghost keeps its distance, both hash joins, the integer
sort, and of the graph suite the builder and five kernels. TLC checks each on small
instances. TLAPS proves, for every number of threads and every input, the pool and its
refinement of a job pool, the ghost counter, the no-partitioning join, the handling of tasks in the
radix join, the integer sort, breadth-first search, connected components and delta-stepping.

    tlc  -config ThreadPool.cfg MCThreadPool     # one run of PROJECT.json
    tlapm ThreadPoolProofs.tla                   # all its proofs

## 1. The parts of the system

### Synchronisation

**Thread pool**: `src/hpc/thpool/thpool.c`, `thpool.h`.
*State*: per pool, the job queue (list and `len`) under `rwmutex`; the binary
semaphore `has_jobs`; the counts `num_threads_alive` and `num_threads_working` and
the condition `threads_all_idle` under `thcount_lock`; per process, the flags
`threads_keepalive` and `threads_on_hold`.
*Operations*: `thpool_init`, `thpool_add_work`, `thpool_wait`, `thpool_pause`,
`thpool_resume`, `thpool_destroy`, the worker's `thread_do`, the signal handler
`thread_hold`.
*Hard*: `thpool_wait` reads `len` without `rwmutex` and then the count of working
threads; the semaphore is binary but the queue is not; destroy polls a counter
without its lock; signals arrive at any point; the two flags belong to all pools.
*Correct when*: a wait returns once the jobs added before it are done and not
earlier; no job is lost, run twice or left in the queue; the counts are exact;
destroy returns and nothing runs after it.

**Ghost synchronisation**: `src/gap/src/pf_support.h` and the ghosts of the `_tpf`
drivers. *State*: a relaxed atomic counter main stores its iteration to; the ghost's
loop variable and its `serialize_flag`. *Operations*: main's stores, `sync` (skip
ahead, serialize, or go on), creation and join per pass; in the nested kernels a
counter per inner loop and `sync_jump`; in `tc_tpf_paral.cc` ghosts that chase
dynamically scheduled chunks until an `end_flag`. *Hard*: stale reads of the
counter, a reset that races the ghost's first read, unsigned differences, a ghost
that assigns its own loop variable. *Correct when*: the ghost skips only what main
has reached, is past what it has seen of main, serializes only while it leads, and
ends.

### Hash joins (`src/hpc/hashjoin-ph-2`, `-ph-8`)

**No-partitioning join**: `npj2epb_tpf.c`. *State*: a shared table of bucket chains
with a latch per chain, overflow buffers per thread, a barrier. *Operations*: build,
probe, free. *Hard*: chains are walked without latches while probing; an insert
looks at two buckets only; threads free buckets that sit in shared chains.
*Correct when*: the table holds every tuple once when anyone probes, nothing
reachable is freed, and the result is the number of matches.
The files `npj2epbsw.c`, `npj8epb*.c`, `npj2epb_omp.c` are the same join with other bucket
widths, software prefetches or OpenMP.

**Radix join and task queue**: `parallel_radix_join.c`, `task_queue.h`. *State*: a
histogram per thread and pass, output offsets, LIFO queues of tasks and the blocks
their slots come from. *Operations*: two partitioning passes separated by barriers, a
loop in which all threads divide the large partitions, a join per pair of clusters.
*Hard*: every thread writes at offsets computed from all histograms; tasks create
tasks; slots are taken under one lock and added under another; all threads must come
to the same barriers. *Correct when*: no match is lost or counted twice, tasks in
hand at once do not write what another reads, each task has one holder, and all
threads leave.

### Graph kernels (`src/gap/src`)

**Direction-optimizing BFS**: `bfs.cc`, with **sliding queue** (`sliding_queue.h`) and
**bitmap** (`bitmap.h`). *State*: parents, the queue and its window, two bitmaps, four
counts that choose the direction. *Operations*: `TDStep`, `BUStep`, the conversions
between queue and bitmap, `DOBFS`. *Hard*: claims by compare-and-swap, slots
reserved before they are filled, a plain write of a bitmap's word, a bitmap that
keeps old bits. *Correct when*: parents are shortest paths, every vertex is
enqueued once, the search ends.

**SSSP** (`sssp.cc`). *State*: distances, the frontier, bins of each thread, two
indexes and two tails used in turn by even and odd iterations. *Operations*:
`RelaxEdges`, the exchange of bins between two barriers. *Hard*: distances are lowered
by compare-and-swap while others read them; one iteration resets what the next uses.
*Correct when* no vertex whose distance has gone down is forgotten, the distances are
the shortest ones at the end, and the loop ends.

**Connected components** (`cc.cc`, `cc_sv.cc`). *State*: a parent per vertex.
*Operations*: `Link`, `Compress`, the sampling rounds, the hooks of Shiloach-Vishkin.
*Hard*: trees are hooked by compare-and-swap, or by plain stores, and compressed while
others climb them; vertices are left out by the label they have now. *Correct when*
parents point downwards inside a component, trees only merge, and labels agree exactly
on the components in the end.

**Betweenness centrality** (`bc.cc`). *State*: depths, path counts, successor bits, the
queue and where its levels begin, scores. *Operations*: `PBFS`, then a sweep back by
levels. *Hard*: a vertex found by another thread still needs this parent's paths;
counts, bits and queue are used again for the next source. *Correct when* every
shortest path is counted once.

**Builder** (`builder.h`, `graph.h`, `pvector.h`). *State*: degrees, offsets, the memory of
the neighbours. *Operations*: counting, placing by fetch-and-add, squishing; in-place
building, which turns the edge list itself into rows, spreads them out and adds the
missing inverses. *Hard*: offsets move while rows fill; one array is read and
overwritten; a binary search runs over rows that grow. *Correct when* each row is the
sorted set of a vertex's neighbours.

**Triangle counting** (`tc.cc`): a reduction over vertices, whose walks along rows have
no test for their end. **PageRank** (`pr*.cc`): a floating-point reduction over
independent vertices. **Readers, writers, generators, timing**: input and output.

### Other kernels

**NAS integer sort** (`is_omp.c`). *State*: the keys, a table of counts per thread,
with `USE_BUCKETS` also bucket pointers of each thread. *Operations*: `rank` in every
iteration, `full_verify` after the last. *Hard*: loops that do not wait for one another
add up the tables; pointers of one thread depend on the counts of the others; keys are
placed into the array they were copied from. *Correct when* an entry is the number of
keys up to it, and the keys end in order.

**kangaroo**, **camel**: array loops with a third form of the ghost synchronisation
(`camel_tpf.c:50-60`), whose skip comes after a test that is true whenever it is.
`kangaroo_tpf.c:799` queues a ghost in each iteration without waiting for the last.
**Scripts**: build, run, plot.

### How they interact

The `hpc` drivers give ghosts to a pool (`thpool_add_work`) and join them by
`thpool_wait`; the `gap` drivers create a thread or use an OpenMP section. Main and
ghost share the counter and, read-only, the data. The joins' and kernels' own threads
share their structures as above; the kernels run on what the builder returns. Nothing is persisted and no messages are
sent: there is no crash or delivery behaviour to model.

## 2. Modules

| Module | Models | State and actions |
|---|---|---|
| `JobPool` | what `thpool.h` promises | jobs added, queued, running, done; who waits for which; `Add`, `Begin`, `Finish`, `Wait`, `Return`, `Close`, `Drop` |
| `ThreadPool` | `thpool.c` | variables have the fields' names; `pc` is the worker in `thread_do`, `cpc` the client in a call |
| `PausablePool` | pause and resume | extends `ThreadPool` with pending signals and workers in the handler |
| `TwoPools` | two pools in a process | two instances of `ThreadPool` that share `threads_keepalive` |
| `GhostSync` | `pf_support.h`, a ghost per pass as in `bfs_tpf.cc` | main's iteration, the stores still readable, the ghost's iteration and flag |
| `NoPartitionJoin` | `NPO` of `npj2epb_tpf.c` | buckets, chains, latches, buffers; `pc` is the thread in `npo_thread` |
| `FrontierBFS` | `DOBFS`, sliding queue, bitmap | parents, queue, bitmaps, counts; `phase` is the master, `pc` a thread in a region |
| `ConnectedComponents` | `Afforest`, `Link`, `Compress`; `ShiloachVishkin` | parents (`comp`); `phase` is the parallel region, `pc` a thread in `Link`, `Compress` or a hook |
| `DeltaSSSP` | `DeltaStep`, `RelaxEdges` | distances, frontier, bins, the two indexes and tails; `pc` a thread between its barriers |
| `BrandesBC` | `PBFS`, `Brandes` | depths, counts, bits, queue and levels, scores; `phase` is the master |
| `RadixJoin` | `PRO`, `PRH`, `task_queue.h`; `RJ` as reference | the arrays, histograms, outputs, queues with their slots; `pc` a thread in `prj_thread`, `after` where its barrier leads |
| `IntegerSort` | `rank`, `full_verify` | keys, tables, bucket pointers; `pc` a thread in the region |
| `GraphBuilder` | `MakeGraph` | edge list, degrees, offsets, the memory of the rows; `phase` is the step |
| `TriangleCount` | `Hybrid`, `OrderedCount`, `RelabelByDegree` | extends `GraphBuilder` with the graph counted and the total |
| `ThreadPoolProofs`, `GhostSyncProofs`, `NoPartitionJoinProofs`, `RadixJoinProofs`, `IntegerSortProofs`, `ConnectedComponentsProofs`, `DeltaSSSPProofs`, `FrontierBFSProofs` | | theorems |

`MC*` modules and `.cfg` files give the constants values. `PROJECT.json` maps every
definition to the lines it translates. Definitions named `Mut...` are slips a
programmer could make, each caught by one property; nothing else uses them.

### Grain

An action is a stretch of code other threads cannot see the middle of. A critical
section whose middle is visible (the queue's `len` is read without its mutex,
`num_threads_alive` without `thcount_lock`) is several actions that hold the mutex in
between. In the joins, the kernels and the sort, an action has at most one access to
memory another thread may be writing.

* **Pool.** Each critical section of a worker is at least two actions, of which the last
  unlocks: a signal can stop it in between. Condition waits may wake spuriously. A client adds
  each job once; the owner destroys only when no client is in a call, and the pool lives once.
  Failures of `malloc` and `pthread_create` are left out.
* **Pause.** Steps of the pool are those of `ThreadPool`, all of them, except that a worker
  on hold takes none. A handler starts wherever its worker is, with `thcount_lock`, `rwmutex` or
  the semaphore's mutex in hand or without. SIGUSR1 is blocked while it runs and a second pending
  one is merged. A client may pause and resume at any time, in any order and before its signals have arrived.
* **Ghost.** The counter is relaxed atomic: a read returns any store not older than
  the last one this ghost has read, so `counter` is the sequence of those. Creating
  a thread synchronises, so the ghost starts from main's last store. `Resets` has
  the three habits of the drivers: cleared before the ghost is created, after, or
  never; `FirstValues` is what unwritten memory may hold.
* **Join.** A tuple is its position, a payload its key. Latches are test-and-set spin
  locks, the barrier pthread's. `Timing` is whether timing is compiled in, because
  the barrier after the probe is inside that `#ifdef`.
* **BFS.** A region's iterations are handed out in any order (in `BUStep` by chunks in
  order), which covers every static schedule. A bitmap is the set of its bits, its
  words of `kBitsPerWord`. `InitParent` has run. Reductions are added to one sum,
  which nobody reads before the join.
* **Components.** Every read, write and compare-and-swap of `comp` is an action, those
  of `comp[comp[n]]` two. The sampling that picks the component to skip is random and
  may pick any label there is.
* **SSSP.** Every read and swap of a distance is an action. A thread's own bins are its
  own; the critical section and each access to a shared index are one action each. Weights
  are positive, as the generator makes them (1 to 255). The frontier has `num_edges_directed()`
  slots. A copy that would pass its end (`PastEnd`) is undefined behaviour and has no step:
  a run that comes to it (`Overrun`) is over, and nothing is claimed beyond.
* **BC.** Path counts are added atomically, as in the code. Scores are counted in
  `Unit`ths, a number the quotients of path counts of the instances divide, where the
  code uses floating point.
* **Radix join.** What a thread does between two barriers to memory nobody else touches
  until the next (its histogram, its copy of its share, the clustering of a task) is
  one action: `RangesDisjoint` says that nobody does touch it, neither another task
  (`TasksApart`) nor another thread that copies its share of the same range (`CopiesApart`).
  A locked call of `task_queue.h` is one action, and filling a slot is separate from
  adding it. `histogram_join` moves and compares a tuple per action, because pieces
  of a large join share the array they reorder into.
* **Sort.** `key_buff1[i] += ...` is a load and a store, because the loops around it do
  not wait; keys are placed one at a time. A static schedule gives contiguous chunks.
* **Builder.** Each slot of an edge is reserved and filled by one action: the slot a
  fetch-and-add returns is nobody else's. Degrees are counted in one step. The in-place path is
  sequential; it moves and adds a neighbour per action, so that the invariants see
  each state of the array. The program exits where glibc's `realloc` returns NULL for a new size of 0
  (`ReallocFails`: a list of self-loops only).
* **Triangles.** A vertex is one action: the graph no longer changes.

## 3. What the runs check

| Run | Instance | Shows |
|---|---|---|
| `pool` | 2 workers, 2 clients of which one waits and the other destroys, 3 jobs | `WaitSound` `CountsExact` `NoStrandedJob` `EachJobOnce` `PoolInv`, and `ImplementsJobPool`: the pool implements `JobPool` with its liveness |
| `pause` | 2 workers, 2 jobs; one client adds, waits and destroys, the other pauses and resumes at any time | `PauseLosesNothing` `WorkCanBeAdded` |
| `ghost_sync` | 2 passes of 7 iterations, 3 habits of clearing, 3 first values | `SkipsGrounded` `KeepsDistance` `PassesEnd` |
| `join` | 2 threads, 3 pairs of relations | `ChainShape` `TableComplete` `NoUseAfterFree` `FlatResult` `JoinEnds` |
| `radix_join` | 2 threads, 6 pairs of relations, both join functions | `MatchesConserved` `RangesDisjoint` `TasksHeldOnce` `JoinEnds` |
| `bfs` | 2 threads; all undirected graphs on 4 vertices and three of 5, 6 and 8 | `TreeExact` `FrontierExact` `EnqueuedOnce` `SearchEnds` |
| `components` | 2 threads; 7 graphs on 4 vertices, both algorithms | `ForestSound` `RegionsDeliver` `OnlyMerges` `LabellingEnds` |
| `sssp` | 2 threads; 6 graphs with several values of delta | `NothingForgotten` `DistancesExact` `FrontierFits` `SearchEnds` |
| `bc` | 2 threads; 3 graphs, one with two sources in turn | `PathsCounted` `ScoresExact` `ScoresReturned` |
| `integer_sort` | 3 threads, 6 keys, 2 iterations, with and without buckets | `RanksExact` `SortExact` |
| `triangles` | 2 threads; 259 lists of edges, each directed and symmetrised: 514 inputs built in place and 4 in parallel | `GraphExact` `InPlaceSound` `TrianglesExact` |

The properties in words are the comments before their definitions. The type invariant
of a module is a conjunct of one of its invariants. Those worth a second look:

* `ImplementsJobPool` maps the pool to jobs that are queued, begun in order, finished,
  and dropped by a destroy. Because `JobPool` has fairness, it carries that jobs of a
  pool that stays up finish, that a wait and a destroy return, and that no job runs
  once the queue is freed.
* `MatchesConserved`: from the first task on, what has been counted, what is being
  counted and what the queued tasks will count add up to the number of matches, and the
  result is that of the one-threaded `RJ`. A cluster lost, offered twice or cut wrong breaks it at once, not
  at the end.
* `NothingForgotten`: a vertex whose distance has gone down since its edges were last
  relaxed is in the frontier, in a bin, or in a thread's hand. That is why an empty
  frontier means the end.
* `RegionsDeliver`: what each parallel region of the labelling owes the next: links
  made so far hold, a compression leaves stars, and the component that is skipped is
  linked by its neighbours.
* `InPlaceSound`: while rows are spread out in one array nothing is overwritten before
  it has been moved, and while inverses are added every row stays searchable where the
  binary search looks. Rows grow at their fronts, unsorted, but only by vertices below
  the one being looked for.

One run shows where code and documentation part, and is listed as a finding:
`two_pools_second_serves`. `threads_keepalive` is shared by all pools, and destroying one
pool clears it: the workers of the other leave, its jobs stay queued and a wait on it
never returns.

Met while modelling, and not among the runs:

* `thpool_destroy` polls `num_threads_alive` without its lock (`thpool.c:247`), and the last
  worker lowers it at line 402 before it unlocks at 403: the pool can be freed under
  the unlock.
* A SIGUSR1 delivered after `thpool_resume` raises the flag again (`thpool.c:321`), and
  its worker stays on hold until the next resume, if there is one: the example at `thpool.h:111-116`,
  which resumes without waiting for anything, may leave its threads on hold. Of the sentence of `thpool.h`
  that threads "return to their previous states once thpool_resume is called" `PauseLosesNothing` keeps
  what holds: a resume that comes after the last signal gives everything back. `Paused` says when a
  pause is over in that sense.
* Two clients asleep in `thpool_wait` are woken by one signal, and the second sleeps for
  good if no job follows; hence one waiting client in `pool`.
* "While the thread is being paused, new work can be added" (`thpool.h:107`) fails when a worker is
  caught with `rwmutex` or the semaphore's mutex in hand: `thpool_add_work` blocks until the
  resume. `WorkCanBeAdded` says that there is no other way to fail. A worker caught with `thcount_lock` blocks
  `thpool_wait` in the same way.
* With bins wider than 1, `DeltaStep` can overrun its frontier. A thread that empties its own bin by itself
  pushes a vertex again for each shorter way it finds, so that a later bin holds vertices several times
  and need not fit into the `num_edges_directed()` slots (`sssp.cc:148`) it is copied to unchecked
  (`sssp.cc:208-209`). With delta 10 and the edges s-u (9), s-a (1), a-u (4), a-b (1), b-u (1),
  u-v1, u-v2, u-v3 (10 each) one bin gets nine vertices for eight slots when u comes before a. The graph `Fusion` of the run, with
  delta 6, gets there too. With the default delta of 1 it cannot happen (`FrontierFits`, proved in general).
* A second pool created while the first is being destroyed raises the flag again and the
  destroy polls for good.
* `BUStep` of `bfs_tpf.cc` never clears its counter, so the ghost of a later pass can read
  the last value of the pass before and skip the loop (`SkipsGrounded` assumes a counter
  cleared in time for that reason).
* Compiled with `NO_TIMING` the no-partitioning join has no barrier after the probe
  (`npj2epb_tpf.c:670-693`), and a thread frees overflow buckets others are walking.
* `probe_hashtable` follows the chain by `b` but compares `tuples`, which stays at the first
  bucket (`npj2epb_tpf.c:425`): with an overflow bucket the count of matches is wrong.
  `FlatResult` is the part of the promise that does hold.
* A cluster of a large partition that is itself large in S and empty in R is still split
  into join tasks (`parallel_radix_join.c:1169`); `bucket_chaining_join` then has no bucket
  and reads one. The instance of `radix_join` gives that case to `histogram_join` only.
* `histogram_optimized_join` (PRHO) returns 0: its body is compiled out.
* `MakeCSRInPlace` calls `realloc` on memory `pvector` got from `new[]`. For a list of self-loops only
  the new size is 0, glibc returns NULL, and the program exits with "Call to realloc() failed" (`builder.h:257-260`)
  where the usual path builds a graph without edges.

### Bounds, and why they are enough

* **Pool.** Two workers are enough for every pairwise race, and for one to sleep while
  another finds the queue empty. Three jobs exceed both the workers and the
  semaphore, which is what a stranded job needs. What depends on the number of
  threads is proved in general. `Adders`, `Waiters` and `Pausers` say which clients make which calls:
  in `pool` one waits and the other destroys, so that calls overlap; in `pause` one client uses
  the pool and the other pauses it, with two jobs, so that a pull reposts. `pause` does not check
  deadlock: a pool that is paused and not resumed stops, as it should.
* **Ghost.** 7 iterations leave room to lead by more than `serialize_threshold` (3), to
  fall back below `unserialize_threshold` (2), and to skip; two passes let one inherit
  the counter of the other. First values: clear, the loop's end, beyond it.
* **Join.** `BUCKET_SIZE` is 2 as in the code, an overflow buffer has one bucket
  instead of 1024, so that threads run out of them, and the relations make chains
  of one, two and four buckets with duplicate keys and uneven shares. The table has
  `NEXT_POW_2(|R| / BUCKET_SIZE)` buckets as in the code; `|R|` is at least
  `BUCKET_SIZE` (with fewer tuples the code allocates no bucket).
* **BFS.** Words of 2 bits, chunks of 2 vertices, buffers of 1 vertex. All the model
  needs of 64 and 1024 is `SizesAssumption`: a chunk is whole words. `alpha` and `beta`
  are scaled with the graphs so that the search goes top-down only, bottom-up
  only, top-down then bottom-up with two vertices of a word in the queue, and
  bottom-up, top-down, bottom-up with stale bits. In this instance claims are lost
  to other threads, compare-and-swaps of words fail, buffers overflow in
  mid-region, and vertices are unreachable.
* **Components.** The graphs have a star whose centre is the highest vertex, a path that
  zigzags so that trees get deep and a compression has something to climb, a cycle,
  two components, isolated vertices, and directed graphs whose components only the
  in-edges join. One sampling round instead of two leaves edges for the last phase.
* **SSSP.** `kDistInf` is 12, more than any path of these graphs is long, and `kMaxBin` 13; all the
  model needs of 2^30 - 1 and 2^63 - 1 is `BoundsAssumption`, that no distance falls into the
  bin that is none. Three ways to a vertex, each shorter than the one before, so that swaps fail
  and distances are lowered again; delta from 1 to beyond every path, so that bins
  are skipped or hold everything; a threshold of 3 instead of 1000, so that bins are
  both worked off alone and exchanged. `Fork` with delta 1 fills its frontier of two slots to the end with
  the parts of one or two threads, and `Fusion` overruns its own with delta 6 and not with delta 1.
* **BC.** Two diamonds on the same sides make path counts of 1 and 2; a fan lets three
  parents add to one vertex; the second source must find everything reset.
* **Radix join.** Two radix bits, one per pass, one tuple of padding, and a cache of one
  tuple, so that with six or seven tuples nothing is large, or partitions are large and
  clusters are split, or only one side is large. Blocks have as many slots as the
  code gives them (`FANOUT_PASS1`, and one per cluster for joins), and pieces make the
  part queue need a second block.
* **Sort.** `main` sets two threads; three are the least with two rounds of accumulation,
  in which a thread can be a round ahead. Four key values in two buckets, and an
  array of equal keys next to a spread one.
* **Builder, triangles.** All 256 subsets of eight edges on five vertices, with a self-loop
  and a repeated edge, and a self-loop alone: rows that need no inverse, one, and several; moves of every
  distance; vertices without neighbours. Sum blocks of 2 instead of 2^20 vertices, and
  the relabelling that starts at an average degree of 10 in the code starts at 1.

### Fairness

* `ThreadPool`, `PausablePool`, `TwoPools`: strong fairness of each thread's steps. A
  mutex that is released again and again is eventually obtained; with weak fairness
  a thread could lose that race for ever, which the schedulers the code runs on do
  not do. A handler that is due runs and returns when it reads 0 (weak fairness); a worker on hold
  gets no turn. No fairness is given to calls of clients, to spurious wakeups, to pauses or to resumes.
* The other modules: weak fairness of each thread, of the barriers and of the master
  that forks and joins a region. Threads there wait for nothing else but latches and
  the locks of task queues, which are taken a finite number of times, so that a
  waiting thread finds them free in the end. A compare-and-swap that fails has let
  another succeed, which happens finitely often. `TriangleCount` needs none: it claims
  no liveness.

## 4. What is proved

### `ThreadPoolProofs`

From `ThreadsAssumption` (finitely many workers, at least one; clients are not
workers) and `JobsAssumption`, for any numbers of workers, clients and jobs:

| Theorem | Says |
|---|---|
| `TypeCorrect` | types; the semaphore is 0 or 1; a worker about to run something has a job |
| `CountsExactHold` | both counts are exact in every state |
| `WaitIsSound` | `thpool_wait` returns only when all jobs added before the call have run |
| `NoJobStranded` | a queued job is always attended to |
| `PoolInvariant` | the whole inductive invariant |
| `EachJobOnceHolds` | no job runs twice, is dropped and run, or is both queued and held |
| `PoolRefinesJobPool` | every step of the pool is a step of `JobPool` or a stutter |

`WaitSound` is not inductive: that nothing owed is queued or running when the wait
returns depends on what was true at its two reads. `PoolInv` therefore says, besides
the types, what the owner's life cycle excludes (`LifeInv`), who holds `thcount_lock`
(`LockInv`), that an added job is queued, running, finished or dropped (`JobsInv`), and
what each read has established (`WaitInv`): after `len = 0` none of the jobs owed is
queued, though others may be; a worker that took one was counted before it pulled,
and cannot be uncounted while the client holds the lock; so a count of 0 means none
of them runs. The counts are proved exact first (`CountsCorrect`), by a lemma on how
the number of workers at some locations changes when one moves (`OneMoves`).

`NoStrandedJob` needs that a raised semaphore finds a worker awake (`PostIsSeen`):
nobody goes to sleep while it is up, and a post wakes a sleeper. `QueueAttended` then
follows, because a pull that leaves jobs behind posts again before it releases the
queue.

The mapping of `PoolRefinesJobPool` is that of `ImplementsJobPool`. Most steps are stutters. The pull is the
abstract `Begin`: its job is at the head of the queue because a worker alone in
`rwmutex` holds it (`OnceInv`, which follows each job through queue, hand and
list of finished ones). A wait may return because `WaitSound` holds there, and a destroy
drops what it finds because no worker is left to run any of it. What the theorem leaves to TLC
is the fairness of `JobPool`.

Pauses are not in these theorems. A handler changes no variable of the pool, so that what a pause can
take away is progress, and of that only the `pause` run speaks.

### `GhostSyncProofs`

From `LoopAssumption` and `ParamsAssumption` (`sync_frequency > 0`, thresholds in
order), for any loop, number of passes and first value: `GhostKeepsDistance` (from
`GhostStaysAhead` and `DelayIsJustified`) and, through `CounterIsGrounded` (no readable store is beyond main),
`SkipsAreGrounded`.

### `NoPartitionJoinProofs`

From `ThreadsAssumption` and `SizesAssumption`, for any relations, shares of the threads, sizes of
buckets, of buffers and of the table:

| Theorem | Says |
|---|---|
| `ChainShapeHolds` | of a chain nobody has latched only the first two buckets may have room |
| `TableCompleteHolds` | when anyone probes, every tuple of R is in its chain once, and nothing else is |
| `NoUseAfterFreeHolds` | with `Timing`, no bucket a probe may reach has been freed |
| `FlatResultHolds` | as long as no chain overflows, the result is the number of matches |

`Timing` is a hypothesis of the third theorem alone: without it the barrier is not compiled and the
claim is false. A chain is the least set closed under the next bucket
(`Chain` and its lemmas), so that a new bucket behind the head adds itself and nothing
else; that avoids an induction over lists. The invariant says who owns each bucket (a
place in the table or one thread's buffer), that chains of different keys are
disjoint, and where the tuple in each thread's hand is (`Inserted`, `Holds`). For the result,
`Filed` keeps the pairs (tuple of R, tuple of S) counted so far equal in number to the
counter, and the total is reached by a bijection between those pairs and the matches.

### `RadixJoinProofs`

From `SizesAssumption` (at least one thread, at least two radix bits), for any relations, join function,
padding and threshold of what is large:

| Theorem | Says |
|---|---|
| `TasksHeldOnceHolds` | unlocked work on the queues is alone, and a task is in one queue, once, or in one thread's hands |
| `TasksCorrect` | the invariant it follows from |
| `RangesDisjointHolds` | tasks alive at once, and threads that divide a range together, do not get in each other's way in the arrays, and the gaps fit into them |
| `RangesLaidOut` | the invariant of the regions it follows from |
| `CopiesCounted` | the invariant of what the copies go by |

Neither half of `TasksHeldOnce` is inductive. That the first thread is alone when it makes, splits and
moves tasks without locks needs that all threads are between the same two barriers (`Together`,
by stages `At`): the loop over the large partitions repeats four of them, and a thread leaves it
by what it reads in `skewtask`, which the first thread has written before the barrier and writes again
only after the next. That a task has one holder needs that `get_slot` never returns a slot twice
(`GivenOut`: all slots handed out lie behind the end of the last block) and that hands count two slots while a
thread adds what it has made (`Held`). All pieces of a partition are added by one action;
`PiecesGrow` is an induction over them, on the recursive function `WithPieces`, which `PiecesDef`
shows to satisfy its equation.

`RangesDisjoint` speaks of the tasks alive now, and says nothing of the numbers they come
from. Its invariant `RangeInv` follows these, on top of `TaskInv`:

* `Histograms`: what a thread has counted of each cluster, summed up, grows with the
  cluster and stays within its share of the range (`OwnCounts`); the shares add up to the range
  (`SharesSum`).
* `Outputs`: so the first thread's starts, sums over all histograms plus the gaps, are at
  least a gap apart and end where the region ends (`StartsParted`). A thread copies only
  after all have counted, since they are `Together`.
* `RangesOK`: the regions of partitions are apart and inside the arrays (`Laid`), and no join
  lies in the region of a partition that is yet to be divided (`Unread`). While a partition
  is made into joins it is not alive, but the invariant has to say how far that has come, and that no
  join lies behind that point: `Offering` for the threads that divide their own
  tasks, `Splitting` for the first thread and the large partition, `Partitions` for the tasks of
  the first pass. `Kinds` says which queue holds which kind of task while who is where.

A task is then made inside what is left of the region of one partition, so that it is apart
from all others: `JoinsMade` for joins, `PartAdded` for partitions. The pieces of a split
join share R, which is what the last disjunct of `RangesDisjoint` allows. Sums are the recursive
function `SumOver`; `Sums`, `SumsLess`, `CountsSum` and `SumOfDifferences` say what the proofs need of it.

For the threads that copy at once `RangeInv` is too weak: it bounds the histograms, and two
threads would collide if one had counted less than it copies. `CopyInv` says that a
thread that is yet to copy has counted exactly the tuples of its share as they are in the array now
(`Exactly`), which holds because nobody changes that array between the count and the copy
(`TuplesKept`), and that its `output` still is as it was allocated (`Untouched`). The starts of clusters by
threads are then one table whose rows grow by what each thread copies and begin where the row before
ends, a gap apart (`OffsetsGrow`, `Staircase`), and two threads fill different places of it
(`CopiesAreApart`).

### `IntegerSortProofs`

From `SizesAssumption` (whole keys in a bucket, more keys than iterations) and `InputsAssumption`, for any
keys, number of threads, keys, buckets and iterations, and every interleaving, with buckets and without:

| Theorem | Says |
|---|---|
| `RanksAreExact` | when `rank` has returned, `key_buff1` holds for each key the number of keys at most as large |
| `SortIsExact` | at the end the keys of the last iteration are in order, none lost or made up, and found so; the types |
| `Invariance` | the invariant both follow from |

The threads of a region are all between the same two barriers, so the invariant is a disjunction of
eight stages (`Main`, `Counting`, `Adding`, ...), each of which says what a thread has done by its `pc`
and its indexes, and a barrier takes one stage to the next because the chunks cover everything
(`ChunksCover`). The steps of other threads disturb nothing for reasons that are different in each stage.
While counts are added up without buckets, a key of the table belongs to one chunk, so that the loop needs no
barrier between its rounds although it is `nowait`: a key a thread has passed in round k has the keys
of the chunks 0 .. k, one it has not those of the chunks before k (`Added`). While keys are scattered, key p
goes to `Slot(p)`, the number of keys in lower buckets plus that of earlier keys in its own; the pointers of
each thread are those numbers at its index, and `Slot` is injective and onto (`SlotInjective`, `SlotOnto`: the least
index at which a count exceeds the slot), so that nobody writes another's slot and none is left over.
While keys are placed, each key has the range of places from the number of lesser keys to its rank, the
ranges are apart (`RangesApart`) and cover the array (`KeyAt`), and what is left above each
lowered count is filled (`Placed`): it does not matter that `key_array` is overwritten, because the keys are read from
`key_buff2`. Counts are cardinalities; what a loop adds up is `SumOver`, a recursive function, and
`SumOfDifferences` is the one induction over it: the sum of f is a difference when f is one of neighbours.

### `ConnectedComponentsProofs`

From `ThreadsAssumption` and `InputsAssumption`, for any graph, number of
sampling rounds, choice of the label to pass over, and interleaving:

| Theorem | Says |
|---|---|
| `ForestIsSound` | parents are not above their children and never in another component |
| `RegionsAllDeliver` | what each parallel region owes the next, and exact labels on return |
| `AfforestOnlyMerges` | a step leaves trees as they are or joins the two at the ends of one edge |

Connectivity is a statement about sets closed under edges, or under `comp`, rather than about paths: two
vertices are joined when no closed set separates them. That makes each step a
statement about one set. The invariant `CompInv` records, for each `pc`, what a thread's copies of parents
mean when they are out of date: a label once read is still in the component of its
vertex, and a `Link` that has climbed keeps `{u, v}` to be joined with `{p1, p2}`.

### `DeltaSSSPProofs`

From `ThreadsAssumption`, `BoundsAssumption` and `InputsAssumption`, for any graph with positive weights, source,
width of the bins and number of threads, in every state up to an overrun of the frontier, which has as many
slots as the graph has edges:

| Theorem | Says |
|---|---|
| `NothingForgottenHolds` | an edge that can still lower a distance is pending somewhere |
| `DistancesExactHolds` | distances are never below the shortest, are exact below the bin an iteration works on, and exact for all at the end; no slot is outside the array |
| `FrontierFitsHolds` | with bins of width 1 there is no overrun |
| `SearchInvariant` | the invariant of the first two |

`NothingForgotten` is not inductive. Its strengthening `IInv` has the threads in the same half of an iteration
(`Together`), what the numbers in a thread's hand say of distances as they are now
(`Hands`: a read is never less than what is stored), reserved slots that are
apart and inside the tail (`Bounds`, `Apart`), no bin below the current one filled
(`BinsAbove`), and that an edge which can lower its end starts at a vertex far
enough away (`Far`), so that the test `dist[u] >= delta * curr_bin_index` never passes over a vertex with
work left to do. Exactness then needs that distances bound walks from below (`Lower`) and
that a distance no edge violates is a shortest one: an induction over the number of edges, and a count
of vertices that shows walks of n - 1 edges are enough (`WalksEnough`). `Walks` is a recursive function;
that it satisfies its equation is `WalksDef`, from the existence of iterated functions (`Iteration`).

That the frontier fits when bins have width 1 is a second invariant, `FitInv`. A bin then is a distance. A
vertex is pushed into it by the swap that lowers its distance to it (`Pushed`), and distances only go down,
so the threads' parts of a bin together hold a vertex once (`OnceEach`). The slots reserved can therefore be given
different vertices, each with an edge to it (`SlotsGiven`, a function from the slots whose range leaves out the
parts yet to be reserved), and there are no more of these than edges (`HeadsFacts`). The tail starts from
0 because the single of the iteration before has reset it (`Cleared`). None of this holds for
wider bins, where a vertex may be pushed into one bin twice at different distances.

### `FrontierBFSProofs`

From `SizesAssumption` (a chunk is whole words of the bitmap), `ThreadsAssumption` and `InputsAssumption`
(a row holds each out-neighbour once, `alpha` and `beta` are positive), for any directed graph, source, number of
threads, size of buffers, and so for every change of direction:

| Theorem | Says |
|---|---|
| `TreeExactHolds` | parents are shortest paths at every step, and span what can be reached at the end |
| `FrontierExactHolds` | queue and bitmaps hold exactly the frontier when they are read |
| `EnqueuedOnceHolds` | no vertex is enqueued twice, no slot written twice; the types |

The invariant has a level d, with `Within[d]` visited and nothing beyond `Within[d + 1]`. Steps of threads keep d; the
end of a top-down step and of each bottom-up pass goes on to d + 1. During a region
each vertex visited is in one place: a filled slot past the window, a thread's buffer or its hand
(`SlotsInv`, `DistinctInv`), or, bottom-up, a bit of `curr` or a hand about to set it (`BUInv`). Two
facts are easy to miss. A slot a flush reserves exists because slots and buffers hold different vertices, and the array
has a slot a vertex (`Room`, a counting argument). A plain read and write of a word of `curr` loses no bit because
chunks are whole words, so that a word has one writer at a time (`WordInChunk`); without
`ChunkSize % kBitsPerWord = 0` the theorem is false, as `MutChunks` shows. Bits that are left in
`front` from an earlier phase are harmless because their vertices' out-neighbours have all been visited.

### Induction

The library's induction theorems take an operator as a parameter, which the provers cannot
instantiate. Where numbers are what is inducted over, the proofs use a set instead: a set of
naturals that holds 0 and the successor of each of its members is all of them (`NatInd`),
from the least element of its complement (`NatLeast`, an instance of the well-foundedness of < on
naturals). A property becomes the set of numbers that have it. Where data is linked, the
least closed set stands for the recursion, as for chains and components.

### Only model-checked

* Liveness: `JoinEnds`, `SearchEnds`, `LabellingEnds`, `PassesEnd`, `ScoresReturned`,
  and the fairness in `ImplementsJobPool`. Fairness means ENABLED, which the provers
  do not handle.
* The invariants of `BrandesBC`, `GraphBuilder` and `TriangleCount`; of `RadixJoin`,
  `MatchesConserved`. Most of them add up numbers over sets (`MapThenSumSet`), whose
  lemmas are still to be proved.
* Everything about pauses: `PauseLosesNothing` and `WorkCanBeAdded` are liveness.

## 5. Not modelled

Listed with reasons under `components` in `PROJECT.json`. The definitions' lines are a
small part of the repository, because most of its lines are copies of what they model:
each kernel comes as a plain, a ghosted and a parallel ghosted program with the same
loop in it, each join in two directories and several widths, kangaroo four times.

* Reading, generating, printing, timing and hardware counters: no state the properties
  are about.
* PageRank, the normalisation of the betweenness scores: floating point, where what could
  go wrong is rounding.
* The variants of the joins, kangaroo and camel: copies that differ in prefetches, widths,
  pragmas and in what their loops read.
* `parallel_radix_partition_optimized` and the body of `histogram_optimized_join`: compiled
  out. The partial verification of the sort: tables of constants.
* Failures of `malloc` and `pthread_create`.
* Ghosts other than one per pass: counters of inner loops, `sync_jump`, and the ghosts of
  `tc_tpf_paral.cc` that chase dynamically scheduled chunks. They prefetch only; what is
  left to say of them is that they end.

## 6. What comes next: theorems

In this order:

1. `RadixJoin`: `MatchesConserved`. With `RangesDisjoint` proved, what is left is that a copy keeps
   the matches of a task: the places of `CopyOut` are different for different tuples.
2. `GraphBuilder` and `TriangleCount`: `InPlaceSound`, then `GraphExact`.
3. `BrandesBC`: `PathsCounted`.
