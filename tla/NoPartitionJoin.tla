---------------------------- MODULE NoPartitionJoin ----------------------------
(***************************************************************************)
(* The no-partitioning hash join of                                        *)
(* src/hpc/hashjoin-ph-2/src/npj2epb_tpf.c (NPO): threads insert their     *)
(* shares of relation R into one hash table of chained buckets under a     *)
(* latch per chain, meet at a barrier, then probe the table with their     *)
(* shares of S without latches. Overflow buckets come from buffers each    *)
(* thread allocates and frees itself.                                      *)
(*                                                                         *)
(* A tuple is its position in R; of the payload only the key matters.      *)
(***************************************************************************)
EXTENDS Integers, Sequences, FiniteSets

CONSTANTS
    nthreads,
    BUCKET_SIZE,         \* tuples in a bucket
    OVERFLOW_BUF_SIZE,   \* buckets in an overflow buffer
    Inputs,              \* the pairs of relations (sequences of keys) joined
    Timing               \* compiled without NO_TIMING

ASSUME SizesAssumption ==
    /\ nthreads \in Nat \ {0}
    /\ BUCKET_SIZE \in Nat \ {0} /\ OVERFLOW_BUF_SIZE \in Nat \ {0}
    /\ Timing \in BOOLEAN

(* With fewer tuples than a bucket holds the table would have no bucket.   *)
ASSUME InputsAssumption ==
    \A in \in Inputs : /\ in[1] \in Seq(Nat) /\ in[2] \in Seq(Nat)
                       /\ Len(in[1]) >= BUCKET_SIZE

Threads == 0 .. nthreads - 1

VARIABLES
    relR, relS,   \* the relations
    created,      \* threads NPO has created
    joined,       \* and joined
    result,
    pc,           \* where each thread is in npo_thread
    i,            \* its loop index, in build and in probe
    curr,         \* the bucket at hand
    nxt,          \* build: curr->next as read under the latch
    room,         \* build: where the tuple is to go
    num_results,  \* its matches
    overflowbuf,  \* its overflow buffers: how many, and buckets used of the last
    latch,        \* the chains whose latch is taken
    bucket        \* every bucket in use: count, tuples, next

input == <<relR, relS>>
mainVars == <<created, joined, result>>
locals == <<i, curr, nxt, room>>
nvars == <<input, mainVars, pc, locals, num_results, overflowbuf, latch, bucket>>

-----------------------------------------------------------------------------
(* NEXT_POW_2: the least power of two that is at least v, for v > 0. The   *)
(* bits below the highest of v - 1 are all set, and one is added.          *)
NextPow2(v) ==
    1 + Cardinality({x \in 1 .. 2 * v : \E k \in 0 .. v : 2^k < v /\ x < 2^(k + 1)})

num_buckets == NextPow2(Len(relR) \div BUCKET_SIZE)

(* Buckets: those of the table, and slot s of the n-th buffer of thread t. *)
TableBucket(h) == <<-1, 0, h>>
Overflow(t, n, s) == <<t, n, s>>
Null == <<>>

HASH(key) == TableBucket(key % num_buckets)

EmptyBucket == [count |-> 0, tuples |-> [j \in 1 .. BUCKET_SIZE |-> 0], next |-> Null]

(* The part of n tuples thread t is given: the last one takes the rest.    *)
Share(n, t) ==
    LET each == n \div nthreads
    IN  [first |-> each * t,
         size  |-> IF t = nthreads - 1 THEN n - each * t ELSE each]

RTuple(t) == Share(Len(relR), t).first + i[t] + 1
SKey(t) == relS[Share(Len(relS), t).first + i[t] + 1]

-----------------------------------------------------------------------------
Init ==
    /\ \E in \in Inputs : relR = in[1] /\ relS = in[2]
    /\ created = 0 /\ joined = 0 /\ result = 0
    /\ pc = [t \in Threads |-> "none"]
    /\ i = [t \in Threads |-> 0]
    /\ curr = [t \in Threads |-> Null] /\ nxt = [t \in Threads |-> Null]
    /\ room = [t \in Threads |-> "none"]
    /\ num_results = [t \in Threads |-> 0]
    /\ overflowbuf = [t \in Threads |-> [bufs |-> 0, used |-> 0]]
    /\ latch = {}
    /\ bucket = [b \in {TableBucket(h) : h \in 0 .. num_buckets - 1} |-> EmptyBucket]

Goto(t, there) == pc' = [pc EXCEPT ![t] = there]

(* NPO creates the threads in order; each first makes its overflow buffer. *)
Create ==
    /\ created < nthreads
    /\ created' = created + 1
    /\ Goto(created, "started")
    /\ overflowbuf' = [overflowbuf EXCEPT ![created] = [bufs |-> 1, used |-> 0]]
    /\ UNCHANGED <<input, joined, result, locals, num_results, latch, bucket>>

(* A barrier opens when every thread has arrived.                          *)
Barrier(here, there) ==
    /\ \A t \in Threads : pc[t] = here
    /\ pc' = [t \in Threads |-> there]
    /\ i' = [t \in Threads |-> 0]
    /\ UNCHANGED <<input, mainVars, curr, nxt, room, num_results, overflowbuf,
                   latch, bucket>>

StartBarrier == Barrier("started", "build")
BuildBarrier == Barrier("built", "probe")

-----------------------------------------------------------------------------
(* build_hashtable_mt                                                      *)

Lock(t) ==
    /\ pc[t] = "build" /\ i[t] < Share(Len(relR), t).size
    /\ LET b == HASH(relR[RTuple(t)])
       IN  b \notin latch /\ curr' = [curr EXCEPT ![t] = b] /\ latch' = latch \cup {b}
    /\ Goto(t, "look")
    /\ UNCHANGED <<input, mainVars, i, nxt, room, num_results, overflowbuf, bucket>>

Full(b) == bucket[b].count = BUCKET_SIZE

(* Mutant: a full head always gets a new bucket after it.                  *)
MutLook(t) ==
    /\ pc[t] = "look"
    /\ nxt' = [nxt EXCEPT ![t] = bucket[curr[t]].next]
    /\ room' = [room EXCEPT ![t] = IF Full(curr[t]) THEN "new" ELSE "curr"]
    /\ Goto(t, "place")
    /\ UNCHANGED <<input, mainVars, i, curr, num_results, overflowbuf, latch, bucket>>

(* Under the latch: the first bucket, the second, or a new one.            *)
Look(t) ==
    /\ pc[t] = "look"
    /\ LET n == bucket[curr[t]].next
       IN  /\ nxt' = [nxt EXCEPT ![t] = n]
           /\ room' = [room EXCEPT ![t] =
                 CASE ~ Full(curr[t])                         -> "curr"
                   [] Full(curr[t]) /\ n # Null /\ ~ Full(n)  -> "nxt"
                   [] Full(curr[t]) /\ (n = Null \/ Full(n))  -> "new"]
    /\ Goto(t, "place")
    /\ UNCHANGED <<input, mainVars, i, curr, num_results, overflowbuf, latch, bucket>>

(* dest = b->tuples + b->count; b->count++; *dest = the tuple.             *)
AddTuple(b, r) ==
    [count |-> b.count + 1, next |-> b.next,
     tuples |-> [b.tuples EXCEPT ![b.count + 1] = r]]

PlaceIn(t, b) ==
    /\ bucket' = [bucket EXCEPT ![b] = AddTuple(@, RTuple(t))]
    /\ UNCHANGED overflowbuf

(* get_new_bucket: the next one of the buffer, or the first of a new one.  *)
NewBucket(t) ==
    LET o == overflowbuf[t]
    IN  IF o.used < OVERFLOW_BUF_SIZE
        THEN [o EXCEPT !.used = @ + 1]
        ELSE [bufs |-> o.bufs + 1, used |-> 1]

(* Mutant: the new bucket goes to the end of a chain of two, and drops the *)
(* rest of a longer one.                                                   *)
MutPlaceNew(t) ==
    LET o == NewBucket(t)
        b == Overflow(t, o.bufs, o.used)
        new == AddTuple(EmptyBucket, RTuple(t))
    IN  /\ overflowbuf' = [overflowbuf EXCEPT ![t] = o]
        /\ bucket' = [x \in DOMAIN bucket \cup {b} |->
               CASE x = b -> new
                 [] x = curr[t] -> [bucket[x] EXCEPT !.next = b]
                 [] OTHER -> bucket[x]]

(* The new bucket, with the tuple, goes between curr and nxt.              *)
PlaceNew(t) ==
    LET o == NewBucket(t)
        b == Overflow(t, o.bufs, o.used)
        new == [AddTuple(EmptyBucket, RTuple(t)) EXCEPT !.next = nxt[t]]
    IN  /\ overflowbuf' = [overflowbuf EXCEPT ![t] = o]
        /\ bucket' = [x \in DOMAIN bucket \cup {b} |->
               CASE x = b -> new
                 [] x = curr[t] -> [bucket[x] EXCEPT !.next = b]
                 [] OTHER -> bucket[x]]

Place(t) ==
    /\ pc[t] = "place"
    /\ \/ room[t] = "curr" /\ PlaceIn(t, curr[t])
       \/ room[t] = "nxt" /\ PlaceIn(t, nxt[t])
       \/ room[t] = "new" /\ PlaceNew(t)
    /\ Goto(t, "unlock")
    /\ UNCHANGED <<input, mainVars, locals, num_results, latch>>

Unlock(t) ==
    /\ pc[t] = "unlock"
    /\ latch' = latch \ {curr[t]}
    /\ i' = [i EXCEPT ![t] = @ + 1]
    /\ Goto(t, "build")
    /\ UNCHANGED <<input, mainVars, curr, nxt, room, num_results, overflowbuf, bucket>>

BuildEnd(t) ==
    /\ pc[t] = "build" /\ i[t] = Share(Len(relR), t).size
    /\ Goto(t, "built")
    /\ UNCHANGED <<input, mainVars, locals, num_results, overflowbuf, latch, bucket>>

-----------------------------------------------------------------------------
(* probe_hashtable                                                         *)

ProbeTuple(t) ==
    /\ pc[t] = "probe" /\ i[t] < Share(Len(relS), t).size
    /\ curr' = [curr EXCEPT ![t] = HASH(SKey(t))]
    /\ Goto(t, "scan")
    /\ UNCHANGED <<input, mainVars, i, nxt, room, num_results, overflowbuf, latch, bucket>>

(* Mutant: scans one tuple too few.                                        *)
MutHits(t) ==
    LET first == bucket[HASH(SKey(t))]
    IN  {j \in 1 .. bucket[curr[t]].count - 1 : relR[first.tuples[j]] = SKey(t)}

(* The keys compared are those of `tuples`, which is set to the first      *)
(* bucket of the chain and stays there, up to the count of the bucket the  *)
(* scan has come to.                                                       *)
Hits(t) ==
    LET first == bucket[HASH(SKey(t))]
    IN  {j \in 1 .. bucket[curr[t]].count : relR[first.tuples[j]] = SKey(t)}

(* One bucket of the chain; b = b->next.                                   *)
Scan(t) ==
    /\ pc[t] = "scan"
    /\ num_results' = [num_results EXCEPT ![t] = @ + Cardinality(Hits(t))]
    /\ LET n == bucket[curr[t]].next
       IN  /\ curr' = [curr EXCEPT ![t] = n]
           /\ \/ n # Null /\ UNCHANGED <<i, pc>>
              \/ n = Null /\ i' = [i EXCEPT ![t] = @ + 1] /\ Goto(t, "probe")
    /\ UNCHANGED <<input, mainVars, nxt, room, overflowbuf, latch, bucket>>

ProbeEnd(t) ==
    /\ pc[t] = "probe" /\ i[t] = Share(Len(relS), t).size
    /\ Goto(t, "probed")
    /\ UNCHANGED <<input, mainVars, locals, num_results, overflowbuf, latch, bucket>>

(* Mutant: frees as soon as its own probe is over.                         *)
MutLeave(t) ==
    /\ pc[t] = "probed"
    /\ Goto(t, "free")
    /\ UNCHANGED <<input, mainVars, locals, num_results, overflowbuf, latch, bucket>>

(* The barrier after the probe is there only when timing is compiled in.   *)
Leave(t) ==
    /\ pc[t] = "probed"
    /\ Timing => \A s \in Threads : pc[s] \in {"probed", "free", "exit"}
    /\ Goto(t, "free")
    /\ UNCHANGED <<input, mainVars, locals, num_results, overflowbuf, latch, bucket>>

(* Mutant: forgets to step to the next buffer.                             *)
MutFree(t) ==
    /\ pc[t] = "free"
    /\ IF overflowbuf[t].bufs = 1 THEN Goto(t, "exit") ELSE UNCHANGED pc
    /\ UNCHANGED <<input, mainVars, locals, num_results, overflowbuf, latch, bucket>>

(* free_bucket_buffer frees the buffers, the newest first.                 *)
Free(t) ==
    /\ pc[t] = "free"
    /\ overflowbuf' = [overflowbuf EXCEPT ![t].bufs = @ - 1]
    /\ IF overflowbuf[t].bufs = 1 THEN Goto(t, "exit") ELSE UNCHANGED pc
    /\ UNCHANGED <<input, mainVars, locals, num_results, latch, bucket>>

(* NPO joins the threads in order and sums up their results.               *)
JoinThread ==
    /\ created = nthreads /\ joined < nthreads /\ pc[joined] = "exit"
    /\ result' = result + num_results[joined]
    /\ joined' = joined + 1
    /\ UNCHANGED <<input, created, pc, locals, num_results, overflowbuf, latch, bucket>>

-----------------------------------------------------------------------------
ThreadStep(t) ==
    \/ Lock(t) \/ Look(t) \/ Place(t) \/ Unlock(t) \/ BuildEnd(t)
    \/ ProbeTuple(t) \/ Scan(t) \/ ProbeEnd(t) \/ Leave(t) \/ Free(t)

Barriers == StartBarrier \/ BuildBarrier
MainStep == Create \/ JoinThread
Over == joined = nthreads /\ UNCHANGED nvars

Next == MainStep \/ Barriers \/ Over \/ \E t \in Threads : ThreadStep(t)

Spec == Init /\ [][Next]_nvars

(* Weak fairness is enough for the spin lock: every thread takes a latch   *)
(* finitely often.                                                         *)
FairSpec ==
    /\ Spec /\ WF_nvars(MainStep) /\ WF_nvars(Barriers)
    /\ \A t \in Threads : WF_nvars(ThreadStep(t))

-----------------------------------------------------------------------------
(* The chain of a bucket, which is in every set of buckets that has the    *)
(* bucket itself and the next of each of its members; the tuples in it.    *)
ClosedUnderNext(C) == \A b \in C : bucket[b].next \in C \cup {Null}

Chain(b) ==
    LET holding == {C \in SUBSET (DOMAIN bucket) : b \in C /\ ClosedUnderNext(C)}
    IN  {c \in DOMAIN bucket : \A C \in holding : c \in C}

Heads == {TableBucket(h) : h \in 0 .. num_buckets - 1}
Slots(b) == {s \in Chain(b) \X (1 .. BUCKET_SIZE) : s[2] <= bucket[s[1]].count}

Live(b) == b[1] \in Threads => b[2] <= overflowbuf[b[1]].bufs

TypeOK ==
    /\ relR \in Seq(Nat) /\ relS \in Seq(Nat)
    /\ created \in 0 .. nthreads /\ joined \in 0 .. nthreads /\ result \in Nat
    /\ pc \in [Threads -> {"none", "started", "build", "look", "place", "unlock",
                           "built", "probe", "scan", "probed", "free", "exit"}]
    /\ i \in [Threads -> Nat] /\ num_results \in [Threads -> Nat]
    /\ curr \in [Threads -> DOMAIN bucket \cup {Null}]
    /\ nxt \in [Threads -> DOMAIN bucket \cup {Null}]
    /\ room \in [Threads -> {"none", "curr", "nxt", "new"}]
    /\ overflowbuf \in [Threads -> [bufs : Nat, used : 0 .. OVERFLOW_BUF_SIZE]]
    /\ latch \subseteq Heads
    /\ bucket \in [DOMAIN bucket ->
                     [count : 0 .. BUCKET_SIZE, next : DOMAIN bucket \cup {Null},
                      tuples : [1 .. BUCKET_SIZE -> 0 .. Len(relR)]]]

(* Inserts find room by looking at two buckets only. That is right because *)
(* of a chain at rest no bucket but the first two has room, and the second *)
(* exists only once the first is full.                                     *)
ChainShape ==
    /\ TypeOK
    /\ \A h \in Heads \ latch :
         /\ bucket[h].next # Null => Full(h)
         /\ \A b \in Chain(h) \ {h, bucket[h].next} : Full(b)

(* Probing takes no latch: when any thread probes, every tuple of R is in  *)
(* the chain of its key, exactly once, and nothing else is in the table.   *)
TableComplete ==
    (\E t \in Threads : pc[t] \in {"probe", "scan"}) =>
        /\ \A r \in 1 .. Len(relR) :
              Cardinality({s \in Slots(HASH(relR[r])) : bucket[s[1]].tuples[s[2]] = r}) = 1
        /\ \A h \in Heads : \A s \in Slots(h) :
              HASH(relR[bucket[s[1]].tuples[s[2]]]) = h

(* A thread frees its overflow buffers though other threads' chains run    *)
(* through them: none is freed that a probe may still reach. The comment   *)
(* in npo_thread explains the barrier before it by "a reliable timing".    *)
NoUseAfterFree ==
    \A t \in Threads : pc[t] = "scan" => \A b \in Chain(curr[t]) : Live(b)

Matches ==
    Cardinality({p \in (DOMAIN relR) \X (DOMAIN relS) : relR[p[1]] = relS[p[2]]})

(* As long as no chain overflows, the join counts every matching pair once *)
(* although each thread sees a part of S only.                             *)
FlatResult == joined = nthreads /\ DOMAIN bucket = Heads => result = Matches

(* The join ends: no thread is left at a latch or a barrier.               *)
JoinEnds == <>(joined = nthreads)
=============================================================================
