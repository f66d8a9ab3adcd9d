------------------------ MODULE NoPartitionJoinProofs -------------------------
(***************************************************************************)
(* Theorems about the no-partitioning join, for any relations, number of   *)
(* threads and sizes of buckets and buffers: the shape of the chains the   *)
(* inserts rely on, the table the probes find, and the barrier that makes  *)
(* the freeing of overflow buckets safe.                                   *)
(***************************************************************************)
EXTENDS NoPartitionJoin, FunctionTheorems, FiniteSetTheorems, SequenceTheorems, TLAPS

USE SizesAssumption

Holding == {"look", "place", "unlock"}
Before == {"none", "started"}
Past == {"probe", "scan", "probed", "free", "exit"}

(* Threads exist in the order they are created, and each owns a buffer     *)
(* until it has freed all of them.                                         *)
OwnBuffers ==
    /\ \A t \in Threads : t >= created => pc[t] = "none"
    /\ \A t \in Threads : pc[t] = "none" => overflowbuf[t].bufs = 0
    /\ \A t \in Threads : pc[t] \notin {"none", "exit"} => overflowbuf[t].bufs >= 1

(* The barriers: nobody builds once one thread probes, and, with timing    *)
(* compiled in, nobody frees while one still does.                         *)
InPhase ==
    /\ \A t, u \in Threads : pc[t] \in Past => pc[u] \in Past
    /\ Timing => \A t, u \in Threads :
                    pc[t] \in {"probe", "scan"} => pc[u] \notin {"free", "exit"}

(* The overflow buckets of a thread are the ones it has taken so far.      *)
Taken ==
    \A b \in DOMAIN bucket : b[1] \in Threads /\ pc[b[1]] \notin {"free", "exit"} =>
        LET o == overflowbuf[b[1]]
        IN  /\ b[2] \in Nat /\ b[3] \in Nat
            /\ b[2] < o.bufs \/ (b[2] = o.bufs /\ b[3] <= o.used)

(* Chains begin at heads and do not meet; only the first two buckets of    *)
(* one may have room.                                                      *)
Linked ==
    /\ Null \notin DOMAIN bucket /\ Heads \subseteq DOMAIN bucket
    /\ \A b \in DOMAIN bucket : bucket[b].next \notin Heads
    /\ \A b, c \in DOMAIN bucket :
          bucket[b].next = bucket[c].next /\ bucket[b].next # Null => b = c
    /\ \A h \in Heads : bucket[h].next # Null => Full(h)
    /\ \A b \in DOMAIN bucket \ Heads : Full(b) \/ \E h \in Heads : bucket[h].next = b

(* The part of R a thread inserts.                                         *)
First(t) == Share(Len(relR), t).first
Size(t) == Share(Len(relR), t).size

(* What a thread knows of the chain whose latch it holds.                  *)
RoomFound(t) ==
    /\ nxt[t] = bucket[curr[t]].next
    /\ \/ room[t] = "curr" /\ ~ Full(curr[t])
       \/ room[t] = "nxt" /\ nxt[t] # Null /\ ~ Full(nxt[t])
       \/ room[t] = "new" /\ Full(curr[t]) /\ (nxt[t] = Null \/ Full(nxt[t]))

Scanning == \A t \in Threads : pc[t] = "scan" => curr[t] \in DOMAIN bucket

Latched ==
    /\ \A t \in Threads : pc[t] \in Holding =>
          /\ i[t] < Size(t)
          /\ curr[t] = HASH(relR[RTuple(t)]) /\ curr[t] \in latch
    /\ \A t, u \in Threads :
          t # u /\ pc[t] \in Holding /\ pc[u] \in Holding => curr[t] # curr[u]
    /\ \A t \in Threads : pc[t] = "place" => RoomFound(t)

(* The tuples a thread has put into the table.                             *)
Inserted(t) ==
    {k \in 0 .. Size(t) - 1 :
        CASE pc[t] \in Before -> FALSE
          [] pc[t] \in {"build", "look", "place"} -> k < i[t]
          [] pc[t] = "unlock" -> k <= i[t]
          [] OTHER -> TRUE}

InTable(r) == \E t \in Threads : \E k \in Inserted(t) : r = First(t) + k + 1

Holds(b, j, r) == b \in DOMAIN bucket /\ j \in 1 .. bucket[b].count /\ bucket[b].tuples[j] = r

(* The table holds these tuples, each once and in the chain of its key.    *)
Filed ==
    /\ \A b, j, r : Holds(b, j, r) => InTable(r) /\ b \in Chain(HASH(relR[r]))
    /\ \A b, c, j, k, r : Holds(b, j, r) /\ Holds(c, k, r) => b = c /\ j = k
    /\ \A r : InTable(r) => \E b, j : Holds(b, j, r)

JoinInv ==
    TypeOK /\ OwnBuffers /\ InPhase /\ Taken /\ Linked /\ Latched /\ Scanning /\ Filed

-----------------------------------------------------------------------------
(* Shares, sizes and names.                                                *)

LEMMA ThreadsFacts ==
    /\ Threads \subseteq Nat /\ -1 \notin Threads
    /\ \A t \in Threads : t < nthreads
BY DEF Threads

LEMMA NumBuckets == ASSUME TypeOK PROVE num_buckets \in Nat \ {0}
<1> DEFINE bits(v) == {x \in 1 .. 2 * v : \E k \in 0 .. v : 2^k < v /\ x < 2^(k + 1)}
<1>1. \A v \in Int : IsFiniteSet(1 .. 2 * v)
  BY FS_Interval
<1>2. \A v \in Int : Cardinality(bits(v)) \in Nat
  <2> TAKE v \in Int
  <2>1. bits(v) \in SUBSET (1 .. 2 * v)
    OBVIOUS
  <2> QED
    BY <1>1, <2>1, FS_Subset, FS_CardinalityType
<1>3. Len(relR) \div BUCKET_SIZE \in Int
  BY DEF TypeOK
<1> QED
  BY <1>2, <1>3 DEF num_buckets, NextPow2

(* HASH takes any key to a bucket of the table.                            *)
LEMMA HashIsHead ==
    ASSUME TypeOK
    PROVE  /\ \A k \in Nat : HASH(k) \in Heads
           /\ \A r \in 1 .. Len(relR) : relR[r] \in Nat /\ HASH(relR[r]) \in Heads
<1>1. num_buckets \in Nat \ {0}
  BY NumBuckets
<1>2. \A k \in Nat : HASH(k) \in Heads
  BY <1>1 DEF HASH, Heads
<1>3. \A r \in 1 .. Len(relR) : relR[r] \in Nat
  BY DEF TypeOK
<1> QED
  BY <1>2, <1>3

(* The shares of n tuples are disjoint and cover them.                     *)
LEMMA Shares ==
    ASSUME NEW n \in Nat
    PROVE  /\ \A t \in Threads : Share(n, t).first \in Nat /\ Share(n, t).size \in Nat
           /\ \A t \in Threads : \A k \in 0 .. Share(n, t).size - 1 :
                 Share(n, t).first + k + 1 \in 1 .. n
           /\ \A t, u \in Threads :
                 \A k \in 0 .. Share(n, t).size - 1, l \in 0 .. Share(n, u).size - 1 :
                    Share(n, t).first + k + 1 = Share(n, u).first + l + 1 => t = u /\ k = l
           /\ \A r \in 1 .. n : \E t \in Threads : \E k \in 0 .. Share(n, t).size - 1 :
                 r = Share(n, t).first + k + 1
<1> DEFINE each == n \div nthreads
           last == nthreads - 1
           off(t) == each * t
<1>1. each \in Nat /\ off(nthreads) <= n /\ last \in Nat
  BY DEF Threads
<1>2. \A t \in Nat : off(t) \in Nat
  BY <1>1
<1>3. \A t \in Nat : off(t + 1) = off(t) + each
  BY <1>1
<1>4. \A t, u \in Nat : t <= u => off(t) <= off(u)
  BY <1>1
<1>5. /\ \A t \in Threads : Share(n, t).first = off(t)
      /\ \A t \in Threads \ {last} : Share(n, t).size = each
      /\ Share(n, last).size = n - off(last) /\ last \in Threads
  BY DEF Share, Threads
<1>6. \A r \in 1 .. n : each > 0 =>
         (r - 1) \div each \in Nat /\ off((r - 1) \div each) <= r - 1
         /\ r - 1 < off((r - 1) \div each) + each
  BY <1>1
<1>7. off(0) = 0
  BY <1>1
<1> HIDE DEF each, off
<1>8. \A t \in Threads : t \in Nat /\ t <= last /\ off(t) \in Nat /\ off(t) + each <= n
  <2> TAKE t \in Threads
  <2>1. t \in Nat /\ t <= last /\ t + 1 \in Nat /\ t + 1 <= nthreads /\ nthreads \in Nat
    BY DEF Threads
  <2>2. off(t + 1) <= off(nthreads) /\ off(t + 1) = off(t) + each
    BY <1>3, <1>4, <2>1
  <2> QED
    BY <1>1, <1>2, <2>1, <2>2
<1>9. \A t \in Threads : Share(n, t).first \in Nat /\ Share(n, t).size \in Nat
                         /\ Share(n, t).first + Share(n, t).size <= n
  BY <1>1, <1>5, <1>8
<1>10. \A t \in Threads : \A k \in 0 .. Share(n, t).size - 1 :
         Share(n, t).first + k + 1 \in 1 .. n
  BY <1>9
<1>11. ASSUME NEW t \in Threads, NEW u \in Threads, t < u,
             NEW k \in 0 .. Share(n, t).size - 1, NEW l \in 0 .. Share(n, u).size - 1
      PROVE  Share(n, t).first + k + 1 < Share(n, u).first + l + 1
  <2>1. t # last /\ t + 1 <= u /\ t \in Nat /\ u \in Nat /\ t + 1 \in Nat
    BY <1>8, <1>11
  <2>2. off(t) + each <= off(u) /\ off(t) \in Nat /\ off(u) \in Nat
    BY <1>2, <1>3, <1>4, <2>1
  <2>3. Share(n, t).first = off(t) /\ Share(n, t).size = each /\ Share(n, u).first = off(u)
    BY <1>5, <2>1
  <2> QED
    BY <1>1, <1>9, <2>2, <2>3
<1>12. \A t, u \in Threads :
         \A k \in 0 .. Share(n, t).size - 1, l \in 0 .. Share(n, u).size - 1 :
            Share(n, t).first + k + 1 = Share(n, u).first + l + 1 => t = u /\ k = l
  <2> SUFFICES ASSUME NEW t \in Threads, NEW u \in Threads,
                      NEW k \in 0 .. Share(n, t).size - 1, NEW l \in 0 .. Share(n, u).size - 1,
                      Share(n, t).first + k + 1 = Share(n, u).first + l + 1
               PROVE  t = u /\ k = l
    OBVIOUS
  <2>1. t \in Nat /\ u \in Nat /\ Share(n, t).first \in Nat /\ Share(n, u).first \in Nat
    BY <1>8, <1>9
  <2>2. ~ (t < u) /\ ~ (u < t)
    BY <1>11, <2>1
  <2> QED
    BY <2>1, <2>2
<1>13. ASSUME NEW r \in 1 .. n
       PROVE  \E t \in Threads : \E k \in 0 .. Share(n, t).size - 1 :
                 r = Share(n, t).first + k + 1
  <2>1. off(last) \in Nat
    BY <1>1, <1>2
  <2>2. CASE r > off(last)
    <3>1. r - off(last) - 1 \in 0 .. Share(n, last).size - 1
      BY <1>5, <2>1, <2>2
    <3> QED
      BY <1>5, <2>1, <3>1
  <2>3. CASE r <= off(last)
    <3> DEFINE t == (r - 1) \div each
    <3>1. each > 0
      <4>1. ASSUME each = 0 PROVE \A k \in Nat : off(k) = 0
        BY <4>1, <1>1 DEF off
      <4> QED
        BY <1>1, <2>3, <4>1
    <3>2. t \in Nat /\ off(t) <= r - 1 /\ r - 1 < off(t) + each /\ off(t) \in Nat
      BY <1>2, <1>6, <3>1
    <3> HIDE DEF t
    <3>3. ~ (last <= t)
      BY <1>1, <1>4, <2>1, <2>3, <3>2
    <3>4. t \in Threads \ {last} /\ r - off(t) - 1 \in 0 .. each - 1
      BY <1>1, <3>2, <3>3 DEF Threads
    <3>5. Share(n, t).first = off(t) /\ Share(n, t).size = each
      BY <1>5, <3>4
    <3> QED
      BY <3>2, <3>4, <3>5
  <2> QED
    BY <2>1, <2>2, <2>3
<1> QED
  BY <1>9, <1>10, <1>12, <1>13

LEMMA SharesOfR ==
    ASSUME TypeOK
    PROVE  /\ \A t \in Threads : First(t) \in Nat /\ Size(t) \in Nat
           /\ \A t \in Threads : \A k \in 0 .. Size(t) - 1 : First(t) + k + 1 \in 1 .. Len(relR)
           /\ \A t, u \in Threads : \A k \in 0 .. Size(t) - 1, l \in 0 .. Size(u) - 1 :
                 First(t) + k + 1 = First(u) + l + 1 => t = u /\ k = l
           /\ \A r \in 1 .. Len(relR) : \E t \in Threads : \E k \in 0 .. Size(t) - 1 :
                 r = First(t) + k + 1
<1>1. Len(relR) \in Nat
  BY DEF TypeOK
<1> QED
  BY <1>1, Shares DEF First, Size

-----------------------------------------------------------------------------
(* Chains.                                                                 *)

Nexts == \A b \in DOMAIN bucket : bucket[b].next \in DOMAIN bucket \cup {Null}

(* A chain is the least set of buckets closed under next that has its head.*)
LEMMA ChainLeast ==
    ASSUME Nexts, NEW b \in DOMAIN bucket
    PROVE  /\ b \in Chain(b) /\ Chain(b) \subseteq DOMAIN bucket
           /\ ClosedUnderNext(Chain(b))
           /\ \A C \in SUBSET DOMAIN bucket :
                 b \in C /\ ClosedUnderNext(C) => Chain(b) \subseteq C
BY DEF Nexts, Chain, ClosedUnderNext

(* All of it but the head comes after one of its members.                  *)
LEMMA ChainPred ==
    ASSUME Nexts, NEW b \in DOMAIN bucket, NEW c \in Chain(b), c # b
    PROVE  \E p \in Chain(b) : bucket[p].next = c
<1> DEFINE C == {b} \cup {x \in Chain(b) : \E p \in Chain(b) : bucket[p].next = x}
<1>1. C \in SUBSET DOMAIN bucket /\ b \in C
  BY ChainLeast
<1>2. ClosedUnderNext(C)
  BY ChainLeast DEF ClosedUnderNext
<1>3. Chain(b) \subseteq C
  BY <1>1, <1>2, ChainLeast
<1> QED
  BY <1>3

(* The chains of the table's buckets do not meet, and each has one head.   *)
LEMMA ChainsApart ==
    ASSUME Nexts, Linked, NEW g \in Heads, NEW h \in Heads, NEW b \in Chain(g) \cap Chain(h)
    PROVE  g = h
<1> SUFFICES ASSUME g # h PROVE FALSE
  OBVIOUS
<1>1. g \in DOMAIN bucket /\ h \in DOMAIN bucket
  BY DEF Linked
<1>2. h \notin Chain(g)
  BY <1>1, ChainPred, ChainLeast DEF Linked
<1> DEFINE C == Chain(h) \ Chain(g)
<1>3. h \in C /\ C \in SUBSET DOMAIN bucket
  BY <1>1, <1>2, ChainLeast
<1>4. ASSUME NEW c \in C
      PROVE  bucket[c].next \in C \cup {Null}
  <2>1. c \in DOMAIN bucket /\ bucket[c].next \in Chain(h) \cup {Null}
    BY <1>1, ChainLeast DEF ClosedUnderNext
  <2>2. ASSUME bucket[c].next \in Chain(g) PROVE FALSE
    <3>1. bucket[c].next # g /\ bucket[c].next # Null
      BY <1>1, <2>1, <2>2, ChainLeast DEF Linked
    <3>2. PICK p \in Chain(g) : bucket[p].next = bucket[c].next
      BY <1>1, <2>2, <3>1, ChainPred
    <3>3. p = c
      BY <1>1, <2>1, <3>1, <3>2, ChainLeast DEF Linked
    <3> QED
      BY <3>2, <3>3
  <2> QED
    BY <2>1, <2>2
<1>5. ClosedUnderNext(C)
  BY <1>4 DEF ClosedUnderNext
<1>6. Chain(h) \subseteq C
  BY <1>1, <1>3, <1>5, ChainLeast
<1> QED
  BY <1>6

(* Chains depend on the next of each bucket only.                          *)
LEMMA ChainSame ==
    ASSUME DOMAIN bucket' = DOMAIN bucket,
           \A b \in DOMAIN bucket : bucket'[b].next = bucket[b].next
    PROVE  \A b : Chain(b)' = Chain(b)
<1>1. \A C \in SUBSET (DOMAIN bucket) : ClosedUnderNext(C)' <=> ClosedUnderNext(C)
  BY DEF ClosedUnderNext
<1> QED
  BY <1>1 DEF Chain

(* A bucket put in after the head of a chain is in it, and the chains keep *)
(* what they have.                                                         *)
LEMMA ChainGrows ==
    ASSUME Nexts, Linked, NEW h \in Heads, NEW b, b \notin DOMAIN bucket, b # Null,
           DOMAIN bucket' = DOMAIN bucket \cup {b},
           bucket'[h].next = b, bucket'[b].next = bucket[h].next,
           \A x \in DOMAIN bucket \ {h} : bucket'[x].next = bucket[x].next
    PROVE  b \in Chain(h)' /\ \A g \in Heads : Chain(g) \subseteq Chain(g)'
<1>1. Heads \subseteq DOMAIN bucket
  BY DEF Linked
<1>2. ASSUME NEW g \in Heads, NEW C \in SUBSET (DOMAIN bucket'), g \in C, ClosedUnderNext(C)'
      PROVE  Chain(g) \subseteq C
  <2>1. g \in C \ {b} /\ C \ {b} \in SUBSET (DOMAIN bucket)
    BY <1>1, <1>2
  <2>2. ASSUME NEW x \in C \ {b}
        PROVE  bucket[x].next \in (C \ {b}) \cup {Null}
    <3>1. x \in DOMAIN bucket /\ bucket[x].next # b /\ bucket'[x].next \in C \cup {Null}
      BY <1>2, <2>1, <2>2 DEF ClosedUnderNext, Nexts
    <3>2. CASE x # h
      BY <3>1, <3>2
    <3>3. CASE x = h
      <4>1. b \in C
        BY <3>1, <3>3
      <4>2. bucket'[b].next \in C \cup {Null}
        BY <1>2, <4>1 DEF ClosedUnderNext
      <4> QED
        BY <3>1, <3>3, <4>2
    <3> QED
      BY <3>2, <3>3
  <2>3. ClosedUnderNext(C \ {b})
    BY <2>2 DEF ClosedUnderNext
  <2>4. Chain(g) \subseteq C \ {b}
    BY <1>1, <2>1, <2>3, ChainLeast
  <2> QED
    BY <2>4
<1>3. \A g \in Heads : Chain(g) \subseteq Chain(g)'
  BY <1>1, <1>2, ChainLeast DEF Chain
<1>4. ASSUME NEW C \in SUBSET (DOMAIN bucket'), h \in C, ClosedUnderNext(C)'
      PROVE  b \in C
  BY <1>4 DEF ClosedUnderNext
<1>5. b \in Chain(h)'
  BY <1>4 DEF Chain
<1> QED
  BY <1>3, <1>5

-----------------------------------------------------------------------------
(* What the inserts do.                                                    *)

(* The relations, and with them the names of the table, are constant.      *)
LEMMA InputStays == ASSUME [Next]_nvars PROVE UNCHANGED input
BY DEF Next, MainStep, Create, JoinThread, Barriers, StartBarrier, BuildBarrier, Barrier,
    Over, nvars, ThreadStep, Lock, Look, Place, Unlock, BuildEnd, ProbeTuple, Scan,
    ProbeEnd, Leave, Free

LEMMA NamesStay ==
    ASSUME UNCHANGED input
    PROVE  /\ Heads' = Heads
           /\ \A k : HASH(k)' = HASH(k)
BY DEF input, Heads, HASH, num_buckets

BucketSet == [count : 0 .. BUCKET_SIZE, next : DOMAIN bucket \cup {Null},
              tuples : [1 .. BUCKET_SIZE -> 0 .. Len(relR)]]

LEMMA Adding ==
    ASSUME NEW B \in BucketSet, B.count # BUCKET_SIZE, NEW r \in 0 .. Len(relR)
    PROVE  /\ AddTuple(B, r) \in BucketSet
           /\ AddTuple(B, r).count = B.count + 1 /\ AddTuple(B, r).next = B.next
           /\ AddTuple(B, r).tuples = [B.tuples EXCEPT ![B.count + 1] = r]
           /\ B.count + 1 \in 1 .. BUCKET_SIZE
<1>1. B.count + 1 \in 1 .. BUCKET_SIZE
  BY DEF BucketSet
<1>2. [B.tuples EXCEPT ![B.count + 1] = r] \in [1 .. BUCKET_SIZE -> 0 .. Len(relR)]
  BY <1>1 DEF BucketSet
<1> QED
  BY <1>1, <1>2 DEF BucketSet, AddTuple

(* A thread inside its critical section has a tuple of R and a chain.      *)
LEMMA InSection ==
    ASSUME TypeOK, Linked, Latched, NEW t \in Threads, pc[t] \in Holding
    PROVE  /\ RTuple(t) \in 1 .. Len(relR) /\ curr[t] \in Heads /\ curr[t] \in DOMAIN bucket
           /\ curr[t] = HASH(relR[RTuple(t)])
<1>1. i[t] \in 0 .. Size(t) - 1
  BY SharesOfR DEF TypeOK, Latched
<1>2. RTuple(t) \in 1 .. Len(relR)
  BY <1>1, SharesOfR DEF RTuple, First
<1>3. curr[t] = HASH(relR[RTuple(t)]) /\ curr[t] \in Heads
  BY <1>2, HashIsHead DEF Latched
<1> QED
  BY <1>2, <1>3 DEF Linked

(* The tuple goes to a bucket with room: one of the first two.             *)
Filled(t, b) ==
    /\ pc[t] = "place" /\ b \in {curr[t], bucket[curr[t]].next} \cap DOMAIN bucket /\ ~ Full(b)
    /\ bucket' = [bucket EXCEPT ![b] = AddTuple(@, RTuple(t))]
    /\ UNCHANGED overflowbuf

(* Or to a new one, when neither has room.                                 *)
Extended(t, b) ==
    /\ pc[t] = "place" /\ b \notin DOMAIN bucket /\ b # Null /\ Full(curr[t])
    /\ bucket[curr[t]].next = Null \/ Full(bucket[curr[t]].next)
    /\ b = Overflow(t, NewBucket(t).bufs, NewBucket(t).used)
    /\ overflowbuf' = [overflowbuf EXCEPT ![t] = NewBucket(t)]
    /\ DOMAIN bucket' = DOMAIN bucket \cup {b}
    /\ bucket'[b] = [AddTuple(EmptyBucket, RTuple(t)) EXCEPT !.next = bucket[curr[t]].next]
    /\ bucket'[curr[t]] = [bucket[curr[t]] EXCEPT !.next = b]
    /\ \A x \in DOMAIN bucket \ {curr[t]} : bucket'[x] = bucket[x]
    /\ bucket' = [x \in DOMAIN bucket' |-> bucket'[x]]

(* The bucket taken from the buffers is a fresh one.                       *)
LEMMA Fresh ==
    ASSUME TypeOK, Linked, Taken, NEW t \in Threads, pc[t] \notin {"free", "exit"}
    PROVE  LET o == NewBucket(t)
               b == Overflow(t, o.bufs, o.used)
           IN  /\ o \in [bufs : Nat, used : 0 .. OVERFLOW_BUF_SIZE]
               /\ \/ o.bufs = overflowbuf[t].bufs /\ o.used > overflowbuf[t].used
                  \/ o.bufs = overflowbuf[t].bufs + 1
               /\ b \notin DOMAIN bucket /\ b \notin Heads /\ b # Null
<1> DEFINE o == NewBucket(t)
           b == Overflow(t, o.bufs, o.used)
<1>1. overflowbuf[t] \in [bufs : Nat, used : 0 .. OVERFLOW_BUF_SIZE]
  BY DEF TypeOK
<1>2. /\ o \in [bufs : Nat, used : 0 .. OVERFLOW_BUF_SIZE]
      /\ \/ o.bufs = overflowbuf[t].bufs /\ o.used > overflowbuf[t].used
         \/ o.bufs = overflowbuf[t].bufs + 1
  BY <1>1 DEF NewBucket
<1> HIDE DEF o
<1>3. b[1] = t /\ b[2] = o.bufs /\ b[3] = o.used
  BY DEF Overflow
<1>4. b \notin DOMAIN bucket
  BY <1>1, <1>2, <1>3 DEF Taken
<1>5. \A h \in Heads : h[1] = -1
  BY DEF Heads, TableBucket
<1>6. b \notin Heads
  BY <1>3, <1>5, ThreadsFacts
<1>7. b # Null
  <2>1. Len(b) = 3 /\ Len(Null) = 0
    BY DEF Overflow, Null
  <2> QED
    BY <2>1
<1> QED
  BY <1>2, <1>4, <1>6, <1>7 DEF o

LEMMA Placing ==
    ASSUME TypeOK, Linked, Latched, Taken, NEW t \in Threads, Place(t)
    PROVE  \E b : Filled(t, b) \/ Extended(t, b)
<1>1. pc[t] = "place" /\ pc[t] \in Holding /\ RoomFound(t)
  BY DEF Place, Latched, Holding
<1>2. curr[t] \in DOMAIN bucket /\ nxt[t] \in DOMAIN bucket \cup {Null}
  BY <1>1, InSection DEF TypeOK
<1>3. CASE room[t] = "curr"
  <2>1. Filled(t, curr[t])
    BY <1>1, <1>2, <1>3 DEF Place, PlaceIn, Filled, RoomFound
  <2> QED
    BY <2>1
<1>4. CASE room[t] = "nxt"
  <2>1. Filled(t, nxt[t])
    BY <1>1, <1>2, <1>4 DEF Place, PlaceIn, Filled, RoomFound
  <2> QED
    BY <2>1
<1>5. CASE room[t] = "new"
  <2> DEFINE b == Overflow(t, NewBucket(t).bufs, NewBucket(t).used)
             new == [AddTuple(EmptyBucket, RTuple(t)) EXCEPT !.next = nxt[t]]
  <2>1. b \notin DOMAIN bucket /\ b # Null
    BY <1>1, Fresh
  <2>2. /\ overflowbuf' = [overflowbuf EXCEPT ![t] = NewBucket(t)]
        /\ bucket' = [x \in DOMAIN bucket \cup {b} |->
              CASE x = b -> new
                [] x = curr[t] -> [bucket[x] EXCEPT !.next = b]
                [] OTHER -> bucket[x]]
    BY <1>1, <1>5 DEF Place, PlaceNew
  <2> HIDE DEF b, new
  <2>3. /\ DOMAIN bucket' = DOMAIN bucket \cup {b} /\ bucket'[b] = new
        /\ bucket'[curr[t]] = [bucket[curr[t]] EXCEPT !.next = b]
        /\ \A x \in DOMAIN bucket \ {curr[t]} : bucket'[x] = bucket[x]
        /\ bucket' = [x \in DOMAIN bucket' |-> bucket'[x]]
    BY <1>2, <2>1, <2>2
  <2>4. Full(curr[t]) /\ (nxt[t] = Null \/ Full(nxt[t])) /\ nxt[t] = bucket[curr[t]].next
    BY <1>1, <1>5 DEF RoomFound
  <2>5. Extended(t, b)
    BY <1>1, <2>1, <2>2, <2>3, <2>4 DEF Extended, b, new
  <2> QED
    BY <2>5
<1> QED
  BY <1>3, <1>4, <1>5 DEF Place

(* The buckets after an insert, and that they keep to their type.          *)
LEMMA FilledType ==
    ASSUME TypeOK, Linked, Latched, NEW t \in Threads, NEW b, Filled(t, b), UNCHANGED input
    PROVE  /\ DOMAIN bucket' = DOMAIN bucket /\ b \in DOMAIN bucket
           /\ \A x \in DOMAIN bucket \ {b} : bucket'[x] = bucket[x]
           /\ bucket'[b].count = bucket[b].count + 1 /\ bucket'[b].next = bucket[b].next
           /\ bucket'[b].tuples = [bucket[b].tuples EXCEPT ![bucket[b].count + 1] = RTuple(t)]
           /\ bucket[b].count + 1 \in 1 .. BUCKET_SIZE
           /\ bucket' \in [DOMAIN bucket -> BucketSet]
<1>1. RTuple(t) \in 0 .. Len(relR)
  BY InSection DEF Filled, Holding, TypeOK
<1>2. /\ b \in DOMAIN bucket /\ bucket[b] \in BucketSet /\ bucket[b].count # BUCKET_SIZE
      /\ bucket \in [DOMAIN bucket -> BucketSet]
  BY DEF Filled, TypeOK, Full, BucketSet
<1>3. /\ DOMAIN bucket' = DOMAIN bucket /\ bucket'[b] = AddTuple(bucket[b], RTuple(t))
      /\ \A x \in DOMAIN bucket \ {b} : bucket'[x] = bucket[x]
      /\ bucket' = [bucket EXCEPT ![b] = AddTuple(bucket[b], RTuple(t))]
  BY <1>2 DEF Filled
<1>4. /\ AddTuple(bucket[b], RTuple(t)) \in BucketSet
      /\ AddTuple(bucket[b], RTuple(t)).count = bucket[b].count + 1
      /\ AddTuple(bucket[b], RTuple(t)).next = bucket[b].next
      /\ AddTuple(bucket[b], RTuple(t)).tuples
            = [bucket[b].tuples EXCEPT ![bucket[b].count + 1] = RTuple(t)]
      /\ bucket[b].count + 1 \in 1 .. BUCKET_SIZE
  BY <1>1, <1>2, Adding
<1> QED
  BY <1>2, <1>3, <1>4

LEMMA ExtendedType ==
    ASSUME TypeOK, Linked, Latched, NEW t \in Threads, NEW b, Extended(t, b), UNCHANGED input
    PROVE  /\ bucket'[b].count = 1 /\ bucket'[b].next = bucket[curr[t]].next
           /\ bucket'[b].tuples[1] = RTuple(t)
           /\ bucket'[curr[t]].count = bucket[curr[t]].count /\ bucket'[curr[t]].next = b
           /\ bucket'[curr[t]].tuples = bucket[curr[t]].tuples
           /\ \A x \in DOMAIN bucket' : bucket'[x] \in BucketSet'
<1>1. RTuple(t) \in 0 .. Len(relR) /\ curr[t] \in DOMAIN bucket
  BY InSection DEF Extended, Holding, TypeOK
<1>2. EmptyBucket \in BucketSet /\ EmptyBucket.count = 0 /\ EmptyBucket.count # BUCKET_SIZE
      /\ EmptyBucket.tuples = [k \in 1 .. BUCKET_SIZE |-> 0]
  BY DEF EmptyBucket, BucketSet, TypeOK
<1> DEFINE new == AddTuple(EmptyBucket, RTuple(t))
<1>3. /\ new \in BucketSet /\ new.count = 1
      /\ new.tuples = [EmptyBucket.tuples EXCEPT ![1] = RTuple(t)]
  BY <1>1, <1>2, Adding
<1>4. new.tuples[1] = RTuple(t)
  BY <1>2, <1>3
<1> HIDE DEF new
<1>5. bucket[curr[t]].next \in DOMAIN bucket \cup {Null} /\ bucket[curr[t]] \in BucketSet
  BY <1>1 DEF TypeOK, BucketSet
<1>6. /\ bucket'[b] = [new EXCEPT !.next = bucket[curr[t]].next]
      /\ bucket'[curr[t]] = [bucket[curr[t]] EXCEPT !.next = b]
      /\ DOMAIN bucket' = DOMAIN bucket \cup {b}
      /\ \A x \in DOMAIN bucket \ {curr[t]} : bucket'[x] = bucket[x]
  BY DEF Extended, new
<1>7. /\ bucket'[b].count = new.count /\ bucket'[b].tuples = new.tuples
      /\ bucket'[b].next = bucket[curr[t]].next
      /\ bucket'[curr[t]].count = bucket[curr[t]].count
      /\ bucket'[curr[t]].next = b /\ bucket'[curr[t]].tuples = bucket[curr[t]].tuples
  BY <1>3, <1>5, <1>6 DEF BucketSet
<1>8. relR' = relR
  BY DEF input
<1>9. bucket'[b] \in BucketSet' /\ bucket'[curr[t]] \in BucketSet'
  BY <1>3, <1>5, <1>6, <1>8 DEF BucketSet
<1>10. ASSUME NEW x \in DOMAIN bucket \ {curr[t]}
       PROVE  bucket'[x] \in BucketSet'
  <2>1. bucket[x] \in BucketSet /\ bucket'[x] = bucket[x]
    BY <1>6 DEF TypeOK, BucketSet
  <2> QED
    BY <2>1, <1>6, <1>8 DEF BucketSet
<1> QED
  BY <1>3, <1>4, <1>6, <1>7, <1>9, <1>10

LEMMA PlaceType ==
    ASSUME TypeOK, Linked, Latched, Taken, NEW t \in Threads, Place(t)
    PROVE  TypeOK'
<1>1. UNCHANGED input /\ relR' = relR
  BY DEF Place, input
<1>2. Heads' = Heads
  BY <1>1, NamesStay
<1>3. /\ UNCHANGED <<relR, relS, created, joined, result, i, curr, nxt, room, num_results, latch>>
      /\ pc[t] = "place" /\ pc' = [pc EXCEPT ![t] = "unlock"]
  BY DEF Place, Goto, input, mainVars, locals
<1> DEFINE Kept == /\ DOMAIN bucket \subseteq DOMAIN bucket'
                   /\ bucket' \in [DOMAIN bucket' -> BucketSet']
                   /\ overflowbuf' \in [Threads -> [bufs : Nat, used : 0 .. OVERFLOW_BUF_SIZE]]
<1>4. Kept
  <2>1. ASSUME NEW b, Filled(t, b)
        PROVE  Kept
    <3>1. DOMAIN bucket' = DOMAIN bucket /\ bucket' \in [DOMAIN bucket -> BucketSet]
      BY <1>1, <2>1, FilledType
    <3>2. BucketSet' = BucketSet
      BY <1>1, <3>1 DEF BucketSet
    <3> QED
      BY <2>1, <3>1, <3>2 DEF Filled, TypeOK
  <2>2. ASSUME NEW b, Extended(t, b)
        PROVE  Kept
    <3>1. /\ bucket' = [x \in DOMAIN bucket' |-> bucket'[x]]
          /\ \A x \in DOMAIN bucket' : bucket'[x] \in BucketSet'
      BY <1>1, <2>2, ExtendedType DEF Extended
    <3>2. bucket' \in [DOMAIN bucket' -> BucketSet']
      BY <3>1
    <3>3. NewBucket(t) \in [bufs : Nat, used : 0 .. OVERFLOW_BUF_SIZE]
      BY <1>3, Fresh
    <3>4. DOMAIN bucket' = DOMAIN bucket \cup {b}
      BY <2>2 DEF Extended
    <3> QED
      BY <2>2, <3>2, <3>3, <3>4 DEF Extended, TypeOK
  <2> QED
    BY <2>1, <2>2, Placing
<1> QED
  BY <1>2, <1>3, <1>4 DEF TypeOK, BucketSet

-----------------------------------------------------------------------------
(* Each part of the invariant is kept by every step.                       *)

LEMMA TypeStep ==
    ASSUME TypeOK, OwnBuffers, Linked, Latched, Scanning, Taken, [Next]_nvars
    PROVE  TypeOK'
<1>1. UNCHANGED input /\ relR' = relR /\ relS' = relS /\ Heads' = Heads
  BY InputStays, NamesStay DEF input
<1>2. CASE UNCHANGED bucket
  <2> USE DEF Goto, mainVars, locals
  <2>1. CASE Create
    <3>1. created \in Threads /\ created + 1 \in 0 .. nthreads
      BY <2>1 DEF Create, TypeOK, Threads
    <3> QED
      BY <1>1, <1>2, <2>1, <3>1 DEF Create, TypeOK
  <2>2. CASE StartBarrier \/ BuildBarrier
    BY <1>1, <1>2, <2>2 DEF StartBarrier, BuildBarrier, Barrier, TypeOK
  <2>3. CASE JoinThread
    <3>1. joined \in Threads /\ joined + 1 \in 0 .. nthreads
      BY <2>3 DEF JoinThread, TypeOK, Threads
    <3>2. num_results[joined] \in Nat
      BY <3>1 DEF TypeOK
    <3> QED
      BY <1>1, <1>2, <2>3, <3>1, <3>2 DEF JoinThread, TypeOK
  <2>4. ASSUME NEW t \in Threads, Lock(t)
        PROVE  TypeOK'
    <3>0. Size(t) \in Nat /\ i[t] \in Nat
      BY SharesOfR DEF TypeOK
    <3>1. i[t] \in 0 .. Size(t) - 1
      BY <2>4, <3>0 DEF Lock, Size
    <3>2. RTuple(t) \in 1 .. Len(relR)
      BY <3>1, SharesOfR DEF RTuple, First
    <3>3. HASH(relR[RTuple(t)]) \in Heads
      BY <3>2, HashIsHead
    <3>4. Heads \subseteq DOMAIN bucket
      BY DEF Linked
    <3> QED
      BY <1>1, <1>2, <2>4, <3>3, <3>4 DEF Lock, TypeOK
  <2>5. ASSUME NEW t \in Threads, Look(t)
        PROVE  TypeOK'
    <3>1. pc[t] \in Holding /\ pc[t] = "look"
      BY <2>5 DEF Look, Holding
    <3>2. bucket[curr[t]].next \in DOMAIN bucket \cup {Null}
      BY <3>1, InSection DEF TypeOK
    <3> DEFINE there == CASE ~ Full(curr[t]) -> "curr"
                     [] Full(curr[t]) /\ bucket[curr[t]].next # Null /\ ~ Full(bucket[curr[t]].next)  -> "nxt"
                     [] Full(curr[t]) /\ (bucket[curr[t]].next = Null \/ Full(bucket[curr[t]].next))  -> "new"
    <3>3. there \in {"curr", "nxt", "new"}
      OBVIOUS
    <3>4. room' = [room EXCEPT ![t] = there]
      BY <2>5 DEF Look
    <3> HIDE DEF there
    <3> QED
      BY <1>1, <1>2, <2>5, <3>2, <3>3, <3>4 DEF Look, TypeOK
  <2>6. ASSUME NEW t \in Threads, Unlock(t)
        PROVE  TypeOK'
    <3>1. i' \in [Threads -> Nat] /\ latch' \subseteq Heads
      BY <2>6 DEF Unlock, TypeOK
    <3> QED
      BY <1>1, <1>2, <2>6, <3>1 DEF Unlock, TypeOK
  <2>12. ASSUME NEW t \in Threads, BuildEnd(t) \/ ProbeEnd(t) \/ Leave(t)
         PROVE  TypeOK'
    BY <1>1, <1>2, <2>12 DEF BuildEnd, ProbeEnd, Leave, TypeOK
  <2>7. ASSUME NEW t \in Threads, ProbeTuple(t)
        PROVE  TypeOK'
    <3>1. HASH(SKey(t)) \in Heads /\ Heads \subseteq DOMAIN bucket
      <4>1. /\ \A k \in 0 .. Share(Len(relS), t).size - 1 :
                  Share(Len(relS), t).first + k + 1 \in 1 .. Len(relS)
            /\ Share(Len(relS), t).size \in Nat
        <5>1. Len(relS) \in Nat
          BY DEF TypeOK
        <5> QED
          BY <5>1, Shares
      <4>2. i[t] \in 0 .. Share(Len(relS), t).size - 1
        BY <2>7, <4>1 DEF ProbeTuple, TypeOK
      <4>3. Share(Len(relS), t).first + i[t] + 1 \in 1 .. Len(relS)
        BY <4>1, <4>2
      <4>4. SKey(t) \in Nat
        BY <4>3 DEF SKey, TypeOK
      <4> QED
        BY <4>4, HashIsHead DEF Linked
    <3> QED
      BY <1>1, <1>2, <2>7, <3>1 DEF ProbeTuple, TypeOK
  <2>8. ASSUME NEW t \in Threads, Scan(t)
        PROVE  TypeOK'
    <3>0. curr[t] \in DOMAIN bucket
      BY <2>8 DEF Scan, Scanning
    <3>1. Cardinality(Hits(t)) \in Nat
      <4>1. \A n \in Nat : IsFiniteSet(1 .. n)
        BY FS_Interval
      <4> DEFINE n == bucket[curr[t]].count
      <4>3. Hits(t) \in SUBSET (1 .. n)
        BY DEF Hits
      <4>4. n \in Nat
        BY <3>0 DEF TypeOK
      <4> HIDE DEF n
      <4> QED
        BY <4>1, <4>3, <4>4, FS_Subset, FS_CardinalityType
    <3>2. bucket[curr[t]].next \in DOMAIN bucket \cup {Null}
      BY <3>0 DEF TypeOK
    <3> DEFINE hits == Cardinality(Hits(t))
               n == bucket[curr[t]].next
    <3>4. /\ num_results' = [num_results EXCEPT ![t] = @ + hits]
          /\ curr' = [curr EXCEPT ![t] = n]
          /\ i' = i \/ i' = [i EXCEPT ![t] = @ + 1]
          /\ pc' = pc \/ pc' = [pc EXCEPT ![t] = "probe"]
      BY <2>8 DEF Scan
    <3> HIDE DEF hits, n
    <3>5. hits \in Nat /\ n \in DOMAIN bucket \cup {Null}
      BY <3>1, <3>2 DEF hits, n
    <3>6. /\ num_results \in [Threads -> Nat] /\ i \in [Threads -> Nat]
          /\ curr \in [Threads -> DOMAIN bucket \cup {Null}]
      BY DEF TypeOK
    <3>7. num_results' \in [Threads -> Nat]
      BY <3>4, <3>5, <3>6
    <3>8. i' \in [Threads -> Nat]
      BY <3>4, <3>6
    <3>9. curr' \in [Threads -> DOMAIN bucket \cup {Null}]
      BY <3>4, <3>5, <3>6
    <3>3. /\ num_results' \in [Threads -> Nat] /\ i' \in [Threads -> Nat]
          /\ curr' \in [Threads -> DOMAIN bucket \cup {Null}]
          /\ pc' \in {pc, [pc EXCEPT ![t] = "probe"]}
      BY <3>4, <3>7, <3>8, <3>9
    <3> QED
      BY <1>1, <1>2, <2>8, <3>3 DEF Scan, TypeOK
  <2>9. ASSUME NEW t \in Threads, Free(t)
        PROVE  TypeOK'
    <3>0. pc[t] = "free" /\ overflowbuf[t] \in [bufs : Nat, used : 0 .. OVERFLOW_BUF_SIZE]
      BY <2>9 DEF Free, TypeOK
    <3>1. overflowbuf[t].bufs - 1 \in Nat
      BY <3>0 DEF OwnBuffers
    <3>2. overflowbuf' \in [Threads -> [bufs : Nat, used : 0 .. OVERFLOW_BUF_SIZE]]
      BY <2>9, <3>1 DEF Free, TypeOK
    <3> QED
      BY <1>1, <1>2, <2>9, <3>2 DEF Free, TypeOK
  <2>10. CASE UNCHANGED nvars
    BY <1>1, <1>2, <2>10 DEF nvars, TypeOK
  <2>11. ASSUME NEW t \in Threads, Place(t)
         PROVE  TypeOK'
    BY <2>11, PlaceType
  <2> QED
    BY <2>1, <2>2, <2>3, <2>4, <2>5, <2>6, <2>7, <2>8, <2>9, <2>10, <2>11,
       <2>12
    DEF Next, MainStep, Barriers, Over, ThreadStep
<1>3. CASE \E t \in Threads : Place(t)
  BY <1>3, PlaceType
<1>4. UNCHANGED bucket \/ \E t \in Threads : Place(t)
  BY DEF Next, MainStep, Create, JoinThread, Barriers, StartBarrier, BuildBarrier, Barrier,
    Over, nvars, ThreadStep, Lock, Look, Unlock, BuildEnd, ProbeTuple, Scan, ProbeEnd,
    Leave, Free
<1> QED
  BY <1>2, <1>3, <1>4

LEMMA OwnBuffersStep ==
    ASSUME TypeOK, OwnBuffers, Linked, Latched, Taken, [Next]_nvars
    PROVE  OwnBuffers'
<1> USE DEF Goto, mainVars, OwnBuffers
<1>1. CASE Create
  <2>1. created \in Threads
    BY <1>1 DEF Create, TypeOK, Threads
  <2> QED
    BY <1>1, <2>1, ThreadsFacts DEF Create, TypeOK
<1>2. CASE StartBarrier \/ BuildBarrier
  BY <1>2 DEF StartBarrier, BuildBarrier, Barrier, TypeOK
<1>3. CASE JoinThread \/ UNCHANGED nvars
  BY <1>3 DEF JoinThread, nvars
<1>4. ASSUME NEW t \in Threads,
             Lock(t) \/ Look(t) \/ Unlock(t) \/ BuildEnd(t) \/ ProbeTuple(t) \/ ProbeEnd(t)
               \/ Leave(t)
      PROVE  OwnBuffers'
  BY <1>4 DEF Lock, Look, Unlock, BuildEnd, ProbeTuple, ProbeEnd, Leave, TypeOK
<1>5. ASSUME NEW t \in Threads, Scan(t)
      PROVE  OwnBuffers'
  BY <1>5 DEF Scan, TypeOK
<1>6. ASSUME NEW t \in Threads, Place(t)
      PROVE  OwnBuffers'
  <2>1. pc[t] = "place" /\ pc' = [pc EXCEPT ![t] = "unlock"] /\ created' = created
    BY <1>6 DEF Place
  <2>2. /\ overflowbuf[t].bufs \in Nat /\ NewBucket(t).bufs \in Nat
        /\ NewBucket(t).bufs >= overflowbuf[t].bufs
    <3>1. overflowbuf[t].bufs \in Nat
      BY DEF TypeOK
    <3> QED
      BY <2>1, <3>1, Fresh
  <2>3. overflowbuf' = overflowbuf \/ overflowbuf' = [overflowbuf EXCEPT ![t] = NewBucket(t)]
    BY <1>6 DEF Place, PlaceIn, PlaceNew
  <2>4. pc \in [Threads -> {pc[u] : u \in Threads}] /\ DOMAIN overflowbuf = Threads
    BY DEF TypeOK
  <2>5. \A u \in Threads : overflowbuf'[u].bufs >= overflowbuf[u].bufs \/ u # t
    BY <2>2, <2>3, <2>4
  <2>6. \A u \in Threads \ {t} : overflowbuf'[u] = overflowbuf[u] /\ pc'[u] = pc[u]
    BY <2>1, <2>3, <2>4
  <2>7. overflowbuf[t].bufs >= 1 /\ overflowbuf'[t].bufs \in Nat
    BY <2>1, <2>2, <2>3, <2>4
  <2> QED
    BY <2>1, <2>2, <2>4, <2>5, <2>6, <2>7
<1>7. ASSUME NEW t \in Threads, Free(t)
      PROVE  OwnBuffers'
  <2>1. overflowbuf[t].bufs \in Nat /\ overflowbuf'[t].bufs = overflowbuf[t].bufs - 1
        /\ (\A u \in Threads \ {t} : overflowbuf'[u] = overflowbuf[u])
    BY <1>7 DEF Free, TypeOK
  <2> QED
    BY <1>7, <2>1 DEF Free, TypeOK
<1> QED
  BY <1>1, <1>2, <1>3, <1>4, <1>5, <1>6, <1>7
  DEF Next, MainStep, Barriers, Over, ThreadStep

LEMMA InPhaseStep ==
    ASSUME TypeOK, OwnBuffers, InPhase, [Next]_nvars
    PROVE  InPhase'
<1>1. DOMAIN pc = Threads
  BY DEF TypeOK
<1> USE <1>1 DEF Goto, mainVars, InPhase, Past
<1>2. CASE Create \/ StartBarrier \/ BuildBarrier
  <2>1. CASE StartBarrier \/ BuildBarrier
    BY <2>1 DEF StartBarrier, BuildBarrier, Barrier
  <2>2. CASE Create
    <3>1. created \in Threads /\ pc[created] = "none"
      BY <2>2 DEF Create, TypeOK, Threads, OwnBuffers
    <3> QED
      BY <2>2, <3>1 DEF Create
  <2> QED
    BY <1>2, <2>1, <2>2
<1>3. CASE JoinThread \/ UNCHANGED nvars
  BY <1>3 DEF JoinThread, nvars
<1>4. ASSUME NEW t \in Threads,
             Lock(t) \/ Look(t) \/ Place(t) \/ Unlock(t) \/ BuildEnd(t)
      PROVE  InPhase'
  BY <1>4 DEF Lock, Look, Place, Unlock, BuildEnd
<1>5. ASSUME NEW t \in Threads, ProbeTuple(t) \/ Scan(t) \/ ProbeEnd(t)
      PROVE  InPhase'
  BY <1>5 DEF ProbeTuple, Scan, ProbeEnd
<1>6. ASSUME NEW t \in Threads, Leave(t) \/ Free(t)
      PROVE  InPhase'
  BY <1>6 DEF Leave, Free
<1> QED
  BY <1>2, <1>3, <1>4, <1>5, <1>6 DEF Next, MainStep, Barriers, Over, ThreadStep

LEMMA TakenStep ==
    ASSUME TypeOK, OwnBuffers, Linked, Latched, Taken, [Next]_nvars
    PROVE  Taken'
<1>1. DOMAIN pc = Threads /\ DOMAIN overflowbuf = Threads
  BY DEF TypeOK
<1>2. CASE Create
  <2>1. created \in Threads /\ pc[created] = "none" /\ overflowbuf[created].bufs = 0
    BY <1>2 DEF Create, TypeOK, Threads, OwnBuffers
  <2> QED
    BY <1>1, <1>2, <2>1 DEF Create, Goto, Taken
<1>3. ASSUME NEW t \in Threads, Place(t)
      PROVE  Taken'
  <2>1. pc[t] = "place" /\ pc' = [pc EXCEPT ![t] = "unlock"]
    BY <1>3 DEF Place, Goto
  <2>2. ASSUME NEW b, Filled(t, b)
        PROVE  Taken'
    <3>1. DOMAIN bucket' = DOMAIN bucket /\ overflowbuf' = overflowbuf
      BY <2>2 DEF Filled
    <3> QED
      BY <1>1, <2>1, <3>1 DEF Taken
  <2>3. ASSUME NEW b, Extended(t, b)
        PROVE  Taken'
    <3> DEFINE o == NewBucket(t)
    <3>1. /\ o \in [bufs : Nat, used : 0 .. OVERFLOW_BUF_SIZE]
          /\ \/ o.bufs = overflowbuf[t].bufs /\ o.used > overflowbuf[t].used
             \/ o.bufs = overflowbuf[t].bufs + 1
          /\ overflowbuf[t] \in [bufs : Nat, used : 0 .. OVERFLOW_BUF_SIZE]
      BY <2>1, Fresh DEF TypeOK
    <3>2. /\ b = <<t, o.bufs, o.used>> /\ DOMAIN bucket' = DOMAIN bucket \cup {b}
          /\ overflowbuf' = [overflowbuf EXCEPT ![t] = o]
      BY <2>3 DEF Extended, Overflow
    <3> HIDE DEF o
    <3>3. b[1] = t /\ b[2] = o.bufs /\ b[3] = o.used
      BY <3>2
    <3>4. overflowbuf'[t] = o /\ \A u \in Threads \ {t} : overflowbuf'[u] = overflowbuf[u]
      BY <1>1, <3>2
    <3>5. ASSUME NEW c \in DOMAIN bucket', c[1] \in Threads, pc'[c[1]] \notin {"free", "exit"}
          PROVE  LET p == overflowbuf'[c[1]]
                 IN  /\ c[2] \in Nat /\ c[3] \in Nat
                     /\ c[2] < p.bufs \/ (c[2] = p.bufs /\ c[3] <= p.used)
      <4>1. CASE c = b
        BY <3>1, <3>3, <3>4, <4>1
      <4>2. CASE c \in DOMAIN bucket
        <5>1. /\ c[2] \in Nat /\ c[3] \in Nat
              /\ \/ c[2] < overflowbuf[c[1]].bufs
                 \/ c[2] = overflowbuf[c[1]].bufs /\ c[3] <= overflowbuf[c[1]].used
          BY <1>1, <2>1, <3>5, <4>2 DEF Taken
        <5>2. CASE c[1] = t
          BY <3>1, <3>4, <5>1, <5>2
        <5>3. CASE c[1] # t
          BY <3>4, <3>5, <5>1, <5>3
        <5> QED
          BY <5>2, <5>3
      <4> QED
        BY <3>2, <4>1, <4>2
    <3> QED
      BY <3>5 DEF Taken
  <2> QED
    BY <1>3, <2>2, <2>3, Placing
<1>4. ASSUME NEW t \in Threads, Free(t)
      PROVE  Taken'
  BY <1>1, <1>4 DEF Free, Goto, Taken
<1>5. CASE StartBarrier \/ BuildBarrier
  BY <1>1, <1>5 DEF StartBarrier, BuildBarrier, Barrier, Taken
<1>6. CASE JoinThread \/ UNCHANGED nvars
  BY <1>6 DEF JoinThread, nvars, Taken
<1>7. ASSUME NEW t \in Threads,
             Lock(t) \/ Look(t) \/ Unlock(t) \/ BuildEnd(t) \/ ProbeTuple(t) \/ ProbeEnd(t)
               \/ Leave(t) \/ Scan(t)
      PROVE  Taken'
  <2>1. UNCHANGED <<bucket, overflowbuf>>
    BY <1>7 DEF Lock, Look, Unlock, BuildEnd, ProbeTuple, ProbeEnd, Leave, Scan
  <2>2. \A u \in Threads : pc'[u] \notin {"free", "exit"} => pc[u] \notin {"free", "exit"}
    BY <1>1, <1>7 DEF Lock, Look, Unlock, BuildEnd, ProbeTuple, ProbeEnd, Leave, Scan, Goto
  <2> QED
    BY <2>1, <2>2 DEF Taken
<1> QED
  BY <1>2, <1>3, <1>4, <1>5, <1>6, <1>7 DEF Next, MainStep, Barriers, Over, ThreadStep

(* An insert links its bucket right after the head, once both buckets that *)
(* may have room are full.                                                 *)
LEMMA LinkedStep ==
    ASSUME TypeOK, Linked, Latched, Taken, [Next]_nvars
    PROVE  Linked'
<1>1. UNCHANGED input /\ Heads' = Heads
  BY InputStays, NamesStay
<1>2. UNCHANGED bucket \/ \E t \in Threads : Place(t)
  BY DEF Next, MainStep, Create, JoinThread, Barriers, StartBarrier, BuildBarrier, Barrier,
    Over, nvars, ThreadStep, Lock, Look, Unlock, BuildEnd, ProbeTuple, Scan, ProbeEnd,
    Leave, Free
<1>3. CASE UNCHANGED bucket
  BY <1>1, <1>3 DEF Linked, Full
<1>4. ASSUME NEW t \in Threads, NEW b, Filled(t, b)
      PROVE  Linked'
  <2>1. /\ DOMAIN bucket' = DOMAIN bucket /\ b \in DOMAIN bucket /\ ~ Full(b)
        /\ \A x \in DOMAIN bucket : bucket'[x].next = bucket[x].next
        /\ \A x \in DOMAIN bucket \ {b} : bucket'[x].count = bucket[x].count
    BY <1>1, <1>4, FilledType DEF Filled
  <2>2. \A x \in DOMAIN bucket : Full(x) => Full(x)'
    BY <2>1 DEF Full
  <2> QED
    BY <1>1, <2>1, <2>2 DEF Linked
<1>5. ASSUME NEW t \in Threads, NEW b, Extended(t, b)
      PROVE  Linked'
  <2> DEFINE h == curr[t]
             n == bucket[h].next
  <2>1. h \in Heads /\ h \in DOMAIN bucket /\ n \in DOMAIN bucket \cup {Null}
    BY <1>5, InSection DEF Extended, Holding, TypeOK
  <2>2. /\ DOMAIN bucket' = DOMAIN bucket \cup {b} /\ b \notin DOMAIN bucket /\ b # Null
        /\ bucket'[h].next = b /\ bucket'[b].next = n
        /\ \A x \in DOMAIN bucket \ {h} : bucket'[x].next = bucket[x].next
        /\ \A x \in DOMAIN bucket : bucket'[x].count = bucket[x].count
        /\ Full(h) /\ (n = Null \/ Full(n))
    BY <1>1, <1>5, ExtendedType DEF Extended
  <2> HIDE DEF h, n
  <2>3. /\ Null \notin DOMAIN bucket /\ Heads \subseteq DOMAIN bucket /\ n \notin Heads
        /\ \A x \in DOMAIN bucket : bucket[x].next \in (DOMAIN bucket \cup {Null}) \ Heads
    BY <2>1 DEF Linked, TypeOK, n
  <2>4. \A x \in DOMAIN bucket : Full(x)' <=> Full(x)
    BY <2>2 DEF Full
  <2>5. ASSUME NEW x \in DOMAIN bucket', NEW y \in DOMAIN bucket',
               bucket'[x].next = bucket'[y].next, bucket'[x].next # Null
        PROVE  x = y
    <3>1. \A z \in DOMAIN bucket : bucket[z].next = n /\ n # Null => z = h
      BY <2>1 DEF Linked, n
    <3>2. \A z \in DOMAIN bucket' : bucket'[z].next = b => z = h
      BY <2>1, <2>2, <2>3
    <3>3. CASE x = h \/ y = h
      BY <2>2, <2>5, <3>2, <3>3
    <3>4. CASE x # h /\ y # h
      BY <2>2, <2>5, <3>1, <3>4 DEF Linked
    <3> QED
      BY <3>3, <3>4
  <2>6. \A x \in DOMAIN bucket' \ Heads : Full(x)' \/ \E g \in Heads : bucket'[g].next = x
    <3> SUFFICES ASSUME NEW x \in DOMAIN bucket' \ Heads, ~ Full(x)'
                 PROVE  \E g \in Heads : bucket'[g].next = x
      OBVIOUS
    <3>1. CASE x = b
      BY <2>1, <2>2, <3>1
    <3>2. CASE x # b
      <4>1. x \in DOMAIN bucket \ Heads /\ ~ Full(x)
        BY <2>2, <2>4, <3>2
      <4>2. PICK g \in Heads : bucket[g].next = x
        BY <4>1 DEF Linked
      <4>3. g # h
        BY <2>2, <2>3, <4>1, <4>2 DEF n
      <4> QED
        BY <2>2, <2>3, <4>2, <4>3
    <3> QED
      BY <3>1, <3>2
  <2>7. /\ Null \notin DOMAIN bucket' /\ Heads \subseteq DOMAIN bucket'
        /\ \A x \in DOMAIN bucket' : bucket'[x].next \notin Heads
    BY <2>2, <2>3
  <2>8. \A g \in Heads : bucket'[g].next # Null => Full(g)'
    BY <2>1, <2>2, <2>3, <2>4 DEF Linked
  <2> QED
    BY <1>1, <2>5, <2>6, <2>7, <2>8 DEF Linked
<1> QED
  BY <1>2, <1>3, <1>4, <1>5, Placing

LEMMA ScanningStep ==
    ASSUME TypeOK, Linked, Latched, Taken, Scanning, [Next]_nvars
    PROVE  Scanning'
<1>1. DOMAIN pc = Threads /\ DOMAIN curr = Threads
  BY DEF TypeOK
<1>2. ASSUME NEW t \in Threads, ProbeTuple(t)
      PROVE  Scanning'
  <2>1. HASH(SKey(t)) \in DOMAIN bucket
    <3>1. /\ \A k \in 0 .. Share(Len(relS), t).size - 1 :
                Share(Len(relS), t).first + k + 1 \in 1 .. Len(relS)
          /\ Share(Len(relS), t).size \in Nat
      <4>1. Len(relS) \in Nat
        BY DEF TypeOK
      <4> QED
        BY <4>1, Shares
    <3>2. i[t] \in 0 .. Share(Len(relS), t).size - 1
      BY <1>2, <3>1 DEF ProbeTuple, TypeOK
    <3>3. Share(Len(relS), t).first + i[t] + 1 \in 1 .. Len(relS)
      BY <3>1, <3>2
    <3>4. SKey(t) \in Nat
      BY <3>3 DEF SKey, TypeOK
    <3> QED
      BY <3>4, HashIsHead DEF Linked
  <2> QED
    BY <1>1, <1>2, <2>1 DEF ProbeTuple, Goto, Scanning
<1>3. ASSUME NEW t \in Threads, Scan(t)
      PROVE  Scanning'
  <2>1. bucket[curr[t]].next \in DOMAIN bucket \cup {Null}
    BY <1>3 DEF Scan, Scanning, TypeOK
  <2> QED
    BY <1>1, <1>3, <2>1 DEF Scan, Goto, Scanning
<1>4. ASSUME NEW t \in Threads, Place(t)
      PROVE  Scanning'
  <2>1. DOMAIN bucket \subseteq DOMAIN bucket'
    BY <1>4, Placing DEF Filled, Extended
  <2> QED
    BY <1>1, <1>4, <2>1 DEF Place, Goto, locals, Scanning
<1>5. CASE Create \/ StartBarrier \/ BuildBarrier \/ JoinThread \/ UNCHANGED nvars
  BY <1>1, <1>5 DEF Create, StartBarrier, BuildBarrier, Barrier, JoinThread, nvars, locals,
                    Goto, Scanning
<1>6. ASSUME NEW t \in Threads,
             Lock(t) \/ Look(t) \/ Unlock(t) \/ BuildEnd(t) \/ ProbeEnd(t) \/ Leave(t) \/ Free(t)
      PROVE  Scanning'
  BY <1>1, <1>6 DEF Lock, Look, Unlock, BuildEnd, ProbeEnd, Leave, Free, locals, Goto, Scanning
<1> QED
  BY <1>2, <1>3, <1>4, <1>5, <1>6 DEF Next, MainStep, Barriers, Over, ThreadStep

(* A thread's place in R moves only when it does.                          *)
LEMMA PlaceInR ==
    ASSUME UNCHANGED input, NEW t \in Threads, i'[t] = i[t]
    PROVE  /\ RTuple(t)' = RTuple(t) /\ Size(t)' = Size(t) /\ First(t)' = First(t)
           /\ HASH(relR[RTuple(t)])' = HASH(relR[RTuple(t)])
BY DEF input, RTuple, Size, First, Share, HASH, num_buckets

(* What a latch protects: the head and the bucket after it.                *)
LEMMA LatchedStep ==
    ASSUME TypeOK, Linked, Latched, Taken, [Next]_nvars
    PROVE  Latched'
<1> DEFINE Sect(t) == pc[t] \in Holding =>
                         /\ i[t] < Size(t)
                         /\ curr[t] = HASH(relR[RTuple(t)]) /\ curr[t] \in latch
           Found(t) == pc[t] = "place" => RoomFound(t)
           Apart(t, u) == t # u /\ pc[t] \in Holding /\ pc[u] \in Holding => curr[t] # curr[u]
<1>1. /\ DOMAIN pc = Threads /\ DOMAIN curr = Threads /\ DOMAIN i = Threads
      /\ DOMAIN nxt = Threads /\ DOMAIN room = Threads
  BY DEF TypeOK
<1>2. UNCHANGED input
  BY InputStays
<1>3. (\A t \in Threads : Sect(t) /\ Found(t)) /\ \A t, u \in Threads : Apart(t, u)
  BY DEF Latched
<1>4. ASSUME (\A t \in Threads : Sect(t)' /\ Found(t)') /\ \A t, u \in Threads : Apart(t, u)'
      PROVE  Latched'
  BY <1>4 DEF Latched
(* A thread that is left alone keeps its place. *)
<1>5. ASSUME NEW u \in Threads, i'[u] = i[u], curr'[u] = curr[u], pc'[u] = pc[u],
             curr[u] \in latch => curr[u] \in latch' \/ pc[u] \notin Holding
      PROVE  Sect(u)'
  BY <1>2, <1>3, <1>5, PlaceInR
<1>6. ASSUME NEW u \in Threads, UNCHANGED bucket, pc'[u] = pc[u], nxt'[u] = nxt[u],
             curr'[u] = curr[u], room'[u] = room[u]
      PROVE  Found(u)'
  BY <1>3, <1>6 DEF RoomFound, Full
<1>7. ASSUME NEW t \in Threads, Lock(t)
      PROVE  Latched'
  <2> DEFINE b == HASH(relR[RTuple(t)])
  <2>1. /\ pc[t] = "build" /\ i[t] < Size(t) /\ b \notin latch
        /\ curr' = [curr EXCEPT ![t] = b] /\ latch' = latch \cup {b}
        /\ pc' = [pc EXCEPT ![t] = "look"] /\ UNCHANGED <<i, nxt, room, bucket>>
    BY <1>7 DEF Lock, Goto, Size
  <2> HIDE DEF b
  <2>2. b' = b /\ Size(t)' = Size(t)
    BY <1>2, <2>1, PlaceInR DEF b
  <2>3. Sect(t)' /\ Found(t)'
    BY <1>1, <2>1, <2>2 DEF b
  <2>4. \A u \in Threads \ {t} : Sect(u)' /\ Found(u)'
    BY <1>1, <1>5, <1>6, <2>1
  <2>5. \A u, v \in Threads : Apart(u, v)'
    BY <1>1, <1>3, <2>1
  <2> QED
    BY <1>4, <2>3, <2>4, <2>5
<1>8. ASSUME NEW t \in Threads, Look(t)
      PROVE  Latched'
  <2>1. /\ pc[t] = "look" /\ pc' = [pc EXCEPT ![t] = "place"] /\ UNCHANGED <<i, curr, latch, bucket>>
        /\ nxt' = [nxt EXCEPT ![t] = bucket[curr[t]].next]
        /\ \A u \in Threads \ {t} : room'[u] = room[u]
    BY <1>1, <1>8 DEF Look, Goto
  <2>2. /\ ~ Full(curr[t]) => room'[t] = "curr"
        /\ Full(curr[t]) /\ bucket[curr[t]].next # Null /\ ~ Full(bucket[curr[t]].next)
              => room'[t] = "nxt"
        /\ Full(curr[t]) /\ (bucket[curr[t]].next = Null \/ Full(bucket[curr[t]].next))
              => room'[t] = "new"
    BY <1>1, <1>8 DEF Look
  <2>3. Found(t)'
    BY <1>1, <2>1, <2>2 DEF RoomFound, Full
  <2>4. Sect(t)'
    BY <1>1, <1>2, <1>3, <2>1, PlaceInR DEF Holding
  <2>5. \A u \in Threads \ {t} : Sect(u)' /\ Found(u)'
    BY <1>1, <1>5, <1>6, <2>1
  <2>6. \A u, v \in Threads : Apart(u, v)'
    BY <1>1, <1>3, <2>1 DEF Holding
  <2> QED
    BY <1>4, <2>3, <2>4, <2>5, <2>6
<1>9. ASSUME NEW t \in Threads, Place(t)
      PROVE  Latched'
  <2>1. /\ pc[t] = "place" /\ pc' = [pc EXCEPT ![t] = "unlock"]
        /\ UNCHANGED <<i, curr, nxt, room, latch>>
    BY <1>9 DEF Place, Goto, locals
  <2>2. Sect(t)' /\ Found(t)'
    BY <1>1, <1>2, <1>3, <2>1, PlaceInR DEF Holding
  <2>3. ASSUME NEW u \in Threads \ {t}, pc[u] = "place"
        PROVE  RoomFound(u)'
    <3>1. /\ curr[u] \in Heads /\ curr[t] \in Heads /\ curr[u] # curr[t] /\ RoomFound(u)
          /\ curr[u] \in DOMAIN bucket /\ curr[t] \in DOMAIN bucket
          /\ nxt[u] = bucket[curr[u]].next /\ nxt[u] \in DOMAIN bucket \cup {Null}
      BY <1>3, <2>1, <2>3, InSection DEF Holding, RoomFound, TypeOK
    <3>2. /\ nxt[u] \notin Heads
          /\ bucket[curr[t]].next \notin Heads
          /\ nxt[u] # Null => nxt[u] # bucket[curr[t]].next
      BY <3>1 DEF Linked
    <3>3. ASSUME NEW b, Filled(t, b)
          PROVE  \A x \in {curr[u], nxt[u]} \cap DOMAIN bucket : bucket'[x] = bucket[x]
      <4>1. b \in {curr[t], bucket[curr[t]].next} /\ b \in DOMAIN bucket /\ Null \notin DOMAIN bucket
        BY <3>3 DEF Filled, Linked
      <4>2. curr[u] # b /\ nxt[u] # b
        BY <3>1, <3>2, <4>1
      <4>3. \A x \in DOMAIN bucket \ {b} : bucket'[x] = bucket[x]
        BY <1>2, <3>3, FilledType
      <4> QED
        BY <4>2, <4>3
    <3>4. ASSUME NEW b, Extended(t, b)
          PROVE  \A x \in {curr[u], nxt[u]} \cap DOMAIN bucket : bucket'[x] = bucket[x]
      BY <3>1, <3>2, <3>4 DEF Extended
    <3>5. \A x \in {curr[u], nxt[u]} \cap DOMAIN bucket : bucket'[x] = bucket[x]
      BY <1>9, <3>3, <3>4, Placing
    <3>6. Null \notin DOMAIN bucket
      BY DEF Linked
    <3>7. /\ bucket'[curr[u]] = bucket[curr[u]]
          /\ nxt[u] # Null => bucket'[nxt[u]] = bucket[nxt[u]]
      BY <3>1, <3>5
    <3> QED
      BY <2>1, <3>1, <3>7 DEF RoomFound, Full
  <2>4. \A u \in Threads \ {t} : Sect(u)' /\ Found(u)'
    BY <1>1, <1>5, <2>1, <2>3
  <2>5. \A u, v \in Threads : Apart(u, v)'
    BY <1>1, <1>3, <2>1 DEF Holding
  <2> QED
    BY <1>4, <2>2, <2>4, <2>5
<1>10. ASSUME NEW t \in Threads, Unlock(t)
       PROVE  Latched'
  <2>1. /\ pc[t] = "unlock" /\ pc' = [pc EXCEPT ![t] = "build"] /\ latch' = latch \ {curr[t]}
        /\ \A u \in Threads \ {t} : i'[u] = i[u]
        /\ UNCHANGED <<curr, nxt, room, bucket>>
    BY <1>1, <1>10 DEF Unlock, Goto
  <2>2. Sect(t)' /\ Found(t)'
    BY <1>1, <2>1 DEF Holding
  <2>3. ASSUME NEW u \in Threads \ {t}
        PROVE  Sect(u)' /\ Found(u)'
    <3>1. pc[u] \in Holding => curr[u] # curr[t]
      BY <1>3, <2>1 DEF Holding
    <3>2. /\ i'[u] = i[u] /\ curr'[u] = curr[u] /\ pc'[u] = pc[u]
          /\ curr[u] \in latch => curr[u] \in latch' \/ pc[u] \notin Holding
      BY <1>1, <2>1, <3>1
    <3> QED
      BY <1>5, <1>6, <2>1, <3>2
  <2>4. \A u, v \in Threads : Apart(u, v)'
    BY <1>1, <1>3, <2>1 DEF Holding
  <2> QED
    BY <1>4, <2>2, <2>3, <2>4
<1>11. CASE StartBarrier \/ BuildBarrier
  <2>1. \A u \in Threads : pc'[u] \notin Holding /\ pc'[u] # "place"
    BY <1>11 DEF StartBarrier, BuildBarrier, Barrier, Holding
  <2> QED
    BY <1>4, <2>1
<1>12. ASSUME NEW t, pc[t] \notin Holding, pc'[t] \notin Holding,
              \A u \in Threads \ {t} : /\ i'[u] = i[u] /\ curr'[u] = curr[u] /\ pc'[u] = pc[u]
                                       /\ nxt'[u] = nxt[u] /\ room'[u] = room[u],
              UNCHANGED <<latch, bucket>>
       PROVE  Latched'
  <2>1. \A u \in Threads \ {t} : Sect(u)' /\ Found(u)'
    BY <1>5, <1>6, <1>12
  <2>2. t \in Threads => Sect(t)' /\ Found(t)'
    BY <1>12 DEF Holding
  <2>3. \A u, v \in Threads : Apart(u, v)'
    BY <1>3, <1>12
  <2> QED
    BY <1>4, <2>1, <2>2, <2>3
<1>13. ASSUME NEW t \in Threads,
              BuildEnd(t) \/ ProbeTuple(t) \/ Scan(t) \/ ProbeEnd(t) \/ Leave(t) \/ Free(t)
       PROVE  Latched'
  <2>1. /\ pc[t] \notin Holding /\ pc'[t] \notin Holding /\ UNCHANGED <<latch, bucket>>
        /\ \A u \in Threads \ {t} : /\ i'[u] = i[u] /\ curr'[u] = curr[u] /\ pc'[u] = pc[u]
                                    /\ nxt'[u] = nxt[u] /\ room'[u] = room[u]
    BY <1>1, <1>13 DEF BuildEnd, ProbeTuple, Scan, ProbeEnd, Leave, Free, Goto, locals, Holding
  <2> QED
    BY <1>12, <2>1
<1>14. CASE JoinThread \/ UNCHANGED nvars
  <2>1. UNCHANGED <<pc, i, curr, nxt, room, latch, bucket>>
    BY <1>14 DEF JoinThread, nvars, locals
  <2>2. \A u \in Threads : Sect(u)' /\ Found(u)'
    BY <1>5, <1>6, <2>1
  <2> QED
    BY <1>3, <1>4, <2>1, <2>2
<1>15. CASE Create
  <2>1. /\ pc' = [pc EXCEPT ![created] = "started"]
        /\ UNCHANGED <<i, curr, nxt, room, latch, bucket>>
    BY <1>15 DEF Create, Goto, locals
  <2>2. \A u \in Threads : pc'[u] = pc[u] \/ pc'[u] = "started"
    BY <1>1, <2>1
  <2>3. ASSUME NEW u \in Threads
        PROVE  Sect(u)' /\ Found(u)'
    <3>1. CASE pc'[u] = pc[u]
      BY <1>5, <1>6, <2>1, <3>1
    <3>2. CASE pc'[u] = "started"
      BY <3>2 DEF Holding
    <3> QED
      BY <2>2, <3>1, <3>2
  <2>4. \A u \in Threads : pc'[u] \in Holding => pc[u] \in Holding
    BY <2>2 DEF Holding
  <2>5. \A u, v \in Threads : Apart(u, v)'
    BY <1>3, <2>1, <2>4
  <2> QED
    BY <1>4, <2>3, <2>5
<1> QED
  BY <1>7, <1>8, <1>9, <1>10, <1>11, <1>13, <1>14, <1>15
  DEF Next, MainStep, Barriers, Over, ThreadStep

-----------------------------------------------------------------------------
(* The tuples of the table.                                                *)

(* Only an insert changes which tuples are in.                             *)
LEMMA InsertedStays ==
    ASSUME TypeOK, OwnBuffers, [Next]_nvars, ~ \E t \in Threads : Place(t)
    PROVE  \A t \in Threads : Inserted(t)' = Inserted(t)
<1>1. DOMAIN pc = Threads /\ DOMAIN i = Threads /\ \A t \in Threads : i[t] \in Nat
  BY DEF TypeOK
<1>2. UNCHANGED input /\ \A t : Size(t)' = Size(t)
  BY InputStays DEF input, Size, Share
<1> SUFFICES ASSUME NEW t \in Threads
             PROVE  Inserted(t)' = Inserted(t)
  OBVIOUS
<1>3. ASSUME i'[t] = i[t], pc'[t] = pc[t]
      PROVE  Inserted(t)' = Inserted(t)
  BY <1>2, <1>3 DEF Inserted
<1>4. ASSUME NEW u \in Threads, u # t, ThreadStep(u), ~ Place(u)
      PROVE  i'[t] = i[t] /\ pc'[t] = pc[t]
  BY <1>1, <1>4 DEF ThreadStep, Lock, Look, Unlock, BuildEnd, ProbeTuple, Scan, ProbeEnd, Leave,
                    Free, Goto, locals
<1>5. CASE Lock(t) \/ Look(t)
  <2>1. i'[t] = i[t] /\ pc[t] \in {"build", "look"} /\ pc'[t] \in {"look", "place"}
    BY <1>1, <1>5 DEF Lock, Look, Goto
  <2> QED
    BY <1>2, <2>1 DEF Inserted, Before
<1>6. CASE Unlock(t)
  <2>1. i'[t] = i[t] + 1 /\ pc[t] = "unlock" /\ pc'[t] = "build"
    BY <1>1, <1>6 DEF Unlock, Goto
  <2>2. \A k \in 0 .. Size(t) - 1 : k < i[t] + 1 <=> k <= i[t]
    BY <1>1
  <2>3. Inserted(t) = {k \in 0 .. Size(t) - 1 : k <= i[t]}
    BY <2>1 DEF Inserted, Before
  <2>4. Inserted(t)' = {k \in 0 .. Size(t) - 1 : k < i[t] + 1}
    BY <1>2, <2>1 DEF Inserted, Before
  <2> QED
    BY <2>2, <2>3, <2>4
<1>7. CASE BuildEnd(t)
  <2>1. pc[t] = "build" /\ pc'[t] = "built" /\ i[t] = Size(t)
    BY <1>1, <1>7 DEF BuildEnd, Goto, Size
  <2>2. Size(t) \in Nat
    BY SharesOfR
  <2>3. Inserted(t) = {k \in 0 .. Size(t) - 1 : k < Size(t)}
    BY <2>1 DEF Inserted, Before
  <2>4. Inserted(t)' = 0 .. Size(t) - 1
    BY <1>2, <2>1 DEF Inserted, Before
  <2> QED
    BY <2>2, <2>3, <2>4
<1>8. CASE ProbeTuple(t) \/ Scan(t) \/ ProbeEnd(t) \/ Leave(t) \/ Free(t)
  <2>1. pc[t] \in Past /\ pc'[t] \in Past
    BY <1>1, <1>8 DEF ProbeTuple, Scan, ProbeEnd, Leave, Free, Goto, Past
  <2> QED
    BY <1>2, <2>1 DEF Inserted, Before, Past
<1>9. CASE StartBarrier
  <2>1. pc[t] = "started" /\ pc'[t] = "build" /\ i'[t] = 0
    BY <1>9 DEF StartBarrier, Barrier
  <2>2. Size(t) \in Nat
    BY SharesOfR
  <2> QED
    BY <1>2, <2>1, <2>2 DEF Inserted, Before
<1>10. CASE BuildBarrier
  <2>1. pc[t] = "built" /\ pc'[t] = "probe"
    BY <1>10 DEF BuildBarrier, Barrier
  <2> QED
    BY <1>2, <2>1 DEF Inserted, Before
<1>11. CASE JoinThread \/ UNCHANGED nvars
  BY <1>3, <1>11 DEF JoinThread, nvars, locals
<1>12. CASE Create
  <2>1. created \in Threads /\ pc[created] = "none"
    BY <1>12 DEF Create, TypeOK, Threads, OwnBuffers
  <2>2. i'[t] = i[t] /\ (pc'[t] = pc[t] \/ (pc[t] = "none" /\ pc'[t] = "started"))
    BY <1>1, <1>12, <2>1 DEF Create, Goto, locals
  <2>3. CASE pc[t] = "none" /\ pc'[t] = "started"
    BY <1>2, <2>3 DEF Inserted, Before
  <2> QED
    BY <1>3, <2>2, <2>3
<1> QED
  BY <1>3, <1>4, <1>5, <1>6, <1>7, <1>8, <1>9, <1>10, <1>11, <1>12
  DEF Next, MainStep, Barriers, Over, ThreadStep

(* An insert files the tuple at hand, which was not in before.             *)
LEMMA InsertedGrows ==
    ASSUME TypeOK, Linked, Latched, NEW t \in Threads, Place(t)
    PROVE  /\ \A r : InTable(r)' <=> InTable(r) \/ r = RTuple(t)
           /\ ~ InTable(RTuple(t))
<1>1. /\ DOMAIN pc = Threads /\ pc[t] = "place" /\ pc' = [pc EXCEPT ![t] = "unlock"]
      /\ UNCHANGED input /\ i' = i
  BY DEF Place, Goto, locals, TypeOK
<1>2. \A u : Size(u)' = Size(u) /\ First(u)' = First(u)
  BY <1>1 DEF input, Size, First, Share
<1>3. i[t] \in 0 .. Size(t) - 1
  BY <1>1, SharesOfR DEF TypeOK, Latched, Holding
<1>4. RTuple(t) = First(t) + i[t] + 1
  BY DEF RTuple, First
<1>5. Inserted(t)' = Inserted(t) \cup {i[t]} /\ i[t] \notin Inserted(t)
  <2>1. /\ Inserted(t) = {k \in 0 .. Size(t) - 1 : k < i[t]}
        /\ Inserted(t)' = {k \in 0 .. Size(t) - 1 : k <= i[t]}
    BY <1>1, <1>2 DEF Inserted, Before
  <2> QED
    BY <1>3, <2>1
<1>6. \A u \in Threads \ {t} : Inserted(u)' = Inserted(u)
  BY <1>1, <1>2 DEF Inserted
<1>7. \A r : InTable(r)' <=> InTable(r) \/ r = RTuple(t)
  <2> TAKE r
  <2>1. InTable(r)' <=> \E u \in Threads : \E k \in Inserted(u)' : r = First(u) + k + 1
    BY <1>2 DEF InTable
  <2> QED
    BY <1>4, <1>5, <1>6, <2>1 DEF InTable
<1>8. \A u \in Threads : Inserted(u) \subseteq 0 .. Size(u) - 1
  BY DEF Inserted
<1>9. ASSUME NEW u \in Threads, NEW k \in Inserted(u), RTuple(t) = First(u) + k + 1
      PROVE  FALSE
  <2>1. k \in 0 .. Size(u) - 1
    BY <1>8
  <2>2. u = t /\ k = i[t]
    BY <1>3, <1>4, <1>9, <2>1, SharesOfR
  <2> QED
    BY <1>5, <1>9, <2>2
<1> QED
  BY <1>7, <1>9 DEF InTable

(* It goes to a place of its own in its chain, and moves no other tuple.   *)
LEMMA HoldsGrows ==
    ASSUME TypeOK, Linked, Latched, Taken, NEW t \in Threads, Place(t)
    PROVE  /\ \A g \in Heads : Chain(g) \subseteq Chain(g)'
           /\ \E b, j : /\ \A h : h = curr[t] => b \in Chain(h)'
                        /\ \A r : ~ Holds(b, j, r)
                        /\ \A c, k, r : Holds(c, k, r)' <=>
                              Holds(c, k, r) \/ (c = b /\ k = j /\ r = RTuple(t))
<1> DEFINE Goal == /\ \A g \in Heads : Chain(g) \subseteq Chain(g)'
                   /\ \E b, j : /\ \A h : h = curr[t] => b \in Chain(h)'
                                /\ \A r : ~ Holds(b, j, r)
                                /\ \A c, k, r : Holds(c, k, r)' <=>
                                      Holds(c, k, r) \/ (c = b /\ k = j /\ r = RTuple(t))
<1>1. UNCHANGED input /\ pc[t] \in Holding
  BY DEF Place, Holding
<1>2. curr[t] \in Heads /\ curr[t] \in DOMAIN bucket /\ RTuple(t) \in 1 .. Len(relR)
  BY <1>1, InSection
<1>3. Nexts /\ \A x \in DOMAIN bucket : bucket[x].count \in 0 .. BUCKET_SIZE
  BY DEF Nexts, TypeOK
<1>4. ASSUME NEW b, Filled(t, b)
      PROVE  Goal
  <2> DEFINE j == bucket[b].count + 1
  <2>1. /\ DOMAIN bucket' = DOMAIN bucket /\ b \in DOMAIN bucket
        /\ \A x \in DOMAIN bucket \ {b} : bucket'[x] = bucket[x]
        /\ bucket'[b].count = j /\ bucket'[b].next = bucket[b].next
        /\ bucket'[b].tuples = [bucket[b].tuples EXCEPT ![j] = RTuple(t)]
        /\ j \in 1 .. BUCKET_SIZE
    BY <1>1, <1>4, FilledType
  <2>2. bucket[b].count = j - 1 /\ DOMAIN bucket[b].tuples = 1 .. BUCKET_SIZE
    BY <1>3, <2>1 DEF TypeOK
  <2>3. \A g : Chain(g)' = Chain(g)
    BY <2>1, ChainSame
  <2>4. b \in Chain(curr[t])
    <3>1. curr[t] \in Chain(curr[t]) /\ ClosedUnderNext(Chain(curr[t]))
      BY <1>2, <1>3, ChainLeast
    <3>2. bucket[curr[t]].next \in Chain(curr[t]) \cup {Null}
      BY <3>1 DEF ClosedUnderNext
    <3>3. b \in {curr[t], bucket[curr[t]].next} /\ b # Null
      BY <1>4 DEF Filled, Linked
    <3> QED
      BY <3>1, <3>2, <3>3
  <2> HIDE DEF j
  <2>5. \A r : ~ Holds(b, j, r)
    BY <2>1, <2>2 DEF Holds
  <2>6. ASSUME NEW c, NEW k, NEW r
        PROVE  Holds(c, k, r)' <=> Holds(c, k, r) \/ (c = b /\ k = j /\ r = RTuple(t))
    <3>1. CASE c # b
      BY <2>1, <3>1 DEF Holds
    <3>2. CASE c = b /\ k \in 1 .. j - 1
      <4>1. bucket'[b].tuples[k] = bucket[b].tuples[k] /\ k \in 1 .. j /\ k # j
        BY <2>1, <2>2, <3>2
      <4> QED
        BY <2>1, <2>2, <3>2, <4>1 DEF Holds
    <3>3. CASE c = b /\ k = j
      <4>1. bucket'[b].tuples[j] = RTuple(t) /\ j \in 1 .. j /\ j \notin 1 .. j - 1
        BY <2>1, <2>2
      <4> QED
        BY <2>1, <2>2, <3>3, <4>1 DEF Holds
    <3>4. CASE c = b /\ k \notin 1 .. j
      <4>1. k \notin 1 .. j - 1 /\ k # j
        BY <2>1, <3>4
      <4> QED
        BY <2>1, <2>2, <3>4, <4>1 DEF Holds
    <3>5. k \in 1 .. j => k = j \/ k \in 1 .. j - 1
      BY <2>1
    <3> QED
      BY <3>1, <3>2, <3>3, <3>4, <3>5
  <2> QED
    BY <2>3, <2>4, <2>5, <2>6
<1>5. ASSUME NEW b, Extended(t, b)
      PROVE  Goal
  <2>1. /\ b \notin DOMAIN bucket /\ b # Null /\ DOMAIN bucket' = DOMAIN bucket \cup {b}
        /\ \A x \in DOMAIN bucket \ {curr[t]} : bucket'[x] = bucket[x]
    BY <1>5 DEF Extended
  <2>2. /\ bucket'[b].count = 1 /\ bucket'[b].next = bucket[curr[t]].next
        /\ bucket'[b].tuples[1] = RTuple(t)
        /\ bucket'[curr[t]].count = bucket[curr[t]].count /\ bucket'[curr[t]].next = b
        /\ bucket'[curr[t]].tuples = bucket[curr[t]].tuples
    BY <1>1, <1>5, ExtendedType
  <2>3. ASSUME NEW h, h = curr[t]
        PROVE  b \in Chain(h)' /\ \A g \in Heads : Chain(g) \subseteq Chain(g)'
    <3>1. /\ h \in Heads /\ bucket'[h].next = b /\ bucket'[b].next = bucket[h].next
          /\ \A x \in DOMAIN bucket \ {h} : bucket'[x].next = bucket[x].next
      BY <1>2, <2>1, <2>2, <2>3
    <3> QED
      BY <1>3, <2>1, <3>1, ChainGrows
  <2>4. \A r : ~ Holds(b, 1, r)
    BY <2>1 DEF Holds
  <2>5. ASSUME NEW c, NEW k, NEW r
        PROVE  Holds(c, k, r)' <=> Holds(c, k, r) \/ (c = b /\ k = 1 /\ r = RTuple(t))
    <3>1. CASE c = b
      <4>1. k \in 1 .. 1 <=> k = 1
        OBVIOUS
      <4> QED
        BY <2>1, <2>2, <3>1, <4>1 DEF Holds
    <3>2. CASE c # b
      <4>1. /\ c \in DOMAIN bucket' <=> c \in DOMAIN bucket
            /\ c \in DOMAIN bucket => /\ bucket'[c].count = bucket[c].count
                                      /\ bucket'[c].tuples = bucket[c].tuples
        BY <2>1, <2>2, <3>2
      <4> QED
        BY <3>2, <4>1 DEF Holds
    <3> QED
      BY <3>1, <3>2
  <2> QED
    BY <2>3, <2>4, <2>5
<1> QED
  BY <1>4, <1>5, Placing

(* Where a key hashes to does not change, and neither does its chain's name. *)
LEMMA ChainOfKey ==
    ASSUME UNCHANGED input, NEW r
    PROVE  \A h : h = HASH(relR[r]) => Chain(HASH(relR[r]))' = Chain(h)'
<1>1. HASH(relR[r])' = HASH(relR[r])
  BY DEF input, HASH, num_buckets
<1> QED
  BY <1>1 DEF Chain

LEMMA FiledStep ==
    ASSUME TypeOK, OwnBuffers, Linked, Latched, Taken, Filed, [Next]_nvars
    PROVE  Filed'
<1>1. UNCHANGED input
  BY InputStays
<1>2. CASE ~ \E t \in Threads : Place(t)
  <2>1. UNCHANGED bucket
    BY <1>2 DEF Next, MainStep, Create, JoinThread, Barriers, StartBarrier, BuildBarrier, Barrier,
      Over, nvars, ThreadStep, Lock, Look, Unlock, BuildEnd, ProbeTuple, Scan, ProbeEnd,
      Leave, Free
  <2>2. \A r : InTable(r)' <=> InTable(r)
    <3>1. \A t \in Threads : Inserted(t)' = Inserted(t) /\ First(t)' = First(t)
      BY <1>1, <1>2, InsertedStays DEF input, First, Share
    <3> QED
      BY <3>1 DEF InTable
  <2>3. \A b : Chain(b)' = Chain(b)
    BY <2>1, ChainSame
  <2>4. \A r : Chain(HASH(relR[r]))' = Chain(HASH(relR[r]))
    <3> TAKE r
    <3>1. PICK h : h = HASH(relR[r])
      OBVIOUS
    <3>2. Chain(HASH(relR[r]))' = Chain(h)'
      BY <1>1, <3>1, ChainOfKey
    <3> QED
      BY <2>3, <3>1, <3>2
  <2>5. \A b, j, r : Holds(b, j, r)' <=> Holds(b, j, r)
    BY <2>1 DEF Holds
  <2> QED
    BY <2>2, <2>4, <2>5 DEF Filed
<1>3. ASSUME NEW t \in Threads, Place(t)
      PROVE  Filed'
  <2>1. /\ \A r : InTable(r)' <=> InTable(r) \/ r = RTuple(t)
        /\ ~ InTable(RTuple(t))
    BY <1>3, InsertedGrows
  <2>2. \A g \in Heads : Chain(g) \subseteq Chain(g)'
    BY <1>3, HoldsGrows
  <2>3. PICK b0, j0 : /\ \A h : h = curr[t] => b0 \in Chain(h)'
                      /\ \A r : ~ Holds(b0, j0, r)
                      /\ \A c, k, r : Holds(c, k, r)' <=>
                            Holds(c, k, r) \/ (c = b0 /\ k = j0 /\ r = RTuple(t))
    BY <1>3, HoldsGrows
  <2>4. curr[t] = HASH(relR[RTuple(t)])
    BY <1>3, InSection DEF Place, Holding
  <2>5. ASSUME NEW r, InTable(r)
        PROVE  Chain(HASH(relR[r])) \subseteq Chain(HASH(relR[r]))'
    <3>1. r \in 1 .. Len(relR)
      BY <2>5, SharesOfR DEF InTable, Inserted
    <3>2. PICK h : h = HASH(relR[r])
      OBVIOUS
    <3>3. h \in Heads
      BY <3>1, <3>2, HashIsHead
    <3>4. Chain(HASH(relR[r]))' = Chain(h)'
      BY <1>1, <3>2, ChainOfKey
    <3> QED
      BY <2>2, <3>2, <3>3, <3>4
  <2>6. ASSUME NEW r, r = RTuple(t)
        PROVE  b0 \in Chain(HASH(relR[r]))'
    <3>1. PICK h : h = HASH(relR[r])
      OBVIOUS
    <3>2. h = curr[t]
      BY <2>4, <2>6, <3>1
    <3>3. Chain(HASH(relR[r]))' = Chain(h)'
      BY <1>1, <3>1, ChainOfKey
    <3> QED
      BY <2>3, <3>2, <3>3
  <2>7. \A b, j, r : Holds(b, j, r)' => InTable(r)' /\ b \in Chain(HASH(relR[r]))'
    BY <2>1, <2>3, <2>5, <2>6 DEF Filed
  <2>8. \A b, c, j, k, r : Holds(b, j, r)' /\ Holds(c, k, r)' => b = c /\ j = k
    <3>1. \A b, j : ~ Holds(b, j, RTuple(t))
      BY <2>1 DEF Filed
    <3> QED
      BY <2>3, <3>1 DEF Filed
  <2>9. \A r : InTable(r)' => \E b, j : Holds(b, j, r)'
    BY <2>1, <2>3 DEF Filed
  <2> QED
    BY <2>7, <2>8, <2>9 DEF Filed
<1> QED
  BY <1>2, <1>3

-----------------------------------------------------------------------------
(* The invariant, and what it says of the table.                           *)

LEMMA InitJoinInv == ASSUME Init PROVE JoinInv
<1> DEFINE Names == {TableBucket(h) : h \in 0 .. num_buckets - 1}
<1>1. relR \in Seq(Nat) /\ relS \in Seq(Nat) /\ Len(relR) \in Nat
  BY InputsAssumption DEF Init
<1>2. bucket = [b \in Names |-> EmptyBucket] /\ Names = Heads
  BY DEF Init, Heads
<1>3. /\ EmptyBucket.count = 0 /\ EmptyBucket.next = Null
      /\ EmptyBucket \in [count : 0 .. BUCKET_SIZE, next : Heads \cup {Null},
                          tuples : [1 .. BUCKET_SIZE -> 0 .. Len(relR)]]
  BY <1>1 DEF EmptyBucket
<1> HIDE DEF Names
<1>4. /\ DOMAIN bucket = Heads
      /\ \A b \in Heads : bucket[b] = EmptyBucket
  BY <1>2
<1>5. Null \notin Heads
  <2>1. \A h \in Heads : Len(h) = 3
    BY DEF Heads, TableBucket
  <2>2. Len(Null) = 0
    BY DEF Null
  <2> QED
    BY <2>1, <2>2
<1>6. \A t \in Threads : pc[t] = "none" /\ overflowbuf[t].bufs = 0
  BY DEF Init
<1>7. TypeOK
  <2>1. bucket \in [DOMAIN bucket ->
                     [count : 0 .. BUCKET_SIZE, next : DOMAIN bucket \cup {Null},
                      tuples : [1 .. BUCKET_SIZE -> 0 .. Len(relR)]]]
    BY <1>2, <1>3, <1>4
  <2>2. /\ curr \in [Threads -> DOMAIN bucket \cup {Null}]
        /\ nxt \in [Threads -> DOMAIN bucket \cup {Null}]
        /\ latch \subseteq Heads
    BY DEF Init
  <2>3. overflowbuf \in [Threads -> [bufs : Nat, used : 0 .. OVERFLOW_BUF_SIZE]]
    BY DEF Init
  <2>4. /\ created \in 0 .. nthreads /\ joined \in 0 .. nthreads /\ result \in Nat
        /\ pc \in [Threads -> {"none"}] /\ room \in [Threads -> {"none"}]
        /\ i \in [Threads -> Nat] /\ num_results \in [Threads -> Nat]
    BY DEF Init
  <2> QED
    BY <1>1, <2>1, <2>2, <2>3, <2>4 DEF TypeOK
<1>8. OwnBuffers /\ InPhase /\ Scanning
  BY <1>6 DEF OwnBuffers, InPhase, Scanning, Past
<1>9. Taken
  <2>1. \A b \in Heads : b[1] \notin Threads
    BY ThreadsFacts DEF Heads, TableBucket
  <2> QED
    BY <1>4, <2>1 DEF Taken
<1>10. Linked
  BY <1>3, <1>4, <1>5 DEF Linked
<1>11. Latched
  BY <1>6 DEF Latched, Holding
<1>12. Filed
  <2>1. \A t \in Threads : Inserted(t) = {}
    BY <1>6 DEF Inserted, Before
  <2>2. \A b \in DOMAIN bucket : bucket[b].count = 0
    BY <1>3, <1>4
  <2>3. \A b, j, r : ~ Holds(b, j, r)
    BY <2>2 DEF Holds
  <2> QED
    BY <2>1, <2>3 DEF Filed, InTable
<1> QED
  BY <1>7, <1>8, <1>9, <1>10, <1>11, <1>12 DEF JoinInv

(* The inductive invariant of the join.                                    *)
THEOREM JoinInvariant == Spec => []JoinInv
<1>1. Init => JoinInv
  BY InitJoinInv
<1>2. JoinInv /\ [Next]_nvars => JoinInv'
  <2> SUFFICES ASSUME JoinInv, [Next]_nvars PROVE JoinInv'
    OBVIOUS
  <2>1. TypeOK /\ OwnBuffers /\ InPhase /\ Taken /\ Linked /\ Latched /\ Scanning /\ Filed
    BY DEF JoinInv
  <2> QED
    BY <2>1, TypeStep, OwnBuffersStep, InPhaseStep, TakenStep, LinkedStep, LatchedStep,
       ScanningStep, FiledStep DEF JoinInv
<1> QED
  BY <1>1, <1>2, PTL DEF Spec

(* Of a chain at rest only the first two buckets may have room, and the    *)
(* second is there only once the first is full: the inserts look no        *)
(* further (build_hashtable_mt).                                           *)
THEOREM ChainShapeHolds == Spec => []ChainShape
<1>1. JoinInv => ChainShape
  <2> SUFFICES ASSUME JoinInv PROVE ChainShape
    OBVIOUS
  <2>1. TypeOK /\ Linked /\ Nexts
    BY DEF JoinInv, TypeOK, Nexts
  <2>2. ASSUME NEW h \in Heads, NEW b \in Chain(h) \ {h, bucket[h].next}
        PROVE  Full(b)
    <3>1. h \in DOMAIN bucket /\ b \in DOMAIN bucket
      BY <2>1, ChainLeast DEF Linked
    <3>2. PICK p \in Chain(h) : bucket[p].next = b
      BY <2>1, <3>1, ChainPred
    <3>3. p \in DOMAIN bucket /\ b # Null /\ p # h
      BY <2>1, <2>2, <3>1, <3>2, ChainLeast DEF Linked
    <3>4. b \notin Heads
      BY <2>1, <3>2, <3>3 DEF Linked
    <3>5. ASSUME NEW g \in Heads, bucket[g].next = b
          PROVE  FALSE
      <4>1. g \in DOMAIN bucket /\ p = g
        BY <2>1, <3>2, <3>3, <3>5 DEF Linked
      <4>2. g \in Chain(g) \cap Chain(h)
        BY <2>1, <4>1, <3>2, ChainLeast
      <4> QED
        BY <2>1, <3>3, <4>1, <4>2, ChainsApart
    <3> QED
      BY <2>1, <3>1, <3>4, <3>5 DEF Linked
  <2> QED
    BY <2>1, <2>2 DEF ChainShape, Linked
<1> QED
  BY <1>1, JoinInvariant, PTL

(* When a thread probes, each tuple of R is in the chain of its key, once, *)
(* and each chain holds nothing else: the barrier after the build, and the *)
(* shares, make the table complete before it is read without latches.      *)
THEOREM TableCompleteHolds == Spec => []TableComplete
<1>1. JoinInv => TableComplete
  <2> SUFFICES ASSUME JoinInv, NEW t0 \in Threads, pc[t0] \in {"probe", "scan"}
               PROVE  /\ \A r \in 1 .. Len(relR) :
                           Cardinality({s \in Slots(HASH(relR[r])) :
                                           bucket[s[1]].tuples[s[2]] = r}) = 1
                      /\ \A h \in Heads : \A s \in Slots(h) :
                           HASH(relR[bucket[s[1]].tuples[s[2]]]) = h
    BY DEF TableComplete
  <2>1. TypeOK /\ Linked /\ Nexts /\ Filed /\ InPhase
    BY DEF JoinInv, TypeOK, Nexts
  <2>2. \A b \in DOMAIN bucket : bucket[b].count \in 0 .. BUCKET_SIZE
    BY <2>1 DEF TypeOK
  <2>3. \A t \in Threads : Inserted(t) = 0 .. Size(t) - 1
    <3> TAKE t \in Threads
    <3>1. pc[t] \in Past
      BY <2>1 DEF InPhase, Past
    <3> QED
      BY <3>1 DEF Inserted, Past, Before
  <2>4. \A r : InTable(r) <=> r \in 1 .. Len(relR)
    BY <2>1, <2>3, SharesOfR DEF InTable
  (* A filled slot of a chain is one that holds a tuple. *)
  <2>5. ASSUME NEW h \in Heads, NEW b, NEW j
        PROVE  <<b, j>> \in Slots(h) <=> b \in Chain(h) /\ j \in 1 .. bucket[b].count
    <3>1. Chain(h) \subseteq DOMAIN bucket
      BY <2>1, ChainLeast DEF Linked
    <3> QED
      BY <2>2, <3>1 DEF Slots
  <2>6. ASSUME NEW h \in Heads, NEW s \in Slots(h)
        PROVE  /\ s = <<s[1], s[2]>> /\ s[1] \in Chain(h)
               /\ Holds(s[1], s[2], bucket[s[1]].tuples[s[2]])
    <3>1. s = <<s[1], s[2]>>
      BY DEF Slots
    <3>2. s[1] \in Chain(h) /\ s[2] \in 1 .. bucket[s[1]].count
      BY <2>5, <3>1
    <3> QED
      BY <2>1, <3>1, <3>2, ChainLeast DEF Holds, Linked
  <2>7. ASSUME NEW r \in 1 .. Len(relR)
        PROVE  Cardinality({s \in Slots(HASH(relR[r])) : bucket[s[1]].tuples[s[2]] = r}) = 1
    <3> DEFINE h == HASH(relR[r])
               found == {s \in Slots(h) : bucket[s[1]].tuples[s[2]] = r}
    <3>1. h \in Heads
      BY <2>1, HashIsHead
    <3>2. PICK b, j : Holds(b, j, r)
      BY <2>1, <2>4 DEF Filed
    <3>3. b \in Chain(h)
      BY <2>1, <3>2 DEF Filed
    <3> HIDE DEF h
    <3>4. <<b, j>> \in found
      BY <2>5, <3>1, <3>2, <3>3 DEF Holds
    <3>5. ASSUME NEW s \in found
          PROVE  s = <<b, j>>
      <4>1. s \in Slots(h) /\ bucket[s[1]].tuples[s[2]] = r
        OBVIOUS
      <4>2. s = <<s[1], s[2]>> /\ Holds(s[1], s[2], r)
        BY <2>6, <3>1, <4>1
      <4>3. s[1] = b /\ s[2] = j
        BY <2>1, <3>2, <4>2 DEF Filed
      <4> QED
        BY <4>2, <4>3
    <3>6. found = {<<b, j>>}
      BY <3>4, <3>5
    <3>7. Cardinality({<<b, j>>}) = 1
      BY FS_Singleton
    <3> QED
      BY <3>6, <3>7 DEF h
  <2>8. ASSUME NEW h \in Heads, NEW s \in Slots(h)
        PROVE  HASH(relR[bucket[s[1]].tuples[s[2]]]) = h
    <3> DEFINE r == bucket[s[1]].tuples[s[2]]
    <3>1. s[1] \in Chain(h) /\ Holds(s[1], s[2], r)
      BY <2>6
    <3> HIDE DEF r
    <3>2. r \in 1 .. Len(relR) /\ s[1] \in Chain(HASH(relR[r]))
      BY <2>1, <2>4, <3>1 DEF Filed
    <3>3. HASH(relR[r]) \in Heads
      BY <2>1, <3>2, HashIsHead
    <3>4. HASH(relR[r]) = h
      BY <2>1, <3>1, <3>2, <3>3, ChainsApart
    <3> QED
      BY <3>4 DEF r
  <2> QED
    BY <2>7, <2>8
<1> QED
  BY <1>1, JoinInvariant, PTL

(* Compiled with timing, the barrier after the probe keeps every overflow  *)
(* bucket a probe may still reach from being freed. Without it nothing     *)
(* does (npo_thread with NO_TIMING).                                       *)
THEOREM NoUseAfterFreeHolds ==
    ASSUME Timing PROVE Spec => []NoUseAfterFree
<1>1. JoinInv => NoUseAfterFree
  <2> SUFFICES ASSUME JoinInv, NEW t \in Threads, pc[t] = "scan", NEW b \in Chain(curr[t])
               PROVE  Live(b)
    BY DEF NoUseAfterFree
  <2>1. TypeOK /\ Taken /\ InPhase /\ Nexts /\ curr[t] \in DOMAIN bucket
    BY DEF JoinInv, TypeOK, Nexts, Scanning
  <2>2. b \in DOMAIN bucket
    BY <2>1, ChainLeast
  <2>3. ASSUME b[1] \in Threads
        PROVE  b[2] <= overflowbuf[b[1]].bufs
    <3>1. pc[b[1]] \notin {"free", "exit"}
      BY <2>1, <2>3 DEF InPhase
    <3>2. /\ b[2] \in Nat /\ overflowbuf[b[1]].bufs \in Nat
          /\ b[2] < overflowbuf[b[1]].bufs \/ b[2] = overflowbuf[b[1]].bufs
      BY <2>1, <2>2, <2>3, <3>1 DEF Taken, TypeOK
    <3> QED
      BY <3>2
  <2> QED
    BY <2>3 DEF Live
<1> QED
  BY <1>1, JoinInvariant, PTL

-----------------------------------------------------------------------------
(* The result, counted pair by pair.                                       *)

(* The matching pairs of these tuples of S with all of R.                  *)
Pairs(K) == {p \in (DOMAIN relR) \X K : relR[p[1]] = relS[p[2]]}

FirstOfS(t) == Share(Len(relS), t).first
SizeOfS(t) == Share(Len(relS), t).size
STuple(t) == FirstOfS(t) + i[t] + 1
ShareOfS(t) == {FirstOfS(t) + k + 1 : k \in 0 .. SizeOfS(t) - 1}

(* What a thread has probed for, and what main has added up.               *)
Probed(t) ==
    {s \in ShareOfS(t) :
        CASE pc[t] \in {"probe", "scan"} -> s < STuple(t)
          [] pc[t] \in {"probed", "free", "exit"} -> TRUE
          [] OTHER -> FALSE}

Summed == UNION {ShareOfS(t) : t \in 0 .. joined - 1}

(* No chain has overflowed: every probe looks at one bucket only.          *)
Flat == DOMAIN bucket = Heads

Counted ==
    /\ \A t \in Threads : pc[t] = "scan" =>
          i[t] < SizeOfS(t) /\ (Flat => curr[t] = HASH(SKey(t)))
    /\ Flat => \A t \in Threads : num_results[t] = Cardinality(Pairs(Probed(t)))
    /\ Flat => result = Cardinality(Pairs(Summed))

LEMMA SharesOfS ==
    ASSUME TypeOK
    PROVE  /\ \A t \in Threads : FirstOfS(t) \in Nat /\ SizeOfS(t) \in Nat
           /\ \A t \in Threads : \A k \in 0 .. SizeOfS(t) - 1 :
                 FirstOfS(t) + k + 1 \in DOMAIN relS
           /\ \A t \in Threads : ShareOfS(t) \subseteq DOMAIN relS
           /\ \A t, u \in Threads : t # u => ShareOfS(t) \cap ShareOfS(u) = {}
           /\ DOMAIN relS = UNION {ShareOfS(t) : t \in Threads}
<1>1. Len(relS) \in Nat /\ DOMAIN relS = 1 .. Len(relS)
  BY DEF TypeOK
<1>2. \A t \in Threads : ShareOfS(t) \subseteq DOMAIN relS
  BY <1>1, Shares DEF ShareOfS, FirstOfS, SizeOfS
<1>3. ASSUME NEW t \in Threads, NEW u \in Threads, NEW s \in ShareOfS(t) \cap ShareOfS(u)
      PROVE  t = u
  <2>1. PICK k \in 0 .. SizeOfS(t) - 1 : s = FirstOfS(t) + k + 1
    BY DEF ShareOfS
  <2>2. PICK l \in 0 .. SizeOfS(u) - 1 : s = FirstOfS(u) + l + 1
    BY DEF ShareOfS
  <2> QED
    BY <1>1, <2>1, <2>2, Shares DEF FirstOfS, SizeOfS
<1>4. DOMAIN relS \subseteq UNION {ShareOfS(t) : t \in Threads}
  BY <1>1, Shares DEF ShareOfS, FirstOfS, SizeOfS
<1> QED
  BY <1>1, <1>2, <1>3, <1>4, Shares DEF FirstOfS, SizeOfS

LEMMA PairsFinite ==
    ASSUME TypeOK, NEW K \in SUBSET (DOMAIN relS)
    PROVE  IsFiniteSet(Pairs(K)) /\ Cardinality(Pairs(K)) \in Nat
<1>1. /\ Len(relR) \in Nat /\ DOMAIN relR = 1 .. Len(relR)
      /\ Len(relS) \in Nat /\ DOMAIN relS = 1 .. Len(relS)
  BY DEF TypeOK
<1>2. IsFiniteSet(DOMAIN relR) /\ IsFiniteSet(DOMAIN relS)
  BY <1>1, FS_Interval
<1>3. IsFiniteSet((DOMAIN relR) \X (DOMAIN relS))
  BY <1>2, FS_Product
<1>4. Pairs(K) \in SUBSET ((DOMAIN relR) \X (DOMAIN relS))
  BY DEF Pairs
<1>5. IsFiniteSet(Pairs(K))
  BY <1>3, <1>4, FS_Subset
<1> QED
  BY <1>5, FS_CardinalityType

(* Pairs of different tuples of S add up.                                  *)
LEMMA PairsAdd ==
    ASSUME TypeOK, NEW K \in SUBSET (DOMAIN relS), NEW L \in SUBSET (DOMAIN relS), K \cap L = {}
    PROVE  Cardinality(Pairs(K \cup L)) = Cardinality(Pairs(K)) + Cardinality(Pairs(L))
<1>1. /\ IsFiniteSet(Pairs(K)) /\ IsFiniteSet(Pairs(L))
      /\ Cardinality(Pairs(K)) \in Nat /\ Cardinality(Pairs(L)) \in Nat
  BY PairsFinite
<1>2. Pairs(K \cup L) = Pairs(K) \cup Pairs(L) /\ Pairs(K) \cap Pairs(L) = {}
  BY DEF Pairs
<1>3. Cardinality(Pairs(K) \cap Pairs(L)) = 0
  BY <1>2, FS_EmptySet
<1>4. Cardinality(Pairs(K \cup L)) =
         Cardinality(Pairs(K)) + Cardinality(Pairs(L)) - Cardinality(Pairs(K) \cap Pairs(L))
  BY <1>1, <1>2, FS_Union, Zenon
<1> QED
  BY <1>1, <1>3, <1>4

(* Scanning the one bucket of a chain finds as many tuples as match.       *)
LEMMA HitsMatch ==
    ASSUME JoinInv, Flat, NEW t \in Threads, pc[t] = "scan", i[t] < SizeOfS(t),
           curr[t] = HASH(SKey(t))
    PROVE  Cardinality(Hits(t)) = Cardinality(Pairs({STuple(t)}))
<1> DEFINE h == curr[t]
           s == STuple(t)
           n == bucket[h].count
<1>1. TypeOK /\ Linked /\ Nexts /\ Filed /\ InPhase
  BY DEF JoinInv, TypeOK, Nexts
<1>2. s \in DOMAIN relS /\ SKey(t) = relS[s] /\ relS[s] \in Nat
  <2>1. i[t] \in 0 .. SizeOfS(t) - 1
    BY <1>1, SharesOfS DEF TypeOK
  <2>2. s \in DOMAIN relS
    BY <1>1, <2>1, SharesOfS DEF STuple
  <2> QED
    BY <1>1, <2>2 DEF SKey, STuple, FirstOfS, TypeOK
<1>3. h \in Heads /\ h \in DOMAIN bucket
  BY <1>1, <1>2, HashIsHead DEF Linked
<1>4. n \in Nat
  BY <1>1, <1>3 DEF TypeOK
<1>5. \A r : InTable(r) <=> r \in DOMAIN relR
  <2>1. \A u \in Threads : Inserted(u) = 0 .. Size(u) - 1
    <3> TAKE u \in Threads
    <3>1. pc[u] \in Past
      BY <1>1 DEF InPhase, Past
    <3> QED
      BY <3>1 DEF Inserted, Past, Before
  <2>2. DOMAIN relR = 1 .. Len(relR)
    BY <1>1 DEF TypeOK
  <2> QED
    BY <1>1, <2>1, <2>2, SharesOfR DEF InTable
<1> HIDE DEF h, s, n
<1>6. Hits(t) = {j \in 1 .. n : relR[bucket[h].tuples[j]] = relS[s]}
  BY <1>2 DEF Hits, h, n
<1>7. \A j \in 1 .. n : Holds(h, j, bucket[h].tuples[j])
  BY <1>3 DEF Holds, n
<1> DEFINE f == [j \in Hits(t) |-> <<bucket[h].tuples[j], s>>]
<1>8. f \in [Hits(t) -> Pairs({s})]
  <2> SUFFICES ASSUME NEW j \in Hits(t)
               PROVE  <<bucket[h].tuples[j], s>> \in Pairs({s})
    OBVIOUS
  <2>1. bucket[h].tuples[j] \in DOMAIN relR
    BY <1>1, <1>5, <1>6, <1>7 DEF Filed
  <2> QED
    BY <1>6, <2>1 DEF Pairs
<1>9. ASSUME NEW j \in Hits(t), NEW k \in Hits(t), f[j] = f[k]
      PROVE  j = k
  <2>1. bucket[h].tuples[j] = bucket[h].tuples[k]
    BY <1>9
  <2>2. Holds(h, j, bucket[h].tuples[j]) /\ Holds(h, k, bucket[h].tuples[j])
    BY <1>6, <1>7, <2>1
  <2> QED
    BY <1>1, <2>2 DEF Filed
<1>10. ASSUME NEW p \in Pairs({s})
       PROVE  \E j \in Hits(t) : f[j] = p
  <2>1. p = <<p[1], s>> /\ p[1] \in DOMAIN relR /\ relR[p[1]] = relS[s]
    BY DEF Pairs
  <2>2. PICK b, j : Holds(b, j, p[1])
    BY <1>1, <1>5, <2>1 DEF Filed
  <2>3. b \in Chain(HASH(relR[p[1]])) /\ HASH(relR[p[1]]) = h
    BY <1>1, <1>2, <2>1, <2>2 DEF Filed, h
  <2>4. b \in Heads /\ b \in Chain(b)
    BY <1>1, <2>2, ChainLeast DEF Holds, Flat
  <2>5. b = h
    BY <1>1, <1>3, <2>3, <2>4, ChainsApart
  <2>6. j \in Hits(t) /\ bucket[h].tuples[j] = p[1]
    BY <1>6, <2>1, <2>2, <2>5 DEF Holds, n
  <2> QED
    BY <2>1, <2>6
<1>11. f \in Bijection(Hits(t), Pairs({s}))
  BY <1>8, <1>9, <1>10, Fun_IsBij
<1>12. ExistsBijection(Hits(t), Pairs({s}))
  BY <1>11, Fun_ExistsBij
<1>13. IsFiniteSet(Hits(t))
  <2>1. Hits(t) \in SUBSET (1 .. n) /\ IsFiniteSet(1 .. n)
    BY <1>4, <1>6, FS_Interval
  <2> QED
    BY <2>1, FS_Subset
<1> QED
  BY <1>12, <1>13, FS_Bijection DEF s

(* Only a scan adds to what has been probed for.                           *)
LEMMA ProbedStays ==
    ASSUME TypeOK, OwnBuffers, [Next]_nvars, NEW t \in Threads, ~ Scan(t)
    PROVE  Probed(t)' = Probed(t) /\ num_results'[t] = num_results[t]
<1> DEFINE Counting == {"probe", "scan"}
           Done == {"probed", "free", "exit"}
<1>1. /\ DOMAIN pc = Threads /\ DOMAIN i = Threads /\ DOMAIN num_results = Threads
      /\ i[t] \in Nat
  BY DEF TypeOK
<1>2. UNCHANGED input
  BY InputStays
<1>3. ShareOfS(t)' = ShareOfS(t) /\ SizeOfS(t)' = SizeOfS(t) /\ FirstOfS(t)' = FirstOfS(t)
  BY <1>2 DEF ShareOfS, SizeOfS, FirstOfS, Share, input
<1>4. /\ pc[t] \in Counting => Probed(t) = {s \in ShareOfS(t) : s < FirstOfS(t) + i[t] + 1}
      /\ pc[t] \in Done => Probed(t) = ShareOfS(t)
      /\ pc[t] \notin Counting \cup Done => Probed(t) = {}
  BY DEF Probed, STuple
<1>5. /\ pc'[t] \in Counting => Probed(t)' = {s \in ShareOfS(t) : s < FirstOfS(t) + i'[t] + 1}
      /\ pc'[t] \in Done => Probed(t)' = ShareOfS(t)
      /\ pc'[t] \notin Counting \cup Done => Probed(t)' = {}
  BY <1>3 DEF Probed, STuple
<1>6. FirstOfS(t) \in Nat /\ SizeOfS(t) \in Nat
  BY SharesOfS
<1>7. \A s \in ShareOfS(t) : s \in Nat /\ s > FirstOfS(t) /\ s < FirstOfS(t) + SizeOfS(t) + 1
  BY <1>6 DEF ShareOfS
<1>8. num_results'[t] = num_results[t]
  <2>1. ASSUME NEW u \in Threads, Scan(u)
        PROVE  num_results'[t] = num_results[t]
    BY <1>1, <2>1 DEF Scan
  <2> QED
    BY <2>1 DEF Next, MainStep, Create, JoinThread, Barriers, StartBarrier, BuildBarrier,
      Barrier, Over, nvars, ThreadStep, Lock, Look, Place, Unlock, BuildEnd, ProbeTuple,
      ProbeEnd, Leave, Free
<1>9. ASSUME \/ i'[t] = i[t] /\ pc'[t] = pc[t]
             \/ i'[t] = i[t] /\ pc[t] \in Counting /\ pc'[t] \in Counting
             \/ pc[t] \in Done /\ pc'[t] \in Done
             \/ pc[t] \notin Counting \cup Done /\ pc'[t] \notin Counting \cup Done
      PROVE  Probed(t)' = Probed(t)
  BY <1>4, <1>5, <1>9
<1>10. ASSUME NEW u \in Threads, u # t, ThreadStep(u)
       PROVE  i'[t] = i[t] /\ pc'[t] = pc[t]
  BY <1>1, <1>10 DEF ThreadStep, Lock, Look, Place, Unlock, BuildEnd, ProbeTuple, Scan,
                     ProbeEnd, Leave, Free, Goto, locals
<1>11. CASE Lock(t) \/ Look(t) \/ Place(t) \/ Unlock(t) \/ BuildEnd(t)
  <2>1. pc[t] \notin Counting \cup Done /\ pc'[t] \notin Counting \cup Done
    BY <1>1, <1>11 DEF Lock, Look, Place, Unlock, BuildEnd, Goto
  <2> QED
    BY <1>8, <1>9, <2>1
<1>12. CASE ProbeTuple(t) \/ Leave(t) \/ Free(t)
  <2>1. \/ i'[t] = i[t] /\ pc[t] \in Counting /\ pc'[t] \in Counting
        \/ pc[t] \in Done /\ pc'[t] \in Done
    BY <1>1, <1>12 DEF ProbeTuple, Leave, Free, Goto
  <2> QED
    BY <1>8, <1>9, <2>1
<1>13. CASE ProbeEnd(t)
  <2>1. pc[t] = "probe" /\ pc'[t] = "probed" /\ i[t] = SizeOfS(t)
    BY <1>1, <1>13 DEF ProbeEnd, Goto, SizeOfS
  <2> QED
    BY <1>4, <1>5, <1>7, <1>8, <2>1
<1>14. CASE StartBarrier
  <2>1. pc[t] \notin Counting \cup Done /\ pc'[t] \notin Counting \cup Done
    BY <1>14 DEF StartBarrier, Barrier
  <2> QED
    BY <1>8, <1>9, <2>1
<1>15. CASE BuildBarrier
  <2>1. pc[t] = "built" /\ pc'[t] = "probe" /\ i'[t] = 0
    BY <1>15 DEF BuildBarrier, Barrier
  <2>2. \A s \in ShareOfS(t) : ~ (s < FirstOfS(t) + 0 + 1)
    BY <1>6, <1>7
  <2> QED
    BY <1>4, <1>5, <1>8, <2>1, <2>2
<1>16. CASE Create
  <2>1. \/ i'[t] = i[t] /\ pc'[t] = pc[t]
        \/ pc[t] \notin Counting \cup Done /\ pc'[t] \notin Counting \cup Done
    <3>1. created \in Threads /\ pc[created] = "none"
      BY <1>16 DEF Create, TypeOK, Threads, OwnBuffers
    <3> QED
      BY <1>1, <1>16, <3>1 DEF Create, Goto, locals
  <2> QED
    BY <1>8, <1>9, <2>1
<1>17. CASE JoinThread \/ UNCHANGED nvars
  BY <1>8, <1>9, <1>17 DEF JoinThread, nvars, locals
<1> QED
  BY <1>8, <1>9, <1>10, <1>11, <1>12, <1>13, <1>14, <1>15, <1>16, <1>17
  DEF Next, MainStep, Barriers, Over, ThreadStep

LEMMA CountedStep ==
    ASSUME JoinInv, JoinInv', Counted, [Next]_nvars
    PROVE  Counted'
<1>1. /\ TypeOK /\ OwnBuffers /\ Linked /\ Latched /\ Taken /\ Scanning
      /\ UNCHANGED input /\ Heads' = Heads
  BY InputStays, NamesStay DEF JoinInv
<1>2. /\ DOMAIN pc = Threads /\ DOMAIN i = Threads /\ DOMAIN num_results = Threads
      /\ DOMAIN curr = Threads /\ \A t \in Threads : i[t] \in Nat
  BY <1>1 DEF TypeOK
<1>3. \A t : /\ SizeOfS(t)' = SizeOfS(t) /\ FirstOfS(t)' = FirstOfS(t)
             /\ ShareOfS(t)' = ShareOfS(t)
             /\ i'[t] = i[t] => SKey(t)' = SKey(t) /\ STuple(t)' = STuple(t)
  BY <1>1 DEF ShareOfS, SizeOfS, FirstOfS, STuple, SKey, Share, input
<1>4. \A k : HASH(k)' = HASH(k)
  BY <1>1, NamesStay
<1>5. /\ \A K : Pairs(K)' = Pairs(K)
      /\ \A t, K : K = Probed(t)' => Pairs(Probed(t))' = Pairs(K)
      /\ \A K : K = Summed' => Pairs(Summed)' = Pairs(K)
  BY <1>1 DEF Pairs, input
<1>6. Flat' => Flat
  <2>1. DOMAIN bucket \subseteq DOMAIN bucket'
    <3>1. ASSUME NEW t \in Threads, Place(t)
          PROVE  DOMAIN bucket \subseteq DOMAIN bucket'
      BY <1>1, <3>1, Placing DEF Filled, Extended
    <3>2. CASE UNCHANGED bucket
      BY <3>2
    <3> QED
      BY <3>1, <3>2 DEF Next, MainStep, Create, JoinThread, Barriers, StartBarrier, BuildBarrier,
        Barrier, Over, nvars, ThreadStep, Lock, Look, Unlock, BuildEnd, ProbeTuple, Scan,
        ProbeEnd, Leave, Free
  <2> QED
    BY <1>1, <2>1 DEF Flat, Linked
<1>7. ASSUME Flat, NEW t \in Threads, Scan(t)
      PROVE  /\ pc[t] = "scan" /\ i[t] < SizeOfS(t) /\ curr[t] = HASH(SKey(t))
             /\ pc' = [pc EXCEPT ![t] = "probe"] /\ i' = [i EXCEPT ![t] = @ + 1]
             /\ num_results' = [num_results EXCEPT ![t] = @ + Cardinality(Hits(t))]
             /\ UNCHANGED joined
  <2>1. pc[t] = "scan" /\ i[t] < SizeOfS(t) /\ curr[t] = HASH(SKey(t))
    BY <1>7 DEF Scan, Counted
  <2>2. bucket[curr[t]].next = Null
    <3>1. curr[t] \in DOMAIN bucket
      BY <1>1, <2>1 DEF Scanning
    <3>2. bucket[curr[t]].next \in DOMAIN bucket \cup {Null}
      BY <1>1, <3>1 DEF TypeOK
    <3> QED
      BY <1>1, <1>7, <3>1, <3>2 DEF Flat, Linked
  <2> QED
    BY <1>7, <2>1, <2>2 DEF Scan, Goto, mainVars
(* The place of a thread that scans. *)
<1>8. ASSUME NEW t \in Threads, pc'[t] = "scan"
      PROVE  i'[t] < SizeOfS(t)' /\ (Flat' => curr'[t] = HASH(SKey(t))')
  <2>1. \/ i'[t] = i[t] /\ curr'[t] = curr[t] /\ pc[t] = "scan"
        \/ ProbeTuple(t)
        \/ Scan(t) /\ i'[t] = i[t] /\ pc[t] = "scan"
    <3>1. ASSUME NEW u \in Threads \ {t}, ThreadStep(u)
          PROVE  i'[t] = i[t] /\ curr'[t] = curr[t] /\ pc'[t] = pc[t]
      BY <1>2, <3>1 DEF ThreadStep, Lock, Look, Place, Unlock, BuildEnd, ProbeTuple, Scan,
                         ProbeEnd, Leave, Free, Goto, locals
    <3>2. ASSUME ThreadStep(t)
          PROVE  ProbeTuple(t) \/ (Scan(t) /\ i'[t] = i[t] /\ pc[t] = "scan")
      BY <1>2, <1>8, <3>2 DEF ThreadStep, Lock, Look, Place, Unlock, BuildEnd, Scan,
                               ProbeEnd, Leave, Free, Goto
    <3>3. CASE Create \/ StartBarrier \/ BuildBarrier \/ JoinThread \/ UNCHANGED nvars
      BY <1>2, <1>8, <3>3 DEF Create, StartBarrier, BuildBarrier, Barrier, JoinThread, nvars,
                               locals, Goto
    <3> QED
      BY <1>8, <3>1, <3>2, <3>3 DEF Next, MainStep, Barriers, Over
  <2>2. CASE i'[t] = i[t] /\ curr'[t] = curr[t] /\ pc[t] = "scan"
    <3>1. HASH(SKey(t))' = HASH(SKey(t))
      BY <1>1, <1>3, <2>2 DEF HASH, num_buckets, input
    <3> QED
      BY <1>3, <1>6, <2>2, <3>1 DEF Counted
  <2>3. CASE ProbeTuple(t)
    <3>1. i'[t] = i[t] /\ i[t] < SizeOfS(t) /\ curr'[t] = HASH(SKey(t))
      BY <1>2, <2>3 DEF ProbeTuple, SizeOfS
    <3>2. HASH(SKey(t))' = HASH(SKey(t))
      BY <1>1, <1>3, <3>1 DEF HASH, num_buckets, input
    <3> QED
      BY <1>3, <3>1, <3>2
  <2>4. CASE Scan(t) /\ i'[t] = i[t] /\ pc[t] = "scan"
    <3>1. i[t] < SizeOfS(t) /\ ~ Flat
      BY <1>2, <1>7, <2>4 DEF Counted
    <3> QED
      BY <1>3, <1>6, <2>4, <3>1
  <2> QED
    BY <2>1, <2>2, <2>3, <2>4
(* What each thread has found. *)
<1>9. ASSUME Flat, NEW t \in Threads
      PROVE  num_results'[t] = Cardinality(Pairs(Probed(t)))'
  <2>1. PICK K : K = Probed(t)'
    OBVIOUS
  <2>2. Pairs(Probed(t))' = Pairs(K)
    BY <1>5, <2>1
  <2>3. num_results[t] = Cardinality(Pairs(Probed(t)))
    BY <1>9 DEF Counted
  <2>4. CASE ~ Scan(t)
    <3>1. K = Probed(t) /\ num_results'[t] = num_results[t]
      BY <1>1, <2>1, <2>4, ProbedStays
    <3> QED
      BY <2>2, <2>3, <3>1
  <2>5. CASE Scan(t)
    <3> DEFINE s == STuple(t)
    <3>1. /\ pc[t] = "scan" /\ i[t] < SizeOfS(t) /\ curr[t] = HASH(SKey(t))
          /\ pc'[t] = "probe" /\ i'[t] = i[t] + 1
          /\ num_results'[t] = num_results[t] + Cardinality(Hits(t))
      BY <1>2, <1>7, <1>9, <2>5
    <3>2. /\ FirstOfS(t) \in Nat /\ SizeOfS(t) \in Nat /\ ShareOfS(t) \subseteq DOMAIN relS
          /\ \A x \in ShareOfS(t) : x \in Nat
      <4>1. DOMAIN relS = 1 .. Len(relS) /\ Len(relS) \in Nat
        BY <1>1 DEF TypeOK
      <4> QED
        BY <1>1, <4>1, SharesOfS
    <3>3. s = FirstOfS(t) + i[t] + 1 /\ i[t] \in 0 .. SizeOfS(t) - 1 /\ s \in ShareOfS(t)
      BY <1>2, <3>1, <3>2 DEF STuple, ShareOfS
    <3>4. Probed(t) = {x \in ShareOfS(t) : x < s}
      BY <3>1 DEF Probed
    <3>5. K = {x \in ShareOfS(t) : x < s + 1}
      <4>1. STuple(t)' = FirstOfS(t) + i'[t] + 1
        BY <1>3 DEF STuple
      <4>2. STuple(t)' = s + 1
        BY <1>2, <3>1, <3>2, <3>3, <4>1
      <4> QED
        BY <1>3, <2>1, <3>1, <4>2 DEF Probed
    <3>6. K = Probed(t) \cup {s} /\ Probed(t) \cap {s} = {}
      BY <1>2, <3>2, <3>3, <3>4, <3>5
    <3>7. Probed(t) \in SUBSET (DOMAIN relS) /\ {s} \in SUBSET (DOMAIN relS)
      BY <3>2, <3>3, <3>4
    <3>8. Cardinality(Pairs(K)) = Cardinality(Pairs(Probed(t))) + Cardinality(Pairs({s}))
      BY <1>1, <3>6, <3>7, PairsAdd
    <3>9. Cardinality(Hits(t)) = Cardinality(Pairs({s}))
      BY <1>9, <3>1, HitsMatch
    <3> QED
      BY <2>2, <2>3, <3>1, <3>8, <3>9
  <2> QED
    BY <2>4, <2>5
(* What main has added up. *)
<1>10. ASSUME Flat
       PROVE  result' = Cardinality(Pairs(Summed))'
  <2>1. PICK K : K = Summed'
    OBVIOUS
  <2>2. Pairs(Summed)' = Pairs(K) /\ result = Cardinality(Pairs(Summed))
    BY <1>5, <1>10, <2>1 DEF Counted
  <2>3. K = UNION {ShareOfS(t) : t \in 0 .. joined' - 1}
    BY <1>3, <2>1 DEF Summed
  <2>4. CASE JoinThread
    <3> DEFINE u == joined
    <3>1. /\ joined' = u + 1 /\ pc[u] = "exit" /\ result' = result + num_results[u]
          /\ u \in Threads /\ u \in Nat
      BY <1>1, <2>4 DEF JoinThread, TypeOK, Threads
    <3>2. Probed(u) = ShareOfS(u)
      BY <3>1 DEF Probed
    <3>3. num_results[u] = Cardinality(Pairs(ShareOfS(u)))
      BY <1>10, <3>1, <3>2 DEF Counted
    <3>4. 0 .. joined' - 1 = (0 .. u - 1) \cup {u} /\ 0 .. u - 1 \subseteq Threads /\ u \notin 0 .. u - 1
      BY <3>1 DEF Threads
    <3>5. K = Summed \cup ShareOfS(u)
      BY <2>3, <3>4 DEF Summed
    <3>6. Summed \cap ShareOfS(u) = {}
      <4>1. \A t \in 0 .. u - 1 : ShareOfS(t) \cap ShareOfS(u) = {}
        BY <1>1, <3>1, <3>4, SharesOfS
      <4> QED
        BY <4>1 DEF Summed
    <3>7. Summed \in SUBSET (DOMAIN relS) /\ ShareOfS(u) \in SUBSET (DOMAIN relS)
      BY <1>1, <3>1, <3>4, SharesOfS DEF Summed
    <3>8. Cardinality(Pairs(K)) = Cardinality(Pairs(Summed)) + Cardinality(Pairs(ShareOfS(u)))
      BY <1>1, <3>5, <3>6, <3>7, PairsAdd
    <3> QED
      BY <2>2, <3>1, <3>3, <3>8
  <2>5. CASE ~ JoinThread
    <3>1. joined' = joined /\ result' = result
      BY <2>5 DEF Next, MainStep, Create, Barriers, StartBarrier, BuildBarrier, Barrier, Over,
        nvars, mainVars, ThreadStep, Lock, Look, Place, Unlock, BuildEnd, ProbeTuple, Scan,
        ProbeEnd, Leave, Free
    <3>2. K = Summed
      BY <2>3, <3>1 DEF Summed
    <3> QED
      BY <2>2, <3>1, <3>2
  <2> QED
    BY <2>4, <2>5
<1> QED
  BY <1>6, <1>8, <1>9, <1>10 DEF Counted

(* As long as no chain overflows, the result is the number of matching     *)
(* pairs: every tuple of S is probed for by one thread, once, against all  *)
(* of R (probe_hashtable, and the sum in NPO).                             *)
THEOREM FlatResultHolds == Spec => []FlatResult
<1>1. Init => Counted
  <2> SUFFICES ASSUME Init PROVE Counted
    OBVIOUS
  <2>1. /\ \A t \in Threads : pc[t] = "none" /\ num_results[t] = 0
        /\ result = 0 /\ joined = 0
    BY DEF Init
  <2>2. \A t \in Threads : Probed(t) = {}
    BY <2>1 DEF Probed
  <2>3. Summed = {}
    BY <2>1 DEF Summed
  <2>4. Cardinality(Pairs({})) = 0
    <3>1. Pairs({}) = {}
      BY DEF Pairs
    <3> QED
      BY <3>1, FS_EmptySet
  <2> QED
    BY <2>1, <2>2, <2>3, <2>4 DEF Counted
<1>2. JoinInv /\ JoinInv' /\ Counted /\ [Next]_nvars => Counted'
  BY CountedStep
<1>3. JoinInv /\ Counted => FlatResult
  <2> SUFFICES ASSUME JoinInv, Counted, joined = nthreads, Flat
               PROVE  result = Matches
    BY DEF FlatResult, Flat
  <2>1. TypeOK
    BY DEF JoinInv
  <2>2. Summed = DOMAIN relS
    BY <2>1, SharesOfS DEF Summed, Threads
  <2>3. Pairs(DOMAIN relS) = {p \in (DOMAIN relR) \X (DOMAIN relS) : relR[p[1]] = relS[p[2]]}
    BY DEF Pairs
  <2>4. result = Cardinality(Pairs(DOMAIN relS))
    BY <2>2 DEF Counted
  <2> QED
    BY <2>3, <2>4 DEF Matches
<1> QED
  BY <1>1, <1>2, <1>3, JoinInvariant, PTL DEF Spec

=============================================================================
