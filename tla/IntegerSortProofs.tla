-------------------------- MODULE IntegerSortProofs --------------------------
(***************************************************************************)
(* The ranks of the NAS integer sort are exact and full_verify sorts the   *)
(* keys, for every number of threads, of keys and of buckets.              *)
(*                                                                         *)
(* All threads of a region are between the same two barriers, so the       *)
(* inductive invariant is one of eight stages.  In each of them it says    *)
(* what every thread has done by where it is: the counts it has, the part  *)
(* of them it has added up, the slots it has written, the buckets it has   *)
(* counted, the keys it has placed.                                        *)
(***************************************************************************)
EXTENDS IntegerSort, FiniteSetTheorems, NaturalsInduction, TLAPS

-----------------------------------------------------------------------------
(* Naturals, division and cardinality                                      *)

(* Every set of naturals has a least element.                              *)
LEMMA NatLeast ==
    ASSUME NEW T \in SUBSET Nat, T # {}
    PROVE  \E x \in T : \A y \in T : x <= y
<1> DEFINE R == {p \in Nat \X Nat : p[1] < p[2]}
<1>1. IsWellFoundedOn(R, Nat)
  BY NatLessThanWellFounded DEF OpToRel
<1>2. \A x, y \in Nat : <<y, x>> \in R <=> y < x
  OBVIOUS
<1> HIDE DEF R
<1>3. PICK x \in T : \A y \in T : ~ (<<y, x>> \in R)
  BY <1>1, WFMin
<1>4. ASSUME NEW y \in T PROVE x <= y
  <2>1. y \in Nat /\ x \in Nat
    OBVIOUS
  <2>2. ~ (y < x)
    BY <1>2, <1>3, <2>1
  <2> QED
    BY <2>1, <2>2
<1> QED
  BY <1>4

(* Induction, of a set of naturals.                                        *)
LEMMA NatInd ==
    ASSUME NEW S, 0 \in S, \A n \in Nat : n \in S => n + 1 \in S
    PROVE  Nat \subseteq S
<1> SUFFICES ASSUME Nat \ S # {} PROVE FALSE
  OBVIOUS
<1>1. PICK x \in Nat \ S : \A y \in Nat \ S : x <= y
  BY NatLeast
<1>2. x - 1 \in Nat /\ x - 1 \in S
  BY <1>1
<1> QED
  BY <1>1, <1>2

LEMMA Division ==
    ASSUME NEW a \in Nat, NEW b \in Nat \ {0}
    PROVE  /\ a \div b \in Nat /\ a % b \in 0 .. b - 1
           /\ a = b * (a \div b) + (a % b)
OBVIOUS

LEMMA Multiples ==
    ASSUME NEW a \in Nat, NEW b \in Nat, NEW c \in Nat, a < b
    PROVE  a * c \in Nat /\ a * c + c <= b * c
<1>1. (a + 1) * c = a * c + c /\ a * c \in Nat
  OBVIOUS
<1>2. (a + 1) * c <= b * c
  OBVIOUS
<1> QED
  BY <1>1, <1>2

LEMMA DisjointUnion ==
    ASSUME NEW S, NEW T, IsFiniteSet(S), IsFiniteSet(T), S \cap T = {}
    PROVE  Cardinality(S \cup T) = Cardinality(S) + Cardinality(T)
<1>1. Cardinality(S \cup T) = Cardinality(S) + Cardinality(T) - Cardinality(S \cap T)
  BY FS_Union
<1>2. Cardinality(S \cap T) = 0
  BY FS_EmptySet
<1>3. Cardinality(S) \in Nat /\ Cardinality(T) \in Nat
  BY FS_CardinalityType
<1> QED
  BY <1>1, <1>2, <1>3

(* The subset of an interval of naturals that a count counts.              *)
LEMMA IntervalSubset ==
    ASSUME NEW a \in Int, NEW b \in Int, NEW S \in SUBSET (a .. b - 1)
    PROVE  IsFiniteSet(S) /\ Cardinality(S) \in Nat
<1>1. IsFiniteSet(S)
  <2>1. b - 1 \in Int
    OBVIOUS
  <2>2. IsFiniteSet(a .. b - 1)
    BY <2>1, FS_Interval
  <2> QED
    BY <2>2, FS_Subset
<1> QED
  BY <1>1, FS_CardinalityType

(* A sum of differences.                                                   *)
LEMMA SumOfDifferences ==
    ASSUME NEW m \in Int, NEW n \in Int, m <= n, NEW f, NEW g,
           \A k \in m .. n : g[k] \in Int,
           \A k \in m .. n - 1 : f[k] = g[k + 1] - g[k]
    PROVE  SumOver(f, m, n) = g[n] - g[m]
<1> DEFINE E(s) == s = [k \in m .. n |-> IF k = m THEN 0 ELSE s[k - 1] + f[k - 1]]
           h == [k \in m .. n |-> g[k] - g[m]]
           sums == CHOOSE s : E(s)
<1>1. E(h)
  <2>1. ASSUME NEW k \in m .. n, k # m
        PROVE  g[k] - g[m] = (g[k - 1] - g[m]) + f[k - 1]
    <3>1. k - 1 \in m .. n - 1 /\ k - 1 \in m .. n /\ (k - 1) + 1 = k /\ m \in m .. n
      BY <2>1
    <3>2. f[k - 1] = g[k] - g[k - 1]
      BY <3>1
    <3> QED
      BY <3>1, <3>2
  <2>2. ASSUME NEW k \in m .. n, k # m PROVE h[k - 1] = g[k - 1] - g[m]
    <3>1. k - 1 \in m .. n
      BY <2>2
    <3> QED
      BY <3>1
  <2>3. ASSUME NEW k \in m .. n
        PROVE  g[k] - g[m] = IF k = m THEN 0 ELSE h[k - 1] + f[k - 1]
    <3>1. CASE k = m
      BY <3>1
    <3>2. CASE k # m
      BY <2>1, <2>2, <3>2
    <3> QED
      BY <3>1, <3>2
  <2> QED
    BY <2>3, Zenon
<1>2. E(sums)
  BY <1>1, Zenon
<1>3. SumOver(f, m, n) = sums[n]
  BY DEF SumOver
<1> HIDE DEF sums
<1>4. ASSUME NEW k \in m .. n
      PROVE  sums[k] = IF k = m THEN 0 ELSE sums[k - 1] + f[k - 1]
  BY <1>2, Zenon
<1>5. ASSUME NEW k \in m .. n
      PROVE  h[k] = IF k = m THEN 0 ELSE h[k - 1] + f[k - 1]
  BY <1>1, Zenon
<1> DEFINE S == {i \in Nat : m + i <= n => sums[m + i] = h[m + i]}
<1>6. 0 \in S
  <2>1. m \in m .. n /\ m + 0 = m
    OBVIOUS
  <2> QED
    BY <1>4, <1>5, <2>1
<1>7. ASSUME NEW i \in Nat, i \in S PROVE i + 1 \in S
  <2> SUFFICES ASSUME m + (i + 1) <= n PROVE sums[m + (i + 1)] = h[m + (i + 1)]
    OBVIOUS
  <2>1. m + (i + 1) \in m .. n /\ (m + (i + 1)) - 1 = m + i /\ m + (i + 1) # m
    OBVIOUS
  <2>2. sums[m + i] = h[m + i]
    BY <1>7
  <2> QED
    BY <1>4, <1>5, <2>1, <2>2
<1> HIDE DEF S
<1>8. Nat \subseteq S
  BY <1>6, <1>7, NatInd
<1>9. n - m \in S
  BY <1>8
<1>10. sums[n] = h[n] /\ n \in m .. n /\ m + (n - m) = n
  BY <1>9 DEF S
<1> QED
  BY <1>3, <1>10

-----------------------------------------------------------------------------
(* Chunks, buckets and ranges of keys partition what they are taken from   *)

LEMMA PositiveSizes ==
    /\ nthreads \in Nat /\ nthreads > 0 /\ 0 \in Threads
    /\ MAX_KEY \in Nat /\ MAX_KEY > 0 /\ NUM_BUCKETS \in Nat /\ NUM_BUCKETS > 0
    /\ MAX_ITERATIONS \in Nat /\ MAX_ITERATIONS > 0 /\ MAX_ITERATIONS < MAX_KEY
    /\ 0 \in Keys /\ 0 \in Buckets
BY SizesAssumption DEF Threads, Keys, Buckets

LEMMA ChunkBounds ==
    ASSUME NEW n \in Nat
    PROVE  /\ ChunkStart(n, 0) = 0 /\ ChunkStart(n, nthreads) = n
           /\ \A t \in 0 .. nthreads : ChunkStart(n, t) \in 0 .. n
           /\ \A t, u \in 0 .. nthreads : t <= u => ChunkStart(n, t) <= ChunkStart(n, u)
<1> DEFINE q == n \div nthreads
           r == n % nthreads
<1>1. q \in Nat /\ r \in 0 .. nthreads - 1 /\ n = nthreads * q + r
  BY Division, PositiveSizes
<1>2. \A t : ChunkStart(n, t) = t * q + IF t < r THEN t ELSE r
  BY DEF ChunkStart
<1> HIDE DEF q, r
<1>3. ChunkStart(n, 0) = 0
  <2>1. 0 * q = 0
    BY <1>1
  <2> QED
    BY <1>1, <1>2, <2>1
<1>4. ChunkStart(n, nthreads) = n
  BY <1>1, <1>2, PositiveSizes
<1>5. ASSUME NEW t \in 0 .. nthreads, NEW u \in 0 .. nthreads, t <= u
      PROVE  ChunkStart(n, t) <= ChunkStart(n, u)
  <2>1. CASE t = u
    <3>1. t * q \in Nat
      BY <1>1
    <3> QED
      BY <1>1, <1>2, <2>1, <3>1
  <2>2. CASE t < u
    <3>1. t * q \in Nat /\ t * q + q <= u * q
      BY <1>1, <2>2, Multiples
    <3>2. u * q \in Nat
      BY <1>1
    <3> QED
      BY <1>1, <1>2, <2>2, <3>1, <3>2
  <2> QED
    BY <1>5, <2>1, <2>2, PositiveSizes
<1>6. ASSUME NEW t \in 0 .. nthreads PROVE ChunkStart(n, t) \in 0 .. n
  <2>1. t * q \in Nat
    BY <1>1
  <2>2. ChunkStart(n, t) \in Nat
    BY <1>1, <1>2, <2>1
  <2>3. ChunkStart(n, t) <= ChunkStart(n, nthreads)
    BY <1>5, PositiveSizes
  <2> QED
    BY <1>4, <2>2, <2>3
<1> QED
  BY <1>3, <1>4, <1>5, <1>6

LEMMA ChunkInside ==
    ASSUME NEW n \in Nat, NEW t \in Threads
    PROVE  /\ t \in 0 .. nthreads /\ t + 1 \in 0 .. nthreads
           /\ ChunkStart(n, t) \in 0 .. n /\ ChunkStart(n, t + 1) \in 0 .. n
           /\ ChunkStart(n, t) <= ChunkStart(n, t + 1)
           /\ Chunk(n, t) \subseteq 0 .. n - 1
<1>1. t \in 0 .. nthreads /\ t + 1 \in 0 .. nthreads /\ t <= t + 1
  BY PositiveSizes DEF Threads
<1>2. /\ ChunkStart(n, t) \in 0 .. n /\ ChunkStart(n, t + 1) \in 0 .. n
      /\ ChunkStart(n, t) <= ChunkStart(n, t + 1)
  BY <1>1, ChunkBounds
<1> QED
  BY <1>1, <1>2 DEF Chunk

LEMMA ChunksDisjoint ==
    ASSUME NEW n \in Nat, NEW t \in Threads, NEW u \in Threads, t # u,
           NEW p \in Int, ChunkStart(n, t) <= p, p < ChunkStart(n, t + 1)
    PROVE  ~ (ChunkStart(n, u) <= p /\ p < ChunkStart(n, u + 1))
<1>1. t \in Int /\ u \in Int
  BY PositiveSizes DEF Threads
<1>2. ASSUME t < u PROVE ChunkStart(n, t + 1) <= ChunkStart(n, u)
  BY <1>1, <1>2, ChunkInside, ChunkBounds
<1>3. ASSUME u < t PROVE ChunkStart(n, u + 1) <= ChunkStart(n, t)
  BY <1>1, <1>3, ChunkInside, ChunkBounds
<1>4. /\ ChunkStart(n, t) \in Int /\ ChunkStart(n, t + 1) \in Int
      /\ ChunkStart(n, u) \in Int /\ ChunkStart(n, u + 1) \in Int
  BY ChunkInside
<1> QED
  BY <1>1, <1>2, <1>3, <1>4

LEMMA ChunksCover ==
    ASSUME NEW n \in Nat, NEW p \in 0 .. n - 1
    PROVE  \E t \in Threads : p \in Chunk(n, t)
<1> DEFINE T == {t \in Threads : p < ChunkStart(n, t + 1)}
<1>1. T \in SUBSET Nat
  BY DEF Threads
<1>2. nthreads - 1 \in T
  <2>1. nthreads - 1 \in Threads /\ (nthreads - 1) + 1 = nthreads
    BY PositiveSizes DEF Threads
  <2>2. ChunkStart(n, nthreads) = n
    BY ChunkBounds
  <2> QED
    BY <2>1, <2>2
<1>3. PICK t \in T : \A u \in T : t <= u
  BY <1>1, <1>2, NatLeast
<1>4. t \in Threads /\ p < ChunkStart(n, t + 1)
  BY <1>3
<1>5. ChunkStart(n, t) <= p
  <2>1. CASE t = 0
    BY <2>1, ChunkBounds
  <2>2. CASE t # 0
    <3>1. t - 1 \in Threads /\ (t - 1) + 1 = t /\ ~ (t <= t - 1)
      BY <1>4, <2>2, PositiveSizes DEF Threads
    <3>2. ~ (p < ChunkStart(n, t))
      BY <1>3, <3>1
    <3>3. ChunkStart(n, t) \in Int
      BY <1>4, ChunkInside
    <3> QED
      BY <3>2, <3>3
  <2> QED
    BY <2>1, <2>2
<1>6. p \in Chunk(n, t)
  <2>1. ChunkStart(n, t) \in Int /\ ChunkStart(n, t + 1) \in Int
    BY <1>4, ChunkInside
  <2> QED
    BY <1>4, <1>5, <2>1 DEF Chunk
<1> QED
  BY <1>4, <1>6

LEMMA BucketBounds ==
    /\ num_bucket_keys \in Nat /\ num_bucket_keys > 0
    /\ FirstKey(0) = 0 /\ FirstKey(NUM_BUCKETS) = MAX_KEY
    /\ \A b \in 0 .. NUM_BUCKETS : FirstKey(b) \in Nat
    /\ \A b, c \in 0 .. NUM_BUCKETS : b < c => FirstKey(b) < FirstKey(c)
    /\ \A b \in Buckets : FirstKey(b + 1) = FirstKey(b) + num_bucket_keys
<1> DEFINE q == num_bucket_keys
<1>1. q \in Nat /\ MAX_KEY = NUM_BUCKETS * q
  BY Division, SizesAssumption DEF num_bucket_keys
<1>2. \A b : FirstKey(b) = b * q
  BY DEF FirstKey
<1> HIDE DEF q
<1>3. q > 0
  <2> SUFFICES ASSUME q = 0 PROVE FALSE
    BY <1>1
  <2>1. NUM_BUCKETS * 0 = 0
    BY PositiveSizes
  <2> QED
    BY <1>1, <2>1, PositiveSizes
<1>4. FirstKey(0) = 0
  BY <1>1, <1>2
<1>5. FirstKey(NUM_BUCKETS) = MAX_KEY
  BY <1>1, <1>2
<1>6. ASSUME NEW b \in 0 .. NUM_BUCKETS PROVE FirstKey(b) \in Nat
  BY <1>1, <1>2
<1>7. ASSUME NEW b \in 0 .. NUM_BUCKETS, NEW c \in 0 .. NUM_BUCKETS, b < c
      PROVE  FirstKey(b) < FirstKey(c)
  <2>1. b * q \in Nat /\ b * q + q <= c * q
    BY <1>1, <1>7, Multiples
  <2>2. c * q \in Nat
    BY <1>1
  <2> QED
    BY <1>1, <1>2, <1>3, <2>1, <2>2
<1>8. ASSUME NEW b \in Buckets PROVE FirstKey(b + 1) = FirstKey(b) + q
  <2>1. (b + 1) * q = b * q + q
    BY <1>1 DEF Buckets
  <2> QED
    BY <1>2, <2>1
<1> QED
  BY <1>1, <1>3, <1>4, <1>5, <1>6, <1>7, <1>8 DEF q

LEMMA BucketOfKey ==
    ASSUME NEW key \in Keys
    PROVE  /\ BucketOf(key) \in Buckets /\ key \in KeysOf(BucketOf(key))
           /\ \A b \in 0 .. NUM_BUCKETS : BucketOf(key) < b <=> key < FirstKey(b)
           /\ \A b \in Buckets : BucketOf(key) = b <=> key \in KeysOf(b)
<1> DEFINE q == num_bucket_keys
           c == BucketOf(key)
<1>1. q \in Nat \ {0} /\ key \in Nat /\ key < MAX_KEY
  BY BucketBounds, PositiveSizes DEF Keys
<1>2. c \in Nat /\ c * q <= key /\ key < c * q + q /\ c * q \in Nat
  <2>1. c \in Nat /\ key % q \in 0 .. q - 1 /\ key = q * c + (key % q)
    BY <1>1, Division DEF BucketOf
  <2> HIDE DEF q, c
  <2>2. q * c = c * q /\ c * q \in Nat
    BY <1>1, <2>1
  <2> QED
    BY <1>1, <2>1, <2>2
<1>3. \A b : FirstKey(b) = b * q
  BY DEF FirstKey
<1> HIDE DEF q, c
<1>4. ASSUME NEW b \in Nat PROVE c < b <=> key < b * q
  <2>1. ASSUME c < b PROVE key < b * q
    <3>1. c * q + q <= b * q /\ b * q \in Nat
      BY <1>1, <1>2, <2>1, Multiples
    <3> QED
      BY <1>1, <1>2, <3>1
  <2>2. ASSUME b <= c PROVE ~ (key < b * q)
    <3>1. CASE b = c
      BY <1>1, <1>2, <3>1
    <3>2. CASE b < c
      <4>1. b * q + q <= c * q /\ b * q \in Nat
        BY <1>1, <1>2, <3>2, Multiples
      <4> QED
        BY <1>1, <1>2, <4>1
    <3> QED
      BY <1>2, <2>2, <3>1, <3>2
  <2> QED
    BY <1>2, <2>1, <2>2
<1>5. c < NUM_BUCKETS
  BY <1>1, <1>3, <1>4, BucketBounds, PositiveSizes
<1>6. c \in Buckets
  BY <1>2, <1>5, PositiveSizes DEF Buckets
<1>7. \A b \in 0 .. NUM_BUCKETS : c < b <=> key < FirstKey(b)
  BY <1>3, <1>4
<1>8. ASSUME NEW b \in Buckets PROVE c = b <=> key \in KeysOf(b)
  <2>1. b \in 0 .. NUM_BUCKETS /\ b + 1 \in 0 .. NUM_BUCKETS /\ b \in Nat
    BY PositiveSizes DEF Buckets
  <2>2. c = b <=> ~ (c < b) /\ c < b + 1
    BY <1>2, <2>1
  <2>3. FirstKey(b) \in Nat /\ FirstKey(b + 1) \in Nat
    BY <2>1, BucketBounds
  <2> QED
    BY <1>1, <1>7, <2>1, <2>2, <2>3 DEF KeysOf
<1> QED
  BY <1>6, <1>7, <1>8 DEF c

LEMMA OwnKeysPartition ==
    /\ \A key \in Keys : \E t \in Threads : key \in OwnKeys(t)
    /\ \A t, u \in Threads : t # u => OwnKeys(t) \cap OwnKeys(u) = {}
    /\ \A t \in Threads : OwnKeys(t) \subseteq Keys
<1> DEFINE a == MAX_KEY + nthreads - 1
           j == a \div nthreads
<1>1. a \in Nat /\ nthreads \in Nat \ {0} /\ a >= nthreads
  BY PositiveSizes
<1>2. j \in Nat /\ a < nthreads * j + nthreads
  <2>1. j \in Nat /\ a % nthreads \in 0 .. nthreads - 1 /\ a = nthreads * j + (a % nthreads)
    BY <1>1, Division
  <2> HIDE DEF a, j
  <2> QED
    BY <1>1, <2>1
<1>3. \A t : OwnKeys(t) = {key \in Keys : j * t <= key /\ key < j * t + j}
  BY DEF OwnKeys
<1>4. MAX_KEY <= nthreads * j
  <2>1. nthreads * j \in Nat
    BY <1>1, <1>2
  <2> HIDE DEF j
  <2> QED
    BY <1>2, <2>1, PositiveSizes
<1> HIDE DEF a, j
<1>5. j > 0
  <2> SUFFICES ASSUME j = 0 PROVE FALSE
    BY <1>2
  <2>1. nthreads * 0 = 0
    BY PositiveSizes
  <2> QED
    BY <1>4, <2>1, PositiveSizes
<1>6. ASSUME NEW key \in Keys PROVE \E t \in Threads : key \in OwnKeys(t)
  <2> DEFINE t == key \div j
  <2>1. key \in Nat /\ key < MAX_KEY
    BY PositiveSizes DEF Keys
  <2>2. t \in Nat /\ key % j \in 0 .. j - 1 /\ key = j * t + (key % j)
    BY <1>2, <1>5, <2>1, Division
  <2> HIDE DEF t
  <2>3. j * t \in Nat /\ t * j = j * t
    BY <1>2, <2>2
  <2>4. j * t <= key /\ key < j * t + j
    BY <1>2, <2>2, <2>3
  <2>5. t < nthreads
    <3> SUFFICES ASSUME nthreads <= t PROVE FALSE
      BY <2>2, PositiveSizes
    <3>1. nthreads * j <= t * j
      <4>1. CASE nthreads = t
        BY <4>1, <1>2, <2>2
      <4>2. CASE nthreads < t
        <5>1. nthreads * j \in Nat /\ nthreads * j + j <= t * j
          BY <1>2, <2>2, <4>2, PositiveSizes, Multiples
        <5> QED
          BY <1>2, <2>3, <5>1
      <4> QED
        BY <2>2, <4>1, <4>2, PositiveSizes
    <3>2. nthreads * j \in Nat
      BY <1>2, PositiveSizes
    <3>3. MAX_KEY <= j * t
      BY <1>4, <2>3, <3>1, <3>2, PositiveSizes
    <3> QED
      BY <2>1, <2>3, <2>4, <3>3, PositiveSizes
  <2>6. t \in Threads
    BY <2>2, <2>5, PositiveSizes DEF Threads
  <2> QED
    BY <1>3, <2>4, <2>6
<1>7. ASSUME NEW t \in Threads, NEW u \in Threads, t < u
      PROVE  OwnKeys(t) \cap OwnKeys(u) = {}
  <2>1. t \in Nat /\ u \in Nat
    BY DEF Threads
  <2>2. t * j \in Nat /\ t * j + j <= u * j
    BY <1>2, <1>7, <2>1, Multiples
  <2>3. t * j = j * t /\ u * j = j * u /\ u * j \in Nat
    BY <1>2, <2>1
  <2> QED
    BY <1>2, <1>3, <2>2, <2>3 DEF Keys
<1>8. ASSUME NEW t \in Threads, NEW u \in Threads, t # u
      PROVE  OwnKeys(t) \cap OwnKeys(u) = {}
  <2>1. t < u \/ u < t
    BY <1>8 DEF Threads
  <2> QED
    BY <1>7, <2>1
<1> QED
  BY <1>3, <1>6, <1>8

-----------------------------------------------------------------------------
(* The number of keys, and where they are; the keys rank has made of the   *)
(* input after m iterations.                                               *)
N == Len(input.keys)
All == 0 .. N - 1

KeysAfter(in, m) == [i \in 0 .. Len(in.keys) - 1 |->
    IF i \in 1 .. m THEN i
    ELSE IF i - MAX_ITERATIONS \in 1 .. m THEN MAX_KEY - (i - MAX_ITERATIONS)
    ELSE in.keys[i + 1]]
Final == KeysAfter(input, MAX_ITERATIONS)

(* Of n keys: how many are less than x, how many are in a bucket below b,  *)
(* how many of those at P, or of the first x, are in bucket b; and the     *)
(* slot of bucket order that the key at p goes to.                         *)
Less(keys, n, x) == Cardinality({p \in 0 .. n - 1 : keys[p] < x})
Below(keys, n, b) == Cardinality({p \in 0 .. n - 1 : BucketOf(keys[p]) < b})
InBucket(keys, P, b) == Cardinality({p \in P : BucketOf(keys[p]) = b})
Prior(keys, x, b) == InBucket(keys, 0 .. x - 1, b)
Slot(keys, n, p) == Below(keys, n, BucketOf(keys[p])) + Prior(keys, p, BucketOf(keys[p]))

(* What rank promises of key_buff1 and, with buckets, leaves behind for    *)
(* full_verify: key_buff2 in the order of the buckets, and the pointers at *)
(* their ends.                                                             *)
Ranked(keys) == \A key \in Keys : key_buff1[key] = UpTo(keys, All, key)
Bucketed(keys) ==
    /\ \A p \in All : key_buff2[Slot(keys, N, p)] = keys[p]
    /\ \A t \in Threads, b \in Buckets : bucket_ptrs[t][b] = Below(keys, N, b + 1)


-----------------------------------------------------------------------------
(* Counting keys                                                           *)

LEMMA CountTypes ==
    ASSUME NEW K, NEW a \in Int, NEW b \in Int, NEW x
    PROVE  UpTo(K, a .. b - 1, x) \in Nat /\ Occurrences(K, a .. b - 1, x) \in Nat
<1>1. /\ {p \in a .. b - 1 : K[p] <= x} \in SUBSET (a .. b - 1)
      /\ {p \in a .. b - 1 : K[p] = x} \in SUBSET (a .. b - 1)
  OBVIOUS
<1> QED
  BY <1>1, IntervalSubset DEF UpTo, Occurrences

LEMMA UpToSplit ==
    ASSUME NEW K, NEW a \in Nat, NEW b \in Nat, a <= b, NEW x
    PROVE  UpTo(K, 0 .. b - 1, x) = UpTo(K, 0 .. a - 1, x) + UpTo(K, a .. b - 1, x)
<1> DEFINE S == {p \in 0 .. a - 1 : K[p] <= x}
           T == {p \in a .. b - 1 : K[p] <= x}
<1>1. S \in SUBSET (0 .. a - 1) /\ T \in SUBSET (a .. b - 1) /\ S \cap T = {}
  OBVIOUS
<1>3. {p \in 0 .. b - 1 : K[p] <= x} = S \cup T
  OBVIOUS
<1> HIDE DEF S, T
<1>2. IsFiniteSet(S) /\ IsFiniteSet(T)
  <2>1. IsFiniteSet(0 .. a - 1) /\ IsFiniteSet(a .. b - 1)
    BY FS_Interval
  <2> QED
    BY <1>1, <2>1, FS_Subset
<1>4. Cardinality(S \cup T) = Cardinality(S) + Cardinality(T)
  BY <1>1, <1>2, DisjointUnion
<1> QED
  BY <1>3, <1>4 DEF UpTo, S, T

LEMMA UpToBound ==
    ASSUME NEW K, NEW a \in Nat, NEW n \in Nat, a <= n, NEW x
    PROVE  UpTo(K, 0 .. a - 1, x) \in 0 .. n
<1> DEFINE S == {p \in 0 .. a - 1 : K[p] <= x}
<1>1. S \in SUBSET (0 .. a - 1)
  OBVIOUS
<1>2. IsFiniteSet(0 .. a - 1) /\ Cardinality(0 .. a - 1) = a
  BY FS_Interval
<1> HIDE DEF S
<1>3. Cardinality(S) \in Nat
  BY <1>1, <1>2, FS_Subset, FS_CardinalityType
<1>4. Cardinality(S) <= Cardinality(0 .. a - 1)
  BY <1>1, <1>2, FS_Subset
<1> QED
  BY <1>2, <1>3, <1>4 DEF UpTo, S

LEMMA OccurrencesOne ==
    ASSUME NEW K, NEW i, NEW x
    PROVE  Occurrences(K, {i}, x) = IF K[i] = x THEN 1 ELSE 0
<1>1. {p \in {i} : K[p] = x} = IF K[i] = x THEN {i} ELSE {}
  OBVIOUS
<1>2. Cardinality({i}) = 1 /\ Cardinality({}) = 0
  BY FS_Singleton, FS_EmptySet
<1> QED
  BY <1>1, <1>2 DEF Occurrences

LEMMA OccurrencesStep ==
    ASSUME NEW K, NEW i \in Nat, NEW x
    PROVE  /\ Occurrences(K, 0 .. 0 - 1, x) = 0
           /\ Occurrences(K, 0 .. (i + 1) - 1, x)
                = Occurrences(K, 0 .. i - 1, x) + (IF K[i] = x THEN 1 ELSE 0)
<1>1. Occurrences(K, 0 .. 0 - 1, x) = 0
  <2>1. {p \in 0 .. 0 - 1 : K[p] = x} = {}
    OBVIOUS
  <2> QED
    BY <2>1, FS_EmptySet DEF Occurrences
<1> DEFINE S == {p \in 0 .. i - 1 : K[p] = x}
           T == {p \in {i} : K[p] = x}
<1>2. S \in SUBSET (0 .. i - 1) /\ T \in SUBSET {i} /\ S \cap T = {}
  OBVIOUS
<1>4. {p \in 0 .. (i + 1) - 1 : K[p] = x} = S \cup T
  OBVIOUS
<1>5. Cardinality(T) = IF K[i] = x THEN 1 ELSE 0
  <2>1. Occurrences(K, {i}, x) = Cardinality(T)
    BY DEF Occurrences
  <2> HIDE DEF T
  <2> QED
    BY <2>1, OccurrencesOne
<1> HIDE DEF S, T
<1>3. IsFiniteSet(S) /\ IsFiniteSet(T)
  <2>1. IsFiniteSet(0 .. i - 1)
    BY FS_Interval
  <2>2. IsFiniteSet({i})
    BY FS_Singleton
  <2> QED
    BY <1>2, <2>1, <2>2, FS_Subset
<1>6. Cardinality(S \cup T) = Cardinality(S) + Cardinality(T)
  BY <1>2, <1>3, DisjointUnion
<1> QED
  BY <1>1, <1>4, <1>5, <1>6 DEF Occurrences, S

(* The ranges of places of the keys follow each other.                     *)
LEMMA KeyRanges ==
    ASSUME NEW n \in Nat, NEW K \in [0 .. n - 1 -> Keys]
    PROVE  /\ \A x \in Int : Less(K, n, x) \in 0 .. n /\ UpTo(K, 0 .. n - 1, x) \in 0 .. n
           /\ \A x \in Int : UpTo(K, 0 .. n - 1, x)
                             = Less(K, n, x) + Occurrences(K, 0 .. n - 1, x)
           /\ \A x \in Int : Less(K, n, x + 1) = UpTo(K, 0 .. n - 1, x)
           /\ \A x, y \in Int : x < y => UpTo(K, 0 .. n - 1, x) <= Less(K, n, y)
           /\ Less(K, n, 0) = 0 /\ UpTo(K, 0 .. n - 1, MAX_KEY - 1) = n
<1>0. \A p \in 0 .. n - 1 : K[p] \in Int /\ 0 <= K[p] /\ K[p] <= MAX_KEY - 1
  BY PositiveSizes DEF Keys
<1>1. IsFiniteSet(0 .. n - 1) /\ Cardinality(0 .. n - 1) = n
  BY FS_Interval
<1>2. ASSUME NEW S \in SUBSET (0 .. n - 1) PROVE Cardinality(S) \in 0 .. n /\ IsFiniteSet(S)
  <2>1. Cardinality(S) \in Nat /\ IsFiniteSet(S)
    BY IntervalSubset
  <2>2. Cardinality(S) <= Cardinality(0 .. n - 1)
    BY <1>1, FS_Subset
  <2> QED
    BY <1>1, <2>1, <2>2
<1>3. ASSUME NEW x \in Int PROVE Less(K, n, x) \in 0 .. n /\ UpTo(K, 0 .. n - 1, x) \in 0 .. n
  <2>1. /\ {p \in 0 .. n - 1 : K[p] < x} \in SUBSET (0 .. n - 1)
        /\ {p \in 0 .. n - 1 : K[p] <= x} \in SUBSET (0 .. n - 1)
    OBVIOUS
  <2> QED
    BY <1>2, <2>1 DEF Less, UpTo
<1>4. ASSUME NEW x \in Int
      PROVE  UpTo(K, 0 .. n - 1, x) = Less(K, n, x) + Occurrences(K, 0 .. n - 1, x)
  <2> DEFINE S == {p \in 0 .. n - 1 : K[p] < x}
             T == {p \in 0 .. n - 1 : K[p] = x}
  <2>1. S \in SUBSET (0 .. n - 1) /\ T \in SUBSET (0 .. n - 1) /\ S \cap T = {}
    BY <1>0
  <2>2. {p \in 0 .. n - 1 : K[p] <= x} = S \cup T
    BY <1>0
  <2> HIDE DEF S, T
  <2>3. Cardinality(S \cup T) = Cardinality(S) + Cardinality(T)
    BY <1>2, <2>1, DisjointUnion
  <2> QED
    BY <2>2, <2>3 DEF UpTo, Less, Occurrences, S, T
<1>5. ASSUME NEW x \in Int PROVE Less(K, n, x + 1) = UpTo(K, 0 .. n - 1, x)
  <2>1. {p \in 0 .. n - 1 : K[p] < x + 1} = {p \in 0 .. n - 1 : K[p] <= x}
    BY <1>0
  <2> QED
    BY <2>1 DEF UpTo, Less
<1>6. ASSUME NEW x \in Int, NEW y \in Int, x < y
      PROVE  UpTo(K, 0 .. n - 1, x) <= Less(K, n, y)
  <2> DEFINE S == {p \in 0 .. n - 1 : K[p] <= x}
             T == {p \in 0 .. n - 1 : K[p] < y}
  <2>1. S \in SUBSET T /\ T \in SUBSET (0 .. n - 1)
    BY <1>0, <1>6
  <2> HIDE DEF S, T
  <2>2. Cardinality(S) <= Cardinality(T)
    BY <1>2, <2>1, FS_Subset
  <2> QED
    BY <2>2 DEF UpTo, Less, S, T
<1>7. Less(K, n, 0) = 0
  <2>1. {p \in 0 .. n - 1 : K[p] < 0} = {}
    BY <1>0
  <2> QED
    BY <2>1, FS_EmptySet DEF Less
<1>8. UpTo(K, 0 .. n - 1, MAX_KEY - 1) = n
  <2>1. {p \in 0 .. n - 1 : K[p] <= MAX_KEY - 1} = 0 .. n - 1
    BY <1>0
  <2> QED
    BY <1>1, <2>1 DEF UpTo
<1> QED
  BY <1>3, <1>4, <1>5, <1>6, <1>7, <1>8

-----------------------------------------------------------------------------
(* The slots of bucket order                                               *)

LEMMA PriorSplit ==
    ASSUME NEW K, NEW x \in Nat, NEW y \in Nat, x <= y, NEW b
    PROVE  /\ Prior(K, x, b) \in Nat /\ Prior(K, x, b) <= Prior(K, y, b)
           /\ InBucket(K, x .. y - 1, b) = Prior(K, y, b) - Prior(K, x, b)
<1> DEFINE S == {p \in 0 .. x - 1 : BucketOf(K[p]) = b}
           T == {p \in x .. y - 1 : BucketOf(K[p]) = b}
<1>1. S \in SUBSET (0 .. x - 1) /\ T \in SUBSET (x .. y - 1) /\ S \cap T = {}
  OBVIOUS
<1>2. {p \in 0 .. y - 1 : BucketOf(K[p]) = b} = S \cup T
  OBVIOUS
<1> HIDE DEF S, T
<1>3. IsFiniteSet(S) /\ IsFiniteSet(T)
  <2>1. IsFiniteSet(0 .. x - 1) /\ IsFiniteSet(x .. y - 1)
    BY FS_Interval
  <2> QED
    BY <1>1, <2>1, FS_Subset
<1>4. Cardinality(S) \in Nat /\ Cardinality(T) \in Nat
  BY <1>3, FS_CardinalityType
<1>5. Cardinality(S \cup T) = Cardinality(S) + Cardinality(T)
  BY <1>1, <1>3, DisjointUnion
<1>6. Prior(K, y, b) = Cardinality(S \cup T)
  BY <1>2 DEF Prior, InBucket
<1>7. Prior(K, x, b) = Cardinality(S)
  BY DEF Prior, InBucket, S
<1>8. InBucket(K, x .. y - 1, b) = Cardinality(T)
  BY DEF InBucket, T
<1> QED
  BY <1>4, <1>5, <1>6, <1>7, <1>8

LEMMA PriorType ==
    ASSUME NEW K, NEW x \in Nat, NEW b
    PROVE  Prior(K, x, b) \in Nat
<1>1. x <= x
  OBVIOUS
<1> QED
  BY <1>1, PriorSplit

LEMMA PriorStep ==
    ASSUME NEW K, NEW x \in Nat, NEW b
    PROVE  /\ Prior(K, 0, b) = 0
           /\ Prior(K, x + 1, b) = Prior(K, x, b) + (IF BucketOf(K[x]) = b THEN 1 ELSE 0)
<1>1. Prior(K, 0, b) = 0
  <2>1. {p \in 0 .. 0 - 1 : BucketOf(K[p]) = b} = {}
    OBVIOUS
  <2> QED
    BY <2>1, FS_EmptySet DEF Prior, InBucket
<1>2. /\ InBucket(K, x .. (x + 1) - 1, b) = Prior(K, x + 1, b) - Prior(K, x, b)
      /\ Prior(K, x, b) \in Nat
  <2>1. ASSUME NEW y \in Nat, y = x + 1
        PROVE  InBucket(K, x .. y - 1, b) = Prior(K, y, b) - Prior(K, x, b)
    <3>1. x <= y
      BY <2>1
    <3> QED
      BY <3>1, PriorSplit
  <2>2. x + 1 \in Nat
    OBVIOUS
  <2>3. InBucket(K, x .. (x + 1) - 1, b) = Prior(K, x + 1, b) - Prior(K, x, b)
    BY <2>1, <2>2
  <2> QED
    BY <2>3, PriorType
<1>3. Prior(K, x + 1, b) \in Nat
  BY PriorType
<1>4. {p \in x .. (x + 1) - 1 : BucketOf(K[p]) = b} = IF BucketOf(K[x]) = b THEN {x} ELSE {}
  OBVIOUS
<1>5. Cardinality({x}) = 1 /\ Cardinality({}) = 0
  BY FS_Singleton, FS_EmptySet
<1> QED
  BY <1>1, <1>2, <1>3, <1>4, <1>5 DEF InBucket

LEMMA BelowFacts ==
    ASSUME NEW n \in Nat, NEW K \in [0 .. n - 1 -> Keys]
    PROVE  /\ \A b \in 0 .. NUM_BUCKETS : /\ Below(K, n, b) \in 0 .. n
                                          /\ Below(K, n, b) = Less(K, n, FirstKey(b))
           /\ \A b \in Buckets : Below(K, n, b + 1) = Below(K, n, b) + Prior(K, n, b)
           /\ \A b, c \in 0 .. NUM_BUCKETS : b < c => Below(K, n, b) <= Below(K, n, c)
           /\ Below(K, n, 0) = 0
<1>1. ASSUME NEW b \in 0 .. NUM_BUCKETS
      PROVE  Below(K, n, b) \in 0 .. n /\ Below(K, n, b) = Less(K, n, FirstKey(b))
  <2>1. \A p \in 0 .. n - 1 : BucketOf(K[p]) < b <=> K[p] < FirstKey(b)
    BY BucketOfKey
  <2>2. {p \in 0 .. n - 1 : BucketOf(K[p]) < b} = {p \in 0 .. n - 1 : K[p] < FirstKey(b)}
    BY <2>1
  <2>3. Below(K, n, b) = Less(K, n, FirstKey(b))
    BY <2>2 DEF Below, Less
  <2>4. FirstKey(b) \in Int
    BY BucketBounds
  <2> QED
    BY <2>3, <2>4, KeyRanges
<1>2. ASSUME NEW b \in Buckets PROVE Below(K, n, b + 1) = Below(K, n, b) + Prior(K, n, b)
  <2> DEFINE S == {p \in 0 .. n - 1 : BucketOf(K[p]) < b}
             T == {p \in 0 .. n - 1 : BucketOf(K[p]) = b}
  <2>1. \A p \in 0 .. n - 1 : BucketOf(K[p]) \in Int /\ b \in Int
    BY BucketOfKey, PositiveSizes DEF Buckets
  <2>2. S \in SUBSET (0 .. n - 1) /\ T \in SUBSET (0 .. n - 1) /\ S \cap T = {}
    BY <2>1
  <2>3. {p \in 0 .. n - 1 : BucketOf(K[p]) < b + 1} = S \cup T
    BY <2>1
  <2> HIDE DEF S, T
  <2>4. IsFiniteSet(S) /\ IsFiniteSet(T)
    <3>1. IsFiniteSet(0 .. n - 1)
      BY FS_Interval
    <3> QED
      BY <2>2, <3>1, FS_Subset
  <2>5. Cardinality(S \cup T) = Cardinality(S) + Cardinality(T)
    BY <2>2, <2>4, DisjointUnion
  <2> QED
    BY <2>3, <2>5 DEF Below, Prior, InBucket, S, T
<1>3. ASSUME NEW b \in 0 .. NUM_BUCKETS, NEW c \in 0 .. NUM_BUCKETS, b < c
      PROVE  Below(K, n, b) <= Below(K, n, c)
  <2>1. FirstKey(b) \in Int /\ FirstKey(c) \in Int /\ FirstKey(b) < FirstKey(c)
    BY <1>3, BucketBounds
  <2> DEFINE x == FirstKey(b)
             y == FirstKey(c)
  <2>0. x \in Int /\ y \in Int /\ x < y
    BY <2>1
  <2> HIDE DEF x, y
  <2>2. UpTo(K, 0 .. n - 1, x) <= Less(K, n, y) /\ Less(K, n, y) \in Int
    BY <2>0, KeyRanges
  <2>3. UpTo(K, 0 .. n - 1, x) = Less(K, n, x) + Occurrences(K, 0 .. n - 1, x)
    BY <2>0, KeyRanges
  <2>6. Less(K, n, x) \in Int
    BY <2>0, KeyRanges
  <2>4. Occurrences(K, 0 .. n - 1, x) \in Nat
    BY CountTypes
  <2>5. Below(K, n, b) = Less(K, n, x) /\ Below(K, n, c) = Less(K, n, y)
    BY <1>1 DEF x, y
  <2> QED
    BY <2>2, <2>3, <2>4, <2>5, <2>6
<1>4. Below(K, n, 0) = 0
  <2>1. 0 \in 0 .. NUM_BUCKETS
    BY PositiveSizes
  <2> QED
    BY <1>1, <2>1, BucketBounds, KeyRanges
<1> QED
  BY <1>1, <1>2, <1>3, <1>4

LEMMA SlotInBucket ==
    ASSUME NEW n \in Nat, NEW K \in [0 .. n - 1 -> Keys], NEW p \in 0 .. n - 1
    PROVE  /\ Slot(K, n, p) \in 0 .. n - 1
           /\ Below(K, n, BucketOf(K[p])) <= Slot(K, n, p)
           /\ Slot(K, n, p) < Below(K, n, BucketOf(K[p]) + 1)
<1> DEFINE b == BucketOf(K[p])
<1>1. b \in Buckets
  BY BucketOfKey
<1>2. b \in 0 .. NUM_BUCKETS /\ b + 1 \in 0 .. NUM_BUCKETS
  BY <1>1, PositiveSizes DEF Buckets
<1>3. Below(K, n, b) \in 0 .. n /\ Below(K, n, b + 1) \in 0 .. n
  BY <1>2, BelowFacts
<1>4. Below(K, n, b + 1) = Below(K, n, b) + Prior(K, n, b)
  BY <1>1, BelowFacts
<1>5. Prior(K, p + 1, b) = Prior(K, p, b) + 1
  BY PriorStep
<1>6. Prior(K, p + 1, b) <= Prior(K, n, b)
  <2>1. p + 1 \in Nat /\ p + 1 <= n
    OBVIOUS
  <2> QED
    BY <2>1, PriorSplit
<1>7. Prior(K, n, b) \in Nat /\ Prior(K, p, b) \in Nat
  BY PriorType
<1>8. Slot(K, n, p) = Below(K, n, b) + Prior(K, p, b)
  BY DEF Slot
<1> HIDE DEF b
<1>9. Slot(K, n, p) \in 0 .. n - 1 /\ Below(K, n, b) <= Slot(K, n, p)
      /\ Slot(K, n, p) < Below(K, n, b + 1)
  BY <1>3, <1>4, <1>5, <1>6, <1>7, <1>8
<1> QED
  BY <1>9 DEF b

(* Buckets are disjoint ranges of slots.                                   *)
LEMMA SlotOfOneBucket ==
    ASSUME NEW n \in Nat, NEW K \in [0 .. n - 1 -> Keys],
           NEW b \in Buckets, NEW c \in Buckets, b # c, NEW s \in Int,
           Below(K, n, b) <= s, s < Below(K, n, b + 1)
    PROVE  ~ (Below(K, n, c) <= s /\ s < Below(K, n, c + 1))
<1>1. /\ b \in Int /\ c \in Int /\ b \in 0 .. NUM_BUCKETS /\ b + 1 \in 0 .. NUM_BUCKETS
      /\ c \in 0 .. NUM_BUCKETS /\ c + 1 \in 0 .. NUM_BUCKETS
  BY PositiveSizes DEF Buckets
<1>2. /\ Below(K, n, b) \in Int /\ Below(K, n, b + 1) \in Int
      /\ Below(K, n, c) \in Int /\ Below(K, n, c + 1) \in Int
  BY <1>1, BelowFacts
<1>3. ASSUME b < c PROVE Below(K, n, b + 1) <= Below(K, n, c)
  <2>1. b + 1 = c \/ b + 1 < c
    BY <1>1, <1>3
  <2> QED
    BY <1>1, <1>2, <2>1, BelowFacts
<1>4. ASSUME c < b PROVE Below(K, n, c + 1) <= Below(K, n, b)
  <2>1. c + 1 = b \/ c + 1 < b
    BY <1>1, <1>4
  <2> QED
    BY <1>1, <1>2, <2>1, BelowFacts
<1> QED
  BY <1>1, <1>2, <1>3, <1>4

LEMMA SlotInjective ==
    ASSUME NEW n \in Nat, NEW K \in [0 .. n - 1 -> Keys],
           NEW p \in 0 .. n - 1, NEW q \in 0 .. n - 1, Slot(K, n, p) = Slot(K, n, q)
    PROVE  p = q
<1> DEFINE b == BucketOf(K[p])
           c == BucketOf(K[q])
<1>1. b \in Buckets /\ c \in Buckets
  BY BucketOfKey
<1>2. b = c
  <2>1. Below(K, n, b) <= Slot(K, n, p) /\ Slot(K, n, p) < Below(K, n, b + 1)
    BY SlotInBucket
  <2>2. Below(K, n, c) <= Slot(K, n, p) /\ Slot(K, n, p) < Below(K, n, c + 1)
    BY SlotInBucket
  <2>3. Slot(K, n, p) \in Int
    BY SlotInBucket
  <2> HIDE DEF b, c
  <2> QED
    BY <1>1, <2>1, <2>2, <2>3, SlotOfOneBucket
<1>3. Prior(K, p, b) = Prior(K, q, b)
  <2>1. Slot(K, n, p) = Below(K, n, b) + Prior(K, p, b) /\ Slot(K, n, q) = Below(K, n, b) + Prior(K, q, b)
    BY <1>2 DEF Slot
  <2>2. Below(K, n, b) \in Int
    <3>1. b \in 0 .. NUM_BUCKETS
      BY <1>1, PositiveSizes DEF Buckets
    <3> QED
      BY <3>1, BelowFacts
  <2>3. Prior(K, p, b) \in Nat /\ Prior(K, q, b) \in Nat
    BY PriorType
  <2>4. Below(K, n, b) + Prior(K, p, b) = Below(K, n, b) + Prior(K, q, b)
    BY <2>1
  <2> HIDE DEF b, c
  <2> QED
    BY <2>2, <2>3, <2>4
<1>4. Prior(K, p + 1, b) = Prior(K, p, b) + 1 /\ Prior(K, q + 1, b) = Prior(K, q, b) + 1
  BY <1>2, PriorStep
<1>5. Prior(K, p, b) \in Nat
  BY PriorType
<1> HIDE DEF b, c
<1>6. ASSUME p < q PROVE FALSE
  <2>1. p + 1 \in Nat /\ q \in Nat /\ p + 1 <= q
    BY <1>6
  <2>2. Prior(K, p + 1, b) <= Prior(K, q, b)
    BY <2>1, PriorSplit
  <2> QED
    BY <1>3, <1>4, <1>5, <2>2
<1>7. ASSUME q < p PROVE FALSE
  <2>1. q + 1 \in Nat /\ p \in Nat /\ q + 1 <= p
    BY <1>7
  <2>2. Prior(K, q + 1, b) <= Prior(K, p, b)
    BY <2>1, PriorSplit
  <2> QED
    BY <1>3, <1>4, <1>5, <2>2
<1> QED
  BY <1>6, <1>7

LEMMA SlotOnto ==
    ASSUME NEW n \in Nat, NEW K \in [0 .. n - 1 -> Keys], NEW s \in 0 .. n - 1
    PROVE  \E p \in 0 .. n - 1 : Slot(K, n, p) = s
<1> DEFINE A == 0 .. n - 1
           f == [p \in A |-> Slot(K, n, p)]
<1>1. f \in [A -> A]
  BY SlotInBucket
<1>2. \A p, q \in A : f[p] = f[q] => p = q
  BY SlotInjective
<1>3. f \in Injection(A, A)
  BY <1>1, <1>2 DEF Injection, IsInjective
<1>4. IsFiniteSet(A)
  BY FS_Interval
<1> HIDE DEF f
<1>5. f \in Surjection(A, A)
  BY <1>3, <1>4, FS_Injection
<1>6. \E p \in A : f[p] = s
  BY <1>5 DEF Surjection
<1> QED
  BY <1>6 DEF f

(* What the slots of a bucket hold once every key is in its slot.          *)
LEMMA BucketOccurrences ==
    ASSUME NEW n \in Nat, NEW K \in [0 .. n - 1 -> Keys], NEW M,
           \A p \in 0 .. n - 1 : M[Slot(K, n, p)] = K[p],
           NEW b \in Buckets, NEW key \in Keys
    PROVE  Occurrences(M, Below(K, n, b) .. Below(K, n, b + 1) - 1, key)
             = IF key \in KeysOf(b) THEN Occurrences(K, 0 .. n - 1, key) ELSE 0
<1> DEFINE I == Below(K, n, b) .. Below(K, n, b + 1) - 1
           S == {p \in 0 .. n - 1 : K[p] = key}
           T == {s \in I : M[s] = key}
           c == BucketOf(key)
<1>0. c \in Buckets /\ (c = b <=> key \in KeysOf(b))
  BY BucketOfKey
<1>1. /\ Below(K, n, b) \in 0 .. n /\ Below(K, n, b + 1) \in 0 .. n
      /\ Below(K, n, c) \in 0 .. n /\ Below(K, n, c + 1) \in 0 .. n
  <2>1. /\ b \in 0 .. NUM_BUCKETS /\ b + 1 \in 0 .. NUM_BUCKETS
        /\ c \in 0 .. NUM_BUCKETS /\ c + 1 \in 0 .. NUM_BUCKETS
    BY <1>0, PositiveSizes DEF Buckets
  <2> QED
    BY <2>1, BelowFacts
<1>2. ASSUME NEW s \in T
      PROVE  /\ \E p \in S : Slot(K, n, p) = s
             /\ Below(K, n, c) <= s /\ s < Below(K, n, c + 1)
  <2>1. s \in 0 .. n - 1 /\ M[s] = key
    BY <1>1
  <2>2. PICK p \in 0 .. n - 1 : Slot(K, n, p) = s
    BY <2>1, SlotOnto
  <2>3. K[p] = key
    BY <2>1, <2>2
  <2>4. Below(K, n, c) <= s /\ s < Below(K, n, c + 1)
    BY <2>2, <2>3, SlotInBucket
  <2> QED
    BY <2>2, <2>3, <2>4
<1>3. CASE key \in KeysOf(b)
  <2> DEFINE f == [p \in S |-> Slot(K, n, p)]
  <2>1. ASSUME NEW p \in S PROVE Slot(K, n, p) \in T
    <3>1. p \in 0 .. n - 1 /\ K[p] = key /\ BucketOf(K[p]) = b
      BY <1>0, <1>3
    <3>3. /\ Slot(K, n, p) \in 0 .. n - 1
          /\ Below(K, n, b) <= Slot(K, n, p) /\ Slot(K, n, p) < Below(K, n, b + 1)
      BY <3>1, SlotInBucket
    <3>2. Slot(K, n, p) \in I
      BY <1>1, <3>3
    <3> QED
      BY <3>1, <3>2
  <2>2. f \in [S -> T]
    BY <2>1
  <2>3. \A p, q \in S : f[p] = f[q] => p = q
    BY SlotInjective
  <2>4. \A s \in T : \E p \in S : f[p] = s
    BY <1>2
  <2>5. IsFiniteSet(S)
    <3>1. IsFiniteSet(0 .. n - 1) /\ S \in SUBSET (0 .. n - 1)
      BY FS_Interval
    <3> QED
      BY <3>1, FS_Subset
  <2> HIDE DEF f, S, T
  <2>6. f \in Injection(S, T) /\ f \in Surjection(S, T)
    BY <2>2, <2>3, <2>4 DEF Injection, IsInjective, Surjection
  <2>7. ExistsBijection(S, T)
    BY <2>6 DEF ExistsBijection, Bijection
  <2>8. Cardinality(T) = Cardinality(S)
    BY <2>5, <2>7, FS_Bijection
  <2>9. Occurrences(M, I, key) = Cardinality(T) /\ Occurrences(K, 0 .. n - 1, key) = Cardinality(S)
    BY DEF Occurrences, S, T
  <2> QED
    BY <1>3, <2>8, <2>9
<1>4. CASE key \notin KeysOf(b)
  <2>1. T = {}
    <3> SUFFICES ASSUME NEW s \in T PROVE FALSE
      OBVIOUS
    <3>1. Below(K, n, b) <= s /\ s < Below(K, n, b + 1) /\ s \in Int
      BY <1>1
    <3>2. Below(K, n, c) <= s /\ s < Below(K, n, c + 1)
      BY <1>2
    <3>3. b # c
      BY <1>0, <1>4
    <3> QED
      BY <1>0, <3>1, <3>2, <3>3, SlotOfOneBucket
  <2>2. Occurrences(M, I, key) = Cardinality(T)
    BY DEF Occurrences
  <2> QED
    BY <1>4, <2>1, <2>2, FS_EmptySet
<1> QED
  BY <1>3, <1>4

(* The counts of a bucket's keys, accumulated from the lesser keys on.     *)
LEMMA BucketRanks ==
    ASSUME NEW n \in Nat, NEW K \in [0 .. n - 1 -> Keys],
           NEW b \in Buckets, NEW key \in KeysOf(b), NEW counts,
           \A x \in KeysOf(b) : counts[x] = Occurrences(K, 0 .. n - 1, x)
    PROVE  Below(K, n, b) + SumOver(counts, FirstKey(b), key + 1) = UpTo(K, 0 .. n - 1, key)
<1> DEFINE g == [x \in Int |-> Less(K, n, x)]
           k0 == FirstKey(b)
<1>1. /\ k0 \in Nat /\ key \in Nat /\ k0 <= key /\ KeysOf(b) = k0 .. FirstKey(b + 1) - 1
      /\ FirstKey(b + 1) \in Nat
  <2>1. b \in 0 .. NUM_BUCKETS /\ b + 1 \in 0 .. NUM_BUCKETS
    BY PositiveSizes DEF Buckets
  <2>2. k0 \in Nat /\ FirstKey(b + 1) \in Nat
    BY <2>1, BucketBounds
  <2> QED
    BY <2>2 DEF KeysOf
<1>2. Below(K, n, b) = g[k0]
  <2>1. b \in 0 .. NUM_BUCKETS
    BY PositiveSizes DEF Buckets
  <2> QED
    BY <1>1, <2>1, BelowFacts
<1>3. g[key + 1] = UpTo(K, 0 .. n - 1, key)
  BY <1>1, KeyRanges
<1>4. \A x \in Int : g[x] \in Int
  <2>1. \A x \in Int : Less(K, n, x) \in 0 .. n
    BY KeyRanges
  <2> QED
    BY <2>1
<1>5. ASSUME NEW x \in k0 .. (key + 1) - 1 PROVE counts[x] = g[x + 1] - g[x]
  <2>1. x \in KeysOf(b) /\ x \in Int
    BY <1>1
  <2>2. counts[x] = Occurrences(K, 0 .. n - 1, x)
    BY <2>1
  <2>3. /\ Less(K, n, x + 1) = UpTo(K, 0 .. n - 1, x)
        /\ Less(K, n, x) \in Int
    BY <2>1, KeyRanges
  <2>4. UpTo(K, 0 .. n - 1, x) = Less(K, n, x) + Occurrences(K, 0 .. n - 1, x)
    BY <2>1, KeyRanges
  <2>5. Occurrences(K, 0 .. n - 1, x) \in Nat
    BY CountTypes
  <2>6. g[x + 1] = Less(K, n, x + 1) /\ g[x] = Less(K, n, x)
    BY <2>1
  <2> HIDE DEF g
  <2> QED
    BY <2>2, <2>3, <2>4, <2>5, <2>6
<1> HIDE DEF g, k0
<1>6. SumOver(counts, k0, key + 1) = g[key + 1] - g[k0]
  <2>1. k0 \in Int /\ key + 1 \in Int /\ k0 <= key + 1
    BY <1>1
  <2>2. \A x \in k0 .. key + 1 : g[x] \in Int
    BY <1>4
  <2> QED
    BY <1>5, <2>1, <2>2, SumOfDifferences
<1>7. g[key + 1] \in Int /\ g[k0] \in Int
  BY <1>1, <1>4
<1>8. Below(K, n, b) + SumOver(counts, k0, key + 1) = UpTo(K, 0 .. n - 1, key)
  BY <1>2, <1>3, <1>6, <1>7
<1> QED
  BY <1>8 DEF k0

(* What threads have in bucket b, and all of them in the buckets below b.  *)
LEMMA SizesSum ==
    ASSUME NEW n \in Nat, NEW K, NEW f, NEW b,
           \A u \in Threads : f[u] = InBucket(K, Chunk(n, u), b),
           NEW t \in 0 .. nthreads, NEW v \in 0 .. nthreads, t <= v
    PROVE  SumOver(f, t, v) = Prior(K, ChunkStart(n, v), b) - Prior(K, ChunkStart(n, t), b)
<1> DEFINE g == [u \in 0 .. nthreads |-> Prior(K, ChunkStart(n, u), b)]
<1>1. \A u \in 0 .. nthreads : g[u] \in Int
  <2>1. ASSUME NEW u \in 0 .. nthreads PROVE Prior(K, ChunkStart(n, u), b) \in Nat
    <3>1. ChunkStart(n, u) \in Nat
      BY ChunkBounds
    <3> QED
      BY <3>1, PriorType
  <2> QED
    BY <2>1
<1>2. ASSUME NEW u \in t .. v - 1 PROVE f[u] = g[u + 1] - g[u]
  <2>1. u \in Threads /\ u \in 0 .. nthreads /\ u + 1 \in 0 .. nthreads
    BY PositiveSizes DEF Threads
  <2>2. /\ ChunkStart(n, u) \in Nat /\ ChunkStart(n, u + 1) \in Nat
        /\ ChunkStart(n, u) <= ChunkStart(n, u + 1)
    BY <2>1, ChunkInside
  <2>3. InBucket(K, ChunkStart(n, u) .. ChunkStart(n, u + 1) - 1, b)
          = Prior(K, ChunkStart(n, u + 1), b) - Prior(K, ChunkStart(n, u), b)
    BY <2>2, PriorSplit
  <2>4. f[u] = Prior(K, ChunkStart(n, u + 1), b) - Prior(K, ChunkStart(n, u), b)
    BY <2>1, <2>3 DEF Chunk
  <2> QED
    BY <2>1, <2>4
<1>3. g[v] = Prior(K, ChunkStart(n, v), b) /\ g[t] = Prior(K, ChunkStart(n, t), b)
  OBVIOUS
<1> HIDE DEF g
<1>4. SumOver(f, t, v) = g[v] - g[t]
  <2>1. t \in Int /\ v \in Int
    OBVIOUS
  <2>2. \A u \in t .. v : g[u] \in Int
    BY <1>1, PositiveSizes
  <2>3. \A u \in t .. v - 1 : f[u] = g[u + 1] - g[u]
    BY <1>2
  <2> QED
    BY <2>1, <2>2, <2>3, SumOfDifferences
<1> QED
  BY <1>3, <1>4

LEMMA BucketsSum ==
    ASSUME NEW n \in Nat, NEW K \in [0 .. n - 1 -> Keys], NEW f,
           \A c \in Buckets : f[c] = Prior(K, n, c), NEW b \in Buckets
    PROVE  SumOver(f, 0, b) = Below(K, n, b)
<1> DEFINE g == [c \in Int |-> Below(K, n, c)]
<1>1. \A c \in 0 .. b : c \in 0 .. NUM_BUCKETS /\ (c < b => c \in Buckets)
  BY PositiveSizes DEF Buckets
<1>2. \A c \in 0 .. b : g[c] \in Int
  BY <1>1, BelowFacts
<1>3. ASSUME NEW c \in 0 .. b - 1 PROVE f[c] = g[c + 1] - g[c]
  <2>1. b \in Int /\ c \in 0 .. b /\ c < b
    BY PositiveSizes DEF Buckets
  <2>2. c \in Buckets /\ c \in 0 .. NUM_BUCKETS
    BY <1>1, <2>1
  <2>3. Below(K, n, c + 1) = Below(K, n, c) + Prior(K, n, c) /\ Below(K, n, c) \in Int
    BY <2>2, BelowFacts
  <2>4. Prior(K, n, c) \in Nat
    BY PriorType
  <2>5. g[c + 1] = Below(K, n, c + 1) /\ g[c] = Below(K, n, c) /\ f[c] = Prior(K, n, c)
    BY <2>2
  <2> HIDE DEF g
  <2> QED
    BY <2>3, <2>4, <2>5
<1>4. g[0] = 0 /\ g[b] = Below(K, n, b) /\ b \in Int /\ 0 <= b
  BY BelowFacts, PositiveSizes DEF Buckets
<1> HIDE DEF g
<1>5. SumOver(f, 0, b) = g[b] - g[0]
  <2>1. ASSUME NEW z \in Int, z = 0 PROVE SumOver(f, z, b) = g[b] - g[z]
    <3>1. \A c \in z .. b - 1 : f[c] = g[c + 1] - g[c]
      BY <1>3, <2>1
    <3>2. \A c \in z .. b : g[c] \in Int
      BY <1>2, <2>1
    <3>3. z <= b
      BY <1>4, <2>1
    <3> QED
      BY <1>4, <3>1, <3>2, <3>3, SumOfDifferences
  <2> QED
    BY <2>1
<1>6. g[b] \in Int
  BY <1>2, <1>4
<1> QED
  BY <1>4, <1>5, <1>6

-----------------------------------------------------------------------------
(* Placing keys from the end of each one's range on                        *)

LEMMA RangesApart ==
    ASSUME NEW n \in Nat, NEW L \in [0 .. n - 1 -> Keys],
           NEW key \in Keys, NEW other \in Keys, key # other, NEW p \in Int,
           Less(L, n, key) <= p, p < UpTo(L, 0 .. n - 1, key)
    PROVE  ~ (Less(L, n, other) <= p /\ p < UpTo(L, 0 .. n - 1, other))
<1>1. key \in Int /\ other \in Int
  BY PositiveSizes DEF Keys
<1>2. /\ Less(L, n, key) \in 0 .. n /\ UpTo(L, 0 .. n - 1, key) \in 0 .. n
      /\ Less(L, n, other) \in 0 .. n /\ UpTo(L, 0 .. n - 1, other) \in 0 .. n
  BY <1>1, KeyRanges
<1>3. ASSUME key < other PROVE UpTo(L, 0 .. n - 1, key) <= Less(L, n, other)
  BY <1>1, <1>3, KeyRanges
<1>4. ASSUME other < key PROVE UpTo(L, 0 .. n - 1, other) <= Less(L, n, key)
  BY <1>1, <1>4, KeyRanges
<1> QED
  BY <1>1, <1>2, <1>3, <1>4

LEMMA KeyAt ==
    ASSUME NEW n \in Nat, NEW L \in [0 .. n - 1 -> Keys], NEW p \in 0 .. n - 1
    PROVE  \E key \in Keys : Less(L, n, key) <= p /\ p < UpTo(L, 0 .. n - 1, key)
<1> DEFINE T == {key \in Keys : p < UpTo(L, 0 .. n - 1, key)}
<1>1. T \in SUBSET Nat
  BY PositiveSizes DEF Keys
<1>2. MAX_KEY - 1 \in T
  <2>1. MAX_KEY - 1 \in Keys
    BY PositiveSizes DEF Keys
  <2>2. UpTo(L, 0 .. n - 1, MAX_KEY - 1) = n
    BY KeyRanges
  <2> QED
    BY <2>1, <2>2
<1>3. PICK key \in T : \A x \in T : key <= x
  BY <1>1, <1>2, NatLeast
<1>4. key \in Keys /\ p < UpTo(L, 0 .. n - 1, key) /\ key \in Nat
  BY <1>1, <1>3
<1>5. Less(L, n, key) <= p
  <2>1. CASE key = 0
    BY <2>1, KeyRanges
  <2>2. CASE key # 0
    <3>1. key - 1 \in Keys /\ ~ (key <= key - 1) /\ key - 1 \in Int /\ (key - 1) + 1 = key
      BY <1>4, <2>2, PositiveSizes DEF Keys
    <3>2. ~ (p < UpTo(L, 0 .. n - 1, key - 1))
      BY <1>3, <3>1
    <3>3. UpTo(L, 0 .. n - 1, key - 1) \in 0 .. n
      BY <3>1, KeyRanges
    <3>4. Less(L, n, (key - 1) + 1) = UpTo(L, 0 .. n - 1, key - 1)
      BY <3>1, KeyRanges
    <3> QED
      BY <3>1, <3>2, <3>3, <3>4
  <2> QED
    BY <2>1, <2>2
<1> QED
  BY <1>4, <1>5

(* All keys placed are the same keys in order.                             *)
LEMMA PlacedInOrder ==
    ASSUME NEW n \in Nat, NEW L \in [0 .. n - 1 -> Keys], NEW A,
           \A key \in Keys :
               \A p \in Less(L, n, key) .. UpTo(L, 0 .. n - 1, key) - 1 : A[p] = key
    PROVE  /\ \A i \in (0 .. n - 1) \ {0} : A[i - 1] <= A[i]
           /\ \A key \in Keys : Occurrences(A, 0 .. n - 1, key) = Occurrences(L, 0 .. n - 1, key)
<1>0. \A key \in Keys : /\ key \in Int /\ Less(L, n, key) \in 0 .. n
                        /\ UpTo(L, 0 .. n - 1, key) \in 0 .. n
  <2>1. ASSUME NEW key \in Keys
        PROVE  /\ key \in Int /\ Less(L, n, key) \in 0 .. n
               /\ UpTo(L, 0 .. n - 1, key) \in 0 .. n
    <3>1. key \in Int
      BY PositiveSizes DEF Keys
    <3> QED
      BY <3>1, KeyRanges
  <2> QED
    BY <2>1
<1>1. ASSUME NEW p \in 0 .. n - 1
      PROVE  A[p] \in Keys /\ Less(L, n, A[p]) <= p /\ p < UpTo(L, 0 .. n - 1, A[p])
  <2>1. PICK key \in Keys : Less(L, n, key) <= p /\ p < UpTo(L, 0 .. n - 1, key)
    BY KeyAt
  <2>2. p \in Less(L, n, key) .. UpTo(L, 0 .. n - 1, key) - 1
    BY <1>0, <2>1
  <2>3. A[p] = key
    BY <2>2
  <2> QED
    BY <2>1, <2>3
<1>2. ASSUME NEW i \in (0 .. n - 1) \ {0} PROVE A[i - 1] <= A[i]
  <2> DEFINE x == A[i - 1]
             y == A[i]
  <2>1. i - 1 \in 0 .. n - 1 /\ i \in 0 .. n - 1
    OBVIOUS
  <2>2. /\ x \in Keys /\ Less(L, n, x) <= i - 1
        /\ y \in Keys /\ i < UpTo(L, 0 .. n - 1, y)
    BY <1>1, <2>1
  <2> HIDE DEF x, y
  <2>3. x \in Int /\ y \in Int /\ Less(L, n, x) \in Int /\ UpTo(L, 0 .. n - 1, y) \in Int
    BY <1>0, <2>2
  <2>4. ASSUME y < x PROVE FALSE
    <3>1. UpTo(L, 0 .. n - 1, y) <= Less(L, n, x)
      BY <2>3, <2>4, KeyRanges
    <3> QED
      BY <2>2, <2>3, <3>1
  <2>5. x <= y
    BY <2>3, <2>4
  <2> QED
    BY <2>5 DEF x, y
<1>3. ASSUME NEW key \in Keys
      PROVE  Occurrences(A, 0 .. n - 1, key) = Occurrences(L, 0 .. n - 1, key)
  <2> DEFINE l == Less(L, n, key)
             u == UpTo(L, 0 .. n - 1, key)
  <2>1. l \in 0 .. n /\ u \in 0 .. n /\ key \in Int
    BY <1>0
  <2>2. u = l + Occurrences(L, 0 .. n - 1, key)
    BY <2>1, KeyRanges
  <2>3. Occurrences(L, 0 .. n - 1, key) \in Nat
    BY CountTypes
  <2>4. {p \in 0 .. n - 1 : A[p] = key} = l .. u - 1
    <3>1. ASSUME NEW p \in 0 .. n - 1, A[p] = key PROVE p \in l .. u - 1
      BY <1>1, <2>1, <3>1
    <3>2. ASSUME NEW p \in l .. u - 1 PROVE p \in 0 .. n - 1 /\ A[p] = key
      BY <2>1
    <3> QED
      BY <3>1, <3>2
  <2> HIDE DEF l, u
  <2>5. Cardinality(l .. u - 1) = u - l
    <3>1. Cardinality(l .. u - 1) = IF l > u - 1 THEN 0 ELSE (u - 1) - l + 1
      BY <2>1, FS_Interval
    <3> QED
      BY <2>1, <2>2, <2>3, <3>1
  <2>6. Occurrences(A, 0 .. n - 1, key) = u - l
    BY <2>4, <2>5 DEF Occurrences
  <2> QED
    BY <2>1, <2>2, <2>3, <2>6
<1> QED
  BY <1>2, <1>3
Types ==
    /\ input \in Inputs /\ passed \in BOOLEAN
    /\ calls \in 0 .. MAX_ITERATIONS + 1
    /\ key_array \in [All -> Keys] /\ key_buff2 \in [All -> Keys]
    /\ key_buff1 \in [Keys -> 0 .. N]
    /\ key_buff1_aptr \in [Threads \ {0} -> [Keys -> Nat]]
    /\ bucket_size \in [Threads -> [Buckets -> Nat]]
    /\ bucket_ptrs \in [Threads -> [Buckets -> 0 .. N]]
    /\ work \subseteq Buckets
    /\ pc \in [Threads -> {"count", "counted", "add", "store", "point", "scatter",
                           "scattered", "fix", "take", "copy", "copied", "place", "end"}]
    /\ index \in [Threads -> Nat] /\ round \in [Threads -> Nat] /\ sum \in [Threads -> Nat]

-----------------------------------------------------------------------------
(* The stages of a run; all threads are in the same one.                   *)

Among(set) == \A t \in Threads : pc[t] \in set

Main ==
    /\ phase = "main" /\ Among({"end"})
    /\ key_array = KeysAfter(input, IF calls = 0 THEN 0 ELSE iteration)
    /\ calls > 0 => Ranked(key_array) /\ (buckets => Bucketed(key_array))

Ranking == phase = "rank" /\ calls > 0 /\ key_array = KeysAfter(input, iteration)

(* What thread t has counted.                                              *)
OwnCounts(t) == [key \in Keys |-> UpTo(key_array, Chunk(N, t), key)]
OwnSizes(t) ==
    [b \in Buckets |-> InBucket(key_array, Chunk(N, t), b)]

Counting ==
    /\ Ranking /\ Among({"count", "counted"}) /\ work = Buckets
    /\ \A t \in Threads : pc[t] = "counted" =>
         IF buckets THEN bucket_size[t] = OwnSizes(t)
         ELSE /\ (IF t = 0 THEN key_buff1 ELSE key_buff1_aptr[t]) = OwnCounts(t)
              /\ index[t] = ChunkStart(MAX_KEY, t) /\ round[t] = 1

(* A key that thread t has passed in its round k has the keys of the       *)
(* chunks 0 .. k added up, one it has not those of the chunks before k.    *)
Added(r, key) == UpTo(key_array, 0 .. ChunkStart(N, r) - 1, key)
Adding ==
    /\ Ranking /\ Among({"add", "store", "end"}) /\ ~buckets
    /\ \A t \in Threads \ {0} : key_buff1_aptr[t] = OwnCounts(t)
    /\ \A t \in Threads :
         /\ round[t] \in 1 .. nthreads
         /\ index[t] \in ChunkStart(MAX_KEY, t) .. ChunkStart(MAX_KEY, t + 1)
         /\ round[t] = nthreads => index[t] = ChunkStart(MAX_KEY, t)
         /\ pc[t] = "end" => round[t] = nthreads
         /\ pc[t] = "store" =>
              /\ round[t] < nthreads /\ index[t] < ChunkStart(MAX_KEY, t + 1)
              /\ sum[t] = Added(round[t] + 1, index[t])
         /\ \A key \in Chunk(MAX_KEY, t) :
              key_buff1[key] = Added(IF key < index[t] THEN round[t] + 1 ELSE round[t], key)

Scattering ==
    /\ Ranking /\ Among({"point", "scatter", "scattered"}) /\ buckets /\ work = Buckets
    /\ \A t \in Threads : bucket_size[t] = OwnSizes(t)
    /\ \A t \in Threads : pc[t] # "point" =>
         /\ index[t] \in ChunkStart(N, t) .. ChunkStart(N, t + 1)
         /\ pc[t] = "scattered" => index[t] = ChunkStart(N, t + 1)
         /\ \A b \in Buckets : bucket_ptrs[t][b] = Below(key_array, N, b) + Prior(key_array, index[t], b)
         /\ \A p \in ChunkStart(N, t) .. index[t] - 1 : key_buff2[Slot(key_array, N, p)] = key_array[p]

Taking ==
    /\ Ranking /\ Among({"fix", "take", "end"}) /\ buckets
    /\ \A t \in Threads : bucket_size[t] = OwnSizes(t)
    /\ \A p \in All : key_buff2[Slot(key_array, N, p)] = key_array[p]
    /\ \A t \in Threads, b \in Buckets : bucket_ptrs[t][b] =
         IF pc[t] = "fix" THEN Below(key_array, N, b) + Prior(key_array, ChunkStart(N, t + 1), b)
         ELSE Below(key_array, N, b + 1)
    /\ \A b \in Buckets \ work : \A key \in KeysOf(b) : key_buff1[key] = UpTo(key_array, All, key)
    /\ \A t \in Threads : pc[t] = "end" => work = {}

Sorting == phase = "sort" /\ calls = MAX_ITERATIONS + 1

Copying ==
    /\ Sorting /\ ~buckets /\ Among({"copy", "copied"})
    /\ key_array = Final /\ Ranked(Final)
    /\ \A t \in Threads : pc[t] = "copied" =>
         /\ index[t] = 0
         /\ \A p \in Chunk(N, t) : key_buff2[p] = Final[p]

(* The keys are being placed from the end of each key's range on.          *)
Placed ==
    \A key \in Keys :
        /\ key_buff1[key] \in Less(Final, N, key) .. UpTo(Final, All, key)
        /\ \A p \in key_buff1[key] .. UpTo(Final, All, key) - 1 : key_array[p] = key

Placing ==
    /\ Sorting /\ Among({"place", "end"}) /\ Placed
    /\ IF buckets
       THEN /\ Bucketed(Final)
            /\ \A key \in Keys : key_buff1[key] =
                 IF BucketOf(key) \in work THEN UpTo(Final, All, key) ELSE Less(Final, N, key)
            /\ \A t \in Threads : pc[t] = "end" => work = {}
       ELSE /\ key_buff2 = Final
            /\ \A t \in Threads :
                 /\ index[t] \in 0 .. N /\ (pc[t] = "end" => index[t] = N)
                 /\ \A key \in OwnKeys(t) : key_buff1[key] =
                      UpTo(Final, All, key) - Occurrences(Final, 0 .. index[t] - 1, key)

Sorted ==
    /\ \A i \in All \ {0} : key_array[i - 1] <= key_array[i]
    /\ \A key \in Keys : Occurrences(key_array, All, key) = Occurrences(Final, All, key)
Done == phase = "done" /\ Among({"end"}) /\ passed /\ Sorted

IInv ==
    /\ Types
    /\ Main \/ Counting \/ Adding \/ Scattering \/ Taking \/ Copying \/ Placing \/ Done

-----------------------------------------------------------------------------
(* What every state has                                                    *)

LEMMA KeysAfterType ==
    ASSUME NEW in \in Inputs, NEW m \in 0 .. MAX_ITERATIONS
    PROVE  /\ Len(in.keys) \in Nat /\ Len(in.keys) > 2 * MAX_ITERATIONS
           /\ KeysAfter(in, m) \in [0 .. Len(in.keys) - 1 -> Keys]
<1>1. in.keys \in Seq(Keys) /\ Len(in.keys) > 2 * MAX_ITERATIONS
  BY InputsAssumption DEF Keys
<1>2. Len(in.keys) \in Nat
  BY <1>1
<1>3. ASSUME NEW i \in 0 .. Len(in.keys) - 1
      PROVE  (IF i \in 1 .. m THEN i
              ELSE IF i - MAX_ITERATIONS \in 1 .. m THEN MAX_KEY - (i - MAX_ITERATIONS)
              ELSE in.keys[i + 1]) \in Keys
  <2>1. i + 1 \in 1 .. Len(in.keys)
    BY <1>2
  <2>2. in.keys[i + 1] \in Keys
    BY <1>1, <2>1
  <2>3. i \in 1 .. m => i \in Keys
    BY PositiveSizes DEF Keys
  <2>4. i - MAX_ITERATIONS \in 1 .. m => MAX_KEY - (i - MAX_ITERATIONS) \in Keys
    BY PositiveSizes DEF Keys
  <2> QED
    BY <2>2, <2>3, <2>4
<1> QED
  BY <1>1, <1>2, <1>3 DEF KeysAfter

LEMMA Basics ==
    ASSUME Types
    PROVE  /\ N \in Nat /\ N > 2 * MAX_ITERATIONS /\ N > 0 /\ All = 0 .. N - 1
           /\ Positions = All /\ NUM_KEYS = N
           /\ Final \in [All -> Keys] /\ 0 \in Threads
<1>1. input \in Inputs /\ key_array \in [All -> Keys]
  BY DEF Types
<1>2. MAX_ITERATIONS \in 0 .. MAX_ITERATIONS /\ 0 \in Threads
  BY PositiveSizes
<1>3. N \in Nat /\ N > 2 * MAX_ITERATIONS /\ Final \in [All -> Keys]
  BY <1>1, <1>2, KeysAfterType DEF N, All, Final
<1>4. N > 0
  BY <1>3, PositiveSizes
<1>5. Positions = All
  BY <1>1 DEF Positions
<1>6. Cardinality(0 .. N - 1) = N
  BY <1>3, <1>4, FS_Interval
<1> QED
  BY <1>2, <1>3, <1>4, <1>5, <1>6 DEF NUM_KEYS, All

LEMMA SameInput ==
    ASSUME input' = input
    PROVE  N' = N /\ All' = All /\ Final' = Final /\ buckets' = buckets
BY DEF N, All, Final, buckets

(* The stage a thread, or the master, is in.                               *)
LEMMA StageOf ==
    ASSUME IInv
    PROVE  /\ \A t \in Threads :
                /\ pc[t] \in {"count", "counted"} => Counting
                /\ pc[t] \in {"add", "store"} => Adding
                /\ pc[t] \in {"point", "scatter", "scattered"} => Scattering
                /\ pc[t] \in {"fix", "take"} => Taking
                /\ pc[t] \in {"copy", "copied"} => Copying
                /\ pc[t] = "place" => Placing
           /\ phase = "main" => Main
           /\ phase = "done" => Done
           /\ Joined("rank") => Adding \/ Taking
           /\ Joined("sort") => Placing
<1>1. Main => phase = "main" /\ \A t \in Threads : pc[t] = "end"
  BY DEF Main, Among
<1>2. Done => phase = "done" /\ \A t \in Threads : pc[t] = "end"
  BY DEF Done, Among
<1>3. Counting => phase = "rank" /\ \A t \in Threads : pc[t] \in {"count", "counted"}
  BY DEF Counting, Ranking, Among
<1>4. Adding => phase = "rank" /\ \A t \in Threads : pc[t] \in {"add", "store", "end"}
  BY DEF Adding, Ranking, Among
<1>5. Scattering => phase = "rank" /\ \A t \in Threads : pc[t] \in {"point", "scatter", "scattered"}
  BY DEF Scattering, Ranking, Among
<1>6. Taking => phase = "rank" /\ \A t \in Threads : pc[t] \in {"fix", "take", "end"}
  BY DEF Taking, Ranking, Among
<1>7. Copying => phase = "sort" /\ \A t \in Threads : pc[t] \in {"copy", "copied"}
  BY DEF Copying, Sorting, Among
<1>8. Placing => phase = "sort" /\ \A t \in Threads : pc[t] \in {"place", "end"}
  BY DEF Placing, Sorting, Among
<1>9. Main \/ Counting \/ Adding \/ Scattering \/ Taking \/ Copying \/ Placing \/ Done
  BY DEF IInv
<1>10. 0 \in Threads
  BY PositiveSizes
<1>11. ASSUME NEW t \in Threads
      PROVE  /\ pc[t] \in {"count", "counted"} => Counting
             /\ pc[t] \in {"add", "store"} => Adding
             /\ pc[t] \in {"point", "scatter", "scattered"} => Scattering
             /\ pc[t] \in {"fix", "take"} => Taking
             /\ pc[t] \in {"copy", "copied"} => Copying
             /\ pc[t] = "place" => Placing
  BY <1>1, <1>2, <1>3, <1>4, <1>5, <1>6, <1>7, <1>8, <1>9
<1>12. (phase = "main" => Main) /\ (phase = "done" => Done)
  BY <1>1, <1>2, <1>3, <1>4, <1>5, <1>6, <1>7, <1>8, <1>9
<1>13. Joined("rank") => Adding \/ Taking
  BY <1>1, <1>2, <1>3, <1>4, <1>5, <1>6, <1>7, <1>8, <1>9, <1>10 DEF Joined
<1>14. Joined("sort") => Placing
  BY <1>1, <1>2, <1>3, <1>4, <1>5, <1>6, <1>7, <1>8, <1>9, <1>10 DEF Joined
<1> QED
  BY <1>11, <1>12, <1>13, <1>14

-----------------------------------------------------------------------------
(* rank without buckets                                                    *)

LEMMA OwnCountsType ==
    ASSUME Types, NEW t \in Threads
    PROVE  OwnCounts(t) \in [Keys -> 0 .. N]
<1>1. N \in Nat
  BY Basics
<1>2. ASSUME NEW key \in Keys PROVE UpTo(key_array, Chunk(N, t), key) \in 0 .. N
  <2> DEFINE a == ChunkStart(N, t)
             b == ChunkStart(N, t + 1)
  <2>1. a \in 0 .. N /\ b \in 0 .. N /\ a <= b
    BY <1>1, ChunkInside
  <2> HIDE DEF a, b
  <2>2. UpTo(key_array, 0 .. b - 1, key)
          = UpTo(key_array, 0 .. a - 1, key) + UpTo(key_array, a .. b - 1, key)
    BY <2>1, UpToSplit
  <2>3. UpTo(key_array, 0 .. b - 1, key) \in 0 .. N /\ UpTo(key_array, 0 .. a - 1, key) \in 0 .. N
    BY <1>1, <2>1, UpToBound
  <2>4. UpTo(key_array, a .. b - 1, key) \in Nat
    BY <2>1, CountTypes
  <2>5. UpTo(key_array, a .. b - 1, key) \in 0 .. N
    BY <1>1, <2>2, <2>3, <2>4
  <2> QED
    BY <2>5 DEF Chunk, a, b
<1> QED
  BY <1>2 DEF OwnCounts

LEMMA CountKeysInv ==
    ASSUME IInv, NEW t \in Threads, CountKeys(t)
    PROVE  IInv'
<1>1. /\ pc[t] = "count" /\ ~buckets
      /\ index' = [index EXCEPT ![t] = ChunkStart(MAX_KEY, t)]
      /\ round' = [round EXCEPT ![t] = 1]
      /\ pc' = [pc EXCEPT ![t] = "counted"]
      /\ input' = input /\ calls' = calls /\ passed' = passed /\ phase' = phase
      /\ key_array' = key_array /\ key_buff2' = key_buff2 /\ bucket_size' = bucket_size
      /\ bucket_ptrs' = bucket_ptrs /\ work' = work /\ sum' = sum
  BY DEF CountKeys, Goto, control
<1>2. Types /\ Counting
  BY <1>1, StageOf DEF IInv
<1>3. /\ N' = N /\ All' = All /\ buckets' = buckets /\ N \in Nat /\ NUM_KEYS = N /\ Positions = All
  BY <1>1, <1>2, SameInput, Basics
<1>4. IF t = 0 THEN key_buff1' = OwnCounts(t) /\ key_buff1_aptr' = key_buff1_aptr
      ELSE key_buff1_aptr' = [key_buff1_aptr EXCEPT ![t] = OwnCounts(t)] /\ key_buff1' = key_buff1
  BY <1>3 DEF CountKeys, OwnCounts
<1>5. OwnCounts(t) \in [Keys -> 0 .. N] /\ OwnCounts(t) \in [Keys -> Nat]
  <2>1. OwnCounts(t) \in [Keys -> 0 .. N]
    BY <1>2, OwnCountsType
  <2> QED
    BY <1>3, <2>1
<1>6. \A u : OwnCounts(u)' = OwnCounts(u)
  BY <1>1, <1>3 DEF OwnCounts
<1>7. ChunkStart(MAX_KEY, t) \in Nat
  BY PositiveSizes, ChunkInside
<1>8. Types'
  <2>1. key_buff1' \in [Keys -> 0 .. N] /\ key_buff1_aptr' \in [Threads \ {0} -> [Keys -> Nat]]
    BY <1>2, <1>4, <1>5 DEF Types
  <2>2. /\ index' \in [Threads -> Nat] /\ round' \in [Threads -> Nat]
        /\ pc' \in [Threads -> {"count", "counted", "add", "store", "point", "scatter",
                           "scattered", "fix", "take", "copy", "copied", "place", "end"}]
    BY <1>1, <1>2, <1>7 DEF Types
  <2> QED
    BY <1>1, <1>2, <1>3, <2>1, <2>2 DEF Types
<1>9. Counting'
  <2>1. Ranking' /\ work' = Buckets
    BY <1>1, <1>2 DEF Counting, Ranking, iteration
  <2>2. Among({"count", "counted"})'
    BY <1>1, <1>2 DEF Counting, Among, Types
  <2>3. ASSUME NEW u \in Threads, pc'[u] = "counted"
        PROVE  /\ (IF u = 0 THEN key_buff1' ELSE key_buff1_aptr'[u]) = OwnCounts(u)
               /\ index'[u] = ChunkStart(MAX_KEY, u) /\ round'[u] = 1
    <3>1. CASE u = t
      BY <1>1, <1>2, <1>4, <3>1 DEF Types
    <3>2. CASE u # t
      <4>1. pc[u] = "counted" /\ index'[u] = index[u] /\ round'[u] = round[u]
        BY <1>1, <1>2, <2>3, <3>2 DEF Types
      <4>2. /\ (IF u = 0 THEN key_buff1 ELSE key_buff1_aptr[u]) = OwnCounts(u)
            /\ index[u] = ChunkStart(MAX_KEY, u) /\ round[u] = 1
        BY <1>1, <1>2, <4>1 DEF Counting
      <4> QED
        BY <1>2, <1>4, <3>2, <4>1, <4>2 DEF Types
    <3> QED
      BY <3>1, <3>2
  <2> QED
    BY <1>1, <1>3, <1>6, <2>1, <2>2, <2>3 DEF Counting
<1> QED
  BY <1>8, <1>9 DEF IInv

(* What the steps of a stage that adds counts up, leave alone.             *)
LEMMA AddingFrame ==
    ASSUME Types, Adding, input' = input, calls' = calls, phase' = phase,
           key_array' = key_array, key_buff1_aptr' = key_buff1_aptr
    PROVE  /\ N' = N /\ All' = All /\ buckets' = buckets /\ N \in Nat
           /\ Ranking' /\ ~buckets'
           /\ \A u \in Threads \ {0} : key_buff1_aptr'[u] = OwnCounts(u)'
           /\ \A r, key : Added(r, key)' = Added(r, key)
<1>1. N' = N /\ All' = All /\ buckets' = buckets /\ N \in Nat
  BY SameInput, Basics
<1>2. \A u : OwnCounts(u)' = OwnCounts(u)
  BY <1>1 DEF OwnCounts
<1>3. \A r, key : Added(r, key)' = Added(r, key)
  BY <1>1 DEF Added
<1>4. Ranking' /\ ~buckets'
  BY <1>1 DEF Adding, Ranking, iteration
<1>5. \A u \in Threads \ {0} : key_buff1_aptr'[u] = OwnCounts(u)'
  BY <1>2 DEF Adding
<1> QED
  BY <1>1, <1>3, <1>4, <1>5

LEMMA AddedStep ==
    ASSUME Types, NEW r \in 1 .. nthreads - 1, NEW key
    PROVE  /\ Added(r + 1, key) = Added(r, key) + UpTo(key_array, Chunk(N, r), key)
           /\ Added(r + 1, key) \in 0 .. N
<1>1. N \in Nat
  BY Basics
<1>2. r \in Threads /\ r \in 0 .. nthreads /\ r + 1 \in 0 .. nthreads
  BY PositiveSizes DEF Threads
<1> DEFINE a == ChunkStart(N, r)
           b == ChunkStart(N, r + 1)
<1>3. a \in 0 .. N /\ b \in 0 .. N /\ a <= b
  BY <1>1, <1>2, ChunkInside
<1> HIDE DEF a, b
<1>4. UpTo(key_array, 0 .. b - 1, key)
          = UpTo(key_array, 0 .. a - 1, key) + UpTo(key_array, a .. b - 1, key)
  BY <1>3, UpToSplit
<1>5. UpTo(key_array, 0 .. b - 1, key) \in 0 .. N
  BY <1>1, <1>3, UpToBound
<1> QED
  BY <1>4, <1>5 DEF Added, Chunk, a, b

LEMMA AddLoadInv ==
    ASSUME IInv, NEW t \in Threads, AddLoad(t)
    PROVE  IInv'
<1> DEFINE r == round[t]
           i == index[t]
<1>1. /\ pc[t] = "add" /\ r < nthreads /\ i < ChunkStart(MAX_KEY, t + 1)
      /\ sum' = [sum EXCEPT ![t] = key_buff1[i] + key_buff1_aptr[r][i]]
      /\ pc' = [pc EXCEPT ![t] = "store"]
      /\ input' = input /\ calls' = calls /\ passed' = passed /\ phase' = phase
      /\ key_array' = key_array /\ key_buff1' = key_buff1 /\ key_buff2' = key_buff2
      /\ key_buff1_aptr' = key_buff1_aptr /\ bucket_size' = bucket_size
      /\ bucket_ptrs' = bucket_ptrs /\ work' = work /\ index' = index /\ round' = round
  BY DEF AddLoad, Goto, control, arrays
<1>2. Types /\ Adding
  BY <1>1, StageOf DEF IInv
<1>3. /\ N' = N /\ All' = All /\ N \in Nat /\ Ranking' /\ ~buckets'
      /\ \A u \in Threads \ {0} : key_buff1_aptr'[u] = OwnCounts(u)'
      /\ \A q, key : Added(q, key)' = Added(q, key)
  BY <1>1, <1>2, AddingFrame
<1>4. r \in 1 .. nthreads - 1 /\ i \in Chunk(MAX_KEY, t) /\ i \in Keys /\ i \in Int
  <2>1. r \in 1 .. nthreads /\ i \in ChunkStart(MAX_KEY, t) .. ChunkStart(MAX_KEY, t + 1)
    BY <1>2 DEF Adding
  <2>2. /\ ChunkStart(MAX_KEY, t) \in Int /\ ChunkStart(MAX_KEY, t + 1) \in Int
        /\ Chunk(MAX_KEY, t) \subseteq Keys
    BY PositiveSizes, ChunkInside DEF Keys
  <2>3. i \in Chunk(MAX_KEY, t)
    BY <1>1, <2>1, <2>2 DEF Chunk
  <2> QED
    BY <1>1, <2>1, <2>2, <2>3, PositiveSizes
<1>5. key_buff1[i] = Added(r, i)
  <2>1. key_buff1[i] = Added(IF i < i THEN r + 1 ELSE r, i)
    BY <1>2, <1>4 DEF Adding
  <2> QED
    BY <1>4, <2>1
<1>6. key_buff1_aptr[r][i] = UpTo(key_array, Chunk(N, r), i)
  <2>1. r \in Threads \ {0}
    BY <1>4, PositiveSizes DEF Threads
  <2>2. key_buff1_aptr[r] = OwnCounts(r)
    BY <1>2, <2>1 DEF Adding
  <2> QED
    BY <1>4, <2>2 DEF OwnCounts
<1>7. sum'[t] = Added(r + 1, i) /\ Added(r + 1, i) \in 0 .. N
  <2>1. sum'[t] = key_buff1[i] + key_buff1_aptr[r][i]
    BY <1>1, <1>2 DEF Types
  <2> QED
    BY <1>2, <1>4, <1>5, <1>6, <2>1, AddedStep
<1>8. Types'
  <2>1. sum' \in [Threads -> Nat]
    <3>1. key_buff1[i] + key_buff1_aptr[r][i] \in Nat
      BY <1>1, <1>2, <1>7, <1>3 DEF Types
    <3> QED
      BY <1>1, <1>2, <3>1 DEF Types
  <2>2. pc' \in [Threads -> {"count", "counted", "add", "store", "point", "scatter",
                           "scattered", "fix", "take", "copy", "copied", "place", "end"}]
    BY <1>1, <1>2 DEF Types
  <2> HIDE DEF r, i
  <2> QED
    BY <1>1, <1>2, <1>3, <2>1, <2>2 DEF Types
<1>9. Adding'
  <2>1. Among({"add", "store", "end"})'
    BY <1>1, <1>2 DEF Adding, Among, Types
  <2>2. ASSUME NEW u \in Threads
        PROVE  /\ round'[u] \in 1 .. nthreads
               /\ index'[u] \in ChunkStart(MAX_KEY, u) .. ChunkStart(MAX_KEY, u + 1)
               /\ round'[u] = nthreads => index'[u] = ChunkStart(MAX_KEY, u)
               /\ pc'[u] = "end" => round'[u] = nthreads
               /\ pc'[u] = "store" =>
                    /\ round'[u] < nthreads /\ index'[u] < ChunkStart(MAX_KEY, u + 1)
                    /\ sum'[u] = Added(round'[u] + 1, index'[u])
               /\ \A key \in Chunk(MAX_KEY, u) :
                    key_buff1'[key] = Added(IF key < index'[u] THEN round'[u] + 1 ELSE round'[u], key)
    <3>1. /\ round'[u] = round[u] /\ index'[u] = index[u] /\ key_buff1' = key_buff1
      BY <1>1
    <3>2. CASE u = t
      <4>1. pc'[u] = "store"
        BY <1>1, <1>2, <3>2 DEF Types
      <4> QED
        BY <1>1, <1>2, <1>7, <3>1, <3>2, <4>1 DEF Adding
    <3>3. CASE u # t
      <4>1. pc'[u] = pc[u] /\ sum'[u] = sum[u]
        BY <1>1, <1>2, <3>3 DEF Types
      <4> QED
        BY <1>2, <3>1, <4>1 DEF Adding
    <3> QED
      BY <3>2, <3>3
  <2> HIDE DEF r, i
  <2> QED
    BY <1>3, <2>1, <2>2 DEF Adding
<1> QED
  BY <1>8, <1>9 DEF IInv

LEMMA AddStoreInv ==
    ASSUME IInv, NEW t \in Threads, AddStore(t)
    PROVE  IInv'
<1> DEFINE r == round[t]
           i == index[t]
<1>1. /\ pc[t] = "store"
      /\ key_buff1' = [key_buff1 EXCEPT ![i] = sum[t]]
      /\ index' = [index EXCEPT ![t] = i + 1]
      /\ pc' = [pc EXCEPT ![t] = "add"]
      /\ input' = input /\ calls' = calls /\ passed' = passed /\ phase' = phase
      /\ key_array' = key_array /\ key_buff2' = key_buff2
      /\ key_buff1_aptr' = key_buff1_aptr /\ bucket_size' = bucket_size
      /\ bucket_ptrs' = bucket_ptrs /\ work' = work /\ round' = round /\ sum' = sum
  BY DEF AddStore, Goto, control
<1>2. Types /\ Adding
  BY <1>1, StageOf DEF IInv
<1>3. /\ N' = N /\ All' = All /\ N \in Nat /\ Ranking' /\ ~buckets'
      /\ \A u \in Threads \ {0} : key_buff1_aptr'[u] = OwnCounts(u)'
      /\ \A q, key : Added(q, key)' = Added(q, key)
  BY <1>1, <1>2, AddingFrame
<1>4. /\ r \in 1 .. nthreads /\ r < nthreads /\ sum[t] = Added(r + 1, i)
      /\ i \in ChunkStart(MAX_KEY, t) .. ChunkStart(MAX_KEY, t + 1)
      /\ i < ChunkStart(MAX_KEY, t + 1)
  BY <1>1, <1>2 DEF Adding
<1>5. /\ ChunkStart(MAX_KEY, t) \in Nat /\ ChunkStart(MAX_KEY, t + 1) \in Nat
      /\ Chunk(MAX_KEY, t) \subseteq Keys
  BY PositiveSizes, ChunkInside DEF Keys
<1>6. r \in 1 .. nthreads - 1 /\ i \in Chunk(MAX_KEY, t) /\ i \in Keys /\ i \in Nat
  <2>1. i \in Chunk(MAX_KEY, t)
    BY <1>4, <1>5 DEF Chunk
  <2> QED
    BY <1>4, <1>5, <2>1, PositiveSizes
<1>7. Added(r + 1, i) \in 0 .. N
  BY <1>2, <1>6, AddedStep
<1>8. Types'
  <2>1. key_buff1' \in [Keys -> 0 .. N]
    BY <1>1, <1>2, <1>4, <1>7 DEF Types
  <2>2. /\ index' \in [Threads -> Nat]
        /\ pc' \in [Threads -> {"count", "counted", "add", "store", "point", "scatter",
                           "scattered", "fix", "take", "copy", "copied", "place", "end"}]
    BY <1>1, <1>2, <1>6 DEF Types
  <2> HIDE DEF r, i
  <2> QED
    BY <1>1, <1>2, <1>3, <2>1, <2>2 DEF Types
<1>9. Adding'
  <2>1. Among({"add", "store", "end"})'
    BY <1>1, <1>2 DEF Adding, Among, Types
  <2>2. ASSUME NEW u \in Threads
        PROVE  /\ round'[u] \in 1 .. nthreads
               /\ index'[u] \in ChunkStart(MAX_KEY, u) .. ChunkStart(MAX_KEY, u + 1)
               /\ round'[u] = nthreads => index'[u] = ChunkStart(MAX_KEY, u)
               /\ pc'[u] = "end" => round'[u] = nthreads
               /\ pc'[u] = "store" =>
                    /\ round'[u] < nthreads /\ index'[u] < ChunkStart(MAX_KEY, u + 1)
                    /\ sum'[u] = Added(round'[u] + 1, index'[u])
               /\ \A key \in Chunk(MAX_KEY, u) :
                    key_buff1'[key] = Added(IF key < index'[u] THEN round'[u] + 1 ELSE round'[u], key)
    <3>1. CASE u = t
      <4>1. pc'[u] = "add" /\ index'[u] = i + 1 /\ round'[u] = r
        BY <1>1, <1>2, <3>1 DEF Types
      <4>2. i + 1 \in ChunkStart(MAX_KEY, u) .. ChunkStart(MAX_KEY, u + 1)
        BY <1>4, <1>5, <1>6, <3>1
      <4>3. ASSUME NEW key \in Chunk(MAX_KEY, u)
            PROVE  key_buff1'[key] = Added(IF key < i + 1 THEN r + 1 ELSE r, key)
        <5>1. key \in Keys /\ key \in Int
          BY <1>5, <3>1, PositiveSizes DEF Keys
        <5>2. CASE key = i
          BY <1>1, <1>2, <1>4, <1>6, <5>1, <5>2 DEF Types
        <5>3. CASE key # i
          <6>1. key_buff1'[key] = key_buff1[key]
            BY <1>1, <1>2, <5>1, <5>3 DEF Types
          <6>2. key_buff1[key] = Added(IF key < i THEN r + 1 ELSE r, key)
            BY <1>2, <3>1 DEF Adding
          <6>3. key < i <=> key < i + 1
            BY <1>6, <5>1, <5>3
          <6> QED
            BY <6>1, <6>2, <6>3
        <5> QED
          BY <5>2, <5>3
      <4> HIDE DEF r, i
      <4> QED
        BY <1>4, <4>1, <4>2, <4>3, PositiveSizes
    <3>2. CASE u # t
      <4>1. pc'[u] = pc[u] /\ sum'[u] = sum[u] /\ index'[u] = index[u] /\ round'[u] = round[u]
        BY <1>1, <1>2, <3>2 DEF Types
      <4>2. ASSUME NEW key \in Chunk(MAX_KEY, u) PROVE key_buff1'[key] = key_buff1[key]
        <5>1. key \in Keys /\ key \in Int
          BY PositiveSizes, ChunkInside DEF Keys
        <5>2. /\ ChunkStart(MAX_KEY, u) \in Int /\ ChunkStart(MAX_KEY, u + 1) \in Int
          BY PositiveSizes, ChunkInside
        <5>3. ~ (ChunkStart(MAX_KEY, u) <= i /\ i < ChunkStart(MAX_KEY, u + 1))
          <6>1. ChunkStart(MAX_KEY, t) <= i /\ i < ChunkStart(MAX_KEY, t + 1) /\ i \in Int
            BY <1>4, <1>5, <1>6
          <6> QED
            BY <3>2, <6>1, PositiveSizes, ChunksDisjoint
        <5>4. key # i
          BY <5>2, <5>3 DEF Chunk
        <5> QED
          BY <1>1, <1>2, <5>1, <5>4 DEF Types
      <4> HIDE DEF r, i
      <4> QED
        BY <1>2, <4>1, <4>2 DEF Adding
    <3> QED
      BY <3>1, <3>2
  <2> HIDE DEF r, i
  <2> QED
    BY <1>3, <2>1, <2>2 DEF Adding
<1> QED
  BY <1>8, <1>9 DEF IInv

LEMMA NextRoundInv ==
    ASSUME IInv, NEW t \in Threads, NextRound(t)
    PROVE  IInv'
<1> DEFINE r == round[t]
           i == index[t]
<1>1. /\ pc[t] = "add" /\ r < nthreads /\ i = ChunkStart(MAX_KEY, t + 1)
      /\ round' = [round EXCEPT ![t] = r + 1]
      /\ index' = [index EXCEPT ![t] = ChunkStart(MAX_KEY, t)]
      /\ input' = input /\ calls' = calls /\ passed' = passed /\ phase' = phase
      /\ key_array' = key_array /\ key_buff1' = key_buff1 /\ key_buff2' = key_buff2
      /\ key_buff1_aptr' = key_buff1_aptr /\ bucket_size' = bucket_size
      /\ bucket_ptrs' = bucket_ptrs /\ work' = work /\ pc' = pc /\ sum' = sum
  BY DEF NextRound, control, arrays
<1>2. Types /\ Adding
  BY <1>1, StageOf DEF IInv
<1>3. /\ N' = N /\ All' = All /\ N \in Nat /\ Ranking' /\ ~buckets'
      /\ \A u \in Threads \ {0} : key_buff1_aptr'[u] = OwnCounts(u)'
      /\ \A q, key : Added(q, key)' = Added(q, key)
  BY <1>1, <1>2, AddingFrame
<1>4. /\ r \in 1 .. nthreads /\ r + 1 \in 1 .. nthreads
      /\ ChunkStart(MAX_KEY, t) \in Nat /\ ChunkStart(MAX_KEY, t + 1) \in Nat
      /\ ChunkStart(MAX_KEY, t) <= ChunkStart(MAX_KEY, t + 1)
  <2>1. r \in 1 .. nthreads
    BY <1>2 DEF Adding
  <2> QED
    BY <1>1, <2>1, PositiveSizes, ChunkInside
<1>5. Types'
  <2>1. index' \in [Threads -> Nat] /\ round' \in [Threads -> Nat]
    BY <1>1, <1>2, <1>4, PositiveSizes DEF Types
  <2> HIDE DEF r, i
  <2> QED
    BY <1>1, <1>2, <1>3, <2>1 DEF Types
<1>6. Adding'
  <2>1. Among({"add", "store", "end"})'
    BY <1>1, <1>2 DEF Adding, Among
  <2>2. ASSUME NEW u \in Threads
        PROVE  /\ round'[u] \in 1 .. nthreads
               /\ index'[u] \in ChunkStart(MAX_KEY, u) .. ChunkStart(MAX_KEY, u + 1)
               /\ round'[u] = nthreads => index'[u] = ChunkStart(MAX_KEY, u)
               /\ pc'[u] = "end" => round'[u] = nthreads
               /\ pc'[u] = "store" =>
                    /\ round'[u] < nthreads /\ index'[u] < ChunkStart(MAX_KEY, u + 1)
                    /\ sum'[u] = Added(round'[u] + 1, index'[u])
               /\ \A key \in Chunk(MAX_KEY, u) :
                    key_buff1'[key] = Added(IF key < index'[u] THEN round'[u] + 1 ELSE round'[u], key)
    <3>1. CASE u = t
      <4>1. pc'[u] = "add" /\ index'[u] = ChunkStart(MAX_KEY, t) /\ round'[u] = r + 1
        BY <1>1, <1>2, <3>1 DEF Types
      <4>2. ASSUME NEW key \in Chunk(MAX_KEY, u)
            PROVE  key_buff1'[key] = Added(IF key < ChunkStart(MAX_KEY, t) THEN (r + 1) + 1 ELSE r + 1, key)
        <5>1. key \in Int /\ ChunkStart(MAX_KEY, t) <= key /\ key < i
          BY <1>1, <1>4, <3>1 DEF Chunk
        <5>2. key_buff1[key] = Added(IF key < i THEN r + 1 ELSE r, key)
          BY <1>2, <3>1 DEF Adding
        <5>3. ~ (key < ChunkStart(MAX_KEY, t))
          BY <1>4, <5>1
        <5> QED
          BY <1>1, <5>1, <5>2, <5>3
      <4> HIDE DEF r, i
      <4> QED
        BY <1>4, <3>1, <4>1, <4>2
    <3>2. CASE u # t
      <4>1. pc'[u] = pc[u] /\ sum'[u] = sum[u] /\ index'[u] = index[u] /\ round'[u] = round[u]
        BY <1>1, <1>2, <3>2 DEF Types
      <4> HIDE DEF r, i
      <4> QED
        BY <1>1, <1>2, <4>1 DEF Adding
    <3> QED
      BY <3>1, <3>2
  <2> HIDE DEF r, i
  <2> QED
    BY <1>3, <2>1, <2>2 DEF Adding
<1> QED
  BY <1>5, <1>6 DEF IInv

LEMMA AddsEndInv ==
    ASSUME IInv, NEW t \in Threads, AddsEnd(t)
    PROVE  IInv'
<1>1. /\ pc[t] = "add" /\ round[t] = nthreads
      /\ pc' = [pc EXCEPT ![t] = "end"]
      /\ input' = input /\ calls' = calls /\ passed' = passed /\ phase' = phase
      /\ key_array' = key_array /\ key_buff1' = key_buff1 /\ key_buff2' = key_buff2
      /\ key_buff1_aptr' = key_buff1_aptr /\ bucket_size' = bucket_size
      /\ bucket_ptrs' = bucket_ptrs /\ work' = work
      /\ index' = index /\ round' = round /\ sum' = sum
  BY DEF AddsEnd, Goto, control, arrays, loops
<1>2. Types /\ Adding
  BY <1>1, StageOf DEF IInv
<1>3. /\ N' = N /\ All' = All /\ N \in Nat /\ Ranking' /\ ~buckets'
      /\ \A u \in Threads \ {0} : key_buff1_aptr'[u] = OwnCounts(u)'
      /\ \A q, key : Added(q, key)' = Added(q, key)
  BY <1>1, <1>2, AddingFrame
<1>4. Types'
  <2>1. pc' \in [Threads -> {"count", "counted", "add", "store", "point", "scatter",
                           "scattered", "fix", "take", "copy", "copied", "place", "end"}]
    BY <1>1, <1>2 DEF Types
  <2> QED
    BY <1>1, <1>2, <1>3, <2>1 DEF Types
<1>5. Adding'
  <2>1. Among({"add", "store", "end"})'
    BY <1>1, <1>2 DEF Adding, Among, Types
  <2>2. \A u \in Threads : pc'[u] = IF u = t THEN "end" ELSE pc[u]
    BY <1>1, <1>2 DEF Types
  <2>3. \A u \in Threads :
               /\ round'[u] \in 1 .. nthreads
               /\ index'[u] \in ChunkStart(MAX_KEY, u) .. ChunkStart(MAX_KEY, u + 1)
               /\ round'[u] = nthreads => index'[u] = ChunkStart(MAX_KEY, u)
               /\ pc'[u] = "end" => round'[u] = nthreads
               /\ pc'[u] = "store" =>
                    /\ round'[u] < nthreads /\ index'[u] < ChunkStart(MAX_KEY, u + 1)
                    /\ sum'[u] = Added(round'[u] + 1, index'[u])
               /\ \A key \in Chunk(MAX_KEY, u) :
                    key_buff1'[key] = Added(IF key < index'[u] THEN round'[u] + 1 ELSE round'[u], key)
    BY <1>1, <1>2, <2>2 DEF Adding
  <2> QED
    BY <1>3, <2>1, <2>3 DEF Adding
<1> QED
  BY <1>4, <1>5 DEF IInv

-----------------------------------------------------------------------------
(* rank with buckets                                                       *)

LEMMA OwnSizesType ==
    ASSUME Types, NEW t \in Threads
    PROVE  OwnSizes(t) \in [Buckets -> Nat]
<1>1. N \in Nat
  BY Basics
<1>2. ASSUME NEW b \in Buckets
      PROVE  InBucket(key_array, Chunk(N, t), b) \in Nat
  <2> DEFINE x == ChunkStart(N, t)
             y == ChunkStart(N, t + 1)
  <2>1. x \in Nat /\ y \in Nat /\ x <= y
    BY <1>1, ChunkInside
  <2> HIDE DEF x, y
  <2>2. /\ Prior(key_array, x, b) \in Nat /\ Prior(key_array, x, b) <= Prior(key_array, y, b)
        /\ InBucket(key_array, x .. y - 1, b)
                = Prior(key_array, y, b) - Prior(key_array, x, b)
    BY <2>1, PriorSplit
  <2>3. Prior(key_array, y, b) \in Nat
    BY <2>1, PriorType
  <2>4. InBucket(key_array, x .. y - 1, b) \in Nat
    BY <2>2, <2>3
  <2> QED
    BY <2>4 DEF Chunk, x, y
<1> QED
  BY <1>2 DEF OwnSizes

LEMMA CountBucketsInv ==
    ASSUME IInv, NEW t \in Threads, CountBuckets(t)
    PROVE  IInv'
<1>1. /\ pc[t] = "count" /\ buckets
      /\ pc' = [pc EXCEPT ![t] = "counted"]
      /\ input' = input /\ calls' = calls /\ passed' = passed /\ phase' = phase
      /\ key_array' = key_array /\ key_buff2' = key_buff2 /\ key_buff1' = key_buff1
      /\ key_buff1_aptr' = key_buff1_aptr /\ bucket_ptrs' = bucket_ptrs /\ work' = work
      /\ index' = index /\ round' = round /\ sum' = sum
  BY DEF CountBuckets, Goto, control, loops
<1>2. Types /\ Counting
  BY <1>1, StageOf DEF IInv
<1>3. /\ N' = N /\ All' = All /\ buckets' = buckets /\ N \in Nat /\ NUM_KEYS = N
  BY <1>1, <1>2, SameInput, Basics
<1>4. bucket_size' = [bucket_size EXCEPT ![t] = OwnSizes(t)]
  BY <1>3 DEF CountBuckets, OwnSizes, InBucket
<1>5. OwnSizes(t) \in [Buckets -> Nat]
  BY <1>2, OwnSizesType
<1>6. \A u : OwnSizes(u)' = OwnSizes(u)
  BY <1>1, <1>3 DEF OwnSizes
<1>7. Types'
  <2>1. bucket_size' \in [Threads -> [Buckets -> Nat]]
    BY <1>2, <1>4, <1>5 DEF Types
  <2>2. pc' \in [Threads -> {"count", "counted", "add", "store", "point", "scatter",
                           "scattered", "fix", "take", "copy", "copied", "place", "end"}]
    BY <1>1, <1>2 DEF Types
  <2> QED
    BY <1>1, <1>2, <1>3, <2>1, <2>2 DEF Types
<1>8. Counting'
  <2>1. Ranking' /\ work' = Buckets
    BY <1>1, <1>2 DEF Counting, Ranking, iteration
  <2>2. Among({"count", "counted"})'
    BY <1>1, <1>2 DEF Counting, Among, Types
  <2>3. ASSUME NEW u \in Threads, pc'[u] = "counted"
        PROVE  bucket_size'[u] = OwnSizes(u)
    <3>1. CASE u = t
      BY <1>2, <1>4, <3>1 DEF Types
    <3>2. CASE u # t
      <4>1. pc[u] = "counted" /\ bucket_size'[u] = bucket_size[u]
        BY <1>1, <1>2, <1>4, <2>3, <3>2 DEF Types
      <4> QED
        BY <1>1, <1>2, <4>1 DEF Counting
    <3> QED
      BY <3>1, <3>2
  <2> QED
    BY <1>1, <1>3, <1>6, <2>1, <2>2, <2>3 DEF Counting
<1> QED
  BY <1>7, <1>8 DEF IInv

(* What the steps after the threads have counted leave alone.              *)
LEMMA RankingFrame ==
    ASSUME Types, Ranking, input' = input, calls' = calls, phase' = phase,
           key_array' = key_array, bucket_size' = bucket_size
    PROVE  /\ N' = N /\ All' = All /\ buckets' = buckets /\ N \in Nat
           /\ All = 0 .. N - 1 /\ NUM_KEYS = N /\ key_array \in [0 .. N - 1 -> Keys]
           /\ Ranking'
           /\ \A u : OwnSizes(u)' = OwnSizes(u)
<1>1. /\ N' = N /\ All' = All /\ buckets' = buckets /\ N \in Nat
      /\ All = 0 .. N - 1 /\ NUM_KEYS = N
  BY SameInput, Basics
<1>2. \A u : OwnSizes(u)' = OwnSizes(u)
  BY <1>1 DEF OwnSizes
<1>3. Ranking'
  BY <1>1 DEF Ranking, iteration
<1> QED
  BY <1>1, <1>2, <1>3 DEF Types

LEMMA SizesAre ==
    ASSUME Types, \A u \in Threads : bucket_size[u] = OwnSizes(u), NEW b \in Buckets,
           NEW t \in 0 .. nthreads, NEW v \in 0 .. nthreads, t <= v
    PROVE  Sizes(b, t, v)
             = Prior(key_array, ChunkStart(N, v), b) - Prior(key_array, ChunkStart(N, t), b)
<1> DEFINE f == [u \in Threads |-> bucket_size[u][b]]
<1>1. N \in Nat
  BY Basics
<1>2. \A u \in Threads : f[u] = InBucket(key_array, Chunk(N, u), b)
  BY DEF OwnSizes
<1>3. Sizes(b, t, v) = SumOver(f, t, v)
  BY DEF Sizes
<1> HIDE DEF f
<1>4. SumOver(f, t, v)
        = Prior(key_array, ChunkStart(N, v), b) - Prior(key_array, ChunkStart(N, t), b)
  BY <1>1, <1>2, SizesSum
<1> QED
  BY <1>3, <1>4

LEMMA PointersInv ==
    ASSUME IInv, NEW t \in Threads, Pointers(t)
    PROVE  IInv'
<1> DEFINE K == key_array
           total == [c \in Buckets |-> Sizes(c, 0, nthreads)]
           first == [b \in Buckets |-> SumOver(total, 0, b) + Sizes(b, 0, t)]
           x == ChunkStart(N, t)
<1>1. /\ pc[t] = "point"
      /\ pc' = [pc EXCEPT ![t] = "scatter"]
      /\ bucket_ptrs' = [bucket_ptrs EXCEPT ![t] = first]
      /\ index' = [index EXCEPT ![t] = ChunkStart(NUM_KEYS, t)]
      /\ input' = input /\ calls' = calls /\ passed' = passed /\ phase' = phase
      /\ key_array' = key_array /\ key_buff2' = key_buff2 /\ key_buff1' = key_buff1
      /\ key_buff1_aptr' = key_buff1_aptr /\ bucket_size' = bucket_size /\ work' = work
      /\ round' = round /\ sum' = sum
  BY DEF Pointers, Goto, control
<1>2. Types /\ Scattering
  BY <1>1, StageOf DEF IInv
<1>3. /\ N' = N /\ All' = All /\ buckets' = buckets /\ N \in Nat
      /\ All = 0 .. N - 1 /\ NUM_KEYS = N /\ K \in [0 .. N - 1 -> Keys]
      /\ Ranking' /\ \A u : OwnSizes(u)' = OwnSizes(u)
  BY <1>1, <1>2, RankingFrame DEF Scattering
<1>4. /\ 0 \in 0 .. nthreads /\ nthreads \in 0 .. nthreads /\ t \in 0 .. nthreads
      /\ 0 <= nthreads /\ 0 <= t
  BY PositiveSizes DEF Threads
<1>5. ChunkStart(N, 0) = 0 /\ ChunkStart(N, nthreads) = N
  BY <1>3, ChunkBounds
<1>6. /\ x \in 0 .. N /\ ChunkStart(N, t + 1) \in 0 .. N /\ x <= ChunkStart(N, t + 1)
  BY <1>3, ChunkInside
<1>7. ASSUME NEW b \in Buckets
      PROVE  Sizes(b, 0, nthreads) = Prior(K, N, b) /\ Sizes(b, 0, t) = Prior(K, x, b)
  <2>1. Sizes(b, 0, nthreads) = Prior(K, N, b) - Prior(K, 0, b)
    BY <1>2, <1>4, <1>5, SizesAre DEF Scattering
  <2>2. Sizes(b, 0, t) = Prior(K, x, b) - Prior(K, 0, b)
    BY <1>2, <1>4, <1>5, SizesAre DEF Scattering
  <2>3. Prior(K, 0, b) = 0
    BY PriorStep, 0 \in Nat
  <2>4. Prior(K, N, b) \in Nat /\ Prior(K, x, b) \in Nat
    BY <1>3, <1>6, PriorType
  <2> HIDE DEF x, K
  <2> QED
    BY <2>1, <2>2, <2>3, <2>4
<1>8. ASSUME NEW b \in Buckets
      PROVE  first[b] = Below(K, N, b) + Prior(K, x, b) /\ first[b] \in 0 .. N
  <2>1. \A c \in Buckets : total[c] = Prior(K, N, c)
    BY <1>7
  <2> HIDE DEF total
  <2>2. SumOver(total, 0, b) = Below(K, N, b)
    BY <1>3, <2>1, BucketsSum
  <2>3. first[b] = Below(K, N, b) + Prior(K, x, b)
    BY <1>7, <2>2
  <2>4. b \in 0 .. NUM_BUCKETS /\ b + 1 \in 0 .. NUM_BUCKETS
    BY PositiveSizes DEF Buckets
  <2>5. /\ Below(K, N, b) \in 0 .. N /\ Below(K, N, b + 1) \in 0 .. N
        /\ Below(K, N, b + 1) = Below(K, N, b) + Prior(K, N, b)
    BY <1>3, <2>4, BelowFacts
  <2>6. /\ Prior(K, x, b) \in Nat /\ Prior(K, x, b) <= Prior(K, N, b)
    <3>1. x \in Nat /\ x <= N
      BY <1>3, <1>6
    <3> HIDE DEF x
    <3> QED
      BY <1>3, <3>1, PriorSplit
  <2>7. Prior(K, N, b) \in Nat
    BY <1>3, PriorType
  <2> HIDE DEF first, x, K
  <2> QED
    BY <1>3, <2>3, <2>5, <2>6, <2>7
<1>9. first \in [Buckets -> 0 .. N]
  BY <1>8
<1> HIDE DEF first, x
<1>10. index' = [index EXCEPT ![t] = x]
  BY <1>1, <1>3 DEF x
<1>11. Types'
  <2>1. bucket_ptrs' \in [Threads -> [Buckets -> 0 .. N]]
    BY <1>1, <1>2, <1>9 DEF Types
  <2>2. /\ index' \in [Threads -> Nat]
        /\ pc' \in [Threads -> {"count", "counted", "add", "store", "point", "scatter",
                           "scattered", "fix", "take", "copy", "copied", "place", "end"}]
    BY <1>1, <1>2, <1>6, <1>10 DEF Types
  <2> QED
    BY <1>1, <1>2, <1>3, <2>1, <2>2 DEF Types
<1>12. Scattering'
  <2>1. Among({"point", "scatter", "scattered"})' /\ buckets' /\ work' = Buckets
    BY <1>1, <1>2, <1>3 DEF Scattering, Among, Types
  <2>2. ASSUME NEW u \in Threads, pc'[u] # "point"
        PROVE  /\ index'[u] \in ChunkStart(N, u) .. ChunkStart(N, u + 1)
               /\ pc'[u] = "scattered" => index'[u] = ChunkStart(N, u + 1)
               /\ \A b \in Buckets : bucket_ptrs'[u][b] = Below(K, N, b) + Prior(K, index'[u], b)
               /\ \A p \in ChunkStart(N, u) .. index'[u] - 1 : key_buff2'[Slot(K, N, p)] = K[p]
    <3>1. CASE u = t
      <4>1. pc'[u] = "scatter" /\ index'[u] = x /\ bucket_ptrs'[u] = first
        BY <1>1, <1>2, <1>10, <3>1 DEF Types
      <4>2. x = ChunkStart(N, u)
        BY <3>1 DEF x
      <4>3. ChunkStart(N, u) \in Int /\ ChunkStart(N, u + 1) \in Int
            /\ ChunkStart(N, u) <= ChunkStart(N, u + 1)
        BY <1>6, <3>1 DEF x
      <4> HIDE DEF K
      <4> QED
        BY <1>8, <4>1, <4>2, <4>3
    <3>2. CASE u # t
      <4>1. pc'[u] = pc[u] /\ index'[u] = index[u] /\ bucket_ptrs'[u] = bucket_ptrs[u]
        BY <1>1, <1>2, <1>10, <3>2 DEF Types
      <4> QED
        BY <1>1, <1>2, <2>2, <4>1 DEF Scattering
    <3> QED
      BY <3>1, <3>2
  <2>3. \A u \in Threads : bucket_size'[u] = OwnSizes(u)'
    BY <1>1, <1>2, <1>3 DEF Scattering
  <2> QED
    BY <1>1, <1>3, <2>1, <2>2, <2>3 DEF Scattering
<1> QED
  BY <1>11, <1>12 DEF IInv

LEMMA ScatterInv ==
    ASSUME IInv, NEW t \in Threads, Scatter(t)
    PROVE  IInv'
<1> DEFINE K == key_array
           i == index[t]
           c == BucketOf(K[i])
           s == bucket_ptrs[t][c]
<1>1. /\ pc[t] = "scatter" /\ i < ChunkStart(NUM_KEYS, t + 1)
      /\ key_buff2' = [key_buff2 EXCEPT ![s] = K[i]]
      /\ bucket_ptrs' = [bucket_ptrs EXCEPT ![t][c] = s + 1]
      /\ index' = [index EXCEPT ![t] = i + 1]
      /\ input' = input /\ calls' = calls /\ passed' = passed /\ phase' = phase
      /\ key_array' = key_array /\ key_buff1' = key_buff1
      /\ key_buff1_aptr' = key_buff1_aptr /\ bucket_size' = bucket_size /\ work' = work
      /\ pc' = pc /\ round' = round /\ sum' = sum
  BY DEF Scatter, control
<1>2. Types /\ Scattering
  BY <1>1, StageOf DEF IInv
<1>3. /\ N' = N /\ All' = All /\ buckets' = buckets /\ N \in Nat
      /\ All = 0 .. N - 1 /\ NUM_KEYS = N /\ K \in [0 .. N - 1 -> Keys]
      /\ Ranking' /\ \A u : OwnSizes(u)' = OwnSizes(u)
  BY <1>1, <1>2, RankingFrame DEF Scattering
<1>4. /\ i \in ChunkStart(N, t) .. ChunkStart(N, t + 1) /\ i < ChunkStart(N, t + 1)
      /\ ChunkStart(N, t) \in 0 .. N /\ ChunkStart(N, t + 1) \in 0 .. N
      /\ i \in 0 .. N - 1 /\ i \in Nat
  <2>1. i \in ChunkStart(N, t) .. ChunkStart(N, t + 1)
    BY <1>1, <1>2 DEF Scattering
  <2>2. ChunkStart(N, t) \in 0 .. N /\ ChunkStart(N, t + 1) \in 0 .. N
    BY <1>3, ChunkInside
  <2>3. i < ChunkStart(N, t + 1)
    BY <1>1, <1>3
  <2> HIDE DEF i
  <2> QED
    BY <1>3, <2>1, <2>2, <2>3
<1>5. K[i] \in Keys /\ c \in Buckets
  BY <1>3, <1>4, BucketOfKey
<1>6. s = Slot(K, N, i) /\ s \in 0 .. N - 1
  <2>1. s = Below(K, N, c) + Prior(K, i, c)
    BY <1>1, <1>2, <1>5 DEF Scattering
  <2>2. s = Slot(K, N, i)
    BY <2>1 DEF Slot
  <2> HIDE DEF s, c
  <2> QED
    BY <1>3, <1>4, <2>2, SlotInBucket
<1>7. ASSUME NEW b \in Buckets
      PROVE  Prior(K, i + 1, b) = Prior(K, i, b) + (IF c = b THEN 1 ELSE 0) /\ Prior(K, i, b) \in Nat
  BY <1>4, PriorStep, PriorType
<1>8. \A b \in Buckets : Below(K, N, b) \in Int
  <2>1. \A b \in Buckets : b \in 0 .. NUM_BUCKETS
    BY PositiveSizes DEF Buckets
  <2> QED
    BY <1>3, <2>1, BelowFacts
<1> HIDE DEF c, s
<1>9. Types'
  <2>1. bucket_ptrs' \in [Threads -> [Buckets -> 0 .. N]]
    <3>1. s + 1 \in 0 .. N
      BY <1>3, <1>6
    <3> QED
      BY <1>1, <1>2, <1>5, <3>1 DEF Types
  <2>2. key_buff2' \in [All -> Keys]
    BY <1>1, <1>2, <1>5 DEF Types
  <2>3. index' \in [Threads -> Nat]
    BY <1>1, <1>2, <1>4 DEF Types
  <2> HIDE DEF K, i
  <2> QED
    BY <1>1, <1>2, <1>3, <2>1, <2>2, <2>3 DEF Types
<1>10. Scattering'
  <2>1. Among({"point", "scatter", "scattered"})' /\ buckets' /\ work' = Buckets
    BY <1>1, <1>2, <1>3 DEF Scattering, Among
  <2>2. ASSUME NEW u \in Threads, pc'[u] # "point"
        PROVE  /\ index'[u] \in ChunkStart(N, u) .. ChunkStart(N, u + 1)
               /\ pc'[u] = "scattered" => index'[u] = ChunkStart(N, u + 1)
               /\ \A b \in Buckets : bucket_ptrs'[u][b] = Below(K, N, b) + Prior(K, index'[u], b)
               /\ \A p \in ChunkStart(N, u) .. index'[u] - 1 : key_buff2'[Slot(K, N, p)] = K[p]
    <3>0. ASSUME NEW p \in 0 .. N - 1, p # i
          PROVE  key_buff2'[Slot(K, N, p)] = key_buff2[Slot(K, N, p)]
      <4>1. Slot(K, N, p) \in 0 .. N - 1
        BY <1>3, SlotInBucket
      <4>2. Slot(K, N, p) # s
        BY <1>3, <1>4, <1>6, <3>0, SlotInjective
      <4> QED
        BY <1>1, <1>2, <1>3, <4>1, <4>2 DEF Types
    <3>1. CASE u = t
      <4>1. pc'[u] = "scatter" /\ index'[u] = i + 1
        BY <1>1, <1>2, <3>1 DEF Types
      <4>2. \A b \in Buckets : bucket_ptrs'[u][b] = IF b = c THEN s + 1 ELSE bucket_ptrs[t][b]
        BY <1>1, <1>2, <1>5, <3>1 DEF Types
      <4>3. ASSUME NEW b \in Buckets
            PROVE  bucket_ptrs'[u][b] = Below(K, N, b) + Prior(K, i + 1, b)
        <5>1. bucket_ptrs[t][b] = Below(K, N, b) + Prior(K, i, b)
          BY <1>1, <1>2 DEF Scattering
        <5>2. s = bucket_ptrs[t][c]
          BY DEF s
        <5> HIDE DEF K, i
        <5> QED
          BY <1>7, <1>8, <4>2, <5>1, <5>2
      <4>4. ASSUME NEW p \in ChunkStart(N, u) .. i PROVE key_buff2'[Slot(K, N, p)] = K[p]
        <5>1. CASE p = i
          BY <1>1, <1>2, <1>3, <1>6, <5>1 DEF Types
        <5>2. CASE p # i
          <6>1. p \in 0 .. N - 1 /\ p \in ChunkStart(N, t) .. i - 1
            BY <1>3, <1>4, <3>1, <5>2
          <6>2. key_buff2[Slot(K, N, p)] = K[p]
            BY <1>1, <1>2, <6>1 DEF Scattering
          <6> QED
            BY <3>0, <5>2, <6>1, <6>2
        <5> QED
          BY <5>1, <5>2
      <4>5. i + 1 \in ChunkStart(N, u) .. ChunkStart(N, u + 1) /\ (i + 1) - 1 = i
        BY <1>4, <3>1
      <4> HIDE DEF K, i
      <4> QED
        BY <4>1, <4>3, <4>4, <4>5
    <3>2. CASE u # t
      <4>1. /\ pc'[u] = pc[u] /\ index'[u] = index[u] /\ bucket_ptrs'[u] = bucket_ptrs[u]
        BY <1>1, <1>2, <3>2 DEF Types
      <4>2. index[u] \in ChunkStart(N, u) .. ChunkStart(N, u + 1)
        BY <1>1, <1>2, <2>2 DEF Scattering
      <4>3. ASSUME NEW p \in ChunkStart(N, u) .. index[u] - 1
            PROVE  key_buff2'[Slot(K, N, p)] = K[p]
        <5>1. ChunkStart(N, u) \in 0 .. N /\ ChunkStart(N, u + 1) \in 0 .. N
          BY <1>3, ChunkInside
        <5>2. p \in 0 .. N - 1 /\ ChunkStart(N, u) <= p /\ p < ChunkStart(N, u + 1) /\ p \in Int
          BY <1>3, <4>2, <5>1
        <5>3. ChunkStart(N, t) <= i /\ i < ChunkStart(N, t + 1)
          BY <1>4
        <5>4. p # i
          BY <1>3, <3>2, <5>2, <5>3, ChunksDisjoint
        <5>5. key_buff2[Slot(K, N, p)] = K[p]
          BY <1>1, <1>2, <2>2 DEF Scattering
        <5> QED
          BY <3>0, <5>2, <5>4, <5>5
      <4> HIDE DEF i
      <4> QED
        BY <1>1, <1>2, <2>2, <4>1, <4>3 DEF Scattering
    <3> QED
      BY <3>1, <3>2
  <2>3. \A u \in Threads : bucket_size'[u] = OwnSizes(u)'
    BY <1>1, <1>2, <1>3 DEF Scattering
  <2> HIDE DEF i
  <2> QED
    BY <1>1, <1>3, <2>1, <2>2, <2>3 DEF Scattering
<1> QED
  BY <1>9, <1>10 DEF IInv

LEMMA ScatterEndsInv ==
    ASSUME IInv, NEW t \in Threads, ScatterEnds(t)
    PROVE  IInv'
<1>1. /\ pc[t] = "scatter" /\ index[t] = ChunkStart(NUM_KEYS, t + 1)
      /\ pc' = [pc EXCEPT ![t] = "scattered"]
      /\ input' = input /\ calls' = calls /\ passed' = passed /\ phase' = phase
      /\ key_array' = key_array /\ key_buff1' = key_buff1 /\ key_buff2' = key_buff2
      /\ key_buff1_aptr' = key_buff1_aptr /\ bucket_size' = bucket_size
      /\ bucket_ptrs' = bucket_ptrs /\ work' = work
      /\ index' = index /\ round' = round /\ sum' = sum
  BY DEF ScatterEnds, Goto, control, arrays, loops
<1>2. Types /\ Scattering
  BY <1>1, StageOf DEF IInv
<1>3. /\ N' = N /\ All' = All /\ buckets' = buckets /\ NUM_KEYS = N
      /\ Ranking' /\ \A u : OwnSizes(u)' = OwnSizes(u)
  BY <1>1, <1>2, RankingFrame DEF Scattering
<1>4. Types'
  <2>1. pc' \in [Threads -> {"count", "counted", "add", "store", "point", "scatter",
                           "scattered", "fix", "take", "copy", "copied", "place", "end"}]
    BY <1>1, <1>2 DEF Types
  <2> QED
    BY <1>1, <1>2, <1>3, <2>1 DEF Types
<1>5. Scattering'
  <2>1. Among({"point", "scatter", "scattered"})' /\ buckets' /\ work' = Buckets
    BY <1>1, <1>2, <1>3 DEF Scattering, Among, Types
  <2>2. \A u \in Threads : pc'[u] = IF u = t THEN "scattered" ELSE pc[u]
    BY <1>1, <1>2 DEF Types
  <2>3. ASSUME NEW u \in Threads, pc'[u] # "point"
        PROVE  /\ index[u] \in ChunkStart(N, u) .. ChunkStart(N, u + 1)
               /\ pc'[u] = "scattered" => index[u] = ChunkStart(N, u + 1)
               /\ \A b \in Buckets : bucket_ptrs[u][b] = Below(key_array, N, b) + Prior(key_array, index[u], b)
               /\ \A p \in ChunkStart(N, u) .. index[u] - 1 : key_buff2[Slot(key_array, N, p)] = key_array[p]
    BY <1>1, <1>2, <1>3, <2>2, <2>3 DEF Scattering
  <2>4. \A u \in Threads : bucket_size'[u] = OwnSizes(u)'
    BY <1>1, <1>2, <1>3 DEF Scattering
  <2> QED
    BY <1>1, <1>3, <2>1, <2>3, <2>4 DEF Scattering
<1> QED
  BY <1>4, <1>5 DEF IInv

LEMMA FixPointersInv ==
    ASSUME IInv, NEW t \in Threads, FixPointers(t)
    PROVE  IInv'
<1> DEFINE K == key_array
           fixed == [b \in Buckets |-> bucket_ptrs[t][b] + Sizes(b, t + 1, nthreads)]
<1>1. /\ pc[t] = "fix"
      /\ pc' = [pc EXCEPT ![t] = "take"]
      /\ bucket_ptrs' = [bucket_ptrs EXCEPT ![t] = fixed]
      /\ input' = input /\ calls' = calls /\ passed' = passed /\ phase' = phase
      /\ key_array' = key_array /\ key_buff1' = key_buff1 /\ key_buff2' = key_buff2
      /\ key_buff1_aptr' = key_buff1_aptr /\ bucket_size' = bucket_size
      /\ work' = work /\ index' = index /\ round' = round /\ sum' = sum
  BY DEF FixPointers, Goto, control, loops
<1>2. Types /\ Taking
  BY <1>1, StageOf DEF IInv
<1>3. /\ N' = N /\ All' = All /\ buckets' = buckets /\ N \in Nat
      /\ All = 0 .. N - 1 /\ NUM_KEYS = N /\ K \in [0 .. N - 1 -> Keys]
      /\ Ranking' /\ \A u : OwnSizes(u)' = OwnSizes(u)
  BY <1>1, <1>2, RankingFrame DEF Taking
<1>4. ASSUME NEW b \in Buckets
      PROVE  fixed[b] = Below(K, N, b + 1) /\ fixed[b] \in 0 .. N
  <2> DEFINE x == ChunkStart(N, t + 1)
  <2>1. /\ t + 1 \in 0 .. nthreads /\ nthreads \in 0 .. nthreads /\ t + 1 <= nthreads
        /\ x \in 0 .. N /\ ChunkStart(N, nthreads) = N
    <3>1. t + 1 \in 0 .. nthreads /\ nthreads \in 0 .. nthreads /\ t + 1 <= nthreads
      BY PositiveSizes DEF Threads
    <3>2. x \in 0 .. N
      BY <1>3, ChunkInside
    <3>3. ChunkStart(N, nthreads) = N
      BY <1>3, ChunkBounds
    <3> QED
      BY <3>1, <3>2, <3>3
  <2>2. Sizes(b, t + 1, nthreads) = Prior(K, N, b) - Prior(K, x, b)
    BY <1>2, <2>1, SizesAre DEF Taking
  <2>3. bucket_ptrs[t][b] = Below(K, N, b) + Prior(K, x, b)
    BY <1>1, <1>2 DEF Taking
  <2>4. b \in 0 .. NUM_BUCKETS /\ b + 1 \in 0 .. NUM_BUCKETS
    BY PositiveSizes DEF Buckets
  <2>5. /\ Below(K, N, b) \in 0 .. N /\ Below(K, N, b + 1) \in 0 .. N
        /\ Below(K, N, b + 1) = Below(K, N, b) + Prior(K, N, b)
    BY <1>3, <2>4, BelowFacts
  <2>6. Prior(K, N, b) \in Nat /\ Prior(K, x, b) \in Nat
    BY <1>3, <2>1, PriorType
  <2>7. fixed[b] = bucket_ptrs[t][b] + Sizes(b, t + 1, nthreads)
    OBVIOUS
  <2> HIDE DEF fixed, x, K
  <2> QED
    BY <2>2, <2>3, <2>5, <2>6, <2>7
<1>5. fixed \in [Buckets -> 0 .. N]
  BY <1>4
<1> HIDE DEF fixed
<1>6. Types'
  <2>1. bucket_ptrs' \in [Threads -> [Buckets -> 0 .. N]]
    BY <1>1, <1>2, <1>5 DEF Types
  <2>2. pc' \in [Threads -> {"count", "counted", "add", "store", "point", "scatter",
                           "scattered", "fix", "take", "copy", "copied", "place", "end"}]
    BY <1>1, <1>2 DEF Types
  <2> QED
    BY <1>1, <1>2, <1>3, <2>1, <2>2 DEF Types
<1>7. Taking'
  <2>1. Among({"fix", "take", "end"})' /\ buckets'
    BY <1>1, <1>2, <1>3 DEF Taking, Among, Types
  <2>2. ASSUME NEW u \in Threads, NEW b \in Buckets
        PROVE  bucket_ptrs'[u][b] =
                 IF pc'[u] = "fix" THEN Below(K, N, b) + Prior(K, ChunkStart(N, u + 1), b)
                 ELSE Below(K, N, b + 1)
    <3>1. CASE u = t
      <4>1. pc'[u] = "take" /\ bucket_ptrs'[u] = fixed
        BY <1>1, <1>2, <3>1 DEF Types
      <4> QED
        BY <1>4, <4>1
    <3>2. CASE u # t
      <4>1. pc'[u] = pc[u] /\ bucket_ptrs'[u] = bucket_ptrs[u]
        BY <1>1, <1>2, <3>2 DEF Types
      <4> QED
        BY <1>2, <4>1 DEF Taking
    <3> QED
      BY <3>1, <3>2
  <2>3. \A u \in Threads : bucket_size'[u] = OwnSizes(u)' /\ (pc'[u] = "end" => work' = {})
    BY <1>1, <1>2, <1>3 DEF Taking, Types
  <2>4. /\ \A p \in All : key_buff2'[Slot(K, N, p)] = K[p]
        /\ \A b \in Buckets \ work' : \A key \in KeysOf(b) : key_buff1'[key] = UpTo(K, All, key)
    BY <1>1, <1>2 DEF Taking
  <2> QED
    BY <1>1, <1>3, <2>1, <2>2, <2>3, <2>4 DEF Taking
<1> QED
  BY <1>6, <1>7 DEF IInv

LEMMA KeysOfBuckets ==
    ASSUME NEW b \in Buckets
    PROVE  /\ KeysOf(b) \subseteq Keys
           /\ \A c \in Buckets : \A key \in KeysOf(c) : key \in KeysOf(b) <=> c = b
<1>1. ASSUME NEW c \in Buckets PROVE KeysOf(c) \subseteq Keys
  <2>1. c \in 0 .. NUM_BUCKETS /\ c + 1 \in 0 .. NUM_BUCKETS /\ NUM_BUCKETS \in 0 .. NUM_BUCKETS
        /\ (c + 1 = NUM_BUCKETS \/ c + 1 < NUM_BUCKETS)
    BY PositiveSizes DEF Buckets
  <2>2. FirstKey(c) \in Nat /\ FirstKey(c + 1) \in Nat
    BY <2>1, BucketBounds
  <2>3. FirstKey(c + 1) <= MAX_KEY
    <3>1. CASE c + 1 = NUM_BUCKETS
      BY <3>1, BucketBounds, PositiveSizes
    <3>2. CASE c + 1 < NUM_BUCKETS
      <4>1. FirstKey(c + 1) < FirstKey(NUM_BUCKETS) /\ FirstKey(NUM_BUCKETS) = MAX_KEY
        BY <2>1, <3>2, BucketBounds
      <4> QED
        BY <2>2, <4>1, PositiveSizes
    <3> QED
      BY <2>1, <3>1, <3>2
  <2> QED
    BY <2>2, <2>3, PositiveSizes DEF KeysOf, Keys
<1>2. ASSUME NEW c \in Buckets, NEW key \in KeysOf(c)
      PROVE  key \in KeysOf(b) <=> c = b
  <2>1. key \in Keys
    BY <1>1
  <2> QED
    BY <2>1, BucketOfKey
<1> QED
  BY <1>1, <1>2

(* The slots of a bucket, where the pointers are at the buckets' ends.     *)
LEMMA SlotsAre ==
    ASSUME NEW n \in Nat, NEW K \in [0 .. n - 1 -> Keys], NEW t \in Threads, NEW b \in Buckets,
           \A c \in Buckets : bucket_ptrs[t][c] = Below(K, n, c + 1)
    PROVE  /\ BucketStart(t, b) = Below(K, n, b)
           /\ Slots(t, b) = Below(K, n, b) .. Below(K, n, b + 1) - 1
<1>1. BucketStart(t, b) = Below(K, n, b)
  <2>1. CASE b = 0
    BY <2>1, BelowFacts DEF BucketStart
  <2>2. CASE b # 0
    <3>1. b - 1 \in Buckets /\ (b - 1) + 1 = b
      BY <2>2, PositiveSizes DEF Buckets
    <3>2. bucket_ptrs[t][b - 1] = Below(K, n, (b - 1) + 1)
      BY <3>1
    <3> QED
      BY <2>2, <3>1, <3>2 DEF BucketStart
  <2> QED
    BY <2>1, <2>2
<1> QED
  BY <1>1 DEF Slots

LEMMA TakeBucketInv ==
    ASSUME IInv, NEW t \in Threads, TakeBucket(t)
    PROVE  IInv'
<1> DEFINE K == key_array
           counts(b) == [key \in Keys |->
               (IF key \in KeysOf(b) THEN 0 ELSE key_buff1[key])
               + Occurrences(key_buff2, Slots(t, b), key)]
<1>1. /\ pc[t] = "take"
      /\ input' = input /\ calls' = calls /\ passed' = passed /\ phase' = phase
      /\ key_array' = key_array /\ key_buff2' = key_buff2
      /\ key_buff1_aptr' = key_buff1_aptr /\ bucket_size' = bucket_size
      /\ bucket_ptrs' = bucket_ptrs /\ pc' = pc
      /\ index' = index /\ round' = round /\ sum' = sum
  BY DEF TakeBucket, control, loops
<1>2. PICK b \in work :
        /\ work' = work \ {b}
        /\ key_buff1' = [key \in Keys |->
               IF key \in KeysOf(b)
               THEN BucketStart(t, b) + SumOver(counts(b), FirstKey(b), key + 1)
               ELSE counts(b)[key]]
  BY DEF TakeBucket
<1>3. Types /\ Taking
  BY <1>1, StageOf DEF IInv
<1>4. /\ N' = N /\ All' = All /\ buckets' = buckets /\ N \in Nat
      /\ All = 0 .. N - 1 /\ NUM_KEYS = N /\ K \in [0 .. N - 1 -> Keys]
      /\ Ranking' /\ \A u : OwnSizes(u)' = OwnSizes(u)
  BY <1>1, <1>3, RankingFrame DEF Taking
<1>5. b \in Buckets
  BY <1>3 DEF Types
<1>6. /\ BucketStart(t, b) = Below(K, N, b)
      /\ Slots(t, b) = Below(K, N, b) .. Below(K, N, b + 1) - 1
  <2>1. \A c \in Buckets : bucket_ptrs[t][c] = Below(K, N, c + 1)
    BY <1>1, <1>3 DEF Taking
  <2> HIDE DEF K
  <2> QED
    BY <1>4, <1>5, <2>1, SlotsAre
<1>7. ASSUME NEW key \in Keys
      PROVE  Occurrences(key_buff2, Slots(t, b), key)
               = IF key \in KeysOf(b) THEN Occurrences(K, 0 .. N - 1, key) ELSE 0
  <2>1. \A p \in 0 .. N - 1 : key_buff2[Slot(K, N, p)] = K[p]
    BY <1>3, <1>4 DEF Taking
  <2> HIDE DEF K
  <2> QED
    BY <1>4, <1>5, <1>6, <2>1, BucketOccurrences
<1>8. ASSUME NEW key \in Keys, key \in KeysOf(b)
      PROVE  key_buff1'[key] = UpTo(K, 0 .. N - 1, key)
  <2>1. ASSUME NEW x \in KeysOf(b) PROVE counts(b)[x] = Occurrences(K, 0 .. N - 1, x)
    <3>1. x \in Keys
      BY <1>5, KeysOfBuckets
    <3>2. Occurrences(K, 0 .. N - 1, x) \in Nat
      BY <1>4, CountTypes
    <3>3. counts(b)[x] = 0 + Occurrences(key_buff2, Slots(t, b), x)
      BY <3>1
    <3> QED
      BY <1>7, <3>1, <3>2, <3>3
  <2>2. key_buff1'[key] = BucketStart(t, b) + SumOver(counts(b), FirstKey(b), key + 1)
    BY <1>2, <1>8
  <2> HIDE DEF counts, K
  <2>3. Below(K, N, b) + SumOver(counts(b), FirstKey(b), key + 1) = UpTo(K, 0 .. N - 1, key)
    BY <1>4, <1>5, <1>8, <2>1, BucketRanks
  <2> QED
    BY <1>6, <2>2, <2>3
<1>9. ASSUME NEW key \in Keys, key \notin KeysOf(b)
      PROVE  key_buff1'[key] = key_buff1[key]
  <2>1. key_buff1'[key] = key_buff1[key] + Occurrences(key_buff2, Slots(t, b), key)
    BY <1>2, <1>9
  <2>2. key_buff1[key] \in 0 .. N
    BY <1>3 DEF Types
  <2> QED
    BY <1>4, <1>7, <1>9, <2>1, <2>2
<1> HIDE DEF counts
<1>10. Types'
  <2>1. key_buff1' \in [Keys -> 0 .. N]
    <3>1. ASSUME NEW key \in Keys PROVE key_buff1'[key] \in 0 .. N
      <4>1. key \in Int
        BY PositiveSizes DEF Keys
      <4>2. UpTo(K, 0 .. N - 1, key) \in 0 .. N
        BY <1>4, <4>1, KeyRanges
      <4>3. key_buff1[key] \in 0 .. N
        BY <1>3 DEF Types
      <4> QED
        BY <1>8, <1>9, <4>2, <4>3
    <3>2. DOMAIN key_buff1' = Keys /\ key_buff1' = [key \in Keys |-> key_buff1'[key]]
      BY <1>2
    <3> QED
      BY <3>1, <3>2
  <2>2. work' \subseteq Buckets
    BY <1>2, <1>3 DEF Types
  <2> QED
    BY <1>1, <1>3, <1>4, <2>1, <2>2 DEF Types
<1>11. Taking'
  <2>1. Among({"fix", "take", "end"})' /\ buckets'
    BY <1>1, <1>3, <1>4 DEF Taking, Among
  <2>2. ASSUME NEW c \in Buckets \ work', NEW key \in KeysOf(c)
        PROVE  key_buff1'[key] = UpTo(K, All, key)
    <3>1. key \in Keys
      BY KeysOfBuckets
    <3>2. CASE c = b
      BY <1>4, <1>8, <3>1, <3>2
    <3>3. CASE c # b
      <4>1. c \in Buckets \ work
        BY <1>2, <3>3
      <4>2. key \notin KeysOf(b)
        BY <1>5, <3>3, KeysOfBuckets
      <4>3. key_buff1[key] = UpTo(K, All, key)
        BY <1>3, <4>1 DEF Taking
      <4> QED
        BY <1>9, <3>1, <4>2, <4>3
    <3> QED
      BY <3>2, <3>3
  <2>3. \A u \in Threads : bucket_size'[u] = OwnSizes(u)' /\ (pc'[u] = "end" => work' = {})
    BY <1>1, <1>2, <1>3, <1>4 DEF Taking
  <2>4. /\ \A p \in All : key_buff2'[Slot(K, N, p)] = K[p]
        /\ \A u \in Threads, c \in Buckets : bucket_ptrs'[u][c] =
             IF pc'[u] = "fix" THEN Below(K, N, c) + Prior(K, ChunkStart(N, u + 1), c)
             ELSE Below(K, N, c + 1)
    BY <1>1, <1>3 DEF Taking
  <2> QED
    BY <1>1, <1>4, <2>1, <2>2, <2>3, <2>4 DEF Taking
<1> QED
  BY <1>10, <1>11 DEF IInv

-----------------------------------------------------------------------------
(* full_verify                                                             *)

LEMMA CopyKeysInv ==
    ASSUME IInv, NEW t \in Threads, CopyKeys(t)
    PROVE  IInv'
<1>1. /\ pc[t] = "copy"
      /\ key_buff2' = [p \in Positions |->
             IF p \in Chunk(NUM_KEYS, t) THEN key_array[p] ELSE key_buff2[p]]
      /\ index' = [index EXCEPT ![t] = 0]
      /\ pc' = [pc EXCEPT ![t] = "copied"]
      /\ input' = input /\ calls' = calls /\ passed' = passed /\ phase' = phase
      /\ key_array' = key_array /\ key_buff1' = key_buff1
      /\ key_buff1_aptr' = key_buff1_aptr /\ bucket_size' = bucket_size
      /\ bucket_ptrs' = bucket_ptrs /\ work' = work /\ round' = round /\ sum' = sum
  BY DEF CopyKeys, Goto, control
<1>2. Types /\ Copying
  BY <1>1, StageOf DEF IInv
<1>3. /\ N' = N /\ All' = All /\ Final' = Final /\ buckets' = buckets /\ N \in Nat
      /\ All = 0 .. N - 1 /\ NUM_KEYS = N /\ Positions = All
  BY <1>1, <1>2, SameInput, Basics
<1>4. \A p \in All : key_buff2'[p] = IF p \in Chunk(N, t) THEN Final[p] ELSE key_buff2[p]
  BY <1>1, <1>2, <1>3 DEF Copying
<1>5. Types'
  <2>1. key_buff2' \in [All -> Keys]
    BY <1>1, <1>2, <1>3 DEF Types
  <2>2. /\ index' \in [Threads -> Nat]
        /\ pc' \in [Threads -> {"count", "counted", "add", "store", "point", "scatter",
                           "scattered", "fix", "take", "copy", "copied", "place", "end"}]
    BY <1>1, <1>2 DEF Types
  <2> QED
    BY <1>1, <1>2, <1>3, <2>1, <2>2 DEF Types
<1>6. Copying'
  <2>1. Sorting' /\ ~buckets' /\ Among({"copy", "copied"})'
    BY <1>1, <1>2, <1>3 DEF Copying, Sorting, Among, Types
  <2>2. key_array' = Final' /\ \A key \in Keys : key_buff1'[key] = UpTo(Final, All, key)
    BY <1>1, <1>2, <1>3 DEF Copying, Ranked
  <2>3. ASSUME NEW u \in Threads, pc'[u] = "copied"
        PROVE  index'[u] = 0 /\ \A p \in Chunk(N, u) : key_buff2'[p] = Final[p]
    <3>1. Chunk(N, u) \subseteq All
      BY <1>3, ChunkInside
    <3>2. CASE u = t
      BY <1>1, <1>2, <1>4, <3>1, <3>2 DEF Types
    <3>3. CASE u # t
      <4>1. pc[u] = "copied" /\ index'[u] = index[u]
        BY <1>1, <1>2, <2>3, <3>3 DEF Types
      <4>2. index[u] = 0 /\ \A p \in Chunk(N, u) : key_buff2[p] = Final[p]
        BY <1>2, <4>1 DEF Copying
      <4> QED
        BY <1>4, <3>1, <4>1, <4>2
    <3> QED
      BY <3>2, <3>3
  <2>4. Ranked(Final)'
    BY <1>3, <2>2 DEF Ranked
  <2> QED
    BY <1>3, <2>1, <2>2, <2>3, <2>4 DEF Copying
<1> QED
  BY <1>5, <1>6 DEF IInv

(* Keys are placed in the slots below those of their range that are taken. *)
LEMMA PlaceKeysInv ==
    ASSUME Types, Placed, NEW P, PlaceKeys(P), input' = input,
           \A key \in Keys : key_buff1[key] - Occurrences(key_buff2, P, key)
                             \in Less(Final, N, key) .. key_buff1[key]
    PROVE  /\ key_array' \in [All -> Keys] /\ key_buff1' \in [Keys -> 0 .. N] /\ Placed'
           /\ \A key \in Keys :
                key_buff1'[key] = key_buff1[key] - Occurrences(key_buff2, P, key)
<1> DEFINE left == [key \in Keys |-> key_buff1[key] - Occurrences(key_buff2, P, key)]
           Of == [p \in 0 .. N - 1 |-> {key \in Keys : left[key] <= p /\ p < key_buff1[key]}]
<1>1. /\ N' = N /\ All' = All /\ Final' = Final /\ N \in Nat
      /\ All = 0 .. N - 1 /\ Positions = All /\ Final \in [0 .. N - 1 -> Keys]
      /\ key_array \in [0 .. N - 1 -> Keys] /\ key_buff1 \in [Keys -> 0 .. N]
  BY SameInput, Basics DEF Types
<1>2. /\ key_buff1' = left
      /\ key_array' = [p \in 0 .. N - 1 |->
             IF Of[p] = {} THEN key_array[p] ELSE CHOOSE key \in Of[p] : TRUE]
  BY <1>1 DEF PlaceKeys
<1>3. \A key \in Keys : left[key] = key_buff1[key] - Occurrences(key_buff2, P, key)
  OBVIOUS
<1>4. \A p \in 0 .. N - 1 : Of[p] = {key \in Keys : left[key] <= p /\ p < key_buff1[key]}
  OBVIOUS
<1>5. \A key \in Keys :
        /\ left[key] \in Less(Final, N, key) .. key_buff1[key]
        /\ key_buff1[key] <= UpTo(Final, 0 .. N - 1, key)
        /\ \A p \in key_buff1[key] .. UpTo(Final, 0 .. N - 1, key) - 1 : key_array[p] = key
  BY <1>1, <1>3 DEF Placed
<1>6. \A key \in Keys : /\ Less(Final, N, key) \in 0 .. N
                        /\ UpTo(Final, 0 .. N - 1, key) \in 0 .. N
  <2>1. ASSUME NEW key \in Keys
        PROVE  Less(Final, N, key) \in 0 .. N /\ UpTo(Final, 0 .. N - 1, key) \in 0 .. N
    <3>1. key \in Int
      BY PositiveSizes DEF Keys
    <3> QED
      BY <1>1, <3>1, KeyRanges
  <2> QED
    BY <2>1
<1> HIDE DEF Of
<1>7. left \in [Keys -> 0 .. N]
  BY <1>1, <1>3, <1>5, <1>6
<1> HIDE DEF left
<1>8. \A p : Of[p] # {} => (CHOOSE key \in Of[p] : TRUE) \in Of[p]
  BY Zenon
<1>13. \A p \in 0 .. N - 1 : Of[p] \subseteq Keys
  BY <1>4
<1>11. key_array' \in [0 .. N - 1 -> Keys]
  <2>1. ASSUME NEW p \in 0 .. N - 1
        PROVE  (IF Of[p] = {} THEN key_array[p] ELSE CHOOSE key \in Of[p] : TRUE) \in Keys
    <3>1. CASE Of[p] = {}
      BY <1>1, <3>1
    <3>2. CASE Of[p] # {}
      <4> DEFINE x == CHOOSE key \in Of[p] : TRUE
      <4>1. x \in Of[p]
        BY <1>8, <3>2, Zenon
      <4> HIDE DEF x
      <4>2. x \in Keys
        BY <1>13, <4>1
      <4>3. (CHOOSE key \in Of[p] : TRUE) \in Keys
        BY <4>2 DEF x
      <4> QED
        BY <3>2, <4>3
    <3> QED
      BY <3>1, <3>2
  <2> QED
    BY <1>2, <2>1
<1>12. ASSUME NEW key \in Keys, NEW p \in left[key] .. UpTo(Final, 0 .. N - 1, key) - 1
       PROVE  key_array'[p] = key
  <2>1. /\ key_buff1[key] \in 0 .. N /\ left[key] \in Less(Final, N, key) .. key_buff1[key]
        /\ Less(Final, N, key) \in 0 .. N /\ UpTo(Final, 0 .. N - 1, key) \in 0 .. N
    BY <1>1, <1>5, <1>6
  <2>2. /\ p \in 0 .. N - 1 /\ p \in Int /\ left[key] <= p
        /\ Less(Final, N, key) <= p /\ p < UpTo(Final, 0 .. N - 1, key)
    <3> DEFINE low == Less(Final, N, key)
               up == UpTo(Final, 0 .. N - 1, key)
               l == left[key]
               r == key_buff1[key]
    <3>1. r \in 0 .. N /\ l \in low .. r /\ low \in 0 .. N /\ up \in 0 .. N /\ p \in l .. up - 1
      BY <2>1
    <3> HIDE DEF low, up, l, r
    <3>2. l \in Int /\ low \in Int /\ up \in Int /\ low <= l /\ 0 <= low /\ up <= N
      BY <1>1, <3>1
    <3>3. p \in Int /\ l <= p /\ p < up /\ low <= p /\ 0 <= p /\ p < N
      BY <1>1, <3>1, <3>2
    <3>4. p \in 0 .. N - 1 /\ p \in Int /\ l <= p /\ low <= p /\ p < up
      BY <1>1, <3>3
    <3> QED
      BY <3>4 DEF low, up, l
  <2>3. ASSUME NEW other \in Of[p] PROVE other = key
    <3>1. other \in Keys /\ left[other] <= p /\ p < key_buff1[other]
      BY <1>4, <2>2
    <3>2. /\ left[other] \in Less(Final, N, other) .. key_buff1[other]
          /\ key_buff1[other] <= UpTo(Final, 0 .. N - 1, other) /\ key_buff1[other] \in 0 .. N
          /\ Less(Final, N, other) \in 0 .. N /\ UpTo(Final, 0 .. N - 1, other) \in 0 .. N
      BY <1>1, <1>5, <1>6, <3>1
    <3>3. Less(Final, N, other) <= p /\ p < UpTo(Final, 0 .. N - 1, other)
      BY <1>1, <2>2, <3>1, <3>2
    <3> QED
      BY <1>1, <2>2, <3>1, <3>3, RangesApart
  <2>4. key_array'[p] = IF Of[p] = {} THEN key_array[p] ELSE CHOOSE x \in Of[p] : TRUE
    BY <1>2, <2>2
  <2>5. CASE p < key_buff1[key]
    <3>1. key \in Of[p]
      BY <1>4, <2>2, <2>5
    <3>2. (CHOOSE x \in Of[p] : TRUE) \in Of[p]
      BY <1>8, <2>2, <3>1
    <3>3. (CHOOSE x \in Of[p] : TRUE) = key
      BY <2>3, <3>2
    <3> QED
      BY <2>4, <3>1, <3>3
  <2>6. CASE key_buff1[key] <= p
    <3>1. Of[p] = {}
      <4> SUFFICES ASSUME NEW other \in Of[p] PROVE FALSE
        OBVIOUS
      <4>1. other = key
        BY <2>3
      <4>2. p < key_buff1[key]
        BY <1>4, <2>2, <4>1
      <4> QED
        BY <2>1, <2>2, <2>6, <4>2
    <3>2. key_array[p] = key
      BY <1>5, <2>1, <2>2, <2>6
    <3> QED
      BY <2>4, <3>1, <3>2
  <2> QED
    BY <2>1, <2>2, <2>5, <2>6
<1>9. \A key \in Keys : left[key] \in Less(Final, N, key) .. UpTo(Final, 0 .. N - 1, key)
  BY <1>1, <1>5, <1>6
<1>10. Placed'
  BY <1>1, <1>2, <1>9, <1>12 DEF Placed
<1> QED
  BY <1>1, <1>2, <1>3, <1>7, <1>10, <1>11

LEMMA PlaceBucketInv ==
    ASSUME IInv, NEW t \in Threads, PlaceBucket(t)
    PROVE  IInv'
<1>1. /\ pc[t] = "place" /\ buckets
      /\ input' = input /\ calls' = calls /\ passed' = passed /\ phase' = phase
      /\ key_buff2' = key_buff2
      /\ key_buff1_aptr' = key_buff1_aptr /\ bucket_size' = bucket_size
      /\ bucket_ptrs' = bucket_ptrs /\ pc' = pc
      /\ index' = index /\ round' = round /\ sum' = sum
  BY DEF PlaceBucket, control, loops
<1>2. PICK b \in work : work' = work \ {b} /\ PlaceKeys(Slots(t, b))
  BY DEF PlaceBucket
<1>3. Types /\ Placing
  BY <1>1, StageOf DEF IInv
<1>4. /\ N' = N /\ All' = All /\ Final' = Final /\ buckets' = buckets /\ N \in Nat
      /\ All = 0 .. N - 1 /\ Final \in [0 .. N - 1 -> Keys]
  BY <1>1, <1>3, SameInput, Basics
<1>5. b \in Buckets
  BY <1>3 DEF Types
<1>6. Bucketed(Final) /\ Placed
  BY <1>1, <1>3 DEF Placing
<1>7. ASSUME NEW key \in Keys
      PROVE  Occurrences(key_buff2, Slots(t, b), key)
               = IF BucketOf(key) = b THEN Occurrences(Final, 0 .. N - 1, key) ELSE 0
  <2>1. \A c \in Buckets : bucket_ptrs[t][c] = Below(Final, N, c + 1)
    BY <1>6 DEF Bucketed
  <2>2. Slots(t, b) = Below(Final, N, b) .. Below(Final, N, b + 1) - 1
    BY <1>4, <1>5, <2>1, SlotsAre
  <2>3. \A p \in 0 .. N - 1 : key_buff2[Slot(Final, N, p)] = Final[p]
    BY <1>4, <1>6 DEF Bucketed
  <2>4. BucketOf(key) = b <=> key \in KeysOf(b)
    BY <1>5, BucketOfKey
  <2> QED
    BY <1>4, <1>5, <2>2, <2>3, <2>4, BucketOccurrences
<1>8. ASSUME NEW key \in Keys
      PROVE  /\ Less(Final, N, key) \in 0 .. N /\ UpTo(Final, 0 .. N - 1, key) \in 0 .. N
             /\ UpTo(Final, 0 .. N - 1, key)
                  = Less(Final, N, key) + Occurrences(Final, 0 .. N - 1, key)
             /\ Occurrences(Final, 0 .. N - 1, key) \in Nat
  <2>1. key \in Int
    BY PositiveSizes DEF Keys
  <2>2. Less(Final, N, key) \in 0 .. N /\ UpTo(Final, 0 .. N - 1, key) \in 0 .. N
    BY <1>4, <2>1, KeyRanges
  <2>3. UpTo(Final, 0 .. N - 1, key)
                  = Less(Final, N, key) + Occurrences(Final, 0 .. N - 1, key)
    BY <1>4, <2>1, KeyRanges
  <2>4. Occurrences(Final, 0 .. N - 1, key) \in Nat
    BY <1>4, CountTypes
  <2> QED
    BY <2>2, <2>3, <2>4
<1>9. ASSUME NEW key \in Keys
      PROVE  /\ key_buff1[key] - Occurrences(key_buff2, Slots(t, b), key)
                  = IF BucketOf(key) \in work \ {b} THEN UpTo(Final, 0 .. N - 1, key)
                    ELSE Less(Final, N, key)
             /\ key_buff1[key] - Occurrences(key_buff2, Slots(t, b), key)
                  \in Less(Final, N, key) .. key_buff1[key]
  <2>1. key_buff1[key] = IF BucketOf(key) \in work THEN UpTo(Final, 0 .. N - 1, key)
                         ELSE Less(Final, N, key)
    BY <1>1, <1>3, <1>4 DEF Placing
  <2>2. CASE BucketOf(key) = b
    BY <1>7, <1>8, <2>1, <2>2
  <2>3. CASE BucketOf(key) # b
    BY <1>7, <1>8, <2>1, <2>3
  <2> QED
    BY <2>2, <2>3
<1>10. /\ key_array' \in [All -> Keys] /\ key_buff1' \in [Keys -> 0 .. N] /\ Placed'
       /\ \A key \in Keys :
            key_buff1'[key] = key_buff1[key] - Occurrences(key_buff2, Slots(t, b), key)
  BY <1>1, <1>2, <1>3, <1>6, <1>9, PlaceKeysInv
<1>11. Types'
  <2>1. work' \subseteq Buckets
    BY <1>2, <1>3 DEF Types
  <2> QED
    BY <1>1, <1>3, <1>4, <1>10, <2>1 DEF Types
<1>12. Placing'
  <2>1. Sorting' /\ buckets' /\ Among({"place", "end"})'
    BY <1>1, <1>3, <1>4 DEF Placing, Sorting, Among
  <2>2. Bucketed(Final)'
    BY <1>1, <1>4, <1>6 DEF Bucketed
  <2>3. \A key \in Keys : key_buff1'[key] =
          IF BucketOf(key) \in work' THEN UpTo(Final, All, key) ELSE Less(Final, N, key)
    BY <1>2, <1>4, <1>9, <1>10
  <2>4. \A u \in Threads : pc'[u] = "end" => work' = {}
    BY <1>1, <1>2, <1>3 DEF Placing
  <2> QED
    BY <1>4, <1>10, <2>1, <2>2, <2>3, <2>4 DEF Placing
<1> QED
  BY <1>11, <1>12 DEF IInv

LEMMA OccurrencesBefore ==
    ASSUME NEW n \in Nat, NEW K, NEW i \in 0 .. n - 1, NEW x
    PROVE  /\ Occurrences(K, 0 .. i - 1, x) \in Nat /\ Occurrences(K, 0 .. n - 1, x) \in Nat
           /\ Occurrences(K, 0 .. (i + 1) - 1, x) \in Nat
           /\ Occurrences(K, 0 .. (i + 1) - 1, x) <= Occurrences(K, 0 .. n - 1, x)
           /\ Occurrences(K, 0 .. (i + 1) - 1, x)
                = Occurrences(K, 0 .. i - 1, x) + (IF K[i] = x THEN 1 ELSE 0)
<1> DEFINE S == {p \in 0 .. (i + 1) - 1 : K[p] = x}
           T == {p \in 0 .. n - 1 : K[p] = x}
<1>1. S \subseteq T /\ S \subseteq 0 .. (i + 1) - 1 /\ T \subseteq 0 .. n - 1
  OBVIOUS
<1>2. IsFiniteSet(T)
  <2>1. IsFiniteSet(0 .. n - 1)
    BY FS_Interval
  <2> QED
    BY <1>1, <2>1, FS_Subset
<1>3. Cardinality(S) <= Cardinality(T) /\ Cardinality(T) \in Nat
  BY <1>1, <1>2, FS_Subset, FS_CardinalityType
<1>4. Occurrences(K, 0 .. (i + 1) - 1, x)
        = Occurrences(K, 0 .. i - 1, x) + (IF K[i] = x THEN 1 ELSE 0)
  BY OccurrencesStep
<1>5. Occurrences(K, 0 .. i - 1, x) \in Nat
  BY CountTypes
<1>6. Occurrences(K, 0 .. (i + 1) - 1, x) = Cardinality(S)
      /\ Occurrences(K, 0 .. n - 1, x) = Cardinality(T)
  BY DEF Occurrences
<1> QED
  BY <1>3, <1>4, <1>5, <1>6

LEMMA PlaceKeyInv ==
    ASSUME IInv, NEW t \in Threads, PlaceKey(t)
    PROVE  IInv'
<1> DEFINE i == index[t]
           x == Final[i]
<1>1. /\ pc[t] = "place" /\ ~buckets /\ i < NUM_KEYS
      /\ IF key_buff2[i] \in OwnKeys(t)
         THEN PlaceKeys({i})
         ELSE key_buff1' = key_buff1 /\ key_array' = key_array
      /\ index' = [index EXCEPT ![t] = i + 1]
      /\ input' = input /\ calls' = calls /\ passed' = passed /\ phase' = phase
      /\ key_buff2' = key_buff2
      /\ key_buff1_aptr' = key_buff1_aptr /\ bucket_size' = bucket_size
      /\ bucket_ptrs' = bucket_ptrs /\ work' = work /\ pc' = pc
      /\ round' = round /\ sum' = sum
  BY DEF PlaceKey, control
<1>2. Types /\ Placing
  BY <1>1, StageOf DEF IInv
<1>3. /\ N' = N /\ All' = All /\ Final' = Final /\ buckets' = buckets /\ N \in Nat
      /\ All = 0 .. N - 1 /\ NUM_KEYS = N /\ Final \in [0 .. N - 1 -> Keys]
  BY <1>1, <1>2, SameInput, Basics
<1>4. /\ Placed /\ key_buff2 = Final
      /\ \A u \in Threads : \A key \in OwnKeys(u) : key_buff1[key] =
           UpTo(Final, 0 .. N - 1, key) - Occurrences(Final, 0 .. index[u] - 1, key)
  BY <1>1, <1>2, <1>3 DEF Placing
<1>5. i \in 0 .. N - 1 /\ x \in Keys
  <2>1. i \in 0 .. N
    BY <1>1, <1>2 DEF Placing
  <2> QED
    BY <1>1, <1>3, <2>1
<1> HIDE DEF x, i
<1>6. ASSUME NEW key \in Keys
      PROVE  /\ Less(Final, N, key) \in 0 .. N /\ UpTo(Final, 0 .. N - 1, key) \in 0 .. N
             /\ UpTo(Final, 0 .. N - 1, key)
                  = Less(Final, N, key) + Occurrences(Final, 0 .. N - 1, key)
             /\ key_buff1[key] \in 0 .. N
             /\ key_buff1[key] \in Less(Final, N, key) .. UpTo(Final, 0 .. N - 1, key)
             /\ Occurrences(Final, 0 .. i - 1, key) \in Nat
             /\ Occurrences(Final, 0 .. N - 1, key) \in Nat
             /\ Occurrences(Final, 0 .. (i + 1) - 1, key) <= Occurrences(Final, 0 .. N - 1, key)
             /\ Occurrences(Final, 0 .. (i + 1) - 1, key)
                  = Occurrences(Final, 0 .. i - 1, key) + (IF x = key THEN 1 ELSE 0)
             /\ Occurrences(key_buff2, {i}, key) = IF x = key THEN 1 ELSE 0
  <2>1. key \in Int
    BY PositiveSizes DEF Keys
  <2>2. Less(Final, N, key) \in 0 .. N /\ UpTo(Final, 0 .. N - 1, key) \in 0 .. N
    BY <1>3, <2>1, KeyRanges
  <2>3. UpTo(Final, 0 .. N - 1, key)
                  = Less(Final, N, key) + Occurrences(Final, 0 .. N - 1, key)
    BY <1>3, <2>1, KeyRanges
  <2>4. /\ Occurrences(Final, 0 .. i - 1, key) \in Nat
        /\ Occurrences(Final, 0 .. N - 1, key) \in Nat
        /\ Occurrences(Final, 0 .. (i + 1) - 1, key) <= Occurrences(Final, 0 .. N - 1, key)
        /\ Occurrences(Final, 0 .. (i + 1) - 1, key)
                  = Occurrences(Final, 0 .. i - 1, key) + (IF Final[i] = key THEN 1 ELSE 0)
    BY <1>3, <1>5, OccurrencesBefore
  <2>5. Occurrences(key_buff2, {i}, key) = IF key_buff2[i] = key THEN 1 ELSE 0
    BY OccurrencesOne
  <2>6. key_buff1[key] \in 0 .. N
    BY <1>2 DEF Types
  <2>7. key_buff1[key] \in Less(Final, N, key) .. UpTo(Final, 0 .. N - 1, key)
    BY <1>3, <1>4 DEF Placed
  <2> QED
    BY <1>4, <2>2, <2>3, <2>4, <2>5, <2>6, <2>7 DEF x
(* Own keys in place up to the next index.                                 *)
<1>7. ASSUME NEW u \in Threads, NEW key \in OwnKeys(u)
      PROVE  key \in Keys
  BY OwnKeysPartition
<1>8. /\ key_array' \in [All -> Keys] /\ key_buff1' \in [Keys -> 0 .. N] /\ Placed'
      /\ \A key \in Keys : key_buff1'[key] =
           IF x = key /\ x \in OwnKeys(t) THEN key_buff1[key] - 1 ELSE key_buff1[key]
  <2>1. CASE x \in OwnKeys(t)
    <3>1. PlaceKeys({i})
      BY <1>1, <1>4, <2>1 DEF x
    <3>2. ASSUME NEW key \in Keys
          PROVE  /\ key_buff1[key] - Occurrences(key_buff2, {i}, key)
                      = IF x = key THEN key_buff1[key] - 1 ELSE key_buff1[key]
                 /\ key_buff1[key] - Occurrences(key_buff2, {i}, key)
                      \in Less(Final, N, key) .. key_buff1[key]
      <4>1. CASE x = key
        <5>1. key_buff1[key] = UpTo(Final, 0 .. N - 1, key) - Occurrences(Final, 0 .. i - 1, key)
          <6>1. key \in OwnKeys(t)
            BY <2>1, <4>1
          <6>2. i = index[t]
            BY DEF i
          <6> QED
            BY <1>4, <6>1, <6>2
        <5>2. /\ UpTo(Final, 0 .. N - 1, key) \in 0 .. N /\ Less(Final, N, key) \in 0 .. N
              /\ UpTo(Final, 0 .. N - 1, key)
                   = Less(Final, N, key) + Occurrences(Final, 0 .. N - 1, key)
              /\ Occurrences(Final, 0 .. i - 1, key) \in Nat
              /\ Occurrences(Final, 0 .. N - 1, key) \in Nat
              /\ Occurrences(Final, 0 .. (i + 1) - 1, key) <= Occurrences(Final, 0 .. N - 1, key)
              /\ Occurrences(Final, 0 .. (i + 1) - 1, key) = Occurrences(Final, 0 .. i - 1, key) + 1
              /\ Occurrences(key_buff2, {i}, key) = 1
          BY <1>6, <4>1
        <5>3. /\ Less(Final, N, key) <= key_buff1[key] - 1 /\ key_buff1[key] \in Int
              /\ Less(Final, N, key) \in Int
          BY <1>3, <5>1, <5>2
        <5> QED
          BY <4>1, <5>2, <5>3
      <4>2. CASE x # key
        <5>1. /\ Occurrences(key_buff2, {i}, key) = 0 /\ key_buff1[key] \in 0 .. N
              /\ key_buff1[key] \in Less(Final, N, key) .. UpTo(Final, 0 .. N - 1, key)
              /\ Less(Final, N, key) \in 0 .. N /\ UpTo(Final, 0 .. N - 1, key) \in 0 .. N
          BY <1>6, <4>2
        <5>2. /\ key_buff1[key] \in Int /\ Less(Final, N, key) \in Int
              /\ Less(Final, N, key) <= key_buff1[key]
          BY <1>3, <5>1
        <5>3. key_buff1[key] - Occurrences(key_buff2, {i}, key) = key_buff1[key]
          BY <5>1, <5>2
        <5> QED
          BY <4>2, <5>2, <5>3
      <4> QED
        BY <4>1, <4>2
    <3>3. /\ key_array' \in [All -> Keys] /\ key_buff1' \in [Keys -> 0 .. N] /\ Placed'
          /\ \A key \in Keys :
               key_buff1'[key] = key_buff1[key] - Occurrences(key_buff2, {i}, key)
      BY <1>1, <1>2, <1>4, <3>1, <3>2, PlaceKeysInv
    <3> QED
      BY <2>1, <3>2, <3>3
  <2>2. CASE x \notin OwnKeys(t)
    <3>1. key_buff1' = key_buff1 /\ key_array' = key_array
      BY <1>1, <1>4, <2>2 DEF x
    <3>2. Placed'
      BY <1>3, <1>4, <3>1 DEF Placed
    <3> QED
      BY <1>2, <2>2, <3>1, <3>2 DEF Types
  <2> QED
    BY <2>1, <2>2
<1>9. Types'
  <2>1. index' \in [Threads -> Nat]
    BY <1>1, <1>2, <1>5 DEF Types
  <2> QED
    BY <1>1, <1>2, <1>3, <1>8, <2>1 DEF Types
<1>10. Placing'
  <2>1. Sorting' /\ ~buckets' /\ Among({"place", "end"})'
    BY <1>1, <1>2, <1>3 DEF Placing, Sorting, Among
  <2>2. ASSUME NEW u \in Threads
        PROVE  /\ index'[u] \in 0 .. N /\ (pc'[u] = "end" => index'[u] = N)
               /\ \A key \in OwnKeys(u) : key_buff1'[key] =
                    UpTo(Final, 0 .. N - 1, key) - Occurrences(Final, 0 .. index'[u] - 1, key)
    <3>1. CASE u = t
      <4>1. index'[u] = i + 1 /\ pc'[u] = "place"
        BY <1>1, <1>2, <3>1 DEF Types
      <4>2. i + 1 \in 0 .. N
        BY <1>3, <1>5
      <4>3. ASSUME NEW key \in OwnKeys(u)
            PROVE  key_buff1'[key] =
                    UpTo(Final, 0 .. N - 1, key) - Occurrences(Final, 0 .. (i + 1) - 1, key)
        <5>1. key \in Keys
          BY <1>7
        <5>2. key_buff1[key] = UpTo(Final, 0 .. N - 1, key) - Occurrences(Final, 0 .. i - 1, key)
          BY <1>4, <3>1 DEF i
        <5>3. key_buff1'[key] = IF x = key THEN key_buff1[key] - 1 ELSE key_buff1[key]
          BY <1>8, <3>1, <5>1
        <5> QED
          BY <1>3, <1>6, <5>1, <5>2, <5>3
      <4> QED
        BY <4>1, <4>2, <4>3
    <3>2. CASE u # t
      <4>1. index'[u] = index[u] /\ pc'[u] = pc[u]
        BY <1>1, <1>2, <3>2 DEF Types
      <4>2. ASSUME NEW key \in OwnKeys(u) PROVE key_buff1'[key] = key_buff1[key]
        <5>1. key \in Keys /\ key \notin OwnKeys(t)
          BY <3>2, OwnKeysPartition
        <5> QED
          BY <1>8, <5>1
      <4>3. index[u] \in 0 .. N /\ (pc[u] = "end" => index[u] = N)
        BY <1>1, <1>2 DEF Placing
      <4> QED
        BY <1>4, <4>1, <4>2, <4>3
    <3> QED
      BY <3>1, <3>2
  <2> QED
    BY <1>1, <1>3, <1>4, <1>8, <2>1, <2>2 DEF Placing
<1> QED
  BY <1>9, <1>10 DEF IInv

LEMMA PlacesEndInv ==
    ASSUME IInv, NEW t \in Threads, PlacesEnd(t)
    PROVE  IInv'
<1>1. /\ pc[t] = "place" /\ ~buckets /\ index[t] = NUM_KEYS
      /\ pc' = [pc EXCEPT ![t] = "end"]
      /\ input' = input /\ calls' = calls /\ passed' = passed /\ phase' = phase
      /\ key_array' = key_array /\ key_buff1' = key_buff1 /\ key_buff2' = key_buff2
      /\ key_buff1_aptr' = key_buff1_aptr /\ bucket_size' = bucket_size
      /\ bucket_ptrs' = bucket_ptrs /\ work' = work
      /\ index' = index /\ round' = round /\ sum' = sum
  BY DEF PlacesEnd, Goto, control, arrays, loops
<1>2. Types /\ Placing
  BY <1>1, StageOf DEF IInv
<1>3. /\ N' = N /\ All' = All /\ Final' = Final /\ buckets' = buckets /\ NUM_KEYS = N
  BY <1>1, <1>2, SameInput, Basics
<1>4. Types'
  <2>1. pc' \in [Threads -> {"count", "counted", "add", "store", "point", "scatter",
                           "scattered", "fix", "take", "copy", "copied", "place", "end"}]
    BY <1>1, <1>2 DEF Types
  <2> QED
    BY <1>1, <1>2, <1>3, <2>1 DEF Types
<1>5. Placing'
  <2>1. Sorting' /\ ~buckets' /\ Among({"place", "end"})'
    BY <1>1, <1>2, <1>3 DEF Placing, Sorting, Among, Types
  <2>2. Placed'
    BY <1>1, <1>2, <1>3 DEF Placing, Placed
  <2>3. \A u \in Threads : pc'[u] = IF u = t THEN "end" ELSE pc[u]
    BY <1>1, <1>2 DEF Types
  <2>4. \A u \in Threads :
          /\ index'[u] \in 0 .. N /\ (pc'[u] = "end" => index'[u] = N)
          /\ \A key \in OwnKeys(u) : key_buff1'[key] =
               UpTo(Final, All, key) - Occurrences(Final, 0 .. index'[u] - 1, key)
    BY <1>1, <1>2, <1>3, <2>3 DEF Placing
  <2> QED
    BY <1>1, <1>2, <1>3, <2>1, <2>2, <2>4 DEF Placing
<1> QED
  BY <1>4, <1>5 DEF IInv

LEMMA BucketsEndInv ==
    ASSUME IInv, NEW t \in Threads, BucketsEnd(t)
    PROVE  IInv'
<1>1. /\ pc[t] = "take" \/ (pc[t] = "place" /\ buckets)
      /\ work = {}
      /\ pc' = [pc EXCEPT ![t] = "end"]
      /\ input' = input /\ calls' = calls /\ passed' = passed /\ phase' = phase
      /\ key_array' = key_array /\ key_buff1' = key_buff1 /\ key_buff2' = key_buff2
      /\ key_buff1_aptr' = key_buff1_aptr /\ bucket_size' = bucket_size
      /\ bucket_ptrs' = bucket_ptrs /\ work' = work
      /\ index' = index /\ round' = round /\ sum' = sum
  BY DEF BucketsEnd, Goto, control, arrays, loops
<1>2. Types
  BY DEF IInv
<1>3. /\ N' = N /\ All' = All /\ Final' = Final /\ buckets' = buckets
  BY <1>1, <1>2, SameInput, Basics
<1>4. \A u \in Threads : pc'[u] = IF u = t THEN "end" ELSE pc[u]
  BY <1>1, <1>2 DEF Types
<1>5. Types'
  <2>1. pc' \in [Threads -> {"count", "counted", "add", "store", "point", "scatter",
                           "scattered", "fix", "take", "copy", "copied", "place", "end"}]
    BY <1>1, <1>2 DEF Types
  <2> QED
    BY <1>1, <1>2, <1>3, <2>1 DEF Types
<1>6. CASE pc[t] = "take"
  <2>1. Taking
    BY <1>6, StageOf
  <2>2. Ranking' /\ \A u : OwnSizes(u)' = OwnSizes(u)
    BY <1>1, <1>2, <2>1, RankingFrame DEF Taking
  <2>3. Among({"fix", "take", "end"})' /\ buckets'
    BY <1>3, <1>4, <2>1 DEF Taking, Among
  <2>4. \A u \in Threads, b \in Buckets : bucket_ptrs'[u][b] =
          IF pc'[u] = "fix" THEN Below(key_array, N, b) + Prior(key_array, ChunkStart(N, u + 1), b)
          ELSE Below(key_array, N, b + 1)
    BY <1>1, <1>4, <1>6, <2>1 DEF Taking
  <2>5. \A u \in Threads : bucket_size'[u] = OwnSizes(u)'
    BY <1>1, <2>1, <2>2 DEF Taking
  <2>6. /\ \A p \in All : key_buff2'[Slot(key_array, N, p)] = key_array[p]
        /\ \A b \in Buckets \ work' : \A key \in KeysOf(b) :
             key_buff1'[key] = UpTo(key_array, All, key)
    BY <1>1, <2>1 DEF Taking
  <2>7. Taking'
    BY <1>1, <1>3, <2>2, <2>3, <2>4, <2>5, <2>6 DEF Taking
  <2> QED
    BY <1>5, <2>7 DEF IInv
<1>7. CASE pc[t] = "place" /\ buckets
  <2>1. Placing
    BY <1>7, StageOf
  <2>2. Sorting' /\ buckets' /\ Among({"place", "end"})'
    BY <1>1, <1>3, <1>4, <1>7, <2>1 DEF Placing, Sorting, Among
  <2>3. Placed'
    BY <1>1, <1>3, <2>1 DEF Placing, Placed
  <2>4. Bucketed(Final)'
    BY <1>1, <1>3, <1>7, <2>1 DEF Placing, Bucketed
  <2>5. \A key \in Keys : key_buff1'[key] =
          IF BucketOf(key) \in work' THEN UpTo(Final, All, key) ELSE Less(Final, N, key)
    BY <1>1, <1>7, <2>1 DEF Placing
  <2>6. Placing'
    BY <1>1, <1>3, <2>2, <2>3, <2>4, <2>5 DEF Placing
  <2> QED
    BY <1>5, <2>6 DEF IInv
<1> QED
  BY <1>1, <1>6, <1>7

-----------------------------------------------------------------------------
(* The master                                                              *)

LEMMA KeysAfterStep ==
    ASSUME NEW in \in Inputs, NEW m \in 1 .. MAX_ITERATIONS, NEW m0 \in {m - 1, m}
    PROVE  [KeysAfter(in, m0) EXCEPT ![m] = m, ![m + MAX_ITERATIONS] = MAX_KEY - m]
             = KeysAfter(in, m)
<1> DEFINE D == 0 .. Len(in.keys) - 1
           A == KeysAfter(in, m0)
           B == [A EXCEPT ![m] = m, ![m + MAX_ITERATIONS] = MAX_KEY - m]
<1>1. /\ m \in Nat /\ m0 \in 0 .. MAX_ITERATIONS /\ m \in 0 .. MAX_ITERATIONS
      /\ MAX_ITERATIONS \in Nat /\ m0 \in Nat
  BY PositiveSizes
<1>2. Len(in.keys) \in Nat /\ Len(in.keys) > 2 * MAX_ITERATIONS /\ A \in [D -> Keys]
  BY <1>1, KeysAfterType
<1>3. ASSUME NEW i \in D
      PROVE  /\ KeysAfter(in, m0)[i] = IF i \in 1 .. m0 THEN i
                  ELSE IF i - MAX_ITERATIONS \in 1 .. m0 THEN MAX_KEY - (i - MAX_ITERATIONS)
                  ELSE in.keys[i + 1]
             /\ KeysAfter(in, m)[i] = IF i \in 1 .. m THEN i
                  ELSE IF i - MAX_ITERATIONS \in 1 .. m THEN MAX_KEY - (i - MAX_ITERATIONS)
                  ELSE in.keys[i + 1]
  BY DEF KeysAfter
<1>4. DOMAIN KeysAfter(in, m) = D /\ KeysAfter(in, m) = [i \in D |-> KeysAfter(in, m)[i]]
  BY DEF KeysAfter
<1> HIDE DEF A
<1>5. DOMAIN B = D /\ B = [i \in D |-> B[i]]
  BY <1>2
<1>6. ASSUME NEW i \in D
      PROVE  B[i] = IF i = m + MAX_ITERATIONS THEN MAX_KEY - m
                    ELSE IF i = m THEN m ELSE A[i]
  BY <1>2
<1> HIDE DEF B
<1>7. ASSUME NEW i \in D PROVE B[i] = KeysAfter(in, m)[i]
  <2>1. i \in Nat
    BY <1>2
  <2>2. CASE i = m
    <3>1. i # m + MAX_ITERATIONS
      BY <1>1, <2>2, PositiveSizes
    <3>2. i \in 1 .. m
      BY <1>1, <2>2
    <3> QED
      <4>1. B[i] = m
        BY <1>6, <2>2, <3>1
      <4>2. KeysAfter(in, m)[i] = i
        BY <1>3, <3>2
      <4> QED
        BY <2>2, <4>1, <4>2
  <2>3. CASE i = m + MAX_ITERATIONS
    <3>1. i \notin 1 .. m /\ i - MAX_ITERATIONS \in 1 .. m /\ i - MAX_ITERATIONS = m
      BY <1>1, <2>1, <2>3, PositiveSizes
    <3> QED
      <4>1. B[i] = MAX_KEY - m
        BY <1>6, <2>3
      <4>2. KeysAfter(in, m)[i] = MAX_KEY - (i - MAX_ITERATIONS)
        BY <1>3, <3>1
      <4> QED
        BY <3>1, <4>1, <4>2
  <2>4. CASE i # m /\ i # m + MAX_ITERATIONS
    <3>1. i \in 1 .. m <=> i \in 1 .. m0
      BY <1>1, <2>1, <2>4
    <3>2. i - MAX_ITERATIONS \in 1 .. m <=> i - MAX_ITERATIONS \in 1 .. m0
      BY <1>1, <2>1, <2>4
    <3> QED
      BY <1>3, <1>6, <2>4, <3>1, <3>2 DEF A
  <2> QED
    BY <2>2, <2>3, <2>4
<1>8. B = KeysAfter(in, m)
  BY <1>4, <1>5, <1>7
<1> QED
  BY <1>8 DEF A, B

LEMMA RankInv ==
    ASSUME IInv, Rank
    PROVE  IInv'
<1> DEFINE m == iteration'
<1>1. /\ phase = "main" /\ calls <= MAX_ITERATIONS
      /\ calls' = calls + 1
      /\ key_array' = [key_array EXCEPT ![m] = m, ![m + MAX_ITERATIONS] = MAX_KEY - m]
      /\ phase' = "rank" /\ pc' = [t \in Threads |-> "count"]
      /\ work' = Buckets
      /\ input' = input /\ passed' = passed
      /\ key_buff1' = key_buff1 /\ key_buff2' = key_buff2
      /\ key_buff1_aptr' = key_buff1_aptr /\ bucket_size' = bucket_size
      /\ bucket_ptrs' = bucket_ptrs
      /\ index' = index /\ round' = round /\ sum' = sum
  BY DEF Rank, Fork, Each, loops
<1>2. Types /\ Main
  BY <1>1, StageOf DEF IInv
<1>3. N' = N /\ All' = All /\ buckets' = buckets /\ input \in Inputs
  BY <1>1, <1>2, SameInput DEF Types
<1>4. calls \in 0 .. MAX_ITERATIONS /\ calls \in Nat
  BY <1>1, <1>2, PositiveSizes DEF Types
<1>5. m = IF calls + 1 <= 1 THEN 1 ELSE (calls + 1) - 1
  BY <1>1 DEF iteration
<1> HIDE DEF m
<1> DEFINE m0 == IF calls = 0 THEN 0 ELSE iteration
<1>6. m \in 1 .. MAX_ITERATIONS /\ m0 \in {m - 1, m} /\ m \in 0 .. MAX_ITERATIONS
  BY <1>4, <1>5, PositiveSizes DEF iteration
<1>7. key_array = KeysAfter(input, m0)
  BY <1>2 DEF Main
<1> HIDE DEF m0
<1>8. key_array' = KeysAfter(input, m)
  BY <1>1, <1>3, <1>6, <1>7, KeysAfterStep
<1>9. Types'
  <2>1. key_array' \in [All -> Keys]
    BY <1>3, <1>6, <1>8, KeysAfterType DEF All, N
  <2>2. calls' \in 0 .. MAX_ITERATIONS + 1
    BY <1>1, <1>4, PositiveSizes
  <2>3. pc' \in [Threads -> {"count", "counted", "add", "store", "point", "scatter",
                           "scattered", "fix", "take", "copy", "copied", "place", "end"}]
    BY <1>1
  <2> QED
    BY <1>1, <1>2, <1>3, <2>1, <2>2, <2>3 DEF Types
<1>10. Counting'
  <2>1. Ranking'
    BY <1>1, <1>4, <1>8 DEF Ranking, m
  <2>2. \A t \in Threads : pc'[t] = "count"
    BY <1>1
  <2> QED
    BY <1>1, <2>1, <2>2 DEF Counting, Among
<1> QED
  BY <1>9, <1>10 DEF IInv

LEMMA RankEndsInv ==
    ASSUME IInv, RankEnds
    PROVE  IInv'
<1>1. /\ Joined("rank") /\ phase' = "main"
      /\ input' = input /\ calls' = calls /\ passed' = passed
      /\ key_array' = key_array /\ key_buff1' = key_buff1 /\ key_buff2' = key_buff2
      /\ key_buff1_aptr' = key_buff1_aptr /\ bucket_size' = bucket_size
      /\ bucket_ptrs' = bucket_ptrs /\ work' = work /\ pc' = pc
      /\ index' = index /\ round' = round /\ sum' = sum
  BY DEF RankEnds, arrays, loops
<1>2. Types /\ (Adding \/ Taking)
  BY <1>1, StageOf DEF IInv
<1>3. /\ N' = N /\ All' = All /\ buckets' = buckets /\ N \in Nat
      /\ All = 0 .. N - 1 /\ 0 \in Threads
  BY <1>1, <1>2, SameInput, Basics
<1>4. \A t \in Threads : pc[t] = "end"
  BY <1>1 DEF Joined
<1>5. calls > 0 /\ key_array = KeysAfter(input, iteration)
  BY <1>2 DEF Adding, Taking, Ranking
<1>6. Ranked(key_array)
  <2>1. ASSUME Adding, NEW key \in Keys PROVE key_buff1[key] = UpTo(key_array, All, key)
    <3>1. PICK t \in Threads : key \in Chunk(MAX_KEY, t)
      BY PositiveSizes, ChunksCover DEF Keys
    <3>2. round[t] = nthreads /\ index[t] = ChunkStart(MAX_KEY, t)
      BY <1>4, <2>1 DEF Adding
    <3>3. key_buff1[key] = Added(IF key < index[t] THEN round[t] + 1 ELSE round[t], key)
      BY <2>1, <3>1 DEF Adding
    <3>4. key \in Int /\ ChunkStart(MAX_KEY, t) <= key /\ ChunkStart(MAX_KEY, t) \in Int
      BY <3>1, ChunkInside, PositiveSizes DEF Chunk
    <3>5. ~ (key < index[t])
      BY <3>2, <3>4
    <3>6. ChunkStart(N, nthreads) = N
      BY <1>3, ChunkBounds
    <3> QED
      BY <1>3, <3>2, <3>3, <3>5, <3>6 DEF Added
  <2>2. ASSUME Taking, NEW key \in Keys PROVE key_buff1[key] = UpTo(key_array, All, key)
    <3>1. work = {}
      BY <1>3, <1>4, <2>2 DEF Taking
    <3>2. BucketOf(key) \in Buckets /\ key \in KeysOf(BucketOf(key))
      BY BucketOfKey
    <3> QED
      BY <2>2, <3>1, <3>2 DEF Taking
  <2> QED
    BY <1>2, <2>1, <2>2 DEF Ranked
<1>7. buckets => Bucketed(key_array)
  <2>1. SUFFICES ASSUME buckets PROVE Bucketed(key_array)
    OBVIOUS
  <2>2. Taking
    BY <1>2, <2>1 DEF Adding
  <2>3. \A t \in Threads, b \in Buckets : bucket_ptrs[t][b] = Below(key_array, N, b + 1)
    BY <1>4, <2>2 DEF Taking
  <2> QED
    BY <2>2, <2>3 DEF Taking, Bucketed
<1>8. Types'
  BY <1>1, <1>2, <1>3 DEF Types
<1>9. Main'
  <2>1. Among({"end"})'
    BY <1>1, <1>4 DEF Among
  <2>2. key_array' = KeysAfter(input', IF calls' = 0 THEN 0 ELSE iteration')
    <3>1. calls # 0
      BY <1>2, <1>5 DEF Types
    <3> QED
      BY <1>1, <1>5, <3>1 DEF iteration
  <2>3. Ranked(key_array)'
    BY <1>1, <1>3, <1>6 DEF Ranked
  <2>4. buckets' => Bucketed(key_array)'
    BY <1>1, <1>3, <1>7 DEF Bucketed
  <2> QED
    BY <1>1, <2>1, <2>2, <2>3, <2>4 DEF Main
<1> QED
  BY <1>8, <1>9 DEF IInv

(* A key's range, when none of it has been placed.                         *)
LEMMA RankedIsPlaced ==
    ASSUME Types, Ranked(Final)
    PROVE  Placed
<1>1. N \in Nat /\ All = 0 .. N - 1 /\ Final \in [0 .. N - 1 -> Keys]
  BY Basics
<1>2. ASSUME NEW key \in Keys
      PROVE  /\ key_buff1[key] \in Less(Final, N, key) .. UpTo(Final, All, key)
             /\ \A p \in key_buff1[key] .. UpTo(Final, All, key) - 1 : key_array[p] = key
  <2>1. key \in Int
    BY PositiveSizes DEF Keys
  <2>2. Less(Final, N, key) \in 0 .. N /\ UpTo(Final, 0 .. N - 1, key) \in 0 .. N
    BY <1>1, <2>1, KeyRanges
  <2>3. UpTo(Final, 0 .. N - 1, key) = Less(Final, N, key) + Occurrences(Final, 0 .. N - 1, key)
    BY <1>1, <2>1, KeyRanges
  <2>4. Occurrences(Final, 0 .. N - 1, key) \in Nat
    BY <1>1, CountTypes
  <2>5. key_buff1[key] = UpTo(Final, 0 .. N - 1, key)
    BY <1>1 DEF Ranked
  <2> DEFINE u == UpTo(Final, 0 .. N - 1, key)
             l == Less(Final, N, key)
  <2>6. u \in Int /\ l \in Int /\ l <= u
    BY <1>1, <2>2, <2>3, <2>4
  <2> HIDE DEF u, l
  <2>7. u \in l .. u /\ u .. u - 1 = {}
    BY <2>6
  <2> QED
    BY <1>1, <2>5, <2>7 DEF u, l
<1> QED
  BY <1>2 DEF Placed

LEMMA FullVerifyInv ==
    ASSUME IInv, FullVerify
    PROVE  IInv'
<1>1. /\ phase = "main" /\ calls = MAX_ITERATIONS + 1
      /\ phase' = "sort"
      /\ pc' = [t \in Threads |-> IF buckets THEN "place" ELSE "copy"]
      /\ work' = Buckets
      /\ input' = input /\ calls' = calls /\ passed' = passed
      /\ key_array' = key_array /\ key_buff1' = key_buff1 /\ key_buff2' = key_buff2
      /\ key_buff1_aptr' = key_buff1_aptr /\ bucket_size' = bucket_size
      /\ bucket_ptrs' = bucket_ptrs
      /\ index' = index /\ round' = round /\ sum' = sum
  BY DEF FullVerify, Fork, Each, arrays, loops
<1>2. Types /\ Main
  BY <1>1, StageOf DEF IInv
<1>3. N' = N /\ All' = All /\ Final' = Final /\ buckets' = buckets
  BY <1>1, <1>2, SameInput
<1>4. key_array = Final
  <2>1. iteration = MAX_ITERATIONS /\ calls # 0
    BY <1>1, PositiveSizes DEF iteration
  <2> QED
    BY <1>2, <2>1 DEF Main, Final
<1>5. Ranked(Final) /\ (buckets => Bucketed(Final))
  BY <1>1, <1>2, <1>4, PositiveSizes DEF Main
<1>6. \A t \in Threads : pc'[t] = IF buckets THEN "place" ELSE "copy"
  BY <1>1
<1>7. Types'
  <2>1. pc' \in [Threads -> {"count", "counted", "add", "store", "point", "scatter",
                           "scattered", "fix", "take", "copy", "copied", "place", "end"}]
    BY <1>1
  <2> QED
    BY <1>1, <1>2, <1>3, <2>1 DEF Types
<1>8. Sorting'
  BY <1>1 DEF Sorting
<1>9. CASE buckets
  <2>1. Among({"place", "end"})' /\ \A t \in Threads : pc'[t] # "end"
    BY <1>6, <1>9 DEF Among
  <2>2. Placed
    BY <1>2, <1>5, RankedIsPlaced
  <2>3. Placed'
    BY <1>1, <1>3, <2>2 DEF Placed
  <2>4. Bucketed(Final)'
    BY <1>1, <1>3, <1>5, <1>9 DEF Bucketed
  <2>5. ASSUME NEW key \in Keys
        PROVE  key_buff1'[key] =
                 IF BucketOf(key) \in work' THEN UpTo(Final, All, key) ELSE Less(Final, N, key)
    <3>1. BucketOf(key) \in work'
      BY <1>1, BucketOfKey
    <3>2. key_buff1[key] = UpTo(Final, All, key)
      BY <1>5 DEF Ranked
    <3> QED
      BY <1>1, <3>1, <3>2
  <2>6. Placing'
    BY <1>3, <1>8, <1>9, <2>1, <2>3, <2>4, <2>5 DEF Placing
  <2> QED
    BY <1>7, <2>6 DEF IInv
<1>10. CASE ~buckets
  <2>1. Among({"copy", "copied"})' /\ \A t \in Threads : pc'[t] # "copied"
    BY <1>6, <1>10 DEF Among
  <2>2. Ranked(Final)'
    BY <1>1, <1>3, <1>5 DEF Ranked
  <2>3. Copying'
    BY <1>1, <1>3, <1>4, <1>8, <1>10, <2>1, <2>2 DEF Copying
  <2> QED
    BY <1>7, <2>3 DEF IInv
<1> QED
  BY <1>9, <1>10

LEMMA ConfirmInv ==
    ASSUME IInv, Confirm
    PROVE  IInv'
<1>1. /\ Joined("sort") /\ phase' = "done"
      /\ passed' = \A i \in Positions \ {0} : key_array[i - 1] <= key_array[i]
      /\ input' = input /\ calls' = calls
      /\ key_array' = key_array /\ key_buff1' = key_buff1 /\ key_buff2' = key_buff2
      /\ key_buff1_aptr' = key_buff1_aptr /\ bucket_size' = bucket_size
      /\ bucket_ptrs' = bucket_ptrs /\ work' = work /\ pc' = pc
      /\ index' = index /\ round' = round /\ sum' = sum
  BY DEF Confirm, arrays, loops
<1>2. Types /\ Placing
  BY <1>1, StageOf DEF IInv
<1>3. /\ N' = N /\ All' = All /\ Final' = Final /\ buckets' = buckets /\ N \in Nat
      /\ All = 0 .. N - 1 /\ Positions = All /\ Final \in [0 .. N - 1 -> Keys]
      /\ 0 \in Threads
  BY <1>1, <1>2, SameInput, Basics
<1>4. \A t \in Threads : pc[t] = "end"
  BY <1>1 DEF Joined
<1>5. ASSUME NEW key \in Keys PROVE key_buff1[key] = Less(Final, N, key)
  <2>1. CASE buckets
    <3>1. work = {}
      BY <1>2, <1>3, <1>4, <2>1 DEF Placing
    <3> QED
      BY <1>2, <2>1, <3>1 DEF Placing
  <2>2. CASE ~buckets
    <3>1. PICK t \in Threads : key \in OwnKeys(t)
      BY OwnKeysPartition
    <3>2. /\ index[t] = N
          /\ key_buff1[key] = UpTo(Final, All, key) - Occurrences(Final, 0 .. index[t] - 1, key)
      BY <1>2, <1>4, <2>2, <3>1 DEF Placing
    <3>3. key \in Int
      BY PositiveSizes DEF Keys
    <3>4. Less(Final, N, key) \in 0 .. N
      BY <1>3, <3>3, KeyRanges
    <3>5. UpTo(Final, 0 .. N - 1, key) = Less(Final, N, key) + Occurrences(Final, 0 .. N - 1, key)
      BY <1>3, <3>3, KeyRanges
    <3>6. Occurrences(Final, 0 .. N - 1, key) \in Nat
      BY <1>3, CountTypes
    <3> QED
      BY <1>3, <3>2, <3>4, <3>5, <3>6
  <2> QED
    BY <2>1, <2>2
<1>6. \A key \in Keys :
        \A p \in Less(Final, N, key) .. UpTo(Final, 0 .. N - 1, key) - 1 : key_array[p] = key
  BY <1>2, <1>3, <1>5 DEF Placing, Placed
<1>7. /\ \A i \in (0 .. N - 1) \ {0} : key_array[i - 1] <= key_array[i]
      /\ \A key \in Keys :
           Occurrences(key_array, 0 .. N - 1, key) = Occurrences(Final, 0 .. N - 1, key)
  BY <1>3, <1>6, PlacedInOrder
<1>8. Sorted
  BY <1>3, <1>7 DEF Sorted
<1>9. passed' = TRUE
  BY <1>1, <1>3, <1>7
<1>10. Types'
  BY <1>1, <1>2, <1>3, <1>9 DEF Types
<1>11. Done'
  <2>1. Among({"end"})'
    BY <1>1, <1>4 DEF Among
  <2>2. Sorted'
    BY <1>1, <1>3, <1>8 DEF Sorted
  <2> QED
    BY <1>1, <1>9, <2>1, <2>2 DEF Done
<1> QED
  BY <1>10, <1>11 DEF IInv

(* The three barriers: what all threads have done there is what the next   *)
(* stage begins with.                                                      *)
LEMMA CountedInv ==
    ASSUME Types, Counting, \A t \in Threads : pc[t] = "counted",
           pc' = [t \in Threads |-> IF buckets THEN "point" ELSE "add"],
           UNCHANGED <<control, arrays, work, loops>>
    PROVE  IInv'
<1>1. /\ input' = input /\ calls' = calls /\ passed' = passed /\ phase' = phase
      /\ key_array' = key_array /\ key_buff1' = key_buff1 /\ key_buff2' = key_buff2
      /\ key_buff1_aptr' = key_buff1_aptr /\ bucket_size' = bucket_size
      /\ bucket_ptrs' = bucket_ptrs /\ work' = work
      /\ index' = index /\ round' = round /\ sum' = sum
  BY DEF control, arrays, loops
<1>2. /\ N' = N /\ All' = All /\ buckets' = buckets /\ N \in Nat /\ 0 \in Threads
  BY <1>1, SameInput, Basics
<1>3. Types'
  <2>1. pc' \in [Threads -> {"count", "counted", "add", "store", "point", "scatter",
                           "scattered", "fix", "take", "copy", "copied", "place", "end"}]
    OBVIOUS
  <2> QED
    BY <1>1, <1>2, <2>1 DEF Types
<1>4. Ranking'
  BY <1>1 DEF Counting, Ranking, iteration
<1>5. (\A u : OwnSizes(u)' = OwnSizes(u)) /\ (\A u : OwnCounts(u)' = OwnCounts(u))
  BY <1>1, <1>2 DEF OwnSizes, OwnCounts
<1>6. CASE buckets
  <2>1. \A t \in Threads : pc'[t] = "point"
    BY <1>6
  <2>2. Among({"point", "scatter", "scattered"})'
    BY <2>1 DEF Among
  <2>3. \A t \in Threads : bucket_size'[t] = OwnSizes(t)'
    BY <1>1, <1>5, <1>6 DEF Counting
  <2>4. Scattering'
    BY <1>1, <1>2, <1>4, <1>6, <2>1, <2>2, <2>3 DEF Counting, Scattering
  <2> QED
    BY <1>3, <2>4 DEF IInv
<1>7. CASE ~buckets
  <2>1. \A t \in Threads : pc'[t] = "add"
    BY <1>7
  <2>2. Among({"add", "store", "end"})'
    BY <2>1 DEF Among
  <2>3. \A t \in Threads : /\ (IF t = 0 THEN key_buff1 ELSE key_buff1_aptr[t]) = OwnCounts(t)
                           /\ index[t] = ChunkStart(MAX_KEY, t) /\ round[t] = 1
    BY <1>7 DEF Counting
  <2>4. \A t \in Threads \ {0} : key_buff1_aptr'[t] = OwnCounts(t)'
    BY <1>1, <1>5, <2>3
  <2>5. \A key \in Keys : key_buff1[key] = Added(1, key)
    <3>1. key_buff1 = OwnCounts(0)
      BY <1>2, <2>3
    <3>2. ChunkStart(N, 0) = 0 /\ 0 + 1 = 1
      BY <1>2, ChunkBounds
    <3> QED
      BY <3>1, <3>2 DEF OwnCounts, Chunk, Added
  <2>6. ASSUME NEW t \in Threads
        PROVE  /\ round[t] \in 1 .. nthreads
               /\ index[t] \in ChunkStart(MAX_KEY, t) .. ChunkStart(MAX_KEY, t + 1)
               /\ round[t] = nthreads => index[t] = ChunkStart(MAX_KEY, t)
               /\ \A key \in Chunk(MAX_KEY, t) :
                    key_buff1[key] = Added(IF key < index[t] THEN round[t] + 1 ELSE round[t], key)
    <3>1. /\ ChunkStart(MAX_KEY, t) \in Nat /\ ChunkStart(MAX_KEY, t + 1) \in Nat
          /\ ChunkStart(MAX_KEY, t) <= ChunkStart(MAX_KEY, t + 1)
          /\ Chunk(MAX_KEY, t) \subseteq Keys
      BY PositiveSizes, ChunkInside DEF Keys
    <3>2. ASSUME NEW key \in Chunk(MAX_KEY, t)
          PROVE  key_buff1[key] = Added(IF key < index[t] THEN round[t] + 1 ELSE round[t], key)
      <4>1. key \in Keys /\ ~ (key < index[t])
        BY <2>3, <3>1 DEF Chunk
      <4> QED
        BY <2>3, <2>5, <4>1
    <3> QED
      BY <2>3, <3>1, <3>2, PositiveSizes
  <2>7. \A r, key : Added(r, key)' = Added(r, key)
    BY <1>1, <1>2 DEF Added
  <2>8. Adding'
    BY <1>1, <1>2, <1>4, <1>7, <2>1, <2>2, <2>4, <2>6, <2>7 DEF Adding
  <2> QED
    BY <1>3, <2>8 DEF IInv
<1> QED
  BY <1>6, <1>7

LEMMA ScatteredInv ==
    ASSUME Types, Scattering, \A t \in Threads : pc[t] = "scattered",
           pc' = [t \in Threads |-> "fix"],
           UNCHANGED <<control, arrays, work, loops>>
    PROVE  IInv'
<1>1. /\ input' = input /\ calls' = calls /\ passed' = passed /\ phase' = phase
      /\ key_array' = key_array /\ key_buff1' = key_buff1 /\ key_buff2' = key_buff2
      /\ key_buff1_aptr' = key_buff1_aptr /\ bucket_size' = bucket_size
      /\ bucket_ptrs' = bucket_ptrs /\ work' = work
      /\ index' = index /\ round' = round /\ sum' = sum
  BY DEF control, arrays, loops
<1>2. /\ N' = N /\ All' = All /\ buckets' = buckets /\ N \in Nat /\ All = 0 .. N - 1
      /\ Ranking' /\ \A u : OwnSizes(u)' = OwnSizes(u)
  BY <1>1, RankingFrame DEF Scattering
<1>3. Types'
  <2>1. pc' \in [Threads -> {"count", "counted", "add", "store", "point", "scatter",
                           "scattered", "fix", "take", "copy", "copied", "place", "end"}]
    OBVIOUS
  <2> QED
    BY <1>1, <1>2, <2>1 DEF Types
<1>4. Taking'
  <2>1. \A t \in Threads : pc'[t] = "fix"
    OBVIOUS
  <2>2. Among({"fix", "take", "end"})'
    BY <2>1 DEF Among
  <2>3. \A t \in Threads :
          /\ index[t] = ChunkStart(N, t + 1)
          /\ \A b \in Buckets :
               bucket_ptrs[t][b] = Below(key_array, N, b) + Prior(key_array, index[t], b)
          /\ \A p \in ChunkStart(N, t) .. index[t] - 1 :
               key_buff2[Slot(key_array, N, p)] = key_array[p]
    BY DEF Scattering
  <2>4. ASSUME NEW p \in 0 .. N - 1 PROVE key_buff2[Slot(key_array, N, p)] = key_array[p]
    <3>1. PICK t \in Threads : p \in Chunk(N, t)
      BY <1>2, ChunksCover
    <3>2. p \in ChunkStart(N, t) .. index[t] - 1
      BY <2>3, <3>1 DEF Chunk
    <3> QED
      BY <2>3, <3>2
  <2>5. \A t \in Threads, b \in Buckets : bucket_ptrs'[t][b] =
          IF pc'[t] = "fix" THEN Below(key_array, N, b) + Prior(key_array, ChunkStart(N, t + 1), b)
          ELSE Below(key_array, N, b + 1)
    BY <1>1, <2>1, <2>3
  <2>6. \A t \in Threads : bucket_size'[t] = OwnSizes(t)'
    BY <1>1, <1>2 DEF Scattering
  <2>7. work' = Buckets /\ buckets'
    BY <1>1, <1>2 DEF Scattering
  <2> QED
    BY <1>1, <1>2, <2>1, <2>2, <2>4, <2>5, <2>6, <2>7 DEF Taking
<1> QED
  BY <1>3, <1>4 DEF IInv

LEMMA CopiedInv ==
    ASSUME Types, Copying, \A t \in Threads : pc[t] = "copied",
           pc' = [t \in Threads |-> "place"],
           UNCHANGED <<control, arrays, work, loops>>
    PROVE  IInv'
<1>1. /\ input' = input /\ calls' = calls /\ passed' = passed /\ phase' = phase
      /\ key_array' = key_array /\ key_buff1' = key_buff1 /\ key_buff2' = key_buff2
      /\ key_buff1_aptr' = key_buff1_aptr /\ bucket_size' = bucket_size
      /\ bucket_ptrs' = bucket_ptrs /\ work' = work
      /\ index' = index /\ round' = round /\ sum' = sum
  BY DEF control, arrays, loops
<1>2. /\ N' = N /\ All' = All /\ Final' = Final /\ buckets' = buckets /\ N \in Nat
      /\ All = 0 .. N - 1 /\ Final \in [0 .. N - 1 -> Keys]
  BY <1>1, SameInput, Basics
<1>3. Types'
  <2>1. pc' \in [Threads -> {"count", "counted", "add", "store", "point", "scatter",
                           "scattered", "fix", "take", "copy", "copied", "place", "end"}]
    OBVIOUS
  <2> QED
    BY <1>1, <1>2, <2>1 DEF Types
<1>4. Placing'
  <2>1. \A t \in Threads : pc'[t] = "place"
    OBVIOUS
  <2>2. Sorting' /\ ~buckets' /\ Among({"place", "end"})'
    BY <1>1, <1>2, <2>1 DEF Copying, Sorting, Among
  <2>3. Placed
    BY RankedIsPlaced DEF Copying
  <2>4. Placed'
    BY <1>1, <1>2, <2>3 DEF Placed
  <2>5. \A t \in Threads : index[t] = 0 /\ \A p \in Chunk(N, t) : key_buff2[p] = Final[p]
    BY DEF Copying
  <2>6. key_buff2 = Final
    <3>1. ASSUME NEW p \in 0 .. N - 1 PROVE key_buff2[p] = Final[p]
      <4>1. PICK t \in Threads : p \in Chunk(N, t)
        BY <1>2, ChunksCover
      <4> QED
        BY <2>5, <4>1
    <3>2. key_buff2 \in [0 .. N - 1 -> Keys]
      BY <1>2 DEF Types
    <3> QED
      BY <1>2, <3>1, <3>2
  <2>7. ASSUME NEW t \in Threads
        PROVE  /\ index[t] \in 0 .. N
               /\ \A key \in OwnKeys(t) : key_buff1[key] =
                    UpTo(Final, All, key) - Occurrences(Final, 0 .. index[t] - 1, key)
    <3>1. ASSUME NEW key \in OwnKeys(t)
          PROVE  key_buff1[key] = UpTo(Final, All, key) - Occurrences(Final, 0 .. index[t] - 1, key)
      <4>1. key \in Keys
        BY OwnKeysPartition
      <4>2. key_buff1[key] = UpTo(Final, All, key) /\ key_buff1[key] \in 0 .. N
        BY <4>1 DEF Copying, Ranked, Types
      <4>3. Occurrences(Final, 0 .. 0 - 1, key) = 0
        BY OccurrencesStep
      <4> QED
        BY <1>2, <2>5, <4>2, <4>3
    <3> QED
      BY <1>2, <2>5, <3>1
  <2> QED
    BY <1>1, <1>2, <2>1, <2>2, <2>4, <2>6, <2>7 DEF Placing
<1> QED
  BY <1>3, <1>4 DEF IInv

LEMMA BarrierInv ==
    ASSUME IInv, Barrier
    PROVE  IInv'
<1>1. PICK here \in {"counted", "scattered", "copied"} :
        (\A t \in Threads : pc[t] = here) /\ pc' = [t \in Threads |-> After(here)]
  BY DEF Barrier, Each
<1>2. UNCHANGED <<control, arrays, work, loops>>
  BY DEF Barrier
<1>3. Types /\ 0 \in Threads
  BY PositiveSizes DEF IInv
<1>4. CASE here = "counted"
  <2>1. Counting
    BY <1>1, <1>3, <1>4, StageOf
  <2>2. pc' = [t \in Threads |-> IF buckets THEN "point" ELSE "add"]
    BY <1>1, <1>4 DEF After
  <2> QED
    BY <1>1, <1>2, <1>3, <1>4, <2>1, <2>2, CountedInv
<1>5. CASE here = "scattered"
  <2>1. Scattering
    BY <1>1, <1>3, <1>5, StageOf
  <2>2. pc' = [t \in Threads |-> "fix"]
    BY <1>1, <1>5 DEF After
  <2> QED
    BY <1>1, <1>2, <1>3, <1>5, <2>1, <2>2, ScatteredInv
<1>6. CASE here = "copied"
  <2>1. Copying
    BY <1>1, <1>3, <1>6, StageOf
  <2>2. pc' = [t \in Threads |-> "place"]
    BY <1>1, <1>6 DEF After
  <2> QED
    BY <1>1, <1>2, <1>3, <1>6, <2>1, <2>2, CopiedInv
<1> QED
  BY <1>1, <1>4, <1>5, <1>6

-----------------------------------------------------------------------------
(* The invariant                                                           *)

LEMMA InitInv ==
    ASSUME Init
    PROVE  IInv
<1>1. /\ input \in Inputs /\ key_array = [i \in 0 .. Len(input.keys) - 1 |-> input.keys[i + 1]]
      /\ calls = 0 /\ passed = FALSE
      /\ key_buff1 = [key \in Keys |-> 0] /\ key_buff2 = [i \in Positions |-> 0]
      /\ key_buff1_aptr = [t \in Threads \ {0} |-> [key \in Keys |-> 0]]
      /\ bucket_size = [t \in Threads |-> [b \in Buckets |-> 0]]
      /\ bucket_ptrs = [t \in Threads |-> [b \in Buckets |-> 0]]
      /\ phase = "main" /\ work = {}
      /\ pc = [t \in Threads |-> "end"]
      /\ index = [t \in Threads |-> 0] /\ round = [t \in Threads |-> 1] /\ sum = [t \in Threads |-> 0]
  BY DEF Init, Each
<1>2. key_array = KeysAfter(input, 0)
  BY <1>1, PositiveSizes DEF KeysAfter
<1>3. N \in Nat /\ key_array \in [All -> Keys]
  <2>1. 0 \in 0 .. MAX_ITERATIONS
    BY PositiveSizes
  <2> QED
    BY <1>1, <1>2, <2>1, KeysAfterType DEF N, All
<1>4. Positions = All /\ 0 \in 0 .. N
  BY <1>3 DEF Positions
<1>5. Types
  <2>1. calls \in 0 .. MAX_ITERATIONS + 1
    BY <1>1, PositiveSizes
  <2>2. key_buff1 \in [Keys -> 0 .. N] /\ key_buff2 \in [All -> Keys]
    BY <1>1, <1>4, PositiveSizes
  <2>3. /\ key_buff1_aptr \in [Threads \ {0} -> [Keys -> Nat]]
        /\ bucket_size \in [Threads -> [Buckets -> Nat]]
        /\ bucket_ptrs \in [Threads -> [Buckets -> 0 .. N]]
    BY <1>1, <1>4
  <2>4. /\ pc \in [Threads -> {"count", "counted", "add", "store", "point", "scatter",
                           "scattered", "fix", "take", "copy", "copied", "place", "end"}]
        /\ index \in [Threads -> Nat] /\ round \in [Threads -> Nat] /\ sum \in [Threads -> Nat]
    BY <1>1
  <2> QED
    BY <1>1, <1>3, <2>1, <2>2, <2>3, <2>4 DEF Types
<1>6. Main
  BY <1>1, <1>2 DEF Main, Among
<1> QED
  BY <1>5, <1>6 DEF IInv

LEMMA StutterInv ==
    ASSUME IInv, UNCHANGED vars
    PROVE  IInv'
<1>1. /\ input' = input /\ calls' = calls /\ passed' = passed /\ phase' = phase
      /\ key_array' = key_array /\ key_buff1' = key_buff1 /\ key_buff2' = key_buff2
      /\ key_buff1_aptr' = key_buff1_aptr /\ bucket_size' = bucket_size
      /\ bucket_ptrs' = bucket_ptrs /\ work' = work /\ pc' = pc
      /\ index' = index /\ round' = round /\ sum' = sum
  BY DEF vars, control, arrays, loops
<1>2. N' = N /\ All' = All /\ Final' = Final /\ buckets' = buckets
  BY <1>1, SameInput
<1>3. Types'
  BY <1>1, <1>2 DEF IInv, Types
<1>4. /\ \A set : Among(set)' = Among(set)
      /\ Ranking' = Ranking /\ Sorting' = Sorting /\ iteration' = iteration
      /\ \A u : OwnSizes(u)' = OwnSizes(u)
      /\ \A u : OwnCounts(u)' = OwnCounts(u)
      /\ \A r, key : Added(r, key)' = Added(r, key)
      /\ Ranked(Final)' = Ranked(Final) /\ Bucketed(Final)' = Bucketed(Final)
      /\ Placed' = Placed /\ Sorted' = Sorted
  BY <1>1, <1>2
     DEF Among, Ranking, Sorting, iteration, OwnSizes, OwnCounts, Added, Ranked, Bucketed,
         Placed, Sorted
<1>5. Main => Main'
  <2>1. Ranked(key_array)' = Ranked(key_array) /\ Bucketed(key_array)' = Bucketed(key_array)
    BY <1>1, <1>2 DEF Ranked, Bucketed
  <2> QED
    BY <1>1, <1>2, <1>4, <2>1 DEF Main
<1>6. Counting => Counting'
  BY <1>1, <1>2, <1>4 DEF Counting
<1>7. Adding => Adding'
  BY <1>1, <1>2, <1>4 DEF Adding
<1>8. Scattering => Scattering'
  BY <1>1, <1>2, <1>4 DEF Scattering
<1>9. Taking => Taking'
  BY <1>1, <1>2, <1>4 DEF Taking
<1>10. Copying => Copying'
  BY <1>1, <1>2, <1>4 DEF Copying
<1>11. Placing => Placing'
  BY <1>1, <1>2, <1>4 DEF Placing
<1>12. Done => Done'
  BY <1>1, <1>4 DEF Done
<1> QED
  BY <1>3, <1>5, <1>6, <1>7, <1>8, <1>9, <1>10, <1>11, <1>12 DEF IInv

LEMMA NextInv ==
    ASSUME IInv, [Next]_vars
    PROVE  IInv'
<1>1. CASE UNCHANGED vars
  BY <1>1, StutterInv
<1>2. CASE Next
  <2>1. CASE Master
    BY <2>1, RankInv, RankEndsInv, FullVerifyInv, ConfirmInv, BarrierInv DEF Master
  <2>2. CASE Terminated
    BY <2>2, StutterInv DEF Terminated
  <2>3. ASSUME NEW t \in Threads, Step(t) PROVE IInv'
    <3>1. CASE CountKeys(t)
      BY <3>1, CountKeysInv
    <3>2. CASE AddLoad(t)
      BY <3>2, AddLoadInv
    <3>3. CASE AddStore(t)
      BY <3>3, AddStoreInv
    <3>4. CASE NextRound(t)
      BY <3>4, NextRoundInv
    <3>5. CASE AddsEnd(t)
      BY <3>5, AddsEndInv
    <3>6. CASE CountBuckets(t)
      BY <3>6, CountBucketsInv
    <3>7. CASE Pointers(t)
      BY <3>7, PointersInv
    <3>8. CASE Scatter(t)
      BY <3>8, ScatterInv
    <3>9. CASE ScatterEnds(t)
      BY <3>9, ScatterEndsInv
    <3>10. CASE FixPointers(t)
      BY <3>10, FixPointersInv
    <3>11. CASE TakeBucket(t)
      BY <3>11, TakeBucketInv
    <3>12. CASE BucketsEnd(t)
      BY <3>12, BucketsEndInv
    <3>13. CASE PlaceBucket(t)
      BY <3>13, PlaceBucketInv
    <3>14. CASE CopyKeys(t)
      BY <3>14, CopyKeysInv
    <3>15. CASE PlaceKey(t)
      BY <3>15, PlaceKeyInv
    <3>16. CASE PlacesEnd(t)
      BY <3>16, PlacesEndInv
    <3> QED
      BY <2>3, <3>1, <3>2, <3>3, <3>4, <3>5, <3>6, <3>7, <3>8, <3>9, <3>10, <3>11, <3>12,
         <3>13, <3>14, <3>15, <3>16 DEF Step
  <2> QED
    BY <1>2, <2>1, <2>2, <2>3 DEF Next
<1> QED
  BY <1>1, <1>2

(* In every state the threads are all in one stage, and what each has done *)
(* by then - counted, added, scattered, placed - is what the loops of      *)
(* rank and full_verify mean by their indexes.                             *)
THEOREM Invariance == Spec => []IInv
<1>1. Init => IInv
  BY InitInv
<1>2. IInv /\ [Next]_vars => IInv'
  BY NextInv
<1> QED
  BY <1>1, <1>2, PTL DEF Spec

(* Whenever rank has returned, key_buff1 holds the exact rank of every     *)
(* key, whatever the schedule of the threads, their number and that of the *)
(* buckets.                                                                *)
THEOREM RanksAreExact == Spec => []RanksExact
<1>1. IInv => RanksExact
  <2> SUFFICES ASSUME IInv, phase = "main", calls > 0
               PROVE  \A key \in Keys : key_buff1[key] = AtMost(key)
    BY DEF RanksExact
  <2>1. Types /\ Main
    BY StageOf DEF IInv
  <2>2. Positions = All
    BY <2>1, Basics
  <2> QED
    BY <2>1, <2>2 DEF Main, Ranked, AtMost
<1> QED
  BY <1>1, Invariance, PTL

(* The keys of the last iteration, as the property spells them.            *)
LEMMA LastKeysAreFinal ==
    ASSUME Types
    PROVE  LastKeys = Final
<1>1. Positions = 0 .. Len(input.keys) - 1 /\ Len(input.keys) \in Nat
  BY Basics DEF All, N
<1>2. MAX_ITERATIONS \in Nat
  BY PositiveSizes
<1>3. ASSUME NEW i \in 0 .. Len(input.keys) - 1
      PROVE  (CASE i \in 1 .. MAX_ITERATIONS -> i
                [] i - MAX_ITERATIONS \in 1 .. MAX_ITERATIONS -> MAX_KEY - (i - MAX_ITERATIONS)
                [] OTHER -> input.keys[i + 1])
             = IF i \in 1 .. MAX_ITERATIONS THEN i
               ELSE IF i - MAX_ITERATIONS \in 1 .. MAX_ITERATIONS
                    THEN MAX_KEY - (i - MAX_ITERATIONS)
                    ELSE input.keys[i + 1]
  <2>1. ~ (i \in 1 .. MAX_ITERATIONS /\ i - MAX_ITERATIONS \in 1 .. MAX_ITERATIONS)
    BY <1>1, <1>2
  <2> QED
    BY <2>1
<1> QED
  BY <1>1, <1>3 DEF LastKeys, Final, KeysAfter

(* At the end the keys of the last iteration are in order, none lost or    *)
(* made up, and the program has verified it.                               *)
THEOREM SortIsExact == Spec => []SortExact
<1>1. IInv => SortExact
  <2> SUFFICES ASSUME IInv PROVE SortExact
    OBVIOUS
  <2>1. Types /\ Positions = All /\ NUM_KEYS = N
    BY Basics DEF IInv
  <2>2. phase \in {"main", "rank", "sort", "done"}
    BY DEF IInv, Main, Counting, Adding, Scattering, Taking, Ranking, Copying, Placing,
           Sorting, Done
  <2>3. TypeOK
    BY <2>1, <2>2 DEF Types, TypeOK
  <2>4. phase = "done" => passed /\ Sorted
    BY StageOf DEF Done
  <2>5. LastKeys = Final
    BY <2>1, LastKeysAreFinal
  <2> QED
    BY <2>1, <2>3, <2>4, <2>5 DEF SortExact, Sorted
<1> QED
  BY <1>1, Invariance, PTL
=============================================================================
